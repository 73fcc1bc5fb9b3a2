------------------------------- MODULE MCCtapHid -------------------------------
(* An instance of CtapHid for TLC: two clients on channels of their own.    *)
EXTENDS CtapHid, TLC

CONSTANTS a, b, chA, chB

OwnChannels == a :> chA @@ b :> chB

ASSUME InstanceAssumption == SeparateChannels /\ SparseFaults

=============================================================================
