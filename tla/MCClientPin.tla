------------------------------ MODULE MCClientPin ------------------------------
(* Instance of ClientPin for TLC: one platform of each protocol. *)
EXTENDS ClientPin, TLC

CONSTANTS p1, p2, pinA, pinB

OneOfEach == p1 :> 1 @@ p2 :> 2

=============================================================================
