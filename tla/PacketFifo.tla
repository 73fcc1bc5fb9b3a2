------------------------------ MODULE PacketFifo ------------------------------
(***************************************************************************)
(* What the EP1 ring promises to the CTAPHID layer: every report the host  *)
(* sent is handed over once, whole and in order, and only out-of-band      *)
(* commands are taken from the queue while another report is being handled.*)
(***************************************************************************)
EXTENDS Sequences

CONSTANTS Packets, OutOfBand, Nothing

VARIABLES
    q,       \* reports received and not handed over
    inHand,  \* the report being handled, or Nothing
    wire     \* the last report the host sent

vars == <<q, inHand, wire>>

Init == q = <<>> /\ inHand = Nothing /\ wire \in Packets

Receive(p) ==
    /\ q' = Append(q, p)
    /\ wire' = p
    /\ UNCHANGED inHand

Take ==
    /\ inHand = Nothing
    /\ q # <<>>
    /\ inHand' = Head(q)
    /\ q' = Tail(q)
    /\ UNCHANGED wire

Finish ==
    /\ inHand # Nothing
    /\ inHand' = Nothing
    /\ UNCHANGED <<q, wire>>

Answer ==
    /\ q # <<>>
    /\ Head(q) \in OutOfBand
    /\ q' = Tail(q)
    /\ UNCHANGED <<inHand, wire>>

Next == (\E p \in Packets : Receive(p)) \/ Take \/ Finish \/ Answer

Spec == Init /\ [][Next]_vars

=============================================================================
