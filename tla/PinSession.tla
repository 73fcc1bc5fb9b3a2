------------------------------- MODULE PinSession -------------------------------
(***************************************************************************)
(* What clientPIN promises to the commands that take its token: one        *)
(* session for the whole key.  The latest key agreement owns it, only its  *)
(* owner can set a PIN or obtain the token, and a new key agreement or a   *)
(* power cycle takes the token away from whoever held it.                  *)
(***************************************************************************)
CONSTANTS Platforms, None

VARIABLES
    pinSet,    \* a PIN is set
    keyOwner,  \* the platform of the latest key agreement, or None
    holder     \* the platform whose token is good, or None

vars == <<pinSet, keyOwner, holder>>

Init == pinSet = FALSE /\ keyOwner = None /\ holder = None

Agree(p) ==
    /\ keyOwner' = p
    /\ holder' = None
    /\ UNCHANGED pinSet

SetPin(p) ==
    /\ keyOwner = p
    /\ ~pinSet
    /\ pinSet' = TRUE
    /\ UNCHANGED <<keyOwner, holder>>

Issue(p) ==
    /\ keyOwner = p
    /\ pinSet
    /\ holder' = p
    /\ UNCHANGED <<pinSet, keyOwner>>

(* authenticatorReset forgets the PIN; the session stays. *)
FactoryReset ==
    /\ pinSet' = FALSE
    /\ UNCHANGED <<keyOwner, holder>>

PowerCycle ==
    /\ keyOwner' = None
    /\ holder' = None
    /\ UNCHANGED pinSet

Next ==
    \/ \E p \in Platforms : Agree(p) \/ SetPin(p) \/ Issue(p)
    \/ FactoryReset
    \/ PowerCycle

Spec == Init /\ [][Next]_vars

=============================================================================
