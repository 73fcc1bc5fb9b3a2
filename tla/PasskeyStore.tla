----------------------------- MODULE PasskeyStore -----------------------------
(***************************************************************************)
(* What the flash store promises to the CTAP2 commands, with no pages and  *)
(* no chunks: at most one credential for each account, one PIN record, and *)
(* a power loss that costs at most what was being written when it came.    *)
(***************************************************************************)
EXTENDS Naturals

CONSTANTS Accounts, Creds, PinHashes, MaxRetries, None

VARIABLES
    store,      \* [Accounts -> Creds or None]: the usable credentials
    unsettled,  \* the account whose credential is being written, or None
    pin,        \* [hash, retries] or None
    pinUnsettled \* the PIN record is being rewritten

vars == <<store, unsettled, pin, pinUnsettled>>

Quiet == unsettled = None /\ ~pinUnsettled

Init ==
    /\ store = [a \in Accounts |-> None]
    /\ unsettled = None
    /\ pin = None
    /\ pinUnsettled = FALSE

(* A registration replaces the account's credential, and only that one. *)
Put(a, c) ==
    /\ Quiet
    /\ store' = [store EXCEPT ![a] = c]
    /\ unsettled' = a
    /\ UNCHANGED <<pin, pinUnsettled>>

Settle ==
    /\ unsettled # None
    /\ unsettled' = None
    /\ UNCHANGED <<store, pin, pinUnsettled>>

(* A deletion, and each step of a reset, forgets one credential. *)
Forget(a) ==
    /\ Quiet
    /\ store' = [store EXCEPT ![a] = None]
    /\ UNCHANGED <<unsettled, pin, pinUnsettled>>

(* A new PIN starts with all its retries; an existing one loses one or     *)
(* gets all of them back.                                                  *)
WritePin ==
    /\ Quiet
    /\ \/ \E h \in PinHashes : pin' = [hash |-> h, retries |-> MaxRetries]
       \/ /\ pin # None
          /\ pin' = [pin EXCEPT !.retries = IF @ > 0 THEN @ - 1 ELSE 0]
    /\ pinUnsettled' = TRUE
    /\ UNCHANGED <<store, unsettled>>

SettlePin ==
    /\ pinUnsettled
    /\ pinUnsettled' = FALSE
    /\ UNCHANGED <<store, unsettled, pin>>

(* The PIN is forgotten only by a reset, when no credential is left. *)
ForgetPin ==
    /\ Quiet
    /\ \A a \in Accounts : store[a] = None
    /\ pin' = None
    /\ UNCHANGED <<store, unsettled, pinUnsettled>>

(* A power loss costs the credential or the PIN record being written. *)
PowerLoss ==
    /\ store' = [a \in Accounts |-> IF a = unsettled THEN None ELSE store[a]]
    /\ pin' = IF pinUnsettled THEN None ELSE pin
    /\ unsettled' = None
    /\ pinUnsettled' = FALSE

Next ==
    \/ \E a \in Accounts, c \in Creds : Put(a, c)
    \/ Settle
    \/ \E a \in Accounts : Forget(a)
    \/ WritePin
    \/ SettlePin
    \/ ForgetPin
    \/ PowerLoss

Spec == Init /\ [][Next]_vars

=============================================================================
