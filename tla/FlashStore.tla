------------------------------ MODULE FlashStore ------------------------------
(***************************************************************************)
(* The resident-key and PIN store of usb_hid_fido2/flash_passkey.c, at the *)
(* granularity at which a power loss can interrupt it: one page erase or   *)
(* one 64-byte program at a time.                                          *)
(*                                                                         *)
(* NumSlots credential pages are followed by the PIN page.  A page is the  *)
(* image being written to it and how many of its four 64-byte chunks have  *)
(* been programmed; an erased page has none.  The offsets of the fields of *)
(* a ResidentKey decide what the code can read of a partly written page:   *)
(*   chunk 1  magic, rp_id_hash, user_id_len and user_id[0..26]            *)
(*   chunk 2  user_id[27..63], credential_id[0..26]                        *)
(*   chunk 3  credential_id[27..31], private_key                           *)
(*   chunk 4  the rest of user_name, rp_id                                 *)
(* A PINState (magic, pin_hash, retries) fits in chunk 1.                  *)
(***************************************************************************)
EXTENDS Naturals, FiniteSets

CONSTANTS
    NumSlots,       \* PASSKEY_NUM_SLOTS
    Rps,            \* relying parties (rp_id_hash)
    Users,          \* user handles a host registers
    LongUsers,      \* handles that do not fit in chunk 1 (more than 27 bytes)
    OversizeUsers,  \* handles longer than user_id[64], which are clamped
    Creds,          \* a credential_id and its private_key, drawn together
    PinHashes,
    MaxRetries,     \* the 8 of pin_save and pin_reset_retries
    MaxPowerLosses, \* bound on the power losses of a behaviour
    None            \* no image

ASSUME NumSlotsAssumption == NumSlots \in Nat \ {0}
ASSUME UsersAssumption == LongUsers \subseteq Users /\ OversizeUsers \subseteq LongUsers
ASSUME RetriesAssumption == MaxRetries \in Nat \ {0}
ASSUME PowerAssumption == MaxPowerLosses \in Nat

Chunks   == 4
Slots    == 1 .. NumSlots
PinPage  == NumSlots + 1
AllPages == Slots \cup {PinPage}

ResidentKeys == [rp : Rps, user : Users, cred : Creds]
PINStates    == [hash : PinHashes, retries : 0 .. MaxRetries]
Images       == ResidentKeys \cup PINStates \cup {None}
Accounts     == Rps \X Users

ASSUME NoneAssumption == None \notin ResidentKeys \cup PINStates \cup Accounts

VARIABLES
    page,       \* [AllPages -> chunks programmed and the image they are of]
    job,        \* the flash operation in progress
    irq,        \* global interrupts enabled (flash_unlock .. flash_lock)
    powerLosses \* power losses so far

vars == <<page, job, irq, powerLosses>>

Erased == [chunks |-> 0, img |-> None]
NoJob  == [op |-> "none", target |-> PinPage, img |-> None, next |-> 0]

----------------------------------------------------------------------------
(* What the code reads of a page. *)

IsPasskey(s) == page[s].chunks >= 1

HandleChunks(u) == IF u \in LongUsers THEN 2 ELSE 1

(* The comparison of passkey_save: the length asked for is compared with   *)
(* the clamped length that was stored.                                     *)
SameAccount(s, rp, u) ==
    /\ IsPasskey(s)
    /\ page[s].img.rp = rp
    /\ page[s].img.user = u
    /\ u \notin OversizeUsers
    /\ page[s].chunks >= HandleChunks(u)

(* credential_id as it reads: complete, its first 27 bytes, or all 0xFF.   *)
CredentialId(s) ==
    CASE page[s].chunks >= 3 -> <<page[s].img.cred, "whole">>
      [] page[s].chunks = 2  -> <<page[s].img.cred, "head">>
      [] OTHER               -> <<None, "blank">>

CredentialIds == (Creds \X {"whole", "head"}) \cup {<<None, "blank">>}

IsFirst(s, S) == s \in S /\ \A t \in S : s <= t

MatchingSlots(rp, u) == {s \in Slots : SameAccount(s, rp, u)}
EmptySlots           == {s \in Slots : page[s].chunks = 0}

passkey_save_slots_any_empty(rp, u) == EmptySlots                    \* mutant

(* The slots passkey_save may choose from: it takes the first of them. *)
passkey_save_slots(rp, u) ==
    IF MatchingSlots(rp, u) # {} THEN MatchingSlots(rp, u) ELSE EmptySlots

find_by_cred_id_slots(id) == {s \in Slots : IsPasskey(s) /\ CredentialId(s) = id}

pin_load == IF page[PinPage].chunks >= 1 THEN page[PinPage].img ELSE None

(* Every credential_id is a fresh draw of 32 random bytes. *)
FreshCreds == {c \in Creds : \A s \in Slots :
                    page[s].chunks >= 1 => page[s].img.cred # c}

----------------------------------------------------------------------------
(* Pages hold images of the records of flash_passkey.h, retries and power  *)
(* losses within their bounds, and at most one operation is in progress.   *)
TypeOK ==
    /\ page \in [AllPages -> [chunks : 0 .. Chunks, img : Images]]
    /\ job \in [op : {"none", "save", "pin", "delete", "reset"},
                target : AllPages, img : Images, next : 0 .. Chunks + 1]
    /\ irq \in BOOLEAN
    /\ powerLosses \in 0 .. MaxPowerLosses

Init ==
    /\ page = [p \in AllPages |-> Erased]
    /\ job = NoJob
    /\ irq = TRUE
    /\ powerLosses = 0

(* flash_unlock: interrupts off and the controller unlocked; the page is   *)
(* erased, programmed and locked by the steps below.                       *)
Begin(op, target, img) ==
    /\ job' = [op |-> op, target |-> target, img |-> img, next |-> 0]
    /\ irq' = FALSE
    /\ UNCHANGED <<page, powerLosses>>

passkey_save(rp, u, c) ==
    /\ job.op = "none"
    /\ \/ /\ passkey_save_slots(rp, u) = {}
          /\ UNCHANGED vars                               \* return -1
       \/ \E s \in Slots :
              /\ IsFirst(s, passkey_save_slots(rp, u))
              /\ Begin("save", s, [rp |-> rp, user |-> u, cred |-> c])

pin_save(h) ==
    /\ job.op = "none"
    /\ Begin("pin", PinPage, [hash |-> h, retries |-> MaxRetries])

pin_decrement_retries_wraps ==                                       \* mutant
    /\ job.op = "none"
    /\ pin_load # None
    /\ Begin("pin", PinPage, [pin_load EXCEPT !.retries = (@ + 255) % 256])

pin_decrement_retries ==
    /\ job.op = "none"
    /\ pin_load # None
    /\ Begin("pin", PinPage, [pin_load EXCEPT !.retries = IF @ > 0 THEN @ - 1 ELSE 0])

pin_reset_retries ==
    /\ job.op = "none"
    /\ pin_load # None
    /\ Begin("pin", PinPage, [pin_load EXCEPT !.retries = MaxRetries])

passkey_delete_by_cred_id(id) ==
    /\ job.op = "none"
    /\ \/ /\ find_by_cred_id_slots(id) = {}
          /\ UNCHANGED vars                               \* return -1
       \/ \E s \in Slots :
              /\ IsFirst(s, find_by_cred_id_slots(id))
              /\ Begin("delete", s, None)

flash_factory_reset_pin_page_only ==                                 \* mutant
    /\ job.op = "none"
    /\ Begin("reset", PinPage, None)

(* Erases every page from the first slot up to and including the PIN page. *)
flash_factory_reset ==
    /\ job.op = "none"
    /\ Begin("reset", 1, None)

----------------------------------------------------------------------------
(* The page-level steps. *)

flash_erase_page_omitted ==                                          \* mutant
    /\ job.op # "none"
    /\ job.next = 0
    /\ job' = CASE job.op = "reset"  -> NoJob
                [] job.op = "delete" -> [job EXCEPT !.next = Chunks + 1]
                [] OTHER             -> [job EXCEPT !.next = 1]
    /\ UNCHANGED <<page, irq, powerLosses>>

flash_erase_page ==
    /\ job.op # "none"
    /\ job.next = 0
    /\ page' = [page EXCEPT ![job.target] = Erased]
    /\ job' = CASE job.op = "reset" /\ job.target = PinPage -> NoJob
                [] job.op = "reset" /\ job.target # PinPage ->
                       [job EXCEPT !.target = @ + 1]
                [] job.op = "delete" -> [job EXCEPT !.next = Chunks + 1]
                [] OTHER             -> [job EXCEPT !.next = 1]
    /\ UNCHANGED <<irq, powerLosses>>

flash_program_64bytes_one_chunk_short ==                             \* mutant
    /\ job.next \in 1 .. Chunks
    /\ page' = [page EXCEPT ![job.target] = [chunks |-> job.next, img |-> job.img]]
    /\ job' = [job EXCEPT !.next = IF @ = Chunks - 1 THEN Chunks + 1 ELSE @ + 1]
    /\ UNCHANGED <<irq, powerLosses>>

flash_program_64bytes ==
    /\ job.next \in 1 .. Chunks
    /\ page' = [page EXCEPT ![job.target] = [chunks |-> job.next, img |-> job.img]]
    /\ job' = [job EXCEPT !.next = @ + 1]
    /\ UNCHANGED <<irq, powerLosses>>

(* Not reached by flash_factory_reset, which returns with the controller   *)
(* unlocked and interrupts off.                                            *)
flash_lock ==
    /\ job.next = Chunks + 1
    /\ job' = NoJob
    /\ irq' = TRUE
    /\ UNCHANGED <<page, powerLosses>>

(* The touch pad is sampled with interrupts off, and they are on after it. *)
read_touch_pa2 ==
    /\ job.op = "none"
    /\ irq' = TRUE
    /\ UNCHANGED <<page, job, powerLosses>>

(* The key is unplugged; on the next plug main() starts from its beginning *)
(* and finds the pages as they were left.                                  *)
PowerLoss ==
    /\ powerLosses < MaxPowerLosses
    /\ job' = NoJob
    /\ irq' = TRUE
    /\ powerLosses' = powerLosses + 1
    /\ UNCHANGED page

Next ==
    \/ \E rp \in Rps, u \in Users : \E c \in FreshCreds : passkey_save(rp, u, c)
    \/ \E h \in PinHashes : pin_save(h)
    \/ pin_decrement_retries
    \/ pin_reset_retries
    \/ \E id \in CredentialIds : passkey_delete_by_cred_id(id)
    \/ flash_factory_reset
    \/ flash_erase_page
    \/ flash_program_64bytes
    \/ flash_lock
    \/ read_touch_pa2
    \/ PowerLoss

Spec == Init /\ [][Next]_vars

----------------------------------------------------------------------------
(* Properties. *)

Writing  == job.op \in {"save", "pin"} /\ job.next >= 1
Readable(s) == IsPasskey(s) /\ page[s].chunks >= HandleChunks(page[s].img.user)

(* "Re-registering the same account replaces its slot (no duplicates)": no *)
(* two slots hold a readable handle of the same account, whatever power    *)
(* losses and deletions came between its registrations.                    *)
NoDuplicateAccount ==
    \A s, t \in Slots :
        s # t /\ Readable(s) /\ Readable(t)
            => <<page[s].img.rp, page[s].img.user>> # <<page[t].img.rp, page[t].img.user>>

(* flash_program_64bytes only clears bits, so a chunk may be programmed    *)
(* only on top of the erased rest of the page that the same record began:  *)
(* the chunks below it are this record's and the ones from it on are blank.*)
ProgramsErasedFlash ==
    Writing => /\ page[job.target].chunks = job.next - 1
               /\ job.next > 1 => page[job.target].img = job.img

(* A partly written page is the one being written or was left by a power   *)
(* loss: without one, every record read by the commands is complete.       *)
TornOnlyByPowerLoss ==
    powerLosses = 0 =>
        \A p \in AllPages :
            page[p].chunks \in 1 .. Chunks - 1 => Writing /\ p = job.target

(* The store serves USB from interrupts: once an operation has returned to *)
(* its caller, interrupts are on again.                                    *)
InterruptsOnWhenIdle == job.op = "none" => irq

(* The refinement: an account's credential is the usable one in flash, or  *)
(* the one whose erase made room for it.                                   *)
Unsettled == job.op = "save" /\ job.next \in 1 .. 3

Held(a) == {s \in Slots : /\ page[s].chunks >= 3
                           /\ <<page[s].img.rp, page[s].img.user>> = a}

StoreOf(a) == IF Unsettled /\ <<job.img.rp, job.img.user>> = a
              THEN job.img.cred
              ELSE IF Held(a) # {} THEN page[CHOOSE s \in Held(a) : TRUE].img.cred ELSE None

PinUnsettled == job.op = "pin" /\ job.next = 1

Abstract == INSTANCE PasskeyStore WITH
    store        <- [a \in Accounts |-> StoreOf(a)],
    unsettled    <- IF Unsettled THEN <<job.img.rp, job.img.user>> ELSE None,
    pin          <- IF PinUnsettled THEN job.img ELSE pin_load,
    pinUnsettled <- PinUnsettled

(* The pages implement the promise of PasskeyStore: a registration touches *)
(* only its own account, a power loss costs only the record being written, *)
(* and a reset forgets the PIN last.                                       *)
ImplementsPasskeyStore == Abstract!Spec

=============================================================================
