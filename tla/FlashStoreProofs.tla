--------------------------- MODULE FlashStoreProofs ---------------------------
(***************************************************************************)
(* Proofs about FlashStore for any number of slots, relying parties, users,*)
(* credentials, PINs, retries and power losses.                            *)
(***************************************************************************)
EXTENDS FlashStore, TLAPS

(* Slots hold resident keys, the PIN page holds a PIN record, and an       *)
(* erased page holds nothing.                                              *)
PagesSound ==
    /\ page \in [AllPages -> [chunks : 0 .. Chunks, img : Images]]
    /\ \A s \in Slots : page[s].chunks >= 1 => page[s].img \in ResidentKeys
    /\ page[PinPage].chunks >= 1 => page[PinPage].img \in PINStates

(* The target and the image of an operation fit the operation. *)
JobSound ==
    /\ job \in [op : {"none", "save", "pin", "delete", "reset"},
                target : AllPages, img : Images, next : 0 .. Chunks + 1]
    /\ job.op = "none" => job.next = 0
    /\ job.op = "save" => job.target \in Slots /\ job.img \in ResidentKeys
    /\ job.op = "pin" => job.target = PinPage /\ job.img \in PINStates
    /\ job.op = "delete" => job.target \in Slots /\ job.next \in {0, Chunks + 1}
    /\ job.op = "reset" => job.next = 0

(* No other slot holds a readable record of the account being saved: the   *)
(* scan of passkey_save established it, and nothing else is written until  *)
(* the save is over.                                                       *)
SaveExclusive ==
    job.op = "save" =>
        \A s \in Slots \ {job.target} :
            ~ (/\ Readable(s)
               /\ page[s].img.rp = job.img.rp
               /\ page[s].img.user = job.img.user)

OthersSound == irq \in BOOLEAN /\ powerLosses \in 0 .. MaxPowerLosses

(* Handles fit user_id[64], as WebAuthn requires of them. *)
HandlesFit == OversizeUsers = {}

(* The inductive invariant.  NoDuplicateAccount alone is not: while a save *)
(* is in progress its record is not readable yet.                          *)
IndInv ==
    /\ PagesSound
    /\ JobSound
    /\ OthersSound
    /\ ProgramsErasedFlash
    /\ TornOnlyByPowerLoss
    /\ HandlesFit => SaveExclusive
    /\ HandlesFit => NoDuplicateAccount

-----------------------------------------------------------------------------
LEMMA InitIndInv == Init => IndInv
<1> SUFFICES ASSUME Init PROVE IndInv
    OBVIOUS
<1> USE NumSlotsAssumption, PowerAssumption DEF Init, NoJob, Erased, AllPages, PinPage, Slots, Chunks
<1>1. PagesSound
    BY DEF PagesSound, Images
<1>2. JobSound
    BY DEF JobSound, Images
<1>3. OthersSound
    BY DEF OthersSound
<1>4. ProgramsErasedFlash
    BY DEF ProgramsErasedFlash, Writing
<1>5. TornOnlyByPowerLoss
    BY DEF TornOnlyByPowerLoss
<1>6. HandlesFit => SaveExclusive
    BY DEF SaveExclusive
<1>7. HandlesFit => NoDuplicateAccount
    BY DEF NoDuplicateAccount, Readable, IsPasskey
<1> QED
    BY <1>1, <1>2, <1>3, <1>4, <1>5, <1>6, <1>7 DEF IndInv

(* Starting an operation writes nothing, so that only what it is about to  *)
(* write has to fit it.                                                    *)
LEMMA BeginIndInv ==
    ASSUME IndInv, job.op = "none",
           NEW op \in {"save", "pin", "delete", "reset"},
           NEW target \in AllPages, NEW img \in Images,
           op = "save" => target \in Slots /\ img \in ResidentKeys,
           op = "pin" => target = PinPage /\ img \in PINStates,
           op = "delete" => target \in Slots,
           HandlesFit /\ op = "save" =>
              \A s \in Slots \ {target} :
                 ~ (Readable(s) /\ page[s].img.rp = img.rp /\ page[s].img.user = img.user),
           Begin(op, target, img)
    PROVE  IndInv'
<1> USE DEF IndInv, Begin
<1>1. PagesSound'
    BY DEF PagesSound
<1>2. JobSound'
    BY DEF JobSound, Chunks
<1>3. OthersSound'
    BY DEF OthersSound
<1>4. ProgramsErasedFlash'
    BY DEF ProgramsErasedFlash, Writing
<1>5. TornOnlyByPowerLoss'
    BY DEF TornOnlyByPowerLoss, Writing
<1>6. (HandlesFit => SaveExclusive)'
    BY DEF HandlesFit, SaveExclusive, Readable, IsPasskey
<1>7. (HandlesFit => NoDuplicateAccount)'
    BY DEF HandlesFit, NoDuplicateAccount, Readable, IsPasskey
<1> QED
    BY <1>1, <1>2, <1>3, <1>4, <1>5, <1>6, <1>7

LEMMA passkey_saveIndInv ==
    ASSUME IndInv, NEW rp \in Rps, NEW u \in Users, NEW c \in Creds,
           passkey_save(rp, u, c)
    PROVE  IndInv'
<1> DEFINE img == [rp |-> rp, user |-> u, cred |-> c]
<1>1. CASE UNCHANGED vars
    BY <1>1 DEF IndInv, HandlesFit, vars, PagesSound, JobSound, OthersSound, ProgramsErasedFlash,
        Writing, TornOnlyByPowerLoss, SaveExclusive, NoDuplicateAccount, Readable, IsPasskey
<1>2. ASSUME NEW s \in Slots, IsFirst(s, passkey_save_slots(rp, u)), Begin("save", s, img)
      PROVE  IndInv'
    <2>1. img \in ResidentKeys /\ img \in Images /\ s \in AllPages
        BY DEF ResidentKeys, Images, AllPages
    <2>2. ASSUME HandlesFit, NEW t \in Slots \ {s}, Readable(t),
                 page[t].img.rp = rp, page[t].img.user = u
          PROVE  FALSE
        <3>1. SameAccount(t, rp, u)
            BY <2>2 DEF SameAccount, Readable, HandlesFit
        <3>2. s \in MatchingSlots(rp, u)
            BY <1>2, <3>1 DEF IsFirst, passkey_save_slots, MatchingSlots
        <3>3. Readable(s) /\ page[s].img.rp = rp /\ page[s].img.user = u
            BY <3>2 DEF MatchingSlots, SameAccount, Readable
        <3> QED
            BY <2>2, <3>3 DEF IndInv, NoDuplicateAccount
    <2>3. job.op = "none"
        BY DEF passkey_save
    <2> QED
        BY <1>2, <2>1, <2>2, <2>3, BeginIndInv
<1> QED
    BY <1>1, <1>2 DEF passkey_save

(* A PIN record that is read and written back with other retries is again  *)
(* a PIN record.                                                           *)
LEMMA PinOperationsIndInv ==
    ASSUME IndInv,
           \/ \E h \in PinHashes : pin_save(h)
           \/ pin_decrement_retries
           \/ pin_reset_retries
    PROVE  IndInv'
<1> USE RetriesAssumption
<1>1. PICK img \in PINStates : job.op = "none" /\ Begin("pin", PinPage, img)
    <2>1. CASE \E h \in PinHashes : pin_save(h)
        BY <2>1 DEF pin_save, PINStates
    <2>2. pin_load # None => pin_load \in PINStates
        BY DEF pin_load, IndInv, PagesSound
    <2>3. CASE pin_decrement_retries
        <3>1. [pin_load EXCEPT !.retries = IF @ > 0 THEN @ - 1 ELSE 0] \in PINStates
            BY <2>2, <2>3 DEF pin_decrement_retries, PINStates
        <3> QED
            BY <2>3, <3>1 DEF pin_decrement_retries
    <2>4. CASE pin_reset_retries
        <3>1. [pin_load EXCEPT !.retries = MaxRetries] \in PINStates
            BY <2>2, <2>4 DEF pin_reset_retries, PINStates
        <3> QED
            BY <2>4, <3>1 DEF pin_reset_retries
    <2> QED
        BY <2>1, <2>3, <2>4
<1>2. img \in Images /\ PinPage \in AllPages
    BY DEF Images, AllPages
<1> QED
    BY <1>1, <1>2, BeginIndInv

LEMMA passkey_deleteIndInv ==
    ASSUME IndInv, NEW id, passkey_delete_by_cred_id(id)
    PROVE  IndInv'
<1>1. CASE UNCHANGED vars
    BY <1>1 DEF IndInv, HandlesFit, vars, PagesSound, JobSound, OthersSound, ProgramsErasedFlash,
        Writing, TornOnlyByPowerLoss, SaveExclusive, NoDuplicateAccount, Readable, IsPasskey
<1>2. ASSUME NEW s \in Slots, Begin("delete", s, None)
      PROVE  IndInv'
    <2>1. s \in AllPages /\ None \in Images
        BY DEF AllPages, Images
    <2>2. job.op = "none"
        BY DEF passkey_delete_by_cred_id
    <2> QED
        BY <1>2, <2>1, <2>2, BeginIndInv
<1> QED
    BY <1>1, <1>2 DEF passkey_delete_by_cred_id

LEMMA flash_factory_resetIndInv ==
    ASSUME IndInv, flash_factory_reset
    PROVE  IndInv'
<1>1. 1 \in AllPages /\ None \in Images
    BY NumSlotsAssumption DEF AllPages, Slots, Images
<1> QED
    BY <1>1, BeginIndInv DEF flash_factory_reset

(* Erasing a page takes a record away and can only help. *)
LEMMA flash_erase_pageIndInv ==
    ASSUME IndInv, flash_erase_page
    PROVE  IndInv'
<1> USE NumSlotsAssumption DEF IndInv, flash_erase_page
<1>0. /\ job.target \in AllPages
      /\ page' = [page EXCEPT ![job.target] = Erased]
      /\ \A p \in AllPages : p # job.target => page'[p] = page[p]
      /\ page'[job.target] = Erased
    BY DEF JobSound, PagesSound
<1>1. PagesSound'
    BY <1>0 DEF PagesSound, Erased, Images, Chunks, AllPages
<1>2. JobSound'
    <2>1. CASE job.op = "reset"
        <3>1. job.target # PinPage => job.target + 1 \in AllPages
            BY DEF JobSound, AllPages, Slots, PinPage
        <3> QED
            BY <2>1, <3>1 DEF JobSound, NoJob, Images, Chunks, AllPages, PinPage
    <2>2. CASE job.op # "reset"
        BY <2>2 DEF JobSound, Chunks
    <2> QED
        BY <2>1, <2>2
<1>3. OthersSound'
    BY DEF OthersSound
<1>4. ProgramsErasedFlash'
    BY <1>0 DEF ProgramsErasedFlash, Writing, JobSound, NoJob, Erased, Chunks
<1>5. TornOnlyByPowerLoss'
    BY <1>0 DEF TornOnlyByPowerLoss, Writing, Erased
<1>6. (HandlesFit => SaveExclusive)'
    BY <1>0 DEF HandlesFit, SaveExclusive, JobSound, NoJob, Readable, IsPasskey, AllPages, Erased
<1>7. (HandlesFit => NoDuplicateAccount)'
    BY <1>0 DEF HandlesFit, NoDuplicateAccount, Readable, IsPasskey, AllPages, Erased
<1> QED
    BY <1>1, <1>2, <1>3, <1>4, <1>5, <1>6, <1>7

(* Programming a chunk makes more of the job's own record readable, which  *)
(* SaveExclusive keeps from meeting another record of the account.         *)
LEMMA flash_program_64bytesIndInv ==
    ASSUME IndInv, flash_program_64bytes
    PROVE  IndInv'
<1> USE DEF IndInv, flash_program_64bytes
<1> DEFINE new == [chunks |-> job.next, img |-> job.img]
<1>0. /\ job.op \in {"save", "pin"}
      /\ job.target \in AllPages
      /\ job.next \in 1 .. Chunks
      /\ \A p \in AllPages : p # job.target => page'[p] = page[p]
      /\ page'[job.target] = new
    BY DEF JobSound, PagesSound, Chunks
<1>a. PinPage \notin Slots
    BY NumSlotsAssumption DEF PinPage, Slots
<1>1. PagesSound'
    <2>1. new \in [chunks : 0 .. Chunks, img : Images]
        BY <1>0 DEF JobSound, Chunks
    <2>2. page' \in [AllPages -> [chunks : 0 .. Chunks, img : Images]]
        BY <1>0, <2>1 DEF PagesSound
    <2> QED
        BY <1>0, <1>a, <2>2 DEF PagesSound, JobSound, AllPages
<1>2. JobSound'
    BY <1>0 DEF JobSound, Chunks
<1>3. OthersSound'
    BY DEF OthersSound
<1>4. ProgramsErasedFlash'
    BY <1>0 DEF ProgramsErasedFlash, JobSound, Chunks
<1>5. TornOnlyByPowerLoss'
    BY <1>0 DEF TornOnlyByPowerLoss, Writing, JobSound, Chunks
<1>6. (HandlesFit => SaveExclusive)'
    BY <1>0, <1>a DEF HandlesFit, SaveExclusive, JobSound, Readable, IsPasskey, AllPages
<1>7. (HandlesFit => NoDuplicateAccount)'
    <2>1. CASE job.op = "pin"
        BY <1>0, <1>a, <2>1 DEF HandlesFit, JobSound, NoDuplicateAccount, Readable, IsPasskey, AllPages
    <2>2. CASE job.op = "save"
        BY <1>0, <2>2 DEF HandlesFit, SaveExclusive, NoDuplicateAccount, Readable, IsPasskey, AllPages
    <2> QED
        BY <1>0, <2>1, <2>2
<1> QED
    BY <1>1, <1>2, <1>3, <1>4, <1>5, <1>6, <1>7

LEMMA flash_lockIndInv ==
    ASSUME IndInv, flash_lock
    PROVE  IndInv'
<1> USE DEF IndInv, flash_lock, NoJob
<1>1. PagesSound'
    BY DEF PagesSound
<1>2. JobSound'
    BY DEF JobSound, Images, Chunks, AllPages
<1>3. OthersSound'
    BY DEF OthersSound
<1>4. ProgramsErasedFlash'
    BY DEF ProgramsErasedFlash, Writing
<1>5. TornOnlyByPowerLoss'
    BY DEF TornOnlyByPowerLoss, ProgramsErasedFlash, PagesSound, Writing, Chunks
<1>6. (HandlesFit => SaveExclusive)'
    BY DEF HandlesFit, SaveExclusive
<1>7. (HandlesFit => NoDuplicateAccount)'
    BY DEF HandlesFit, NoDuplicateAccount, Readable, IsPasskey
<1> QED
    BY <1>1, <1>2, <1>3, <1>4, <1>5, <1>6, <1>7

LEMMA PowerLossIndInv ==
    ASSUME IndInv, PowerLoss
    PROVE  IndInv'
<1> USE PowerAssumption DEF IndInv, PowerLoss, NoJob
<1>1. PagesSound'
    BY DEF PagesSound
<1>2. JobSound'
    BY DEF JobSound, Images, Chunks, AllPages
<1>3. OthersSound'
    BY DEF OthersSound
<1>4. ProgramsErasedFlash'
    BY DEF ProgramsErasedFlash, Writing
<1>5. TornOnlyByPowerLoss'
    BY DEF TornOnlyByPowerLoss, OthersSound
<1>6. (HandlesFit => SaveExclusive)'
    BY DEF HandlesFit, SaveExclusive
<1>7. (HandlesFit => NoDuplicateAccount)'
    BY DEF HandlesFit, NoDuplicateAccount, Readable, IsPasskey
<1> QED
    BY <1>1, <1>2, <1>3, <1>4, <1>5, <1>6, <1>7

(* Sampling the pad changes nothing but the interrupts. *)
LEMMA read_touch_pa2IndInv ==
    ASSUME IndInv, read_touch_pa2
    PROVE  IndInv'
BY DEF read_touch_pa2, IndInv, HandlesFit, PagesSound, JobSound, OthersSound,
    ProgramsErasedFlash, Writing, TornOnlyByPowerLoss, SaveExclusive, NoDuplicateAccount,
    Readable, IsPasskey

LEMMA NextIndInv ==
    ASSUME IndInv, [Next]_vars
    PROVE  IndInv'
<1>1. ASSUME NEW rp \in Rps, NEW u \in Users, NEW c \in FreshCreds, passkey_save(rp, u, c)
      PROVE  IndInv'
    BY <1>1, passkey_saveIndInv DEF FreshCreds
<1>2. ASSUME NEW id \in CredentialIds, passkey_delete_by_cred_id(id)
      PROVE  IndInv'
    BY <1>2, passkey_deleteIndInv
<1>3. CASE UNCHANGED vars
    BY <1>3 DEF IndInv, HandlesFit, vars, PagesSound, JobSound, OthersSound, ProgramsErasedFlash,
        Writing, TornOnlyByPowerLoss, SaveExclusive, NoDuplicateAccount, Readable, IsPasskey
<1> QED
    BY <1>1, <1>2, <1>3, PinOperationsIndInv, flash_factory_resetIndInv,
       flash_erase_pageIndInv, flash_program_64bytesIndInv, flash_lockIndInv, read_touch_pa2IndInv,
       PowerLossIndInv
    DEF Next

-----------------------------------------------------------------------------
(* Every reachable state satisfies the inductive invariant of the store. *)
THEOREM Invariance == Spec => []IndInv
<1> QED
    BY NextIndInv, InitIndInv, PTL DEF Spec

(* Every reachable state of the store has the types of flash_passkey.h. *)
THEOREM TypeCorrect == Spec => []TypeOK
<1>1. IndInv => TypeOK
    BY DEF IndInv, TypeOK, PagesSound, JobSound, OthersSound
<1> QED
    BY <1>1, Invariance, PTL

(* As long as handles fit user_id[64], re-registering an account never     *)
(* leaves two readable records of it, wherever power is lost.              *)
THEOREM AccountsUnique == Spec => [](HandlesFit => NoDuplicateAccount)
<1>1. IndInv => (HandlesFit => NoDuplicateAccount)
    BY DEF IndInv
<1> QED
    BY <1>1, Invariance, PTL

(* flash_program_64bytes is only ever asked to program erased flash. *)
THEOREM ErasedFirst == Spec => []ProgramsErasedFlash
<1>1. IndInv => ProgramsErasedFlash
    BY DEF IndInv
<1> QED
    BY <1>1, Invariance, PTL

(* Only a power loss leaves a partly written record behind. *)
THEOREM CompleteWithoutPowerLoss == Spec => []TornOnlyByPowerLoss
<1>1. IndInv => TornOnlyByPowerLoss
    BY DEF IndInv
<1> QED
    BY <1>1, Invariance, PTL

-----------------------------------------------------------------------------
(* The refinement of PasskeyStore.  What an operation is about to do fits  *)
(* what it found: a save takes an empty slot or one of the same account, a *)
(* PIN record is new or has one retry less, and a reset has erased the     *)
(* slots below the page it is at.                                          *)
SaveFits ==
    job.op = "save" /\ job.next = 0 =>
        \/ page[job.target].chunks = 0
        \/ /\ page[job.target].img.rp = job.img.rp
           /\ page[job.target].img.user = job.img.user

PinFits ==
    job.op = "pin" /\ job.next = 0 =>
        \/ job.img.retries = MaxRetries
        \/ /\ pin_load # None
           /\ job.img = [pin_load EXCEPT !.retries = IF @ > 0 THEN @ - 1 ELSE 0]

ResetFits ==
    job.op = "reset" => \A s \in Slots : s < job.target => page[s].chunks = 0

JobFits == SaveFits /\ PinFits /\ ResetFits

LEMMA InitJobFits == Init => JobFits
BY DEF Init, NoJob, JobFits, SaveFits, PinFits, ResetFits

LEMMA NextJobFits ==
    ASSUME IndInv, JobFits, [Next]_vars
    PROVE  JobFits'
<1> USE DEF JobFits, SaveFits, PinFits, ResetFits
<1>1. ASSUME NEW rp \in Rps, NEW u \in Users, NEW c \in FreshCreds, passkey_save(rp, u, c)
      PROVE  JobFits'
    <2>1. CASE UNCHANGED vars
        BY <2>1 DEF vars, pin_load
    <2>2. ASSUME NEW s \in Slots, IsFirst(s, passkey_save_slots(rp, u)),
                 Begin("save", s, [rp |-> rp, user |-> u, cred |-> c])
          PROVE  JobFits'
        <3>1. page[s].chunks = 0 \/ (page[s].img.rp = rp /\ page[s].img.user = u)
            BY <2>2 DEF IsFirst, passkey_save_slots, MatchingSlots, EmptySlots, SameAccount
        <3> QED
            BY <2>2, <3>1 DEF Begin
    <2> QED
        BY <1>1, <2>1, <2>2 DEF passkey_save
<1>2. ASSUME NEW h \in PinHashes, pin_save(h)
      PROVE  JobFits'
    BY <1>2 DEF pin_save, Begin
<1>3. CASE pin_decrement_retries
    <2>1. pin_load' = pin_load
        BY <1>3 DEF pin_decrement_retries, Begin, pin_load
    <2> QED
        BY <1>3, <2>1 DEF pin_decrement_retries, Begin
<1>4. CASE pin_reset_retries
    <2>1. pin_load \in PINStates
        BY <1>4 DEF pin_reset_retries, pin_load, IndInv, PagesSound
    <2> QED
        BY <1>4, <2>1 DEF pin_reset_retries, Begin, PINStates
<1>5. ASSUME NEW id \in CredentialIds, passkey_delete_by_cred_id(id)
      PROVE  JobFits'
    <2>1. CASE UNCHANGED vars
        BY <2>1 DEF vars, pin_load
    <2>2. ASSUME NEW s \in Slots, Begin("delete", s, None)
          PROVE  JobFits'
        BY <2>2 DEF Begin
    <2> QED
        BY <1>5, <2>1, <2>2 DEF passkey_delete_by_cred_id
<1>6. CASE flash_factory_reset
    <2>1. \A s \in Slots : ~(s < 1)
        BY NumSlotsAssumption DEF Slots
    <2> QED
        BY <1>6, <2>1 DEF flash_factory_reset, Begin
<1>7. CASE flash_erase_page
    <2>1. CASE job.op # "reset"
        BY <1>7, <2>1 DEF flash_erase_page, IndInv, JobSound, Chunks
    <2>2. CASE job.op = "reset" /\ job.target = PinPage
        BY <1>7, <2>2 DEF flash_erase_page, NoJob
    <2>3. CASE job.op = "reset" /\ job.target # PinPage
        <3>1. job' = [job EXCEPT !.target = @ + 1] /\ page' = [page EXCEPT ![job.target] = Erased]
            BY <1>7, <2>3 DEF flash_erase_page
        <3>2. job'.op = "reset" /\ job'.target = job.target + 1 /\ job.target \in Slots
            BY <2>3, <3>1 DEF IndInv, JobSound, AllPages
        <3>3. \A s \in Slots : page'[s].chunks = IF s = job.target THEN 0 ELSE page[s].chunks
            BY <3>1, <3>2 DEF IndInv, PagesSound, AllPages, Erased
        <3>4. \A s \in Slots : s < job.target + 1 => s = job.target \/ s < job.target
            BY <3>2, NumSlotsAssumption DEF Slots
        <3> QED
            BY <2>3, <3>2, <3>3, <3>4
    <2> QED
        BY <2>1, <2>2, <2>3
<1>8. CASE flash_program_64bytes
    BY <1>8 DEF flash_program_64bytes, IndInv, JobSound, Chunks
<1>9. CASE flash_lock
    BY <1>9 DEF flash_lock, NoJob
<1>10. CASE read_touch_pa2
    BY <1>10 DEF read_touch_pa2
<1>11. CASE PowerLoss
    BY <1>11 DEF PowerLoss, NoJob
<1>12. CASE UNCHANGED vars
    BY <1>12 DEF vars, pin_load
<1> QED
    BY <1>1, <1>2, <1>3, <1>4, <1>5, <1>6, <1>7, <1>8, <1>9, <1>10, <1>11, <1>12 DEF Next

(* The slots that hold a usable record of an account in pages pg, and the  *)
(* credential of the account there.                                        *)
HeldIn(pg, a) == {s \in Slots : /\ pg[s].chunks >= 3
                                /\ <<pg[s].img.rp, pg[s].img.user>> = a}

CredIn(pg, a) == IF HeldIn(pg, a) # {} THEN pg[CHOOSE s \in HeldIn(pg, a) : TRUE].img.cred ELSE None

(* The account a save is for, and the values of PasskeyStore's variables. *)
JobAccount == <<job.img.rp, job.img.user>>
Store      == [a \in Accounts |-> StoreOf(a)]
Saving     == IF Unsettled THEN <<job.img.rp, job.img.user>> ELSE None
PinRecord  == IF PinUnsettled THEN job.img ELSE pin_load

LEMMA StoreOfCases ==
    ASSUME NEW a
    PROVE  StoreOf(a) = IF Unsettled /\ JobAccount = a THEN job.img.cred ELSE CredIn(page, a)
BY DEF StoreOf, Held, HeldIn, CredIn, JobAccount

(* Writing to a page that holds the account neither before nor after       *)
(* leaves the account its credential.                                      *)
LEMMA CredKept ==
    ASSUME NEW pg, NEW pg2, NEW t, NEW a,
           \A s \in Slots : s # t => pg2[s] = pg[s],
           t \notin HeldIn(pg, a), t \notin HeldIn(pg2, a)
    PROVE  CredIn(pg2, a) = CredIn(pg, a)
<1>1. HeldIn(pg2, a) = HeldIn(pg, a)
    BY DEF HeldIn
<1>2. CASE HeldIn(pg, a) = {}
    BY <1>1, <1>2 DEF CredIn
<1>3. CASE HeldIn(pg, a) # {}
    <2> DEFINE s == CHOOSE s \in HeldIn(pg, a) : TRUE
    <2>1. s \in HeldIn(pg, a)
        BY <1>3
    <2>2. s \in Slots /\ s # t
        BY <2>1 DEF HeldIn
    <2>3. pg2[s] = pg[s]
        BY <2>2
    <2> QED
        BY <1>1, <1>3, <2>3 DEF CredIn
<1> QED
    BY <1>2, <1>3

LEMMA CredKeptNext ==
    ASSUME NEW t, NEW a,
           \A s \in Slots : s # t => page'[s] = page[s],
           t \notin HeldIn(page, a), t \notin HeldIn(page', a)
    PROVE  CredIn(page', a) = CredIn(page, a)
BY CredKept

LEMMA CredOfOnly ==
    ASSUME NEW pg, NEW a, NEW t, t \in HeldIn(pg, a), \A s \in HeldIn(pg, a) : s = t
    PROVE  CredIn(pg, a) = pg[t].img.cred
<1>1. (CHOOSE s \in HeldIn(pg, a) : TRUE) = t
    OBVIOUS
<1> QED
    BY <1>1 DEF CredIn

LEMMA CredOfNone ==
    ASSUME NEW pg, NEW a, HeldIn(pg, a) = {}
    PROVE  CredIn(pg, a) = None
BY DEF CredIn

(* No account is held twice, and one being saved is not held at all before *)
(* its third chunk is written.                                             *)
LEMMA HeldOnce ==
    ASSUME IndInv, HandlesFit, NEW a, NEW s \in HeldIn(page, a), NEW t \in HeldIn(page, a)
    PROVE  s = t
<1>1. /\ s \in Slots /\ page[s].chunks >= 3 /\ <<page[s].img.rp, page[s].img.user>> = a
      /\ t \in Slots /\ page[t].chunks >= 3 /\ <<page[t].img.rp, page[t].img.user>> = a
    BY DEF HeldIn
<1>2. page[s].chunks \in Nat /\ page[t].chunks \in Nat
    BY <1>1 DEF IndInv, PagesSound, AllPages, Chunks
<1>3. Readable(s) /\ Readable(t)
    BY <1>1, <1>2 DEF Readable, IsPasskey, HandleChunks
<1> QED
    BY <1>1, <1>3 DEF IndInv, NoDuplicateAccount

LEMMA SavingHeldNowhereElse ==
    ASSUME IndInv, HandlesFit, job.op = "save"
    PROVE  \A s \in HeldIn(page, JobAccount) : s = job.target
<1> SUFFICES ASSUME NEW s \in HeldIn(page, JobAccount), s # job.target
             PROVE  FALSE
    OBVIOUS
<1>1. /\ s \in Slots /\ page[s].chunks >= 3
      /\ page[s].img.rp = job.img.rp /\ page[s].img.user = job.img.user
    BY DEF HeldIn, JobAccount
<1>2. page[s].chunks \in Nat
    BY <1>1 DEF IndInv, PagesSound, AllPages, Chunks
<1>3. Readable(s)
    BY <1>1, <1>2 DEF Readable, IsPasskey, HandleChunks
<1> QED
    BY <1>1, <1>3 DEF IndInv, SaveExclusive

LEMMA UnsettledNotHeld ==
    ASSUME IndInv, HandlesFit, Unsettled
    PROVE  HeldIn(page, JobAccount) = {}
<1>1. job.op = "save" /\ job.next \in 1 .. 3
    BY DEF Unsettled
<1>2. page[job.target].chunks = job.next - 1
    BY <1>1 DEF IndInv, ProgramsErasedFlash, Writing
<1>3. job.target \notin HeldIn(page, JobAccount)
    BY <1>1, <1>2 DEF HeldIn
<1> QED
    BY <1>1, <1>3, SavingHeldNowhereElse

(* Without a save in its first chunks, the credentials are those held. *)
LEMMA SettledStore ==
    ASSUME ~Unsettled
    PROVE  Store = [a \in Accounts |-> CredIn(page, a)]
BY StoreOfCases DEF Store

LEMMA UnsettledStore ==
    ASSUME Unsettled
    PROVE  Store = [a \in Accounts |-> IF JobAccount = a THEN job.img.cred ELSE CredIn(page, a)]
BY StoreOfCases DEF Store

(* The same of the state after a step. *)
LEMMA StoreNext ==
    /\ ~Unsettled' => Store' = [a \in Accounts |-> CredIn(page', a)]
    /\ Unsettled' => Store' = [a \in Accounts |-> IF JobAccount' = a THEN job'.img.cred
                                                 ELSE CredIn(page', a)]
<1>1. \A a : StoreOf(a)' = IF Unsettled' /\ JobAccount' = a THEN job'.img.cred ELSE CredIn(page', a)
    BY DEF StoreOf, Held, HeldIn, CredIn, JobAccount
<1>2. Store' = [a \in Accounts |-> StoreOf(a)']
    BY DEF Store
<1> QED
    BY <1>1, <1>2

LEMMA SettledBefore ==
    /\ ~Unsettled => Saving = None
    /\ ~Unsettled' => Saving' = None
    /\ ~PinUnsettled => PinUnsettled = FALSE
    /\ ~PinUnsettled' => PinUnsettled' = FALSE
    /\ PinUnsettled' => PinUnsettled' = TRUE
BY DEF Saving, PinUnsettled

(* A step that leaves the pages alone and starts or ends no write of a     *)
(* record's first chunks changes nothing that PasskeyStore shows.          *)
LEMMA Unseen ==
    ASSUME UNCHANGED page, ~Unsettled, ~Unsettled', ~PinUnsettled, ~PinUnsettled'
    PROVE  UNCHANGED Abstract!vars
<1>1. Store' = Store
    BY SettledStore, StoreNext
<1>2. PinRecord' = PinRecord
    BY DEF PinRecord, pin_load
<1>3. Saving' = Saving /\ PinUnsettled' = PinUnsettled
    BY SettledBefore
<1> QED
    BY <1>1, <1>2, <1>3 DEF Abstract!vars, Store, PinRecord, Saving

LEMMA BeginUnseen ==
    ASSUME job.op = "none", NEW op, NEW target, NEW img, Begin(op, target, img)
    PROVE  UNCHANGED Abstract!vars
<1>1. ~Unsettled /\ ~Unsettled' /\ ~PinUnsettled /\ ~PinUnsettled'
    BY DEF Begin, Unsettled, PinUnsettled
<1> QED
    BY <1>1, Unseen DEF Begin

(* Erasing the slot a save found puts its credential in place of the       *)
(* account's, and no other account's.                                      *)
LEMMA EraseForSave ==
    ASSUME IndInv, JobFits, HandlesFit, flash_erase_page, job.op = "save"
    PROVE  \E a \in Accounts, c \in Creds : Abstract!Put(a, c)
<1>1. /\ job.next = 0 /\ job.target \in Slots /\ job.img \in ResidentKeys
      /\ page' = [page EXCEPT ![job.target] = Erased]
      /\ job' = [job EXCEPT !.next = 1]
    BY DEF flash_erase_page, IndInv, JobSound
<1>2. JobAccount \in Accounts /\ job.img.cred \in Creds
    BY <1>1 DEF ResidentKeys, Accounts, JobAccount
<1>3. job'.op = "save" /\ job'.next = 1 /\ job'.img = job.img /\ JobAccount' = JobAccount
    BY <1>1 DEF IndInv, JobSound, JobAccount
<1>4. ~Unsettled /\ Unsettled' /\ ~PinUnsettled /\ ~PinUnsettled'
    BY <1>1, <1>3 DEF Unsettled, PinUnsettled
<1>5. page'[job.target] = Erased /\ \A s \in AllPages : s # job.target => page'[s] = page[s]
    BY <1>1 DEF IndInv, PagesSound, AllPages
<1>6. \A a \in Accounts : a # JobAccount => CredIn(page', a) = CredIn(page, a)
    <2>1. ASSUME NEW a \in Accounts, a # JobAccount
          PROVE  job.target \notin HeldIn(page, a)
        BY <1>1, <2>1 DEF JobFits, SaveFits, HeldIn, JobAccount
    <2>2. ASSUME NEW a \in Accounts
          PROVE  job.target \notin HeldIn(page', a)
        BY <1>5 DEF HeldIn, Erased
    <2> QED
        BY <1>5, <2>1, <2>2, CredKept DEF AllPages
<1>7. Store' = [Store EXCEPT ![JobAccount] = job.img.cred]
    BY <1>2, <1>3, <1>4, <1>6, SettledStore, StoreNext
<1>8. PinRecord' = PinRecord
    <2>1. page'[PinPage] = page[PinPage]
        BY <1>1, <1>5, NumSlotsAssumption DEF AllPages, PinPage, Slots
    <2> QED
        BY <1>4, <2>1 DEF PinRecord, pin_load
<1>9. Saving = None /\ Saving' = JobAccount /\ PinUnsettled' = PinUnsettled
    BY <1>3, <1>4, SettledBefore DEF Saving, JobAccount
<1>10. Abstract!Put(JobAccount, job.img.cred)
    BY <1>4, <1>7, <1>8, <1>9 DEF Abstract!Put, Abstract!Quiet, Store, Saving, PinRecord
<1> QED
    BY <1>2, <1>10

(* Erasing the PIN page for a new record replaces the PIN. *)
LEMMA EraseForPin ==
    ASSUME IndInv, JobFits, flash_erase_page, job.op = "pin"
    PROVE  Abstract!WritePin
<1>1. /\ job.next = 0 /\ job.target = PinPage /\ job.img \in PINStates
      /\ page' = [page EXCEPT ![PinPage] = Erased]
      /\ job' = [job EXCEPT !.next = 1]
    BY DEF flash_erase_page, IndInv, JobSound
<1>2. job'.op = "pin" /\ job'.next = 1 /\ job'.img = job.img
    BY <1>1 DEF IndInv, JobSound
<1>3. ~Unsettled /\ ~Unsettled' /\ ~PinUnsettled /\ PinUnsettled'
    BY <1>1, <1>2 DEF Unsettled, PinUnsettled
<1>4. PinPage \notin Slots /\ \A s \in Slots : s # PinPage => page'[s] = page[s]
    BY <1>1, NumSlotsAssumption DEF PinPage, Slots, IndInv, PagesSound, AllPages
<1>5. \A a : CredIn(page', a) = CredIn(page, a)
    <2>1. \A a : PinPage \notin HeldIn(page, a) /\ PinPage \notin HeldIn(page', a)
        BY <1>4 DEF HeldIn
    <2> QED
        BY <1>4, <2>1, CredKept
<1>6. Store' = Store
    BY <1>3, <1>5, SettledStore, StoreNext
<1>7. PinRecord = pin_load /\ PinRecord' = job.img
    BY <1>2, <1>3 DEF PinRecord
<1>8. \/ \E h \in PinHashes : job.img = [hash |-> h, retries |-> MaxRetries]
      \/ /\ pin_load # None
         /\ job.img = [pin_load EXCEPT !.retries = IF @ > 0 THEN @ - 1 ELSE 0]
    <2>1. CASE job.img.retries = MaxRetries
        BY <1>1, <2>1 DEF PINStates
    <2> QED
        BY <1>1, <2>1 DEF JobFits, PinFits
<1> QED
    BY <1>3, <1>6, <1>7, <1>8 DEF Abstract!WritePin, Abstract!Quiet, Store, PinRecord

(* Erasing a slot to delete its record, or in a reset, forgets at most the *)
(* credential it held.                                                     *)
LEMMA EraseSlot ==
    ASSUME IndInv, HandlesFit, NEW t \in Slots, page' = [page EXCEPT ![t] = Erased],
           ~Unsettled, ~Unsettled', ~PinUnsettled, ~PinUnsettled'
    PROVE  (\E a \in Accounts : Abstract!Forget(a)) \/ UNCHANGED Abstract!vars
<1>1. page'[t] = Erased /\ \A s \in AllPages : s # t => page'[s] = page[s]
    BY DEF IndInv, PagesSound, AllPages
<1>2. PinRecord' = PinRecord
    <2>1. page'[PinPage] = page[PinPage]
        BY <1>1, NumSlotsAssumption DEF AllPages, PinPage, Slots
    <2> QED
        BY <2>1 DEF PinRecord, pin_load
<1>3. \A a : t \notin HeldIn(page', a)
    BY <1>1 DEF HeldIn, Erased
<1>4. \A a : t \notin HeldIn(page, a) => CredIn(page', a) = CredIn(page, a)
    <2>1. \A s \in Slots : s # t => page'[s] = page[s]
        BY <1>1 DEF AllPages
    <2>2. ASSUME NEW a, t \notin HeldIn(page, a)
          PROVE  CredIn(page', a) = CredIn(page, a)
        <3>1. t \notin HeldIn(page', a)
            BY <1>3
        <3> QED
            BY <2>1, <2>2, <3>1, CredKeptNext, Zenon
    <2> QED
        BY <2>2
<1>a. Saving = None /\ Saving' = None /\ PinUnsettled' = PinUnsettled
    BY SettledBefore
<1>5. CASE page[t].chunks >= 3
    <2> DEFINE b == <<page[t].img.rp, page[t].img.user>>
    <2>1. page[t].img \in ResidentKeys
        BY <1>5 DEF IndInv, PagesSound, AllPages, Chunks
    <2>2. b \in Accounts
        BY <2>1 DEF ResidentKeys, Accounts
    <2>3. t \in HeldIn(page, b) /\ \A a : a # b => t \notin HeldIn(page, a)
        BY <1>5 DEF HeldIn
    <2>4. HeldIn(page', b) = {}
        <3>1. \A s \in HeldIn(page', b) : s # t
            BY <1>3
        <3>2. \A s \in HeldIn(page', b) : s \in HeldIn(page, b)
            BY <1>1, <3>1 DEF HeldIn, AllPages
        <3>3. \A s \in HeldIn(page, b) : s = t
            BY <2>3, HeldOnce, Zenon
        <3> QED
            BY <3>1, <3>2, <3>3, Zenon
    <2>5. CredIn(page', b) = None
        BY <2>4, CredOfNone
    <2> HIDE DEF b
    <2>6. Store' = [Store EXCEPT ![b] = None]
        BY <1>4, <2>2, <2>3, <2>5, SettledStore, StoreNext
    <2>7. Abstract!Forget(b)
        BY <1>2, <1>a, <2>6 DEF Abstract!Forget, Abstract!Quiet, Store, Saving, PinRecord
    <2> QED
        BY <2>2, <2>7
<1>6. CASE ~(page[t].chunks >= 3)
    <2>1. \A a : t \notin HeldIn(page, a)
        BY <1>6 DEF HeldIn
    <2>2. Store' = Store
        BY <1>4, <2>1, SettledStore, StoreNext
    <2> QED
        BY <1>2, <1>a, <2>2 DEF Abstract!vars, Store, Saving, PinRecord
<1> QED
    BY <1>5, <1>6

(* The last page a reset erases is the PIN's, when no slot is left. *)
LEMMA EraseLast ==
    ASSUME IndInv, JobFits, flash_erase_page, job.op = "reset", job.target = PinPage
    PROVE  Abstract!ForgetPin
<1>1. page' = [page EXCEPT ![PinPage] = Erased] /\ job' = NoJob
    BY DEF flash_erase_page
<1>2. ~Unsettled /\ ~Unsettled' /\ ~PinUnsettled /\ ~PinUnsettled'
    BY <1>1 DEF Unsettled, PinUnsettled, NoJob
<1>3. \A s \in Slots : page[s].chunks = 0 /\ page'[s] = page[s]
    <2>1. \A s \in Slots : s < PinPage
        BY NumSlotsAssumption DEF Slots, PinPage
    <2>2. PinPage \notin Slots
        BY NumSlotsAssumption DEF Slots, PinPage
    <2> QED
        BY <1>1, <2>1, <2>2 DEF JobFits, ResetFits, IndInv, PagesSound, AllPages
<1>4. \A a : HeldIn(page, a) = {} /\ HeldIn(page', a) = {}
    BY <1>3 DEF HeldIn
<1>5. \A a : CredIn(page, a) = None /\ CredIn(page', a) = None
    BY <1>4, CredOfNone
<1>6. Store' = Store /\ \A a \in Accounts : Store[a] = None
    BY <1>2, <1>5, SettledStore, StoreNext
<1>7. PinRecord' = None
    <2>1. page'[PinPage] = Erased
        BY <1>1 DEF IndInv, PagesSound, AllPages
    <2> QED
        BY <1>2, <2>1 DEF PinRecord, pin_load, Erased
<1>8. Saving = None /\ Saving' = None /\ PinUnsettled' = PinUnsettled
    BY <1>2, SettledBefore
<1> QED
    BY <1>2, <1>6, <1>7, <1>8 DEF Abstract!ForgetPin, Abstract!Quiet, Store, Saving, PinRecord

LEMMA flash_erase_pageRefines ==
    ASSUME IndInv, JobFits, HandlesFit, flash_erase_page
    PROVE  [Abstract!Next]_(Abstract!vars)
<1>1. CASE job.op = "save"
    BY <1>1, EraseForSave DEF Abstract!Next
<1>2. CASE job.op = "pin"
    BY <1>2, EraseForPin DEF Abstract!Next
<1>3. CASE job.op = "reset" /\ job.target = PinPage
    BY <1>3, EraseLast DEF Abstract!Next
<1>4. CASE job.op = "delete" \/ (job.op = "reset" /\ job.target # PinPage)
    <2>1. job.target \in Slots /\ page' = [page EXCEPT ![job.target] = Erased]
        BY <1>4 DEF flash_erase_page, IndInv, JobSound, AllPages
    <2>2. ~Unsettled /\ ~PinUnsettled
        BY <1>4 DEF Unsettled, PinUnsettled
    <2>3. job'.op = job.op
        BY <1>4 DEF flash_erase_page, IndInv, JobSound
    <2>4. ~Unsettled' /\ ~PinUnsettled'
        BY <1>4, <2>3 DEF Unsettled, PinUnsettled
    <2> QED
        BY <2>1, <2>2, <2>4, EraseSlot DEF Abstract!Next
<1> QED
    BY <1>1, <1>2, <1>3, <1>4 DEF flash_erase_page, IndInv, JobSound

(* The third chunk of a record makes the credential usable, and the first  *)
(* chunk of the PIN record the PIN; the other chunks go unseen.            *)
LEMMA ProgramSave ==
    ASSUME IndInv, HandlesFit, flash_program_64bytes, job.op = "save"
    PROVE  Abstract!Settle \/ UNCHANGED Abstract!vars
<1>1. /\ job.next \in 1 .. 4 /\ job.target \in Slots /\ job.img \in ResidentKeys
      /\ page' = [page EXCEPT ![job.target] = [chunks |-> job.next, img |-> job.img]]
      /\ job' = [job EXCEPT !.next = job.next + 1]
    BY DEF flash_program_64bytes, IndInv, JobSound, Chunks
<1>2. JobAccount \in Accounts
    BY <1>1 DEF ResidentKeys, Accounts, JobAccount
<1>3. job'.op = "save" /\ job'.next = job.next + 1 /\ job'.img = job.img /\ JobAccount' = JobAccount
    BY <1>1 DEF IndInv, JobSound, JobAccount
<1>4. page[job.target].chunks = job.next - 1 /\ (job.next > 1 => page[job.target].img = job.img)
    BY <1>1 DEF IndInv, ProgramsErasedFlash, Writing
<1>5. /\ page'[job.target] = [chunks |-> job.next, img |-> job.img]
      /\ \A s \in AllPages : s # job.target => page'[s] = page[s]
    BY <1>1 DEF IndInv, PagesSound, AllPages
<1>6. ~PinUnsettled /\ ~PinUnsettled' /\ PinUnsettled' = PinUnsettled
    BY <1>3, SettledBefore DEF PinUnsettled
<1>7. PinRecord' = PinRecord
    <2>1. page'[PinPage] = page[PinPage]
        BY <1>1, <1>5, NumSlotsAssumption DEF AllPages, PinPage, Slots
    <2> QED
        BY <1>6, <2>1 DEF PinRecord, pin_load
<1>8. \A a : a # JobAccount => CredIn(page', a) = CredIn(page, a)
    <2>1. ASSUME NEW a, a # JobAccount
          PROVE  job.target \notin HeldIn(page, a) /\ job.target \notin HeldIn(page', a)
        BY <1>1, <1>4, <1>5, <2>1 DEF HeldIn, JobAccount
    <2>2. \A s \in Slots : s # job.target => page'[s] = page[s]
        BY <1>5 DEF AllPages
    <2>3. ASSUME NEW a, a # JobAccount
          PROVE  CredIn(page', a) = CredIn(page, a)
        <3>1. job.target \notin HeldIn(page, a) /\ job.target \notin HeldIn(page', a)
            BY <2>1, <2>3
        <3> QED
            BY <2>2, <3>1, CredKept, SMT
    <2> QED
        BY <2>3
<1>9. job.next >= 3 => CredIn(page', JobAccount) = job.img.cred
    <2> SUFFICES ASSUME job.next >= 3
                 PROVE  CredIn(page', JobAccount) = job.img.cred
        OBVIOUS
    <2>1. job.target \in HeldIn(page', JobAccount)
        BY <1>1, <1>5 DEF HeldIn, JobAccount
    <2>2. \A s \in HeldIn(page', JobAccount) : s = job.target
        <3>1. ASSUME NEW s \in HeldIn(page', JobAccount), s # job.target
              PROVE  s \in HeldIn(page, JobAccount)
            BY <1>5, <3>1 DEF HeldIn, AllPages
        <3> QED
            BY <3>1, SavingHeldNowhereElse
    <2>3. CredIn(page', JobAccount) = page'[job.target].img.cred
        BY <2>1, <2>2, CredOfOnly
    <2> QED
        BY <1>5, <2>3
<1>10. CASE job.next \in {1, 2}
    <2>1. Unsettled /\ Unsettled'
        BY <1>3, <1>10 DEF Unsettled
    <2>2. Store' = Store
        BY <1>3, <1>8, <2>1, UnsettledStore, StoreNext
    <2>3. Saving' = Saving
        BY <1>3, <2>1 DEF Saving
    <2> QED
        BY <1>6, <1>7, <2>2, <2>3 DEF Abstract!vars, Store, Saving, PinRecord
<1>11. CASE job.next = 3
    <2>1. Unsettled /\ ~Unsettled'
        BY <1>3, <1>11 DEF Unsettled
    <2>2. Store' = Store
        BY <1>8, <1>9, <1>11, <2>1, UnsettledStore, StoreNext
    <2>3. Saving = JobAccount /\ Saving' = None /\ JobAccount # None
        BY <1>2, <2>1, SettledBefore, NoneAssumption DEF Saving, JobAccount
    <2> QED
        BY <1>6, <1>7, <2>2, <2>3 DEF Abstract!Settle, Store, Saving, PinRecord
<1>12. CASE job.next = 4
    <2>1. ~Unsettled /\ ~Unsettled'
        BY <1>3, <1>12 DEF Unsettled
    <2>2. job.target \in HeldIn(page, JobAccount)
        BY <1>1, <1>4, <1>12 DEF HeldIn, JobAccount
    <2>3. CredIn(page, JobAccount) = page[job.target].img.cred
        BY <2>2, SavingHeldNowhereElse, CredOfOnly
    <2>4. CredIn(page, JobAccount) = job.img.cred
        BY <1>4, <1>12, <2>3
    <2>5. Store' = Store
        BY <1>8, <1>9, <1>12, <2>1, <2>4, SettledStore, StoreNext
    <2> QED
        BY <1>6, <1>7, <2>1, <2>5, SettledBefore DEF Abstract!vars, Store, Saving, PinRecord
<1> QED
    BY <1>1, <1>10, <1>11, <1>12

LEMMA ProgramPin ==
    ASSUME IndInv, flash_program_64bytes, job.op = "pin"
    PROVE  Abstract!SettlePin \/ UNCHANGED Abstract!vars
<1>1. /\ job.next \in 1 .. 4 /\ job.target = PinPage
      /\ page' = [page EXCEPT ![PinPage] = [chunks |-> job.next, img |-> job.img]]
      /\ job' = [job EXCEPT !.next = job.next + 1]
    BY DEF flash_program_64bytes, IndInv, JobSound, Chunks
<1>2. job'.op = "pin" /\ job'.next = job.next + 1 /\ job'.img = job.img
    BY <1>1 DEF IndInv, JobSound
<1>3. page[PinPage].chunks = job.next - 1 /\ (job.next > 1 => page[PinPage].img = job.img)
    BY <1>1 DEF IndInv, ProgramsErasedFlash, Writing
<1>4. /\ page'[PinPage] = [chunks |-> job.next, img |-> job.img]
      /\ PinPage \notin Slots /\ \A s \in Slots : s # PinPage => page'[s] = page[s]
    BY <1>1, NumSlotsAssumption DEF PinPage, Slots, IndInv, PagesSound, AllPages
<1>5. ~Unsettled /\ ~Unsettled' /\ ~PinUnsettled'
    BY <1>1, <1>2 DEF Unsettled, PinUnsettled
<1>6. Store' = Store
    <2>1. \A a : PinPage \notin HeldIn(page, a) /\ PinPage \notin HeldIn(page', a)
        BY <1>4 DEF HeldIn
    <2>2. \A a : CredIn(page', a) = CredIn(page, a)
        BY <1>4, <2>1, CredKept
    <2> QED
        BY <1>5, <2>2, SettledStore, StoreNext
<1>7. PinRecord' = job.img
    BY <1>1, <1>4, <1>5 DEF PinRecord, pin_load
<1>8. PinRecord = job.img
    <2>1. CASE job.next = 1
        BY <2>1 DEF PinRecord, PinUnsettled
    <2>2. CASE job.next # 1
        <3>1. ~PinUnsettled /\ job.next > 1
            BY <1>1, <2>2 DEF PinUnsettled
        <3> QED
            BY <1>1, <1>3, <3>1 DEF PinRecord, pin_load
    <2> QED
        BY <2>1, <2>2
<1>9. Saving' = Saving /\ PinUnsettled' = FALSE
    BY <1>5, SettledBefore
<1>10. CASE PinUnsettled
    BY <1>6, <1>7, <1>8, <1>9, <1>10 DEF Abstract!SettlePin, Store, Saving, PinRecord
<1>11. CASE ~PinUnsettled
    <2>1. PinUnsettled' = PinUnsettled
        BY <1>9, <1>11, SettledBefore
    <2> QED
        BY <1>6, <1>7, <1>8, <1>9, <2>1 DEF Abstract!vars, Store, Saving, PinRecord
<1> QED
    BY <1>10, <1>11

(* A power loss costs what was being written, and only that. *)
LEMMA PowerLossRefines ==
    ASSUME IndInv, HandlesFit, PowerLoss
    PROVE  Abstract!PowerLoss
<1>1. page' = page /\ job' = NoJob
    BY DEF PowerLoss
<1>2. ~Unsettled' /\ ~PinUnsettled'
    BY <1>1 DEF Unsettled, PinUnsettled, NoJob
<1>3. Saving' = None /\ PinUnsettled' = FALSE
    BY <1>2, SettledBefore
<1>4. PinRecord' = IF PinUnsettled THEN None ELSE PinRecord
    <2>1. PinRecord' = pin_load
        BY <1>1, <1>2 DEF PinRecord, pin_load
    <2>2. CASE PinUnsettled
        <3>1. page[PinPage].chunks = 0
            BY <2>2 DEF PinUnsettled, IndInv, ProgramsErasedFlash, Writing, JobSound
        <3> QED
            BY <2>1, <2>2, <3>1 DEF pin_load
    <2>3. CASE ~PinUnsettled
        BY <2>1, <2>3 DEF PinRecord
    <2> QED
        BY <2>2, <2>3
<1>5. Store' = [a \in Accounts |-> IF a = Saving THEN None ELSE Store[a]]
    <2>1. Store' = [a \in Accounts |-> CredIn(page, a)]
        BY <1>1, <1>2, StoreNext
    <2>2. CASE Unsettled
        <3>1. Saving = JobAccount
            BY <2>2 DEF Saving, JobAccount
        <3>2. CredIn(page, JobAccount) = None
            BY <2>2, UnsettledNotHeld, CredOfNone
        <3> QED
            BY <2>1, <2>2, <3>1, <3>2, UnsettledStore
    <2>3. CASE ~Unsettled
        <3>1. \A a \in Accounts : a # Saving
            BY <2>3, SettledBefore, NoneAssumption
        <3> QED
            BY <2>1, <2>3, <3>1, SettledStore
    <2> QED
        BY <2>2, <2>3
<1> QED
    BY <1>3, <1>4, <1>5 DEF Abstract!PowerLoss, Store, Saving, PinRecord

LEMMA InitRefines == Init => Abstract!Init
<1> SUFFICES ASSUME Init PROVE Abstract!Init
    OBVIOUS
<1>1. ~Unsettled /\ ~PinUnsettled
    BY DEF Init, NoJob, Unsettled, PinUnsettled
<1>2. \A p \in AllPages : page[p].chunks = 0
    BY DEF Init, Erased
<1>3. \A a : CredIn(page, a) = None
    BY <1>2 DEF HeldIn, CredIn, AllPages
<1>4. Store = [a \in Accounts |-> None]
    BY <1>1, <1>3, SettledStore
<1>5. PinRecord = None
    BY <1>1, <1>2 DEF PinRecord, pin_load, AllPages
<1> QED
    BY <1>1, <1>4, <1>5, SettledBefore DEF Abstract!Init, Store, Saving, PinRecord

LEMMA NextRefines ==
    ASSUME IndInv, JobFits, HandlesFit, [Next]_vars
    PROVE  [Abstract!Next]_(Abstract!vars)
<1>1. CASE UNCHANGED vars
    <2>1. UNCHANGED <<page, job>>
        BY <1>1 DEF vars
    <2> QED
        BY <2>1 DEF Abstract!vars, StoreOf, Held, Unsettled, PinUnsettled, pin_load
<1>2. ASSUME NEW rp \in Rps, NEW u \in Users, NEW c \in FreshCreds, passkey_save(rp, u, c)
      PROVE  [Abstract!Next]_(Abstract!vars)
    BY <1>1, <1>2, BeginUnseen DEF passkey_save
<1>3. ASSUME NEW h \in PinHashes, pin_save(h)
      PROVE  UNCHANGED Abstract!vars
    BY <1>3, BeginUnseen DEF pin_save
<1>4. CASE pin_decrement_retries \/ pin_reset_retries
    BY <1>4, BeginUnseen DEF pin_decrement_retries, pin_reset_retries
<1>5. ASSUME NEW id \in CredentialIds, passkey_delete_by_cred_id(id)
      PROVE  [Abstract!Next]_(Abstract!vars)
    BY <1>1, <1>5, BeginUnseen DEF passkey_delete_by_cred_id
<1>6. CASE flash_factory_reset
    BY <1>6, BeginUnseen DEF flash_factory_reset
<1>7. CASE flash_erase_page
    BY <1>7, flash_erase_pageRefines
<1>8. CASE flash_program_64bytes
    <2>1. job.op \in {"save", "pin"}
        BY <1>8 DEF flash_program_64bytes, IndInv, JobSound, Chunks
    <2> QED
        BY <1>8, <2>1, ProgramSave, ProgramPin DEF Abstract!Next
<1>9. CASE flash_lock
    <2>1. ~Unsettled /\ ~Unsettled' /\ ~PinUnsettled /\ ~PinUnsettled' /\ page' = page
        BY <1>9 DEF flash_lock, NoJob, Unsettled, PinUnsettled, Chunks
    <2> QED
        BY <2>1, Unseen
<1>10. CASE read_touch_pa2
    <2>1. ~Unsettled /\ ~Unsettled' /\ ~PinUnsettled /\ ~PinUnsettled' /\ page' = page
        BY <1>10 DEF read_touch_pa2, Unsettled, PinUnsettled
    <2> QED
        BY <2>1, Unseen
<1>11. CASE PowerLoss
    BY <1>11, PowerLossRefines DEF Abstract!Next
<1> QED
    BY <1>1, <1>2, <1>3, <1>4, <1>5, <1>6, <1>7, <1>8, <1>9, <1>10, <1>11 DEF Next

(* As long as handles fit user_id[64], the pages implement PasskeyStore    *)
(* for any number of slots, accounts and power losses: a registration      *)
(* replaces its own account's credential and no other, a deletion forgets  *)
(* one, a reset forgets the PIN after all of them, and a power loss costs  *)
(* only the record that is being written.                                  *)
THEOREM RefinesPasskeyStore ==
    ASSUME HandlesFit
    PROVE  Spec => ImplementsPasskeyStore
<1>1. Init => Abstract!Init
    BY InitRefines
<1>2. Init => JobFits
    BY InitJobFits
<1>3. IndInv /\ JobFits /\ [Next]_vars => JobFits'
    BY NextJobFits
<1>4. IndInv /\ JobFits /\ [Next]_vars => [Abstract!Next]_(Abstract!vars)
    BY HandlesFit, NextRefines
<1> QED
    BY <1>1, <1>2, <1>3, <1>4, Invariance, PTL DEF Spec, ImplementsPasskeyStore, Abstract!Spec

=============================================================================
