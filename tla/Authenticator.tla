----------------------------- MODULE Authenticator -----------------------------
(***************************************************************************)
(* The CTAP2 commands of fido2.c.  fido2_process_cbor runs one command at  *)
(* a time, but the commands of several hosts interleave, and what one      *)
(* command leaves for the next (the walk of GetNextAssertion, the two      *)
(* enumerations of CredentialManagement) is one set of globals for all of  *)
(* them, kept as indices into slots that other commands change.            *)
(*                                                                         *)
(* The store is the slots in their order, each written or erased at once   *)
(* (FlashStore refines that); a credential is its account, since an account*)
(* has one (NoDuplicateAccount).  clientPIN is the session of PinSession   *)
(* (ClientPin implements it); a touch wait is its outcome (UsbTransport    *)
(* models it).  A hash stands for what was hashed, and a clientDataHash    *)
(* for the relying party whose challenge it is; it is 32 bytes long or     *)
(* absent.  A request without a relying party is one of a relying party of *)
(* its own (the hash of all zeros).  Registering an account again replaces *)
(* its credential in its slot, which shows as no change here.              *)
(***************************************************************************)
EXTENDS Naturals, FiniteSets, Sequences, Functions

CONSTANTS
    Hosts, Rps, Users,
    NumSlots,   \* PASSKEY_NUM_SLOTS
    Uptimes,    \* seconds since power-up at which a reset comes in
    TouchWaits, \* seconds it may then take until the pad is touched
    MaxIndex,   \* bound on the indices of the enumerations
    None

ASSUME SlotsAssumption == NumSlots \in Nat \ {0} /\ MaxIndex \in Nat
ASSUME UptimesAssumption == Uptimes \subseteq Nat /\ TouchWaits \subseteq Nat

Slots    == 1 .. NumSlots
Accounts == [rp : Rps, user : Users]

ASSUME NoneAssumption == None \notin Hosts \cup Rps \cup Users \cup Accounts

VARIABLES
    slot,                                          \* [Slots -> Accounts or None]
    pinSet, keyOwner, holder,                      \* the session of clientPIN
    g_ga_rp_hash, g_ga_count, g_ga_idx, g_ga_cdh,  \* the walk of GetNextAssertion
    g_enum_rp_idx, g_enum_rp_hash, g_enum_cred_idx,
    reply,       \* to the last command
    \* History: what a walk has shown so far, or None if something happened
    \* after which it need not be complete.
    walk,        \* accounts, since GetAssertion began the walk
    rpsShown,    \* relying parties, since enumerateRPsBegin
    credsShown   \* accounts, since enumerateCredentialsBegin

session == <<pinSet, keyOwner, holder>>
ga      == <<g_ga_rp_hash, g_ga_count, g_ga_idx, g_ga_cdh>>
enum    == <<g_enum_rp_idx, g_enum_rp_hash, g_enum_cred_idx>>
shown   == <<walk, rpsShown, credsShown>>
vars    == <<slot, session, ga, enum, reply, shown>>

Session == INSTANCE PinSession WITH Platforms <- Hosts

Errors  == {"PIN_NOT_SET", "PIN_AUTH_INVALID", "PUAT_REQUIRED", "NO_TOUCH",
            "CREDENTIAL_EXCLUDED", "KEY_STORE_FULL", "NO_CREDENTIALS", "NOT_ALLOWED",
            "INVALID_COMMAND"}
Replies == [cmd : {"none", "query", "MakeCredential", "GetAssertion", "delete", "Reset"},
            status : Errors \cup {"ok"}, account : Accounts \cup {None},
            rp : Rps \cup {None}, cdh : Rps \cup {None},
            received : Nat \cup {None}, erased : Nat \cup {None}]
NoReply == [cmd |-> "none", status |-> "ok", account |-> None, rp |-> None, cdh |-> None,
            received |-> None, erased |-> None]

(* Slots, session, indices and histories have the types of their globals;  *)
(* g_ga_idx stays below g_ga_count while there is a walk.                  *)
TypeOK ==
    /\ slot \in [Slots -> Accounts \cup {None}]
    /\ pinSet \in BOOLEAN /\ keyOwner \in Hosts \cup {None} /\ holder \in {None, keyOwner}
    /\ g_ga_rp_hash \in Rps \cup {None} /\ g_ga_cdh \in Rps \cup {None}
    /\ g_ga_count \in 0 .. NumSlots
    /\ g_ga_idx \in Nat /\ (g_ga_count > 0 => g_ga_idx < g_ga_count)
    /\ g_enum_rp_idx \in 0 .. MaxIndex /\ g_enum_cred_idx \in 0 .. MaxIndex
    /\ g_enum_rp_hash \in Rps \cup {None}
    /\ reply \in Replies
    /\ \A h \in {walk, credsShown} : h # None => h \in Seq(Accounts)
    /\ rpsShown # None => rpsShown \in Seq(Rps)

Init ==
    /\ slot = [s \in Slots |-> None]
    /\ Session!Init
    /\ g_ga_rp_hash = None /\ g_ga_count = 0 /\ g_ga_idx = 0 /\ g_ga_cdh = None
    /\ g_enum_rp_idx = 0 /\ g_enum_rp_hash = None /\ g_enum_cred_idx = 0
    /\ reply = NoReply
    /\ walk = None /\ rpsShown = None /\ credsShown = None

----------------------------------------------------------------------------
(* The functions of flash_passkey.c that read the slots. *)

Used        == {s \in Slots : slot[s] # None}
SlotsOf(rp) == {s \in Used : slot[s].rp = rp}
Stored(rp)  == {slot[s] : s \in SlotsOf(rp)}

(* The element of S with i elements before it. *)
AtIndex(S, i) == CHOOSE s \in S : Cardinality({t \in S : t < s}) = i
First(S)      == AtIndex(S, 0)

passkey_count_for_rp(rp)       == Cardinality(SlotsOf(rp))
passkey_get_by_rp_index(rp, i) ==
    IF i < Cardinality(SlotsOf(rp)) THEN slot[AtIndex(SlotsOf(rp), i)] ELSE None

UniqueRpSlots_every_slot == Used                                     \* mutant

(* The slots that hold the first credential of their relying party. *)
UniqueRpSlots == {s \in Used : \A t \in Used : t < s => slot[t].rp # slot[s].rp}

passkey_count_unique_rps       == Cardinality(UniqueRpSlots)
passkey_get_unique_rp_hash(i)  == slot[AtIndex(UniqueRpSlots, i)].rp

SlotOf(account) == {s \in Used : slot[s] = account}

passkey_save_slots_first(account) == Slots                           \* mutant

passkey_save_slots(account) ==
    IF SlotOf(account) # {} THEN SlotOf(account) ELSE Slots \ Used

----------------------------------------------------------------------------
(* Replies, and what becomes of the histories. *)

Fail(status) == reply' = [NoReply EXCEPT !.cmd = "query", !.status = status]
Succeed(cmd) == reply' = [NoReply EXCEPT !.cmd = cmd]

(* ga_build_response: the account's key signs the hash of the relying      *)
(* party and the challenge.                                                *)
ga_build_response(account, rp, cdh) ==
    reply' = [NoReply EXCEPT !.cmd = "GetAssertion", !.account = account, !.rp = rp, !.cdh = cdh]

(* The slots of a relying party, and the order of the relying parties, are *)
(* what the walks run over: a walk need not be complete once they change.  *)
SlotsKept(rp) == SlotsOf(rp)' = SlotsOf(rp) /\ \A s \in SlotsOf(rp) : slot'[s] = slot[s]
RpsKept       == /\ UniqueRpSlots' = UniqueRpSlots
                 /\ \A s \in UniqueRpSlots : slot'[s].rp = slot[s].rp

ShownKept ==
    /\ walk' = IF SlotsKept(g_ga_rp_hash) THEN walk ELSE None
    /\ rpsShown' = IF RpsKept THEN rpsShown ELSE None
    /\ credsShown' = IF SlotsKept(g_enum_rp_hash) THEN credsShown ELSE None

(* A command that changes nothing but its reply. *)
NoEffect == UNCHANGED <<slot, session, ga, enum, shown>>

----------------------------------------------------------------------------
(* The commands.  A command's pinAuth is "none", "empty", "good" or "bad",  *)
(* as its check finds it: only the holder of the token can send a good one, *)
(* and even that is bad while another protocol is active.                   *)
PinAuths == {"none", "empty", "bad"} \cup (IF holder # None THEN {"good"} ELSE {})

(* pinAuth is missing although the request asks for user verification. *)
PinNeeded == IF pinSet THEN "PUAT_REQUIRED" ELSE "PIN_NOT_SET"

(* What MakeCredential answers before it asks for a touch, or "ok": an     *)
(* empty pinAuth is a probe; "rk" needs pinAuth only on a key with a PIN.  *)
BeforeTouch(auth, opt) ==
    CASE auth = "empty"                        -> IF pinSet THEN "PIN_AUTH_INVALID" ELSE "PIN_NOT_SET"
      [] auth = "bad"                          -> "PIN_AUTH_INVALID"
      [] auth = "none" /\ opt = "uv"           -> PinNeeded
      [] auth = "none" /\ opt = "rk" /\ pinSet -> PinNeeded
      [] OTHER                                 -> "ok"

passkey_save(account) ==
    slot' = [slot EXCEPT ![First(passkey_save_slots(account))] = account]

(* excluded: the excludeList names a stored credential of the same relying *)
(* party.  That, and a full store, are noticed only after the touch.       *)
Register(account, excluded) ==
    \/ /\ excluded /\ Stored(account.rp) # {}
       /\ Fail("CREDENTIAL_EXCLUDED") /\ NoEffect
    \/ /\ ~excluded /\ passkey_save_slots(account) = {}
       /\ Fail("KEY_STORE_FULL") /\ NoEffect
    \/ /\ ~excluded /\ passkey_save_slots(account) # {}
       /\ passkey_save(account)
       /\ Succeed("MakeCredential")
       /\ UNCHANGED <<session, ga, enum>>
       /\ ShownKept

MakeCredential ==
    LET answers == {BeforeTouch(a, o) : a \in PinAuths, o \in {"none", "uv", "rk"}} IN
    \/ \E status \in answers \ {"ok"} : Fail(status) /\ NoEffect
    \/ "ok" \in answers /\ Fail("NO_TOUCH") /\ NoEffect
    \/ /\ "ok" \in answers
       /\ \E account \in Accounts, excluded \in BOOLEAN : Register(account, excluded)

(* The rest of GetAssertion, once an account has been found: pinAuth, which *)
(* needs a clientDataHash, options, touch (unless "up" is false).           *)
AfterLookup(cdh, auth, opt) ==
    CASE auth \in {"empty", "bad"}     -> {"PIN_AUTH_INVALID"}
      [] auth = "good" /\ cdh = None   -> {"PIN_AUTH_INVALID"}
      [] auth = "none" /\ opt = "uv"   -> {PinNeeded}
      [] OTHER                         -> {"ok"} \cup (IF opt = "noUp" THEN {} ELSE {"NO_TOUCH"})

BuildAssertion(account, cdh) ==
    \E status \in UNION {AfterLookup(cdh, a, o) : a \in PinAuths, o \in {"none", "uv", "noUp"}} :
        IF status = "ok" THEN ga_build_response(account, account.rp, cdh) ELSE Fail(status)

ArmWalk_keeps_index(rp, cdh) ==                                      \* mutant
    /\ g_ga_rp_hash' = rp
    /\ g_ga_count' = passkey_count_for_rp(rp)
    /\ g_ga_idx' = g_ga_idx
    /\ g_ga_cdh' = cdh

ArmWalk_after_touch(rp, cdh) ==                                      \* mutant
    /\ g_ga_rp_hash' = rp
    /\ g_ga_count' = passkey_count_for_rp(rp)
    /\ g_ga_idx' = 0
    /\ g_ga_cdh' = IF reply'.status = "ok" THEN cdh ELSE g_ga_cdh

(* The walk is armed before pinAuth and touch are looked at, and stays     *)
(* armed when they fail.                                                   *)
ArmWalk(rp, cdh) ==
    /\ g_ga_rp_hash' = rp
    /\ g_ga_count' = passkey_count_for_rp(rp)
    /\ g_ga_idx' = 0
    /\ g_ga_cdh' = cdh

(* allowList is {} when it is empty or absent.  Its ids that are of no     *)
(* stored credential stand for nothing, which the account None does.       *)
GetAssertion(rp, allowList, cdh) ==
    /\ \/ /\ allowList = {} /\ SlotsOf(rp) = {}
          /\ Fail("NO_CREDENTIALS")
          /\ UNCHANGED <<ga, walk>>
       \/ /\ allowList = {} /\ SlotsOf(rp) # {}
          /\ LET account == passkey_get_by_rp_index(rp, 0) IN
               /\ BuildAssertion(account, cdh)
               /\ walk' = IF reply'.status = "ok" THEN <<account>> ELSE None
          /\ ArmWalk(rp, cdh)
       \/ /\ allowList # {}
          /\ LET listed == {s \in SlotsOf(rp) : slot[s] \in allowList} IN
               \/ listed = {} /\ Fail("NO_CREDENTIALS")
               \/ listed # {} /\ BuildAssertion(slot[First(listed)], cdh)
          /\ g_ga_count' = 0
          /\ walk' = None
          /\ UNCHANGED <<g_ga_rp_hash, g_ga_idx, g_ga_cdh>>
    /\ UNCHANGED <<slot, session, enum, rpsShown, credsShown>>

NextInWalk_index_late == passkey_get_by_rp_index(g_ga_rp_hash, g_ga_idx)  \* mutant
NextInWalk == passkey_get_by_rp_index(g_ga_rp_hash, g_ga_idx + 1)

(* The index moves on before the account is looked up and touched for: a   *)
(* wait that fails passes over an account.                                 *)
GetNextAssertion ==
    /\ \/ /\ g_ga_count = 0 \/ g_ga_idx + 1 >= g_ga_count
          /\ Fail("NO_CREDENTIALS")
          /\ UNCHANGED <<g_ga_idx, walk>>
       \/ /\ g_ga_count > 0 /\ g_ga_idx + 1 < g_ga_count
          /\ g_ga_idx' = g_ga_idx + 1
          /\ \/ /\ NextInWalk = None
                /\ Fail("NO_CREDENTIALS")
                /\ UNCHANGED walk
             \/ /\ NextInWalk # None
                /\ Fail("NO_TOUCH")
                /\ walk' = None
             \/ /\ NextInWalk # None
                /\ ga_build_response(NextInWalk, g_ga_rp_hash, g_ga_cdh)
                /\ walk' = IF walk = None THEN None ELSE Append(walk, NextInWalk)
    /\ UNCHANGED <<slot, session, g_ga_rp_hash, g_ga_count, g_ga_cdh, enum,
                   rpsShown, credsShown>>

----------------------------------------------------------------------------
(* CredentialManagement. *)

(* Once a PIN is set every sub-command needs a good pinAuth, and only the   *)
(* holder of the token has one.                                             *)
CM_Authorized == pinSet => "good" \in PinAuths

CM_Refuse ==
    /\ pinSet
    /\ Fail("PIN_AUTH_INVALID") /\ NoEffect

(* getCredsMetadata, and an unknown sub-command. *)
CM_Query == (Succeed("query") \/ Fail("INVALID_COMMAND")) /\ NoEffect

(* The index is stored before it is compared with what there is.  The hash *)
(* of the relying party shown is where enumerateCredentials finds its own. *)
CM_enumerateRPs(begin) ==
    /\ begin \/ g_enum_rp_idx < MaxIndex
    /\ g_enum_rp_idx' = IF begin THEN 0 ELSE g_enum_rp_idx + 1
    /\ LET before == IF begin THEN <<>> ELSE rpsShown IN
         \/ /\ g_enum_rp_idx' >= passkey_count_unique_rps
            /\ Fail("NO_CREDENTIALS")
            /\ rpsShown' = before
            /\ UNCHANGED g_enum_rp_hash
         \/ /\ g_enum_rp_idx' < passkey_count_unique_rps
            /\ Succeed("query")
            /\ g_enum_rp_hash' = passkey_get_unique_rp_hash(g_enum_rp_idx')
            /\ rpsShown' = IF before = None THEN None ELSE Append(before, g_enum_rp_hash')
    /\ credsShown' = IF g_enum_rp_hash' = g_enum_rp_hash THEN credsShown ELSE None
    /\ UNCHANGED <<slot, session, ga, g_enum_cred_idx, walk>>

CM_CredIndex_not_reset(begin) ==                                     \* mutant
    IF begin THEN g_enum_cred_idx ELSE g_enum_cred_idx + 1
CM_CredIndex(begin) == IF begin THEN 0 ELSE g_enum_cred_idx + 1

(* rph is the rpIDHash of the request, None if it carries no whole one:    *)
(* then the one left by the last enumeration of either kind is used.       *)
CM_enumerateCredentials(begin, rph) ==
    /\ begin \/ g_enum_cred_idx < MaxIndex
    /\ g_enum_cred_idx' = CM_CredIndex(begin)
    /\ g_enum_rp_hash' = IF begin /\ rph # None THEN rph ELSE g_enum_rp_hash
    /\ LET before  == IF begin THEN <<>> ELSE credsShown
           account == passkey_get_by_rp_index(g_enum_rp_hash', g_enum_cred_idx')
       IN \/ /\ account = None
             /\ Fail("NO_CREDENTIALS")
             /\ credsShown' = before
          \/ /\ account # None
             /\ Succeed("query")
             /\ credsShown' = IF before = None THEN None ELSE Append(before, account)
    /\ UNCHANGED <<slot, session, ga, g_enum_rp_idx, walk, rpsShown>>

(* keys are those of the credential descriptor: the code looks its id up   *)
(* under the integer 1, hosts send the text "id".                          *)
CM_deleteCredential(keys, account) ==
    LET named == IF keys = "integer" THEN SlotOf(account) ELSE {} IN
    /\ \/ /\ named = {}
          /\ reply' = [NoReply EXCEPT !.cmd = "delete", !.account = account,
                                      !.status = "NO_CREDENTIALS"]
          /\ UNCHANGED slot
       \/ /\ named # {}
          /\ slot' = [slot EXCEPT ![First(named)] = None]
          /\ reply' = [NoReply EXCEPT !.cmd = "delete", !.account = account]
    /\ UNCHANGED <<session, ga, enum>>
    /\ ShownKept

----------------------------------------------------------------------------
(* The counter of SysTick in millions.  ch32fun clocks it with HCLK / 8,   *)
(* 6 MHz, and it is 64 bits wide.                                          *)
SysTickCNT(uptime) == 6 * uptime

(* authenticatorReset compares the counter when it comes in, waits for the *)
(* touch, in which time no other command runs, and erases the slots and    *)
(* the PIN; the globals of fido2.c and the session of clientPIN stay.      *)
Reset(uptime, wait) ==
    /\ \/ /\ SysTickCNT(uptime) > 480
          /\ Fail("NOT_ALLOWED")
          /\ UNCHANGED <<slot, session>>
       \/ /\ SysTickCNT(uptime) <= 480
          /\ Fail("NO_TOUCH")
          /\ UNCHANGED <<slot, session>>
       \/ /\ SysTickCNT(uptime) <= 480
          /\ slot' = [s \in Slots |-> None]
          /\ Session!FactoryReset
          /\ reply' = [NoReply EXCEPT !.cmd = "Reset", !.received = uptime,
                                      !.erased = uptime + wait]
    /\ UNCHANGED <<ga, enum>>
    /\ ShownKept

(* Commands that change nothing: GetInfo, the touch debug command, and an  *)
(* empty or unknown one.                                                   *)
OtherCommand == (Succeed("query") \/ Fail("INVALID_COMMAND")) /\ NoEffect

(* clientPIN, as PinSession has it. *)
ClientPIN(h) ==
    /\ Session!Agree(h) \/ Session!SetPin(h) \/ Session!Issue(h)
    /\ Succeed("query")
    /\ UNCHANGED <<slot, ga, enum, shown>>

PowerCycle ==
    /\ Session!PowerCycle
    /\ g_ga_rp_hash' = None /\ g_ga_count' = 0 /\ g_ga_idx' = 0 /\ g_ga_cdh' = None
    /\ g_enum_rp_idx' = 0 /\ g_enum_rp_hash' = None /\ g_enum_cred_idx' = 0
    /\ reply' = NoReply
    /\ walk' = None /\ rpsShown' = None /\ credsShown' = None
    /\ UNCHANGED slot

CredentialManagement ==
    \/ CM_Refuse
    \/ /\ CM_Authorized
       /\ \/ CM_Query
          \/ \E begin \in BOOLEAN : CM_enumerateRPs(begin)
          \/ \E rph \in Rps \cup {None} : CM_enumerateCredentials(TRUE, rph)
          \/ CM_enumerateCredentials(FALSE, None)
          \/ \E keys \in {"integer", "text"}, account \in Range(slot) : CM_deleteCredential(keys, account)

Next ==
    \/ MakeCredential
    \/ \E rp \in Rps :
         \E cdh \in {rp, None}, allowList \in {{}} \cup {{a} : a \in Stored(rp) \cup {None}} :
           GetAssertion(rp, allowList, cdh)
    \/ CredentialManagement
    \/ GetNextAssertion
    \/ \E uptime \in Uptimes, wait \in TouchWaits : Reset(uptime, wait)
    \/ OtherCommand
    \/ \E h \in Hosts : ClientPIN(h)
    \/ PowerCycle

Spec == Init /\ [][Next]_vars

----------------------------------------------------------------------------
(* Properties. *)

(* "0x08 getNextAssertion walks the rest": while no wait fails and the     *)
(* slots of the relying party stay, whatever the other hosts do to other   *)
(* slots, to the PIN and to the enumerations, the walk shows no account    *)
(* twice and none of another relying party, and has shown all of them when *)
(* it is at its end.                                                       *)
WalkShowsEachOnce ==
    walk # None =>
        /\ IsInjective(walk)
        /\ Range(walk) \subseteq Stored(g_ga_rp_hash)
        /\ g_ga_idx + 1 >= g_ga_count => Range(walk) = Stored(g_ga_rp_hash)

(* The enumeration of relying parties shows each once and, when its index  *)
(* is past the end, has shown all of them, although the index outlives the *)
(* command and registrations, deletions and enumerations of credentials    *)
(* come between, as long as they leave the order of the relying parties.   *)
EnumeratesRpsOnce ==
    rpsShown # None =>
        /\ IsInjective(rpsShown)
        /\ g_enum_rp_idx >= passkey_count_unique_rps =>
               Range(rpsShown) = {slot[s].rp : s \in Used}

(* The same for the accounts of one relying party, as long as nobody       *)
(* enumerates another relying party in between: both enumerations keep     *)
(* the relying party in g_enum_rp_hash.                                    *)
EnumeratesCredentialsOnce ==
    credsShown # None =>
        /\ IsInjective(credsShown)
        /\ Range(credsShown) \subseteq Stored(g_enum_rp_hash)
        /\ g_enum_cred_idx >= passkey_count_for_rp(g_enum_rp_hash) =>
               Range(credsShown) = Stored(g_enum_rp_hash)

(* An assertion is by a stored account of the relying party it names, and  *)
(* never signs the challenge of another one, although the walk takes       *)
(* relying party and challenge from globals that refused requests set too. *)
SignsOneRequest ==
    [][reply'.cmd = "GetAssertion" =>
         reply'.account \in Stored(reply'.rp) /\ reply'.cdh \in {reply'.rp, None}]_vars

(* An account is lost only to a reset or to a deletion that names it, and  *)
(* once a PIN is set to none without the token; registering another        *)
(* account never costs it its slot.                                        *)
AccountsProtected ==
    [][\A s \in Used : slot'[s] # slot[s] =>
         \/ reply'.cmd = "Reset"
         \/ /\ reply'.cmd = "delete" /\ reply'.account = slot[s]
            /\ pinSet => holder # None]_vars

(* "Must be received within 10 seconds of power up": a reset that erases   *)
(* the key came in within them.  False: the limit is 480 million ticks,    *)
(* which take 80 s.                                                        *)
ResetReceivedInWindow == [][reply'.cmd = "Reset" => reply'.received <= 10]_vars

(* A reset is over, touch included, within the window of 80 s the counter  *)
(* is compared for.  False: the counter is not looked at after the touch.  *)
ResetErasesInWindow == [][reply'.cmd = "Reset" => SysTickCNT(reply'.erased) <= 480]_vars

(* "delete github.com  # remove a site": after a deletion that is not      *)
(* refused for its pinAuth the account it names is no longer stored.       *)
(* False for the deletions hosts send, see CM_deleteCredential.            *)
DeleteForgets == [][reply'.cmd = "delete" => \A s \in Used' : slot'[s] # reply'.account]_vars

=============================================================================
