---------------------------- MODULE ClientPinProofs ----------------------------
(***************************************************************************)
(* Proofs about ClientPin for any platforms, protocols, PINs and retries   *)
(* and however many key agreements and tokens.                             *)
(***************************************************************************)
EXTENDS ClientPin, TLAPS

(* Token numbers are fresh: no platform holds one that was not issued. *)
TokensIssued == \A q \in Platforms : platform[q].token <= tokens

(* A live token is held only under the key agreement now in force: it was  *)
(* issued under that agreement, and the next agreement kills it.           *)
TokenHeld ==
    has_pin_token =>
        \A q \in Platforms : platform[q].token = pin_token => platform[q].key = ecdh_key

(* A key agreement belongs to one platform. *)
KeysUnique ==
    /\ \A q \in Platforms : platform[q].key <= keys
    /\ \A q, r \in Platforms : platform[q].key = platform[r].key /\ platform[q].key # 0 => q = r
    /\ has_pin_token => ecdh_key # 0

(* Whoever holds the live token is the one who last proved the PIN. *)
OwnerHolds ==
    pin # None /\ has_pin_token =>
        \A q \in Platforms : platform[q].token = pin_token => q = owner

(* The inductive invariant.  UvByLatestSession and UvByPinOwner speak of   *)
(* the last answer only; TokenHeld and OwnerHolds are what makes the next  *)
(* answer safe, and KeysUnique is why nobody else can replace the PIN      *)
(* while a token is live.                                                  *)
IndInv ==
    /\ TypeOK
    /\ TokensIssued
    /\ TokenHeld
    /\ KeysUnique
    /\ OwnerHolds
    /\ MissesAccounted
    /\ UvByLatestSession
    /\ UvByPinOwner

-----------------------------------------------------------------------------
LEMMA InitIndInv == Init => IndInv
<1> SUFFICES ASSUME Init PROVE IndInv
    OBVIOUS
<1> USE BoundsAssumption DEF Init
<1>1. TypeOK
    <2>1. platform \in [Platforms -> [key : 0 .. MaxKeys, token : 0 .. MaxTokens,
                                      len : {0, 16, 32}]]
        BY SMT
    <2>2. has_pin_token \in BOOLEAN
        BY Zenon
    <2> QED
        BY <2>1, <2>2 DEF TypeOK, Protocols
<1>2. TokensIssued /\ TokenHeld /\ KeysUnique /\ OwnerHolds
    BY DEF TokensIssued, TokenHeld, KeysUnique, OwnerHolds
<1>3. MissesAccounted /\ UvByLatestSession /\ UvByPinOwner
    BY DEF MissesAccounted, UvByLatestSession, UvByPinOwner
<1> QED
    BY <1>1, <1>2, <1>3 DEF IndInv

LEMMA SelectProtocolType ==
    ASSUME TypeOK, NEW p \in Platforms, NEW proto \in NamedProtocols(p), SelectProtocol(proto)
    PROVE  active_pin_protocol' \in Protocols
    BY ProtocolAssumption DEF TypeOK, NamedProtocols, SelectProtocol, Protocols

(* A command that answers and changes nothing but the active protocol.     *)
(* Only a holder of the token may be answered "uv".                        *)
LEMMA RefuseIndInv ==
    ASSUME IndInv, NEW p \in Platforms, NEW status \in Status, NEW shown \in Pins \cup {None},
           Refuse(p, status, shown),
           active_pin_protocol' \in Protocols,
           status = "uv" => HoldsToken(p)
    PROVE  IndInv'
<1> USE DEF IndInv, Refuse, Answer
<1>1. TypeOK'
    BY DEF TypeOK
<1>2. TokensIssued' /\ TokenHeld' /\ KeysUnique' /\ OwnerHolds'
    BY DEF TokensIssued, TokenHeld, KeysUnique, OwnerHolds
<1>3. MissesAccounted'
    BY DEF MissesAccounted
<1>4. UvByLatestSession' /\ UvByPinOwner'
    BY DEF UvByLatestSession, UvByPinOwner, HoldsToken, TokenHeld, OwnerHolds
<1> QED
    BY <1>1, <1>2, <1>3, <1>4

LEMMA FailIndInv ==
    ASSUME IndInv, NEW p \in Platforms, NEW status \in Status,
           Fail(p, status),
           active_pin_protocol' \in Protocols,
           status = "uv" => HoldsToken(p)
    PROVE  IndInv'
    BY RefuseIndInv DEF Fail

LEMMA WrongPinIndInv ==
    ASSUME IndInv, NEW p \in Platforms, NEW shown \in Pins,
           WrongPin(p, shown),
           active_pin_protocol' \in Protocols
    PROVE  IndInv'
<1> USE BoundsAssumption DEF IndInv, WrongPin, Answer, pin_decrement_retries
<1>1. pin' \in [value : Pins, retries : 0 .. MaxRetries] \cup {None}
    BY DEF TypeOK
<1>2. TypeOK'
    BY <1>1 DEF TypeOK, Status
<1>3. TokensIssued' /\ TokenHeld' /\ KeysUnique'
    BY DEF TokensIssued, TokenHeld, KeysUnique
<1>a. OwnerHolds'
    BY DEF OwnerHolds
<1>4. MissesAccounted'
    <2>1. CASE pin = None
        BY <2>1 DEF MissesAccounted
    <2>2. CASE pin # None /\ pin.retries = 0
        BY <2>2 DEF MissesAccounted, TypeOK
    <2>3. CASE pin # None /\ pin.retries # 0
        BY <2>3 DEF MissesAccounted, TypeOK
    <2> QED
        BY <2>1, <2>2, <2>3
<1>5. UvByLatestSession' /\ UvByPinOwner'
    BY DEF UvByLatestSession, UvByPinOwner
<1> QED
    BY <1>2, <1>3, <1>a, <1>4, <1>5

LEMMA NewPinIndInv ==
    ASSUME IndInv, NEW p \in Platforms, NEW new \in Pins, NEW shown \in Pins \cup {None},
           NewPin(p, new, shown), SharedSecret(p), ecdh_key # 0,
           active_pin_protocol' \in Protocols
    PROVE  IndInv'
<1> USE BoundsAssumption, PinsAssumption DEF IndInv, NewPin, Answer, pin_save
<1>1. TypeOK'
    BY DEF TypeOK, Status
<1>2. TokensIssued' /\ TokenHeld' /\ KeysUnique'
    BY DEF TokensIssued, TokenHeld, KeysUnique
<1>a. OwnerHolds'
    BY DEF OwnerHolds, TokenHeld, KeysUnique, SharedSecret
<1>3. MissesAccounted'
    BY DEF MissesAccounted
<1>4. UvByLatestSession' /\ UvByPinOwner'
    BY DEF UvByLatestSession, UvByPinOwner
<1> QED
    BY <1>1, <1>2, <1>a, <1>3, <1>4

(* The new token is held by p alone, whose key agreement is in force. *)
LEMMA IssueTokenIndInv ==
    ASSUME IndInv, NEW p \in Platforms, NEW sub \in Permissions, NEW shown \in Pins,
           IssueToken(p, sub, shown), SharedSecret(p), ecdh_key # 0, pin # None,
           active_pin_protocol' \in Protocols
    PROVE  IndInv'
<1> USE BoundsAssumption DEF IndInv, IssueToken, Answer, pin_reset_retries
<1>a. TokenLen(sub) \in {16, 32}
    BY DEF TokenLen
<1>1. TypeOK'
    <2>1. pin' \in [value : Pins, retries : 0 .. MaxRetries]
        BY DEF TypeOK
    <2>2. platform' \in [Platforms -> [key : 0 .. MaxKeys, token : 0 .. MaxTokens,
                                       len : {0, 16, 32}]]
        <3>1. tokens + 1 \in 0 .. MaxTokens
            BY DEF TypeOK
        <3>2. [platform[p] EXCEPT !.token = tokens + 1, !.len = TokenLen(sub)]
                 \in [key : 0 .. MaxKeys, token : 0 .. MaxTokens, len : {0, 16, 32}]
            BY <1>a, <3>1, ZenonT(60) DEF TypeOK
        <3>3. platform' = [platform EXCEPT ![p] =
                              [platform[p] EXCEPT !.token = tokens + 1, !.len = TokenLen(sub)]]
            BY DEF TypeOK
        <3> QED
            BY <3>2, <3>3 DEF TypeOK
    <2>3. reply' \in [to : Platforms, status : Status, pin : Pins \cup {None}]
        BY DEF Status
    <2> QED
        BY <1>a, <2>1, <2>2, <2>3 DEF TypeOK
<1>2. TokensIssued'
    BY DEF TokensIssued, TypeOK
<1>3. TokenHeld'
    BY DEF TokenHeld, TokensIssued, TypeOK, SharedSecret
<1>b. KeysUnique'
    BY DEF KeysUnique, TypeOK
<1>c. OwnerHolds'
    BY DEF OwnerHolds, TokensIssued, TypeOK
<1>4. MissesAccounted'
    BY DEF MissesAccounted, TypeOK
<1>5. UvByLatestSession' /\ UvByPinOwner'
    BY DEF UvByLatestSession, UvByPinOwner
<1> QED
    BY <1>1, <1>2, <1>3, <1>b, <1>c, <1>4, <1>5

-----------------------------------------------------------------------------
(* One lemma per command. *)

LEMMA getKeyAgreementIndInv ==
    ASSUME IndInv, NEW p \in Platforms, NEW proto \in NamedProtocols(p),
           getKeyAgreement(p, proto)
    PROVE  IndInv'
<1>a. active_pin_protocol' \in Protocols
    BY SelectProtocolType DEF IndInv, getKeyAgreement
<1>1. CASE Fail(p, "UNSUPPORTED_OPTION")
    BY <1>1, <1>a, FailIndInv DEF Status
<1>2. CASE ~ Fail(p, "UNSUPPORTED_OPTION")
    <2> USE <1>2, BoundsAssumption DEF IndInv, getKeyAgreement, Answer
    <2>1. platform' \in [Platforms -> [key : 0 .. MaxKeys, token : 0 .. MaxTokens,
                                       len : {0, 16, 32}]]
        BY DEF TypeOK
    <2>a. has_pin_token' \in BOOLEAN
        BY Zenon DEF Fail, Refuse
    <2>2. TypeOK'
        BY <1>a, <2>1, <2>a DEF TypeOK, Status
    <2>3. TokensIssued'
        BY DEF TokensIssued, TypeOK
    <2>4. TokenHeld' /\ OwnerHolds'
        BY DEF TokenHeld, OwnerHolds
    <2>b. KeysUnique'
        BY DEF KeysUnique, TypeOK
    <2>5. MissesAccounted' /\ UvByLatestSession' /\ UvByPinOwner'
        BY DEF MissesAccounted, UvByLatestSession, UvByPinOwner
    <2> QED
        BY <2>2, <2>3, <2>4, <2>b, <2>5
<1> QED
    BY <1>1, <1>2

LEMMA NotAuthenticatedIndInv ==
    ASSUME IndInv, NEW p \in Platforms, NotAuthenticated(p), active_pin_protocol' \in Protocols
    PROVE  IndInv'
    BY FailIndInv DEF NotAuthenticated, Status

LEMMA setPINIndInv ==
    ASSUME IndInv, NEW p \in Platforms, NEW proto \in NamedProtocols(p),
           NEW auth \in BOOLEAN, NEW new \in Pins \cup {ShortPin},
           setPIN(p, proto, auth, new)
    PROVE  IndInv'
<1>a. active_pin_protocol' \in Protocols
    BY SelectProtocolType DEF IndInv, setPIN, Session
<1>1. ASSUME NEW status \in Status \ {"uv"}, Fail(p, status)
      PROVE  IndInv'
    BY <1>1, <1>a, FailIndInv
<1>2. CASE NewPin(p, new, None) /\ SharedSecret(p) /\ new # ShortPin
    BY <1>2, <1>a, NewPinIndInv DEF setPIN, Session
<1> QED
    BY <1>a, <1>1, <1>2, NotAuthenticatedIndInv DEF setPIN, Status

LEMMA changePINIndInv ==
    ASSUME IndInv, NEW p \in Platforms, NEW proto \in NamedProtocols(p),
           NEW auth \in BOOLEAN, NEW old \in Pins, NEW new \in Pins \cup {ShortPin},
           changePIN(p, proto, auth, old, new)
    PROVE  IndInv'
<1>a. active_pin_protocol' \in Protocols
    BY SelectProtocolType DEF IndInv, changePIN, Session
<1>1. CASE Fail(p, "INVALID")
    BY <1>1, <1>a, FailIndInv DEF Status
<1>2. CASE WrongPin(p, old)
    BY <1>2, <1>a, WrongPinIndInv
<1>3. CASE Refuse(p, "POLICY", old)
    BY <1>3, <1>a, RefuseIndInv DEF Status
<1>4. CASE NewPin(p, new, old) /\ SharedSecret(p) /\ new # ShortPin
    BY <1>4, <1>a, NewPinIndInv DEF changePIN, Session
<1> QED
    BY <1>a, <1>1, <1>2, <1>3, <1>4, NotAuthenticatedIndInv DEF changePIN

LEMMA getPinTokenIndInv ==
    ASSUME IndInv, NEW p \in Platforms, NEW proto \in NamedProtocols(p),
           NEW sub \in Permissions, NEW shown \in Pins,
           getPinToken(p, proto, sub, shown)
    PROVE  IndInv'
<1>a. active_pin_protocol' \in Protocols
    BY SelectProtocolType DEF IndInv, getPinToken, Session
<1>1. ASSUME NEW status \in Status \ {"uv"}, Fail(p, status)
      PROVE  IndInv'
    BY <1>1, <1>a, FailIndInv
<1>2. CASE WrongPin(p, shown)
    BY <1>2, <1>a, WrongPinIndInv
<1>3. CASE IssueToken(p, sub, shown) /\ SharedSecret(p) /\ pin # None
    BY <1>3, <1>a, IssueTokenIndInv DEF getPinToken, Session
<1> QED
    BY <1>1, <1>2, <1>3 DEF getPinToken, Status

(* The commands that only answer. *)
LEMMA AnswersIndInv ==
    ASSUME IndInv, NEW p \in Platforms, NEW proto \in NamedProtocols(p),
           \/ MissingSubCommand(p)
           \/ VerifyPinAuth(p)
           \/ CredentialManagement(p, proto)
           \/ OtherSubCommand(p, proto)
           \/ getPINRetries(p, proto)
           \/ NoSession(p, proto)
           \/ MalformedKeyAgreement(p, proto)
    PROVE  IndInv'
<1>a. active_pin_protocol' \in Protocols
    BY SelectProtocolType DEF IndInv, TypeOK, MissingSubCommand, VerifyPinAuth,
        CredentialManagement, OtherSubCommand, getPINRetries, NoSession,
        MalformedKeyAgreement, Session
<1>1. PICK status \in Status : Fail(p, status) /\ (status = "uv" => HoldsToken(p))
    <2>1. CASE MissingSubCommand(p)
        BY <2>1 DEF MissingSubCommand, Status
    <2>2. CASE VerifyPinAuth(p)
        BY <2>2 DEF VerifyPinAuth, Status
    <2>3. CASE CredentialManagement(p, proto)
        BY <2>3 DEF CredentialManagement, Status
    <2>4. CASE OtherSubCommand(p, proto)
        BY <2>4 DEF OtherSubCommand, Status
    <2>5. CASE getPINRetries(p, proto)
        BY <2>5 DEF getPINRetries, Status
    <2>6. CASE NoSession(p, proto)
        BY <2>6 DEF NoSession, Status
    <2>7. CASE MalformedKeyAgreement(p, proto)
        BY <2>7 DEF MalformedKeyAgreement, Status
    <2> QED
        BY <2>1, <2>2, <2>3, <2>4, <2>5, <2>6, <2>7
<1> QED
    BY <1>a, <1>1, FailIndInv

LEMMA FactoryResetIndInv ==
    ASSUME IndInv, NEW p \in Platforms, FactoryReset(p)
    PROVE  IndInv'
<1> USE BoundsAssumption DEF IndInv, FactoryReset, Answer, device
<1>1. TypeOK'
    BY DEF TypeOK, Status
<1>2. TokensIssued' /\ TokenHeld' /\ KeysUnique' /\ OwnerHolds'
    BY DEF TokensIssued, TokenHeld, KeysUnique, OwnerHolds
<1>3. MissesAccounted' /\ UvByLatestSession' /\ UvByPinOwner'
    BY DEF MissesAccounted, UvByLatestSession, UvByPinOwner
<1> QED
    BY <1>1, <1>2, <1>3

LEMMA PowerCycleIndInv ==
    ASSUME IndInv, PowerCycle
    PROVE  IndInv'
<1> USE BoundsAssumption DEF IndInv, PowerCycle
<1>1. TypeOK'
    <2>1. has_pin_token' \in BOOLEAN
        BY Zenon
    <2>2. tokens \in Nat /\ keys \in Nat
        BY DEF TypeOK
    <2> QED
        BY <2>1, <2>2 DEF TypeOK, Protocols
<1>2. TokensIssued' /\ TokenHeld' /\ KeysUnique' /\ OwnerHolds'
    BY DEF TokensIssued, TokenHeld, KeysUnique, OwnerHolds
<1>3. MissesAccounted' /\ UvByLatestSession' /\ UvByPinOwner'
    BY DEF MissesAccounted, UvByLatestSession, UvByPinOwner
<1> QED
    BY <1>1, <1>2, <1>3

LEMMA NextIndInv ==
    ASSUME IndInv, [Next]_vars
    PROVE  IndInv'
<1>1. CASE UNCHANGED vars
    BY <1>1 DEF IndInv, vars, device, TypeOK, TokensIssued, TokenHeld, KeysUnique, OwnerHolds,
        MissesAccounted, UvByLatestSession, UvByPinOwner
<1>2. CASE PowerCycle
    BY <1>2, PowerCycleIndInv
<1>3. ASSUME NEW p \in Platforms, MissingSubCommand(p) \/ VerifyPinAuth(p)
      PROVE  IndInv'
    <2>1. PICK proto : proto \in NamedProtocols(p)
        BY DEF NamedProtocols
    <2> QED
        BY <1>3, <2>1, AnswersIndInv
<1>4. ASSUME NEW p \in Platforms, NEW proto \in NamedProtocols(p),
             \/ CredentialManagement(p, proto)
             \/ OtherSubCommand(p, proto)
             \/ getPINRetries(p, proto)
             \/ NoSession(p, proto)
             \/ MalformedKeyAgreement(p, proto)
      PROVE  IndInv'
    BY <1>4, AnswersIndInv
<1> QED
    BY <1>1, <1>2, <1>3, <1>4, FactoryResetIndInv, getKeyAgreementIndInv, setPINIndInv,
       changePINIndInv, getPinTokenIndInv
    DEF Next

-----------------------------------------------------------------------------
(* Every reachable state satisfies the inductive invariant. *)
THEOREM Invariance == Spec => []IndInv
<1> QED
    BY InitIndInv, NextIndInv, PTL DEF Spec

(* The session of pin.c and the PIN page always have their types; the      *)
(* retries stay within 0 .. MaxRetries.                                    *)
THEOREM TypeCorrect == Spec => []TypeOK
<1>1. IndInv => TypeOK
    BY DEF IndInv
<1> QED
    BY <1>1, Invariance, PTL

(* Every wrong PIN costs exactly one retry, whatever platforms, power      *)
(* cycles and resets come between.                                         *)
THEOREM RetriesAccounted == Spec => []MissesAccounted
<1>1. IndInv => MissesAccounted
    BY DEF IndInv
<1> QED
    BY <1>1, Invariance, PTL

(* User verification is granted only under the latest key agreement. *)
THEOREM LatestSessionVerified == Spec => []UvByLatestSession
<1>1. IndInv => UvByLatestSession
    BY DEF IndInv
<1> QED
    BY <1>1, Invariance, PTL

(* No token lets a platform verify that has not proved to know the PIN now *)
(* on the key, whatever changes of the PIN the token has outlived.         *)
THEOREM PinOwnerVerified == Spec => []UvByPinOwner
<1>1. IndInv => UvByPinOwner
    BY DEF IndInv
<1> QED
    BY <1>1, Invariance, PTL

(* Retries are regained and the PIN replaced only by presenting the PIN.   *)
THEOREM RetriesRegainedByOwner == Spec => OwnerRegainsRetries
<1>1. IndInv /\ [Next]_vars =>
        [pin # None /\ pin' # None /\ (pin'.value # pin.value \/ pin'.retries > pin.retries) =>
            reply'.status = "ok" /\ reply'.pin = pin.value]_vars
    <2> SUFFICES ASSUME IndInv, Next, pin # None, pin' # None,
                        pin'.value # pin.value \/ pin'.retries > pin.retries
                 PROVE  reply'.status = "ok" /\ reply'.pin = pin.value
        OBVIOUS
    <2>0. pin' # pin
        BY DEF IndInv, TypeOK
    <2>1. ASSUME NEW p, NEW status, NEW shown, Refuse(p, status, shown)
          PROVE  FALSE
        BY <2>0, <2>1 DEF Refuse
    <2>2. ASSUME NEW p, NEW shown, WrongPin(p, shown)
          PROVE  FALSE
        BY <2>2 DEF WrongPin, pin_decrement_retries, IndInv, TypeOK
    <2>3. ASSUME NEW p \in Platforms, NEW proto, getKeyAgreement(p, proto)
          PROVE  FALSE
        BY <2>0, <2>1, <2>3 DEF getKeyAgreement, Fail
    <2>4. ASSUME NEW p \in Platforms, NEW proto, NEW auth, NEW new, setPIN(p, proto, auth, new)
          PROVE  FALSE
        BY <2>4, <2>1 DEF setPIN, NotAuthenticated, Fail
    <2>5. ASSUME NEW p \in Platforms, NEW proto, NEW auth, NEW old, NEW new,
                 changePIN(p, proto, auth, old, new)
          PROVE  reply'.status = "ok" /\ reply'.pin = pin.value
        BY <2>5, <2>1, <2>2 DEF changePIN, NotAuthenticated, Fail, NewPin, IsPin, Answer
    <2>6. ASSUME NEW p \in Platforms, NEW proto, NEW sub, NEW shown,
                 getPinToken(p, proto, sub, shown)
          PROVE  reply'.status = "ok" /\ reply'.pin = pin.value
        BY <2>6, <2>1, <2>2 DEF getPinToken, Fail, IssueToken, IsPin, Answer
    <2>7. ASSUME NEW p \in Platforms,
                 \/ MissingSubCommand(p) \/ VerifyPinAuth(p)
                 \/ \E proto \in NamedProtocols(p) :
                      \/ CredentialManagement(p, proto)
                      \/ OtherSubCommand(p, proto)
                      \/ getPINRetries(p, proto)
                      \/ NoSession(p, proto)
                      \/ MalformedKeyAgreement(p, proto)
          PROVE  FALSE
        BY <2>0, <2>7 DEF MissingSubCommand, VerifyPinAuth, CredentialManagement, OtherSubCommand,
            getPINRetries, NoSession, MalformedKeyAgreement, Fail, Refuse
    <2> QED
        BY <2>0, <2>3, <2>4, <2>5, <2>6, <2>7 DEF Next, FactoryReset, PowerCycle
<1> QED
    BY <1>1, Invariance, PTL DEF Spec, OwnerRegainsRetries

-----------------------------------------------------------------------------
(* The refinement of PinSession. *)

(* Steps that leave keys, token and the presence of a PIN alone stutter. *)
SessionKept ==
    /\ UNCHANGED <<platform, ecdh_key, has_pin_token, pin_token>>
    /\ (pin' # None) = (pin # None)

LEMMA SessionKeptStutters ==
    ASSUME SessionKept
    PROVE  UNCHANGED PS!vars
<1>1. KeyOwner' = KeyOwner /\ Holder' = Holder
    BY DEF SessionKept, KeyOwner, Holder
<1> QED
    BY <1>1 DEF SessionKept, PS!vars

LEMMA KeyOwnerIs ==
    ASSUME IndInv, NEW p \in Platforms, platform[p].key = ecdh_key, ecdh_key # 0
    PROVE  KeyOwner = p
<1>1. \A q \in Platforms : platform[q].key = ecdh_key => q = p
    BY DEF IndInv, KeysUnique
<1> QED
    BY <1>1 DEF KeyOwner

LEMMA RefusalsKeepSession ==
    ASSUME IndInv, NEW p, NEW shown,
           WrongPin(p, shown) \/ \E status : Refuse(p, status, shown)
    PROVE  SessionKept
<1>1. CASE WrongPin(p, shown)
    <2>1. pin = None => pin' = None
        BY <1>1 DEF WrongPin, pin_decrement_retries
    <2>2. pin # None => pin' \in [value : Pins, retries : 0 .. MaxRetries]
        <3>1. CASE pin # None /\ pin.retries = 0
            BY <1>1, <3>1 DEF WrongPin, pin_decrement_retries, IndInv, TypeOK
        <3>2. CASE pin # None /\ pin.retries # 0
            <4>1. pin \in [value : Pins, retries : 0 .. MaxRetries]
                BY <3>2 DEF IndInv, TypeOK
            <4>2. pin' = [pin EXCEPT !.retries = @ - 1]
                BY <1>1, <3>2 DEF WrongPin, pin_decrement_retries
            <4> QED
                BY <3>2, <4>1, <4>2, BoundsAssumption
        <3> QED
            BY <3>1, <3>2
    <2>3. (pin' # None) = (pin # None)
        BY <2>1, <2>2, NoPinAssumption
    <2> QED
        BY <1>1, <2>3 DEF WrongPin, SessionKept
<1>2. ASSUME NEW status, Refuse(p, status, shown)
      PROVE  SessionKept
    BY <1>2 DEF Refuse, SessionKept
<1> QED
    BY <1>1, <1>2

LEMMA AgreeRefines ==
    ASSUME IndInv, IndInv', NEW p \in Platforms, NEW proto, getKeyAgreement(p, proto)
    PROVE  PS!Agree(p) \/ SessionKept
<1>1. CASE Fail(p, "UNSUPPORTED_OPTION")
    BY <1>1, RefusalsKeepSession DEF Fail
<1>2. CASE ~Fail(p, "UNSUPPORTED_OPTION")
    <2>1. /\ has_pin_token' = FALSE /\ pin' = pin
          /\ ecdh_key' = keys + 1 /\ platform' = [platform EXCEPT ![p].key = keys + 1]
        BY <1>2 DEF getKeyAgreement
    <2>2. (platform[p].key = ecdh_key)' /\ (ecdh_key # 0)'
        BY <2>1 DEF IndInv, TypeOK
    <2>3. KeyOwner' = p
        <3>1. \A q \in Platforms : platform'[q].key = ecdh_key' => q = p
            BY <2>2 DEF IndInv, KeysUnique
        <3> QED
            BY <2>2, <3>1 DEF KeyOwner
    <2>4. Holder' = None
        BY <2>1 DEF Holder
    <2> QED
        BY <2>1, <2>3, <2>4 DEF PS!Agree
<1> QED
    BY <1>1, <1>2

LEMMA NewPinRefines ==
    ASSUME IndInv, NEW p \in Platforms, NEW new \in Pins, NEW shown,
           NewPin(p, new, shown), SharedSecret(p), ecdh_key # 0
    PROVE  PS!SetPin(p) \/ SessionKept
<1>1. pin' # None
    BY NoPinAssumption, BoundsAssumption DEF NewPin, pin_save
<1>2. UNCHANGED <<platform, ecdh_key, has_pin_token, pin_token>>
    BY DEF NewPin
<1>3. KeyOwner = p
    BY KeyOwnerIs DEF SharedSecret
<1>4. KeyOwner' = KeyOwner /\ Holder' = Holder
    BY <1>2 DEF KeyOwner, Holder
<1> QED
    BY <1>1, <1>2, <1>3, <1>4 DEF PS!SetPin, SessionKept

LEMMA IssueRefines ==
    ASSUME IndInv, NEW p \in Platforms, NEW sub, NEW shown,
           IssueToken(p, sub, shown), SharedSecret(p), ecdh_key # 0, pin # None
    PROVE  PS!Issue(p)
<1>1. KeyOwner = p
    BY KeyOwnerIs DEF SharedSecret
<1>2. pin' # None
    <2>1. pin' \in [value : Pins, retries : 0 .. MaxRetries]
        BY BoundsAssumption DEF IssueToken, pin_reset_retries, IndInv, TypeOK
    <2> QED
        BY <2>1, NoPinAssumption
<1>3. /\ platform' = [platform EXCEPT ![p].token = tokens + 1, ![p].len = TokenLen(sub)]
      /\ has_pin_token' = TRUE /\ pin_token' = tokens + 1 /\ ecdh_key' = ecdh_key
    BY DEF IssueToken
<1>4. \A q \in Platforms : /\ platform'[q].token = pin_token' <=> q = p
                          /\ platform'[q].key = platform[q].key
    BY <1>3 DEF IndInv, TypeOK, TokensIssued
<1>5. Holder' = p
    BY <1>3, <1>4 DEF Holder
<1>6. KeyOwner' = KeyOwner
    <2>1. \A q \in Platforms : platform'[q].key = ecdh_key' => q = p
        BY <1>3, <1>4 DEF IndInv, KeysUnique, SharedSecret
    <2>2. platform'[p].key = ecdh_key' /\ ecdh_key' # 0
        BY <1>3, <1>4 DEF SharedSecret
    <2>3. KeyOwner' = p
        BY <2>1, <2>2 DEF KeyOwner
    <2> QED
        BY <1>1, <2>3
<1> QED
    BY <1>1, <1>2, <1>5, <1>6 DEF PS!Issue

LEMMA NextRefines ==
    ASSUME IndInv, IndInv', [Next]_vars
    PROVE  [PS!Next]_(PS!vars)
<1>0. CASE SessionKept
    BY <1>0, SessionKeptStutters
<1>1. CASE UNCHANGED vars
    BY <1>1, <1>0 DEF vars, device, SessionKept
<1>2. CASE PowerCycle
    <2>1. KeyOwner' = None /\ Holder' = None /\ pin' = pin
        BY <1>2 DEF PowerCycle, KeyOwner, Holder
    <2> QED
        BY <2>1 DEF PS!Next, PS!PowerCycle
<1>3. ASSUME NEW p \in Platforms, FactoryReset(p)
      PROVE  PS!Next
    <2>1. KeyOwner' = KeyOwner /\ Holder' = Holder /\ pin' = None
        BY <1>3 DEF FactoryReset, device, KeyOwner, Holder
    <2> QED
        BY <2>1 DEF PS!Next, PS!FactoryReset
<1>4. ASSUME NEW p \in Platforms, NEW proto, getKeyAgreement(p, proto)
      PROVE  PS!Next \/ SessionKept
    BY <1>4, AgreeRefines DEF PS!Next
<1>5. ASSUME NEW p \in Platforms, NEW proto, NEW auth, NEW new \in Pins \cup {ShortPin},
             setPIN(p, proto, auth, new)
      PROVE  PS!Next \/ SessionKept
    <2>1. CASE NewPin(p, new, None) /\ SharedSecret(p) /\ new # ShortPin
        BY <1>5, <2>1, NewPinRefines DEF setPIN, Session, PS!Next
    <2>2. CASE \E status : Refuse(p, status, None)
        BY <2>2, RefusalsKeepSession
    <2> QED
        BY <1>5, <2>1, <2>2 DEF setPIN, Fail, NotAuthenticated
<1>6. ASSUME NEW p \in Platforms, NEW proto, NEW auth, NEW old, NEW new \in Pins \cup {ShortPin},
             changePIN(p, proto, auth, old, new)
      PROVE  PS!Next \/ SessionKept
    <2>1. CASE NewPin(p, new, old) /\ SharedSecret(p) /\ new # ShortPin
        BY <1>6, <2>1, NewPinRefines DEF changePIN, Session, PS!Next
    <2>2. CASE WrongPin(p, old) \/ \E status : Refuse(p, status, old)
        BY <2>2, RefusalsKeepSession
    <2>3. CASE \E status : Refuse(p, status, None)
        BY <2>3, RefusalsKeepSession
    <2> QED
        BY <1>6, <2>1, <2>2, <2>3 DEF changePIN, Fail, NotAuthenticated
<1>7. ASSUME NEW p \in Platforms, NEW proto, NEW sub, NEW shown,
             getPinToken(p, proto, sub, shown)
      PROVE  PS!Next \/ SessionKept
    <2>1. CASE IssueToken(p, sub, shown) /\ SharedSecret(p) /\ pin # None
        BY <1>7, <2>1, IssueRefines DEF getPinToken, Session, PS!Next
    <2>2. CASE WrongPin(p, shown)
        BY <2>2, RefusalsKeepSession
    <2>3. CASE \E status : Refuse(p, status, None)
        BY <2>3, RefusalsKeepSession
    <2> QED
        BY <1>7, <2>1, <2>2, <2>3 DEF getPinToken, Fail
<1>8. ASSUME NEW p \in Platforms,
             \/ MissingSubCommand(p) \/ VerifyPinAuth(p)
             \/ \E proto \in NamedProtocols(p) :
                  \/ CredentialManagement(p, proto)
                  \/ OtherSubCommand(p, proto)
                  \/ getPINRetries(p, proto)
                  \/ NoSession(p, proto)
                  \/ MalformedKeyAgreement(p, proto)
      PROVE  SessionKept
    <2>1. \E status : Refuse(p, status, None)
        BY <1>8 DEF MissingSubCommand, VerifyPinAuth, CredentialManagement, OtherSubCommand,
            getPINRetries, NoSession, MalformedKeyAgreement, Fail
    <2> QED
        BY <2>1, RefusalsKeepSession
<1> QED
    BY <1>0, <1>1, <1>2, <1>3, <1>4, <1>5, <1>6, <1>7, <1>8 DEF Next

(* clientPIN keeps the promise of PinSession: whatever refused commands do *)
(* to its flags and protocol numbers, only the platform of the latest key  *)
(* agreement obtains the token, and the next agreement takes it away.      *)
THEOREM SessionImplemented == Spec => ImplementsPinSession
<1>1. Init => PS!Init
    BY DEF Init, PS!Init, KeyOwner, Holder
<1>2. IndInv /\ IndInv' /\ [Next]_vars => [PS!Next]_(PS!vars)
    BY NextRefines
<1> QED
    BY <1>1, <1>2, Invariance, PTL DEF Spec, ImplementsPinSession, PS!Spec

=============================================================================
