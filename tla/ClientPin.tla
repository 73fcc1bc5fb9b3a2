------------------------------- MODULE ClientPin -------------------------------
(***************************************************************************)
(* authenticatorClientPIN of pin.c, used by several platforms (programs of *)
(* the host) that each speak one PIN/UV auth protocol.  The commands run   *)
(* one at a time, but the platforms' command sequences interleave, and the *)
(* session (key agreement, token, active protocol) is one for all of them. *)
(*                                                                         *)
(* Cryptography is ideal: what a platform encrypts or authenticates under  *)
(* (its key agreement, its protocol) reads correctly only under the same   *)
(* pair on the key; anything else decrypts to a PIN nobody has, and no MAC *)
(* matches.  Flash writes are atomic here; FlashStore refines them.        *)
(***************************************************************************)
EXTENDS Naturals

CONSTANTS
    Platforms,
    Protocol,    \* [Platforms -> {1, 2}]: the protocol each of them speaks
    Pins,        \* PINs of at least four bytes
    ShortPin,    \* a new PIN the policy refuses
    MaxRetries,  \* 8
    MaxKeys,     \* bound on the key agreements of a behaviour
    MaxTokens,   \* bound on the tokens issued in a behaviour
    None

ASSUME ProtocolAssumption == Protocol \in [Platforms -> {1, 2}]
ASSUME PlatformsAssumption == None \notin Platforms
ASSUME PinsAssumption == None \notin Pins /\ ShortPin \notin Pins
ASSUME NoPinAssumption == None \notin [value : Pins, retries : 0 .. MaxRetries]
ASSUME BoundsAssumption == MaxRetries \in Nat \ {0} /\ MaxKeys \in Nat /\ MaxTokens \in Nat

Unsupported == 3   \* stands for every protocol number other than 1 and 2
Protocols   == {1, 2, Unsupported}

VARIABLES
    pin,                  \* the PIN page: None, or the PIN and its retries
    active_pin_protocol,
    ecdh_key,             \* 0 until ecdh_key_valid, then the number of the key pair
    keys,                 \* key pairs generated so far
    has_pin_token, pin_token, pin_token_len,
    tokens,               \* tokens generated so far
    platform,             \* what each platform knows
    misses,               \* answers PIN_INVALID since the right PIN or a new PIN
    owner,                \* history: who last set the PIN or presented it for a token
    reply                 \* of the last command: its status, to whom, the PIN presented

device == <<active_pin_protocol, ecdh_key, has_pin_token, pin_token, pin_token_len>>
vars   == <<pin, device, keys, tokens, platform, misses, owner, reply>>

Status == {"ok", "uv", "INVALID", "UNSUPPORTED_OPTION", "MISSING_PARAMETER", "PIN_NOT_SET",
           "PIN_INVALID", "PIN_BLOCKED", "PIN_AUTH_INVALID", "POLICY", "BAD_KEY", "BAD_HASH"}

(* The PIN page and the session of pin.c have their types: the retries     *)
(* never wrap below zero, and the live token is one that was issued.       *)
TypeOK ==
    /\ pin \in [value : Pins, retries : 0 .. MaxRetries] \cup {None}
    /\ active_pin_protocol \in Protocols
    /\ keys \in 0 .. MaxKeys /\ ecdh_key \in 0 .. keys
    /\ tokens \in 0 .. MaxTokens /\ pin_token \in 0 .. tokens
    /\ has_pin_token \in BOOLEAN /\ pin_token_len \in {0, 16, 32}
    /\ platform \in [Platforms -> [key : 0 .. MaxKeys, token : 0 .. MaxTokens,
                                   len : {0, 16, 32}]]
    /\ misses \in 0 .. MaxRetries + 1
    /\ owner \in Platforms \cup {None}
    /\ reply \in [to : Platforms, status : Status, pin : Pins \cup {None}] \cup {None}

Init ==
    /\ pin = None
    /\ active_pin_protocol = 1
    /\ ecdh_key = 0 /\ keys = 0
    /\ has_pin_token = FALSE /\ pin_token = 0 /\ pin_token_len = 0 /\ tokens = 0
    /\ platform = [p \in Platforms |-> [key |-> 0, token |-> 0, len |-> 0]]
    /\ misses = 0
    /\ owner = None
    /\ reply = None

----------------------------------------------------------------------------
(* Every command that names a protocol makes it the active one before it   *)
(* is validated; a command that names none runs under the last one.        *)
SelectProtocol(proto) ==
    active_pin_protocol' = IF proto = None THEN active_pin_protocol ELSE proto

(* What a platform may name: its protocol, none, or an unknown one. *)
NamedProtocols(p) == {Protocol[p], None, Unsupported}

(* shown is the PIN the command presented, None if it presented none. *)
Answer(p, status, shown) == reply' = [to |-> p, status |-> status, pin |-> shown]

Refuse(p, status, shown) ==
    /\ Answer(p, status, shown)
    /\ UNCHANGED <<pin, ecdh_key, has_pin_token, pin_token, pin_token_len,
                   keys, tokens, platform, misses, owner>>

Fail(p, status) == Refuse(p, status, None)

SharedSecret_any_key(p) == Protocol[p] = active_pin_protocol'         \* mutant

(* Whether the key reads what p encrypted: both must hold the same secret. *)
SharedSecret(p) == platform[p].key = ecdh_key /\ Protocol[p] = active_pin_protocol'

IsPin(shown) == pin # None /\ shown = pin.value

pin_decrement_retries_forgotten == UNCHANGED pin                     \* mutant

pin_decrement_retries_wraps ==                                       \* mutant
    pin' = IF pin = None THEN pin ELSE [pin EXCEPT !.retries = (@ + 255) % 256]

pin_decrement_retries ==
    pin' = IF pin = None \/ pin.retries = 0 THEN pin ELSE [pin EXCEPT !.retries = @ - 1]

pin_reset_retries == pin' = [pin EXCEPT !.retries = MaxRetries]

pin_save(new) == pin' = [value |-> new, retries |-> MaxRetries]

(* A PIN was compared and was not the one stored. *)
WrongPin(p, shown) ==
    /\ pin_decrement_retries
    /\ misses' = IF misses > MaxRetries THEN misses ELSE misses + 1
    /\ Answer(p, "PIN_INVALID", shown)
    /\ UNCHANGED <<ecdh_key, has_pin_token, pin_token, pin_token_len, keys, tokens, platform,
                   owner>>

(* A PIN was accepted as the new one.  The session and its token stay. *)
NewPin(p, new, shown) ==
    /\ pin_save(new)
    /\ misses' = 0
    /\ owner' = p
    /\ Answer(p, "ok", shown)
    /\ UNCHANGED <<ecdh_key, has_pin_token, pin_token, pin_token_len, keys, tokens, platform>>

----------------------------------------------------------------------------
(* The sub-commands. *)

(* A request without a subCommand is refused before anything is changed. *)
MissingSubCommand(p) == Fail(p, "INVALID") /\ UNCHANGED active_pin_protocol

OtherSubCommand(p, proto) ==
    /\ SelectProtocol(proto)
    /\ Fail(p, IF active_pin_protocol' = Unsupported THEN "UNSUPPORTED_OPTION" ELSE "INVALID")

getPINRetries(p, proto) ==
    /\ SelectProtocol(proto)
    /\ Fail(p, IF pin = None THEN "PIN_NOT_SET" ELSE "ok")

getKeyAgreement_keeps_token(p, proto) ==                             \* mutant
    /\ SelectProtocol(proto)
    /\ active_pin_protocol' # Unsupported
    /\ keys < MaxKeys
    /\ keys' = keys + 1
    /\ ecdh_key' = keys + 1
    /\ platform' = [platform EXCEPT ![p].key = keys + 1]
    /\ Answer(p, "ok", None)
    /\ UNCHANGED <<pin, has_pin_token, pin_token, pin_token_len, tokens, misses, owner>>

getKeyAgreement(p, proto) ==
    /\ SelectProtocol(proto)
    /\ \/ /\ active_pin_protocol' = Unsupported
          /\ Fail(p, "UNSUPPORTED_OPTION")
       \/ /\ active_pin_protocol' # Unsupported
          /\ keys < MaxKeys
          /\ keys' = keys + 1
          /\ ecdh_key' = keys + 1
          /\ has_pin_token' = FALSE
          /\ platform' = [platform EXCEPT ![p].key = keys + 1]
          /\ Answer(p, "ok", None)
          /\ UNCHANGED <<pin, pin_token, pin_token_len, tokens, misses, owner>>

(* The checks common to the sub-commands that use the shared secret: the   *)
(* protocol, a key agreement before, and a well-formed keyAgreement.  A    *)
(* request that passes them goes on to one of the sub-commands below.      *)
Session(proto) ==
    /\ SelectProtocol(proto)
    /\ active_pin_protocol' # Unsupported
    /\ ecdh_key # 0

NoSession(p, proto) ==
    /\ SelectProtocol(proto)
    /\ \/ /\ active_pin_protocol' = Unsupported
          /\ Fail(p, "UNSUPPORTED_OPTION")
       \/ /\ active_pin_protocol' # Unsupported
          /\ ecdh_key = 0
          /\ Fail(p, "INVALID")

MalformedKeyAgreement(p, proto) ==
    /\ Session(proto)
    /\ \E status \in {"INVALID", "BAD_KEY"} : Fail(p, status)

(* The lengths, then the MAC of what p sends are not what the key expects. *)
NotAuthenticated(p) ==
    /\ ~SharedSecret(p)
    /\ Fail(p, IF Protocol[p] # active_pin_protocol' THEN "INVALID" ELSE "PIN_AUTH_INVALID")

setPIN_replaces(p, proto, auth, new) ==                              \* mutant
    /\ Session(proto)
    /\ auth /\ SharedSecret(p) /\ new # ShortPin
    /\ NewPin(p, new, None)

(* setPIN without pinAuth is refused; with one, only a first PIN is set.   *)
(* A missing newPinEnc is refused before the MAC is compared.              *)
setPIN(p, proto, auth, new) ==
    /\ Session(proto)
    /\ \/ /\ ~auth
          /\ Fail(p, "MISSING_PARAMETER")
       \/ /\ auth /\ pin # None
          /\ Fail(p, "PIN_AUTH_INVALID")
       \/ /\ auth /\ pin = None
          /\ Fail(p, "INVALID")
       \/ /\ auth /\ pin = None
          /\ NotAuthenticated(p)
       \/ /\ auth /\ pin = None
          /\ SharedSecret(p) /\ new = ShortPin
          /\ Fail(p, "POLICY")
       \/ /\ auth /\ pin = None
          /\ SharedSecret(p) /\ new # ShortPin
          /\ NewPin(p, new, None)

(* changePIN compares the old PIN whatever the retries left.  Without a    *)
(* PIN on the key every old PIN is wrong.  ~auth: a parameter is missing.  *)
changePIN(p, proto, auth, old, new) ==
    /\ Session(proto)
    /\ \/ /\ ~auth
          /\ Fail(p, "INVALID")
       \/ /\ auth
          /\ NotAuthenticated(p)
       \/ /\ auth /\ SharedSecret(p)
          /\ ~IsPin(old)
          /\ WrongPin(p, old)
       \/ /\ auth /\ SharedSecret(p)
          /\ IsPin(old) /\ new = ShortPin
          /\ Refuse(p, "POLICY", old)
       \/ /\ auth /\ SharedSecret(p)
          /\ IsPin(old) /\ new # ShortPin
          /\ NewPin(p, new, old)

(* getPinToken carries no MAC.  An encrypted PIN of protocol 1 is too      *)
(* short for protocol 2; one of protocol 2 is long enough for protocol 1,  *)
(* and decrypts to a wrong PIN, as one under another key agreement does.   *)
Permissions == {"getPinToken", "getPinUvAuthTokenUsingPinWithPermissions"}

TokenLen(sub) == IF sub = "getPinToken" /\ active_pin_protocol' = 1 THEN 16 ELSE 32

IssueToken(p, sub, shown) ==
    /\ tokens < MaxTokens
    /\ pin_reset_retries
    /\ misses' = 0
    /\ owner' = p
    /\ tokens' = tokens + 1
    /\ pin_token' = tokens + 1
    /\ has_pin_token' = TRUE
    /\ pin_token_len' = TokenLen(sub)
    /\ platform' = [platform EXCEPT ![p].token = tokens + 1, ![p].len = TokenLen(sub)]
    /\ Answer(p, "ok", shown)
    /\ UNCHANGED <<ecdh_key, keys>>

(* A protocol 2 PIN is 32 bytes, a protocol 1 PIN is 16. *)
LongEnough(p) == Protocol[p] >= active_pin_protocol'

getPinToken(p, proto, sub, shown) ==
    /\ Session(proto)
    /\ \/ Fail(p, "BAD_HASH")   \* no encrypted PIN, or one not LongEnough
       \/ /\ LongEnough(p) /\ pin = None
          /\ Fail(p, "PIN_NOT_SET")
       \/ /\ LongEnough(p) /\ pin # None /\ pin.retries = 0
          /\ Fail(p, "PIN_BLOCKED")
       \/ /\ LongEnough(p) /\ pin # None /\ pin.retries # 0
          /\ ~(SharedSecret(p) /\ IsPin(shown))
          /\ WrongPin(p, shown)
       \/ /\ LongEnough(p) /\ pin # None /\ pin.retries # 0
          /\ SharedSecret(p) /\ IsPin(shown)
          /\ IssueToken(p, sub, shown)

----------------------------------------------------------------------------
(* The commands of fido2.c that use the token, up to that use. *)

HoldsToken(p) ==
    has_pin_token /\ platform[p].token = pin_token /\ platform[p].len = pin_token_len

(* MakeCredential and GetAssertion take pinAuth to be of the protocol last *)
(* selected, whatever protocol the request names.                          *)
VerifyPinAuth(p) ==
    /\ Fail(p, IF HoldsToken(p) /\ Protocol[p] = active_pin_protocol
               THEN "uv" ELSE "PIN_AUTH_INVALID")
    /\ UNCHANGED active_pin_protocol

(* CredentialManagement takes the protocol from the request if it names    *)
(* one, and reads every protocol other than 2 as 1.  It asks for no        *)
(* pinAuth while no PIN is set.                                            *)
CredentialManagement(p, proto) ==
    LET cm_proto == IF proto = None THEN active_pin_protocol ELSE proto
        valid    == HoldsToken(p) /\ Protocol[p] = (IF cm_proto = 2 THEN 2 ELSE 1)
    IN /\ Fail(p, IF pin = None THEN "ok" ELSE IF valid THEN "uv" ELSE "PIN_AUTH_INVALID")
       /\ UNCHANGED active_pin_protocol

(* authenticatorReset erases the PIN page; the session stays. *)
FactoryReset(p) ==
    /\ pin' = None
    /\ misses' = 0
    /\ Answer(p, "ok", None)
    /\ UNCHANGED <<device, keys, tokens, platform, owner>>

(* Only the PIN page survives the loss of power. *)
PowerCycle ==
    /\ active_pin_protocol' = 1
    /\ ecdh_key' = 0
    /\ has_pin_token' = FALSE /\ pin_token' = 0 /\ pin_token_len' = 0
    /\ reply' = None
    /\ UNCHANGED <<pin, keys, tokens, platform, misses, owner>>

Next ==
    \/ \E p \in Platforms :
         \/ MissingSubCommand(p)
         \/ VerifyPinAuth(p)
         \/ FactoryReset(p)
         \/ \E proto \in NamedProtocols(p) :
              \/ OtherSubCommand(p, proto)
              \/ CredentialManagement(p, proto)
              \/ getPINRetries(p, proto)
              \/ getKeyAgreement(p, proto)
              \/ NoSession(p, proto)
              \/ MalformedKeyAgreement(p, proto)
              \/ \E auth \in BOOLEAN, new \in Pins \cup {ShortPin} :
                   \/ setPIN(p, proto, auth, new)
                   \/ \E old \in Pins : changePIN(p, proto, auth, old, new)
              \/ \E sub \in Permissions, shown \in Pins : getPinToken(p, proto, sub, shown)
    \/ PowerCycle

Spec == Init /\ [][Next]_vars

----------------------------------------------------------------------------
(* Properties. *)

(* The retries left are what MaxRetries wrong PINs in a row allow: every   *)
(* answer PIN_INVALID since the PIN was last right or set has cost one     *)
(* retry, in any interleaving of the platforms and across power cycles,    *)
(* and no other answer has.                                                *)
MissesAccounted ==
    pin # None => pin.retries = IF misses < MaxRetries THEN MaxRetries - misses ELSE 0

(* Retries are regained, and the PIN replaced, only by a command that      *)
(* presents the PIN then set.                                              *)
OwnerRegainsRetries ==
    [][pin # None /\ pin' # None /\ (pin'.value # pin.value \/ pin'.retries > pin.retries) =>
         reply'.status = "ok" /\ reply'.pin = pin.value]_vars

(* Once the retries are used up no wrong PIN is compared any more.  False: *)
(* changePIN does not look at the retries, so it goes on telling wrong old *)
(* PINs from the right one, which even gives the retries back.             *)
GuessesBounded == misses <= MaxRetries

(* User verification is granted only to the platform of the latest key     *)
(* agreement, and only for a token issued since: another platform's        *)
(* getKeyAgreement, or a power cycle, ends the use of every earlier token. *)
UvByLatestSession ==
    reply # None /\ reply.status = "uv" =>
        platform[reply.to].key = ecdh_key /\ platform[reply.to].token = pin_token

(* A token outlives the PIN it was issued for: changePIN, authenticatorReset *)
(* and setPIN leave it in place.  Even so user verification never goes to a *)
(* platform that does not know the PIN now on the key: it is the one that   *)
(* last set it, or presented it for a token.                                *)
UvByPinOwner ==
    reply # None /\ reply.status = "uv" /\ pin # None => reply.to = owner

(* The platform of the key agreement in force, and the one whose token is  *)
(* good.                                                                   *)
KeyOwner == IF ecdh_key = 0 THEN None ELSE CHOOSE p \in Platforms : platform[p].key = ecdh_key
Holder   == IF ~has_pin_token THEN None
            ELSE CHOOSE p \in Platforms : platform[p].token = pin_token

PS == INSTANCE PinSession WITH pinSet <- pin # None, keyOwner <- KeyOwner, holder <- Holder

(* The session is the one PinSession promises to the other commands,       *)
(* although it is spread over flags, lengths and protocol numbers that     *)
(* refused commands change too.                                            *)
ImplementsPinSession == PS!Spec

=============================================================================
