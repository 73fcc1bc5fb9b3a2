--------------------------------- MODULE Cbor ---------------------------------
(***************************************************************************)
(* The encoder of cbor.c and the responses fido2.c and pin.c build with    *)
(* it, and the lookups of fido2.c in the maps of a request.                *)
(*                                                                         *)
(* A document is the sequence of encoder calls that writes it, one for     *)
(* each data item: major type, argument, and the bytes of a string.  What  *)
(* the strings say does not matter to either side; their bytes look like   *)
(* the head of a map, so that a walk that strays into one goes astray.     *)
(*                                                                         *)
(* Requests are well formed, without tags (CTAP2 has none), and their      *)
(* integers below 2^30: an argument of more than two bytes has four (the   *)
(* code treats one of eight alike).  skip_cbor_item and the lookups do not *)
(* know such heads; lost records that one of them has been passed.         *)
(***************************************************************************)
EXTENDS Integers, Sequences, SequencesExt

CONSTANTS
    RespBuf,      \* sizeof(ctap_resp_buf) and the capacity cbor_init is given
    CoseRoom,     \* bytes authData has for the public key (77)
    Requests,     \* the maps that are looked up: sequences of pairs
    Maps,         \* those, and the maps in them
    Keys,         \* the keys they are looked up under, for each kind of lookup
    OptionsKey,   \* the key of the map of options
    IdLens, NameLens, RpLens,  \* lengths a stored user id, user name, rp id may have
    Counts,       \* counts of credentials and RPs, retries
    Integers32    \* the values a signature's r and s may have: 32 bytes

Octet == 0 .. 255
Word  == 0 .. 2^16 - 1
Long  == 0 .. 2^30 - 1

ASSUME SizesAssumption == RespBuf \in Nat /\ CoseRoom \in Nat
ASSUME NumbersAssumption == Integers32 \subseteq [1 .. 32 -> 0 .. 255]

(* passkey_save cuts what it stores to these lengths. *)
ASSUME LengthsAssumption ==
    IdLens \subseteq 0 .. 64 /\ NameLens \subseteq 0 .. 32 /\ RpLens \subseteq 0 .. 32 /\ Counts \subseteq Octet

(* The buffers are at least as large as in the code. *)
ASSUME RoomAssumption == RespBuf >= 2^10 /\ CoseRoom >= 77

----------------------------------------------------------------------------
(* cbor.c: the encoder.  A call that does not fit writes nothing, or the   *)
(* head of a string and not its bytes.                                     *)

cbor_init(capacity) == [buffer |-> <<>>, capacity |-> capacity]

HeadBytes(major, val) ==
    CASE val < 24                  -> <<32 * major + val>>
      [] 24 <= val /\ val < 256    -> <<32 * major + 24, val>>
      [] 256 <= val /\ val < 2^16  -> <<32 * major + 25, val \div 256, val % 256>>
      [] OTHER                     -> <<32 * major + 26, val \div 2^24, (val \div 2^16) % 256,
                                       (val \div 256) % 256, val % 256>>

Put_full_is_over(e, bytes) ==                                        \* mutant
    IF Len(e.buffer) + Len(bytes) >= e.capacity
    THEN e
    ELSE [e EXCEPT !.buffer = @ \o bytes]

Put(e, bytes) ==
    IF Len(e.buffer) + Len(bytes) > e.capacity
    THEN e
    ELSE [e EXCEPT !.buffer = @ \o bytes]

cbor_encode_head(e, major, val) == Put(e, HeadBytes(major, val))

cbor_encode(e, call) == Put(cbor_encode_head(e, call.major, call.val), call.body)

Uint(n)   == [major |-> 0, val |-> n, body |-> <<>>]
Nint(n)   == [major |-> 1, val |-> n, body |-> <<>>]           \* -1 - n
Bytes(s)  == [major |-> 2, val |-> Len(s), body |-> s]
Text(s)   == [major |-> 3, val |-> Len(s), body |-> s]
Array(n)  == [major |-> 4, val |-> n, body |-> <<>>]
Map(n)    == [major |-> 5, val |-> n, body |-> <<>>]
Simple(n) == [major |-> 7, val |-> n, body |-> <<>>]
Bool(b)   == Simple(IF b THEN 21 ELSE 20)
Fill(n)   == [k \in 1 .. n |-> 161]
Lit(n)    == Text(Fill(n))                                     \* a literal

(* The encoder after each number of calls. *)
Encoder(capacity, calls) ==
    LET after[n \in 0 .. Len(calls)] ==
          IF n = 0 THEN cbor_init(capacity) ELSE cbor_encode(after[n - 1], calls[n])
    IN  after

Encode(capacity, calls) == Encoder(capacity, calls)[Len(calls)].buffer

----------------------------------------------------------------------------
(* The responses. *)

(* ecdsa_sig_to_der: an integer loses its leading zeros down to the last   *)
(* that keeps it positive, and gets one if it has none.                    *)
Stripped(r) ==
    LET ok(k) == \A j \in 1 .. k : r[j] = 0 /\ r[j + 1] < 128
        n == CHOOSE k \in 0 .. Len(r) - 1 :
               ok(k) /\ \A j \in 0 .. Len(r) - 1 : ok(j) => j <= k
    IN SubSeq(r, n + 1, Len(r))

Padded_never(r) == r                                                 \* mutant
Padded(r) == IF r[1] >= 128 THEN <<0>> \o r ELSE r

DerInteger(r) == LET d == Padded(Stripped(r)) IN <<2, Len(d)>> \o d

ecdsa_sig_to_der(r, s) ==
    LET body == DerInteger(r) \o DerInteger(s) IN <<48, Len(body)>> \o body

GetInfo(pin_set) ==
    <<Map(10),
      Uint(1), Array(2), Lit(8), Lit(8),
      Uint(3), Bytes(Fill(16)),
      Uint(4), Map(6), Lit(2), Bool(TRUE), Lit(2), Bool(TRUE), Lit(9), Bool(pin_set),
               Lit(14), Bool(TRUE), Lit(8), Bool(TRUE), Lit(16), Bool(TRUE),
      Uint(5), Uint(1024),
      Uint(6), Array(2), Uint(1), Uint(2),
      Uint(7), Uint(5),
      Uint(8), Uint(32),
      Uint(9), Array(1), Lit(3),
      Uint(10), Array(1), Map(2), Lit(4), Lit(10), Lit(3), Nint(6),
      Uint(15), Uint(4)>>

CoseKey(alg) ==
    <<Map(5), Uint(1), Uint(2), Uint(3), Nint(alg), Nint(0), Uint(1),
      Nint(1), Bytes(Fill(32)), Nint(2), Bytes(Fill(32))>>

AuthData == Fill(87) \o Encode(CoseRoom, CoseKey(6))

MakeCredential(der) ==
    <<Map(3),
      Uint(1), Lit(6),
      Uint(2), Bytes(AuthData),
      Uint(3), Map(2), Lit(3), Nint(6), Lit(3), Bytes(der)>>

ga_build_response(der, user_id_len, user_name_len, total) ==
    LET have_user == user_id_len > 0
        map_n == 3 + (IF have_user THEN 1 ELSE 0) + (IF total > 1 THEN 1 ELSE 0)
    IN  <<Map(map_n),
          Uint(1), Map(2), Lit(2), Bytes(Fill(32)), Lit(4), Lit(10),
          Uint(2), Bytes(Fill(37)),
          Uint(3), Bytes(der)>>
        \o (IF ~have_user THEN <<>>
            ELSE <<Uint(4), Map(IF user_name_len > 0 THEN 2 ELSE 1), Lit(2), Bytes(Fill(user_id_len))>>
                 \o (IF user_name_len = 0 THEN <<>> ELSE <<Lit(4), Text(Fill(user_name_len))>>))
        \o (IF total > 1 THEN <<Uint(6), Uint(total)>> ELSE <<>>)

CM_getCredsMetadata(count) == <<Map(2), Uint(1), Uint(count), Uint(2), Uint(5)>>

CM_enumerateRPs(begin, rp_id_len, total) ==
    LET rp_display == Lit(IF rp_id_len > 0 THEN rp_id_len ELSE 10)
    IN  <<Map(IF begin THEN 3 ELSE 2),
          Uint(1), Map(2), Lit(2), rp_display, Lit(4), rp_display,
          Uint(2), Bytes(Fill(32))>>
        \o (IF begin THEN <<Uint(3), Uint(total)>> ELSE <<>>)

CM_enumerateCredentials(begin, user_id_len, user_name_len, total) ==
    <<Map(IF begin THEN 3 ELSE 2),
      Uint(1), Map(2), Lit(2), Bytes(Fill(user_id_len)),
               Lit(4), Lit(IF user_name_len > 0 THEN user_name_len ELSE 15),
      Uint(2), Map(2), Lit(2), Bytes(Fill(32)), Lit(4), Lit(10)>>
    \o (IF begin THEN <<Uint(3), Uint(total)>> ELSE <<>>)

getPINRetries(retries) == <<Map(1), Uint(3), Uint(retries)>>
getKeyAgreement        == <<Map(1), Uint(1)>> \o CoseKey(24)
getPinToken(len)       == <<Map(1), Uint(2), Bytes(Fill(len))>>

PlainResponses ==
    UNION {
      {GetInfo(b) : b \in BOOLEAN},
      {CM_getCredsMetadata(c) : c \in Counts},
      {CM_enumerateRPs(b, l, t) : b \in BOOLEAN, l \in RpLens, t \in Counts},
      {CM_enumerateCredentials(b, u, n, t) :
         b \in BOOLEAN, u \in IdLens, n \in NameLens, t \in Counts},
      {getPINRetries(c) : c \in Counts},
      {getKeyAgreement},
      {getPinToken(l) : l \in {16, 32, 48}}}

----------------------------------------------------------------------------
(* Documents. *)

(* What is to be written, if there is room for it. *)
CallBytes(c)   == HeadBytes(c.major, c.val) \o c.body
Written(calls) == FlattenSeq([j \in DOMAIN calls |-> CallBytes(calls[j])])

(* The items still due after each number of calls, starting from one. *)
Announced(c) ==
    CASE c.major = 4 -> c.val
      [] c.major = 5 -> 2 * c.val
      [] OTHER       -> 0

Due(calls) ==
    LET due[n \in 0 .. Len(calls)] ==
          IF n = 0 THEN 1 ELSE due[n - 1] - 1 + Announced(calls[n])
    IN  due

(* Every item a head announces is written, and no other: what is due       *)
(* reaches zero with the last call and not before.                         *)
Balanced(calls) ==
    /\ Due(calls)[Len(calls)] = 0
    /\ \A n \in 0 .. Len(calls) - 1 : Due(calls)[n] > 0

(* The calls that write a map of pairs. *)
PairCalls(p) == <<p.k>> \o p.v.calls
MapCalls(ps) == <<Map(Len(ps))>> \o FlattenSeq([j \in DOMAIN ps |-> PairCalls(ps[j])])

(* A string or an array has no more bytes or items than the buffer; an     *)
(* integer, or a float, may be any.                                        *)
WellFormedCall(c) ==
    /\ c \in [major : 0 .. 7 \ {6}, val : Long, body : Seq(Octet)]
    /\ IF c.major \in {2, 3} THEN Len(c.body) = c.val ELSE c.body = <<>>
    /\ c.major \in {2, 3, 4, 5} => c.val \in Word

(* A key is a number or a short text, a value is one item, and if that is  *)
(* a map its pairs are known.                                              *)
WellFormedKey(k) ==
    WellFormedCall(k) /\ k.val \in Word /\ (k.major \in {0, 1} \/ (k.major = 3 /\ k.val < 256))

WellFormedValue(v) ==
    /\ v.calls \in Seq({v.calls[n] : n \in DOMAIN v.calls})
    /\ \A n \in DOMAIN v.calls : WellFormedCall(v.calls[n])
    /\ Balanced(v.calls)
    /\ IF v.calls[1].major = 5 THEN v.calls = MapCalls(v.pairs) ELSE v.pairs = <<>>

ASSUME MapsAssumption ==
    \A m \in Maps :
      /\ m \in Seq({m[j] : j \in DOMAIN m}) /\ Len(m) \in Word
      /\ \A j \in DOMAIN m : WellFormedKey(m[j].k) /\ WellFormedValue(m[j].v) /\ m[j].v.pairs \in Maps
      /\ \A j, h \in DOMAIN m : m[j].k = m[h].k => j = h

(* A request has come in and so fits the buffer. *)
ASSUME RequestsAssumption ==
    Requests \subseteq Maps /\ \A m \in Requests : Len(Written(MapCalls(m))) <= RespBuf

----------------------------------------------------------------------------
(* The lookups.  Positions in data count from 1. *)

(* A byte of the request.  What lies behind the request in the buffer does *)
(* not matter: no lookup in a well-formed request gets there, unless it is *)
(* lost (see LosesWay), and then nothing is promised.                      *)
ByteAt(data, p) == IF p \in DOMAIN data THEN data[p] ELSE 0

TypeAt(data, p) == ByteAt(data, p) \div 32
VlenAt(data, p) == ByteAt(data, p) % 32

HeaderLen(data, p) ==
    CASE VlenAt(data, p) = 24 -> 2
      [] VlenAt(data, p) = 25 -> 3
      [] OTHER                -> 1

Argument_little_endian(data, p) ==                                   \* mutant
    CASE VlenAt(data, p) = 24 -> ByteAt(data, p + 1)
      [] VlenAt(data, p) = 25 -> ByteAt(data, p + 1) + 256 * ByteAt(data, p + 2)
      [] OTHER                -> VlenAt(data, p)

Argument(data, p) ==
    CASE VlenAt(data, p) = 24 -> ByteAt(data, p + 1)
      [] VlenAt(data, p) = 25 -> 256 * ByteAt(data, p + 1) + ByteAt(data, p + 2)
      [] OTHER                -> VlenAt(data, p)

(* past[<<p, n>>]: the position n items after p, in the data before end. *)
skip_items_map_once(data, end, p, n) ==                              \* mutant
    LET past[q \in Nat \X Nat] ==
          IF q[2] = 0 \/ q[1] >= end THEN q[1]
          ELSE LET body == q[1] + HeaderLen(data, q[1])
                   arg  == Argument(data, q[1])
                   next == CASE TypeAt(data, q[1]) \in {2, 3} -> body + arg
                             [] TypeAt(data, q[1]) \in {4, 5} -> past[<<body, arg>>]
                             [] OTHER                         -> body
               IN  past[<<next, q[2] - 1>>]
    IN  past[<<p, n>>]

skip_items(data, end, p, n) ==
    LET past[q \in Nat \X Nat] ==
          IF q[2] = 0 \/ q[1] >= end THEN q[1]
          ELSE LET body == q[1] + HeaderLen(data, q[1])
                   arg  == Argument(data, q[1])
                   next == CASE TypeAt(data, q[1]) \in {2, 3} -> body + arg
                             [] TypeAt(data, q[1]) = 4        -> past[<<body, arg>>]
                             [] TypeAt(data, q[1]) = 5        -> past[<<body, 2 * arg>>]
                             [] OTHER                         -> body
               IN  past[<<next, q[2] - 1>>]
    IN  past[<<p, n>>]

(* The position of the item after the one at p. *)
skip_cbor_item(data, end, p) == skip_items(data, end, p, 1)

VARIABLES
    pc,
    data,          \* the bytes of the request
    pairs,         \* the map that is looked up: what its bytes stand for
    start, len,    \* its place in data
    op, key,       \* the lookup
    i, offset,     \* pairs walked, and the position of the next
    result,
    lost,          \* history: a head of more than three bytes was passed or read
    resp           \* a response: its calls, its bytes, and its signature

lookup == <<data, pairs, start, len, op, key, i, offset, result, lost>>
vars   == <<pc, lookup, resp>>

Lookups   == {"value", "int", "string", "item", "neg", "text"}
ASSUME KeysAssumption ==
    /\ \A o \in {"value", "int", "string", "item"} : Keys[o] \subseteq 1 .. 255
    /\ Keys["neg"] \subseteq 1 .. 24
    /\ \A k \in Keys["text"] : k \in Seq(Octet) /\ Len(k) < 256

Null      == [found |-> FALSE, ptr |-> 0, len |-> 0, type |-> 0]
NoReply   == [calls |-> <<>>, bytes |-> <<>>, r |-> <<>>, s |-> <<>>, der |-> <<>>]
Positions == 1 .. Len(data) + 1

(* No lookup leaves the bytes of the request, unless it is lost. *)
TypeOK ==
    /\ pc \in {"idle", "walk", "done", "sent"}
    /\ \A p \in DOMAIN data : data[p] \in 0 .. 255
    /\ op \in Lookups \cup {"grep"} /\ lost \in BOOLEAN
    /\ ~lost =>
         /\ start \in Positions /\ start + len \in Positions /\ offset \in Positions
         /\ i \in Word
         /\ result.found /\ op \notin {"int", "value", "neg"} => result.ptr + result.len \in Positions
    /\ Len(resp.bytes) <= RespBuf

Init ==
    /\ pc = "idle"
    /\ data = <<>> /\ pairs = <<>> /\ start = 1 /\ len = 0
    /\ op = "value" /\ key = 0 /\ i = 0 /\ offset = 1 /\ result = Null
    /\ lost = FALSE /\ resp = NoReply

(* A lookup in the map of l bytes at p of d. *)
Enter(d, p, l, o, k) ==
    /\ start' = p /\ len' = l /\ op' = o /\ key' = k
    /\ i' = 0 /\ result' = Null
    /\ IF l = 0 \/ TypeAt(d, p) # 5
       THEN pc' = "done" /\ offset' = p
       ELSE pc' = "walk" /\ offset' = p + HeaderLen(d, p)

Call(m, o, k) ==
    /\ pc = "idle"
    /\ data' = Encode(RespBuf, MapCalls(m))
    /\ pairs' = m
    /\ Enter(data', 1, Len(data'), o, k)
    /\ UNCHANGED <<lost, resp>>

end == start + len

(* The key at offset is the one looked for. *)
current_key ==
    CASE VlenAt(data, offset) = 24 -> ByteAt(data, offset + 1)
      [] VlenAt(data, offset) = 25 -> 0
      [] OTHER                     -> VlenAt(data, offset)

KeyMatches ==
    CASE op = "neg"  -> ByteAt(data, offset) = 32 + key - 1
      [] op = "text" -> /\ TypeAt(data, offset) = 3
                        /\ Argument(data, offset) % 256 = Len(key)
                        /\ LET k == offset + HeaderLen(data, offset)
                           IN  \A n \in DOMAIN key : ByteAt(data, k + n - 1) = key[n]
      [] OTHER       -> TypeAt(data, offset) = 0 /\ current_key = key

Value == skip_cbor_item(data, end, offset)     \* the value of the pair at offset

(* The loop ends without the key: all pairs walked, or no bytes left. *)
Exhausted ==
    \/ i = Argument(data, start)
    \/ (IF op = "text" THEN offset + 1 ELSE offset) >= end
    \/ Value >= end

(* What a lookup makes of the value at v. *)
Found(v) ==
    LET type == TypeAt(data, v)
        arg  == Argument(data, v)
        at   == v + HeaderLen(data, v)
        yes(p, n) == [found |-> TRUE, ptr |-> p, len |-> n, type |-> type]
    IN  CASE op \in {"value", "neg"} -> yes(at, arg)
          [] op = "int"    -> IF type = 0 THEN yes(at, arg) ELSE Null
          [] op = "string" -> [yes(at, arg) EXCEPT !.found = type \in {2, 3}]
          [] op = "text"   -> IF type \in {2, 3} THEN yes(at, arg % 256) ELSE Null
          [] op = "item"   -> yes(v, skip_cbor_item(data, end, v) - v)

(* The value of the pair that is walked next has a head that the code does *)
(* not know; behind it the walk is no longer where the pairs are.          *)
LosesWay == lost \/ \E n \in DOMAIN pairs[i + 1].v.calls : pairs[i + 1].v.calls[n].val \notin Word

StepMatch ==
    /\ pc = "walk"
    /\ ~Exhausted /\ KeyMatches
    /\ result' = Found(Value)
    /\ pc' = "done"
    /\ lost' = LosesWay
    /\ UNCHANGED <<data, pairs, start, len, op, key, i, offset, resp>>

StepSkip ==
    /\ pc = "walk"
    /\ ~Exhausted /\ ~KeyMatches
    /\ offset' = skip_cbor_item(data, end, Value)
    /\ i' = i + 1
    /\ lost' = LosesWay
    /\ UNCHANGED <<pc, data, pairs, start, len, op, key, result, resp>>

(* get_cbor_map_item has no return statement here: its caller gets NULL or *)
(* some address, and the length it had set to 0.                           *)
StepEnd ==
    /\ pc = "walk"
    /\ Exhausted
    /\ pc' = "done"
    /\ \/ result' = Null
       \/ op = "item" /\ result' = [Null EXCEPT !.found = TRUE, !.ptr = start]
    /\ UNCHANGED <<data, pairs, start, len, op, key, i, offset, lost, resp>>

(* The pair of the map with the key of the lookup, if there is one. *)
KeyCall ==
    CASE op = "neg" -> Nint(key - 1)
      [] op \in {"text", "grep"} -> Text(key)
      [] OTHER -> Uint(key)

Named == {j \in DOMAIN pairs : pairs[j].k = KeyCall}
Meant == pairs[CHOOSE j \in Named : TRUE].v

(* A map in a map: the lookup goes on in the item it found. *)
CallInItem(o, k) ==
    /\ pc = "done" /\ op = "item" /\ result.found
    /\ pairs' = IF Named = {} THEN <<>> ELSE Meant.pairs
    /\ Enter(data, result.ptr, result.len, o, k)
    /\ UNCHANGED <<data, lost, resp>>

(* find_cbor_string: an option is searched for from the first byte of the  *)
(* options to the end of the request.                                      *)
find_cbor_string(k) ==
    /\ pc = "done" /\ op = "value" /\ key = OptionsKey /\ result.found
    /\ pairs' = IF Named = {} THEN <<>> ELSE Meant.pairs
    /\ op' = "grep" /\ key' = k
    /\ LET n == Len(k)
           val_idx(p) == p + n + 1
           isBool(p)  == data[val_idx(p)] \in {244, 245}
           hits == {p \in result.ptr .. Len(data) - n :
                      /\ data[p] = 96 + n /\ SubSeq(data, p + 1, p + n) = k
                      /\ val_idx(p) <= Len(data)
                      /\ isBool(p) \/ TypeAt(data, val_idx(p)) \in {2, 3}}
           first == CHOOSE p \in hits : \A h \in hits : p <= h
           at    == val_idx(first)
       IN  result' = IF hits = {} THEN Null
                     ELSE IF isBool(first)
                     THEN [found |-> TRUE, type |-> 7, ptr |-> at, len |-> 1]
                     ELSE [found |-> TRUE, type |-> TypeAt(data, at),
                           ptr |-> at + (IF VlenAt(data, at) = 24 THEN 2 ELSE 1),
                           len |-> IF VlenAt(data, at) = 24 THEN ByteAt(data, at + 1) ELSE VlenAt(data, at)]
    /\ UNCHANGED <<pc, data, start, len, i, offset, lost, resp>>

(* The handler has what it needs and goes on. *)
Return ==
    /\ pc = "done"
    /\ pc' = "idle"
    /\ data' = <<>> /\ pairs' = <<>> /\ start' = 1 /\ len' = 0
    /\ op' = "value" /\ key' = 0 /\ i' = 0 /\ offset' = 1 /\ result' = Null
    /\ lost' = FALSE
    /\ UNCHANGED resp

Reply(calls, r, s, der) ==
    /\ pc = "idle"
    /\ resp' = [calls |-> calls, bytes |-> Encode(RespBuf, calls), r |-> r, s |-> s, der |-> der]
    /\ pc' = "sent"
    /\ UNCHANGED lookup

ReplyPlain == \E calls \in PlainResponses : Reply(calls, <<>>, <<>>, <<>>)

ReplySigned ==
    \E r, s \in Integers32 :
      LET der == ecdsa_sig_to_der(r, s) IN
        \/ Reply(MakeCredential(der), r, s, der)
        \/ \E u \in IdLens, n \in NameLens, t \in Counts :
             Reply(ga_build_response(der, u, n, t), r, s, der)

ctap_send_response ==
    /\ pc = "sent"
    /\ pc' = "idle"
    /\ resp' = NoReply
    /\ UNCHANGED lookup

Next ==
    \/ \E m \in Requests, o \in Lookups : \E k \in Keys[o] : Call(m, o, k)
    \/ StepMatch
    \/ StepSkip
    \/ StepEnd
    \/ \E o \in Lookups \ {"value"} : \E k \in Keys[o] : CallInItem(o, k)
    \/ \E k \in Keys["text"] : find_cbor_string(k)
    \/ Return
    \/ ReplyPlain
    \/ ReplySigned
    \/ ctap_send_response

Spec == Init /\ [][Next]_vars

----------------------------------------------------------------------------
(* Properties. *)

Taken == SubSeq(data, result.ptr, result.ptr + result.len - 1)

(* A lookup finds what the request has under the key, however far down the *)
(* map and whatever values come before it, and nothing where the request   *)
(* has nothing: in particular nothing in an item that is not there.  Two   *)
(* limits of the code are in it.  skip_cbor_item takes a head of five      *)
(* bytes for one of one byte: once such a head has been passed, or is in   *)
(* the value read, nothing is promised (lost).  cbor_map_get_string keeps  *)
(* the length of a string in a byte, so it finds the first bytes of a      *)
(* string, as many as the length modulo 256.                               *)
LookupCorrect ==
    pc = "done" /\ ~lost =>
      IF Named = {}
      THEN result.len = 0 /\ (op # "item" => ~result.found)
      ELSE LET c == Meant.calls[1]
               isString == c.major \in {2, 3}
           IN  CASE op = "item" -> result.found /\ Taken = Encode(RespBuf, Meant.calls)
                 [] op = "int"  -> IF c.major = 0 THEN result.found /\ result.len = c.val
                                   ELSE ~result.found
                 [] op = "string" -> IF isString THEN result.found /\ Taken = c.body
                                     ELSE ~result.found
                 [] op = "text" -> IF isString
                                   THEN result.found /\ Taken = SubSeq(c.body, 1, c.val % 256)
                                   ELSE ~result.found
                 [] op = "grep" -> result.found /\ data[result.ptr] = 224 + c.val
                 [] OTHER -> /\ result.found
                             /\ result.type = c.major /\ result.len = c.val
                             /\ isString => Taken = c.body

(* "Robust text-string value lookup": a text that is there is found and    *)
(* has its length.  False for the two limits above.                        *)
TextLookupRobust ==
    pc = "done" /\ op = "text" /\ Named # {} /\ Meant.calls[1].major = 3 =>
      result.found /\ result.len = Meant.calls[1].val

(* A response is one well-formed item: the number of pairs announced fits  *)
(* the optional ones that were written, nothing was left out for want of   *)
(* room (the public key fills the room of authData to the last byte), and  *)
(* it fits ctap_resp_buf behind the status byte.                           *)
ResponseWhole ==
    pc = "sent" =>
      /\ Balanced(resp.calls) /\ resp.bytes = Written(resp.calls)
      /\ 1 + Len(resp.bytes) <= RespBuf
      /\ SubSeq(AuthData, 88, Len(AuthData)) = Written(CoseKey(6))

(* d is the shortest two's complement of the unsigned number r. *)
IntegerOf(d, r) ==
    LET n == Len(r) - Len(d) IN
    /\ d[1] < 128
    /\ Len(d) > 1 /\ d[1] = 0 => d[2] >= 128
    /\ IF n >= 0 THEN r = [j \in 1 .. n |-> 0] \o d ELSE d = <<0>> \o r

(* The signature the host gets is the DER form of r and s, which is unique,*)
(* for numbers with leading zeros and with the top bit set; it fits the 72 *)
(* bytes of der.                                                           *)
SignatureDer ==
    resp.der # <<>> =>
      LET d == resp.der
          s == 5 + d[4]             \* where the second integer starts
      IN  /\ Len(d) <= 72
          /\ d[1] = 48 /\ d[2] = Len(d) - 2 /\ d[3] = 2 /\ d[s] = 2
          /\ d[s + 1] = Len(d) - s - 1
          /\ IntegerOf(SubSeq(d, 5, s - 1), resp.r)
          /\ IntegerOf(SubSeq(d, s + 2, Len(d)), resp.s)

=============================================================================
