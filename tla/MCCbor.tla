-------------------------------- MODULE MCCbor --------------------------------
(* The instance of Cbor for TLC: maps of up to three pairs, with integer    *)
(* keys (a request), negative ones (a COSE key) and text keys (an rp or a   *)
(* user), whose values are of every kind and of every size of head, long    *)
(* integers that mislead the walk and texts of over 255 bytes among them.   *)
EXTENDS Cbor

Leaf(c)     == [calls |-> <<c>>, pairs |-> <<>>]
Pair(k, v)  == [k |-> k, v |-> v]
MapOf(ps)   == [calls |-> MapCalls(ps), pairs |-> ps]

id   == <<105, 100>>
name == <<110, 97, 109, 101>>
uv   == <<117, 118>>
up   == <<117, 112>>

Entity  == MapOf(<<Pair(Text(id), Leaf(Lit(30))), Pair(Text(name), Leaf(Lit(3)))>>)
CoseMap == MapOf(<<Pair(Uint(1), Leaf(Uint(2))), Pair(Uint(3), Leaf(Nint(24))),
                   Pair(Nint(0), Leaf(Uint(1))), Pair(Nint(1), Leaf(Bytes(Fill(32)))),
                   Pair(Nint(2), Leaf(Bytes(Fill(31))))>>)
Allow   == [calls |-> <<Array(2), Map(1), Lit(2), Bytes(Fill(32)), Map(1), Lit(2), Bytes(Fill(32))>>,
            pairs |-> <<>>]

Values == {Leaf(Uint(5)), Leaf(Uint(200)), Leaf(Uint(300)), Leaf(Bytes(<<>>)),
           Leaf(Uint(2^28 + 7)), Leaf(Lit(260)), Entity, CoseMap, Allow}
Few    == {Leaf(Lit(30)), Entity}

MapsOver(ks, vals) == {[j \in DOMAIN ks |-> Pair(ks[j], vs[j])] : vs \in [DOMAIN ks -> vals]}
Append3(ms, k) == {Append(m, Pair(k, v)) : m \in ms, v \in Few}

OptionMaps == {MapOf(<<>>)} \cup
              {MapOf(<<Pair(Text(k), Leaf(Bool(b)))>>) : k \in {up, uv}, b \in BOOLEAN} \cup
              {MapOf(<<Pair(Text(up), Leaf(Bool(b))), Pair(Text(uv), Leaf(Bool(c)))>>) : b, c \in BOOLEAN}

WithOptions == {<<Pair(Uint(2), v), Pair(Uint(7), opts), Pair(Uint(8), Leaf(w))>> :
                  v \in Few, opts \in OptionMaps, w \in {Uint(1), Bytes(Fill(32))}}

MCRequests == UNION {Append3(MapsOver(<<Uint(1), Uint(2)>>, Values), Uint(24)),
                     MapsOver(<<Uint(2)>>, Values),
                     MapsOver(<<Uint(1), Nint(1)>>, Values),
                     MapsOver(<<Text(id), Text(name)>>, Values),
                     MapsOver(<<Text(name)>>, Values),
                     WithOptions}

MCMaps == MCRequests \cup {<<>>, Entity.pairs, CoseMap.pairs} \cup {o.pairs : o \in OptionMaps}

MCKeys == [o \in Lookups |->
             CASE o = "neg"   -> {2}
               [] o = "text"  -> {id, name, uv, up}
               [] o = "value" -> {2, 7, 24}
               [] OTHER       -> {1, 2, 24}]

(* 32 bytes: z zeros, the byte b, and filling. *)
Number(z, b) == [j \in 1 .. 32 |-> IF j <= z THEN 0 ELSE IF j = z + 1 THEN b ELSE 161]
MCIntegers == {Number(z, b) : z \in {0, 1, 31}, b \in {1, 128}} \cup {Number(32, 1)}

=============================================================================
