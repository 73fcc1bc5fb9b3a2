------------------------------ MODULE CborProofs ------------------------------
(***************************************************************************)
(* The lookups find what a request holds, the responses are whole, and a   *)
(* signature has its DER form: for every well-formed request, every key,   *)
(* every length of what is stored and every value of the two numbers.      *)
(*                                                                         *)
(* The encoder, the layout of a document and skip_cbor_item are recursive  *)
(* functions.  Induction is first order here: the property is a set and    *)
(* the step a function (Induction, Recursion), so that nothing has to be   *)
(* instantiated with an operator.                                          *)
(***************************************************************************)
EXTENDS Cbor, SequenceTheorems, WellFoundedInduction, TLAPS

-----------------------------------------------------------------------------
(* Induction, and sequences one after the other. *)

(* A set of naturals that is not empty has a least element. *)
LEMMA LeastOf ==
    ASSUME NEW T, T \subseteq Nat, T # {}
    PROVE  \E x \in T : \A y \in T : x <= y
<1> DEFINE R == OpToRel(<, Nat)
<1>1. IsWellFoundedOn(R, Nat)
    BY NatLessThanWellFounded
<1>2. \A x, y \in Nat : x < y => <<x, y>> \in R
    BY DEF OpToRel
<1> HIDE DEF R
<1>3. PICK x \in T : \A y \in T : ~ (<<y, x>> \in R)
    BY <1>1, WFMin
<1>4. \A y \in T : ~ (y < x)
    BY <1>2, <1>3
<1> QED
    BY <1>4

(* Induction up to N, for a property that is given as a set of numbers. *)
LEMMA Induction ==
    ASSUME NEW N \in Nat, NEW S, 0 \in S, \A n \in 1 .. N : n - 1 \in S => n \in S
    PROVE  \A n \in 0 .. N : n \in S
<1> DEFINE T == {n \in 0 .. N : n \notin S}
<1> SUFFICES ASSUME T # {} PROVE FALSE
    OBVIOUS
<1>1. PICK x \in T : \A y \in T : x <= y
    <2>1. T \subseteq Nat
        OBVIOUS
    <2> HIDE DEF T
    <2> QED
        BY <2>1, LeastOf
<1>2. x \in 1 .. N /\ x - 1 \in 0 .. N /\ x - 1 \notin T
    BY <1>1
<1> QED
    BY <1>1, <1>2

(* A function can be defined by recursion up to N. *)
StepsIn(N, S, step) == \A n \in 1 .. N, v \in S : step[<<n, v>>] \in S

Iterates(f, N, base, step) ==
    f[0] = base /\ \A n \in 1 .. N : f[n] = step[<<n, f[n - 1]>>]

(* A function is defined by its value at 0 and a step. *)
LEMMA Recursion ==
    ASSUME NEW N \in Nat, NEW S, NEW base \in S, NEW step, StepsIn(N, S, step)
    PROVE  \E f \in [0 .. N -> S] : Iterates(f, N, base, step)
<1> USE DEF StepsIn
<1> DEFINE Good(m, f) == f[0] = base /\ \A n \in 1 .. m : f[n] = step[<<n, f[n - 1]>>]
           K == {m \in 0 .. N : \E f \in [0 .. m -> S] : Good(m, f)}
<1>1. 0 \in K
    <2> DEFINE g == [n \in 0 .. 0 |-> base]
    <2>1. g \in [0 .. 0 -> S] /\ Good(0, g) /\ 0 \in 0 .. N
        OBVIOUS
    <2> HIDE DEF g, Good
    <2> QED
        BY <2>1
<1>2. ASSUME NEW m \in 1 .. N, m - 1 \in K
      PROVE  m \in K
    <2>1. PICK f \in [0 .. m - 1 -> S] : Good(m - 1, f)
        BY <1>2
    <2> DEFINE g == [n \in 0 .. m |-> IF n = m THEN step[<<m, f[m - 1]>>] ELSE f[n]]
    <2>2. g \in [0 .. m -> S]
        BY <2>1
    <2>3. g[m] = step[<<m, f[m - 1]>>] /\ \A n \in 0 .. m - 1 : g[n] = f[n]
        OBVIOUS
    <2> HIDE DEF g
    <2>4. Good(m, g)
        BY <2>1, <2>3
    <2> QED
        BY <2>2, <2>4
<1>3. N \in K
    <2> HIDE DEF K
    <2> QED
        BY <1>1, <1>2, Induction
<1> QED
    BY <1>3 DEF Iterates

(* FlattenSeq joins its sequences one after the other. *)
LEMMA FlattenIs ==
    ASSUME NEW S, NEW seqs \in Seq(Seq(S))
    PROVE  \E g \in [0 .. Len(seqs) -> Seq(S)] :
              /\ g[0] = <<>>
              /\ \A n \in 1 .. Len(seqs) : g[n] = g[n - 1] \o seqs[n]
              /\ FlattenSeq(seqs) = g[Len(seqs)]
<1> DEFINE N == Len(seqs)
           step == [q \in (1 .. N) \X Seq(S) |-> q[2] \o seqs[q[1]]]
<1>1. N \in Nat /\ \A n \in 1 .. N : seqs[n] \in Seq(S)
    BY LenProperties, ElementOfSeq
<1>2. \A n \in 1 .. N, v \in Seq(S) : step[<<n, v>>] = v \o seqs[n] /\ step[<<n, v>>] \in Seq(S)
    BY <1>1, ConcatProperties
<1>3. <<>> \in Seq(S)
    OBVIOUS
<1> HIDE DEF step
<1>4. PICK g \in [0 .. N -> Seq(S)] :
          g[0] = <<>> /\ \A n \in 1 .. N : g[n] = step[<<n, g[n - 1]>>]
    <2>1. StepsIn(N, Seq(S), step)
        BY <1>2 DEF StepsIn
    <2>2. \E g \in [0 .. N -> Seq(S)] : Iterates(g, N, <<>>, step)
        BY <1>1, <1>3, <2>1, Recursion, Zenon
    <2> QED
        BY <2>2 DEF Iterates
<1>5. \A n \in 1 .. N : g[n] = g[n - 1] \o seqs[n]
    <2>0. \A n \in 1 .. N : n - 1 \in 0 .. N
        BY <1>1
    <2> HIDE DEF N
    <2>1. \A n \in 1 .. N : g[n - 1] \in Seq(S)
        BY <1>4, <2>0
    <2> QED
        BY <1>2, <1>4, <2>1
<1>6. N # 0 => g[1] = seqs[1]
    <2> SUFFICES ASSUME N # 0 PROVE g[1] = seqs[1]
        OBVIOUS
    <2>1. 1 \in 1 .. N /\ 1 - 1 = 0
        BY <1>1
    <2>2. g[1] = <<>> \o seqs[1] /\ seqs[1] \in Seq(S)
        BY <1>1, <1>4, <1>5, <2>1
    <2> QED
        BY <2>2, ConcatEmptySeq
<1>7. CASE N = 0
    <2>1. FlattenSeq(seqs) = seqs
        BY <1>7 DEF FlattenSeq
    <2>2. seqs = <<>>
        BY <1>7, EmptySeq
    <2> QED
        BY <1>1, <1>4, <1>5, <1>7, <2>1, <2>2
<1>8. CASE N # 0
    <2> DEFINE Eq(f) == f = [n \in 1 .. N |-> IF n = 1 THEN seqs[n] ELSE f[n - 1] \o seqs[n]]
               f0 == [n \in 1 .. N |-> g[n]]
               c == CHOOSE f : Eq(f)
    <2>1. Eq(f0)
        <3>1. \A n \in 1 .. N : n # 1 => n - 1 \in 1 .. N
            BY <1>1
        <3>2. \A n \in 1 .. N : f0[n] = g[n]
            OBVIOUS
        <3>3. \A n \in 1 .. N : f0[n] = IF n = 1 THEN seqs[n] ELSE f0[n - 1] \o seqs[n]
            BY <1>5, <1>6, <1>8, <3>1, <3>2
        <3> QED
            BY <3>3
    <2>2. Eq(c)
        <3> HIDE DEF Eq, f0
        <3> QED
            BY <2>1
    <2>3. FlattenSeq(seqs) = c[N]
        BY <1>8 DEF FlattenSeq
    <2> DEFINE K == {n \in 0 .. N : n > 0 => c[n] = g[n]}
    <2> HIDE DEF c
    <2>4. 0 \in K
        BY <1>1
    <2>5. ASSUME NEW n \in 1 .. N, n - 1 \in K
          PROVE  n \in K
        <3>1. c[n] = IF n = 1 THEN seqs[n] ELSE c[n - 1] \o seqs[n]
            BY <2>2
        <3>2. n # 1 => n - 1 > 0 /\ n > 0
            BY <1>1
        <3>3. c[n] = g[n]
            BY <1>5, <1>6, <1>8, <2>5, <3>1, <3>2
        <3> QED
            BY <3>3
    <2>6. N \in K
        <3> HIDE DEF K, N
        <3>1. N \in 0 .. N
            BY <1>1
        <3> QED
            BY <1>1, <2>4, <2>5, <3>1, Induction
    <2>7. c[N] = g[N]
        BY <1>1, <1>8, <2>6
    <2> QED
        BY <1>4, <1>5, <2>3, <2>7
<1> QED
    BY <1>7, <1>8

(* The items of two sequences in their concatenation. *)
LEMMA ConcatAt ==
    ASSUME NEW S, NEW s \in Seq(S), NEW t \in Seq(S)
    PROVE  /\ s \o t \in Seq(S) /\ Len(s) \in Nat /\ Len(t) \in Nat
           /\ Len(s \o t) = Len(s) + Len(t)
           /\ \A k \in 1 .. Len(s) : (s \o t)[k] = s[k]
           /\ \A k \in 1 .. Len(t) : (s \o t)[Len(s) + k] = t[k]
<1>1. Len(s) \in Nat /\ Len(t) \in Nat
    BY LenProperties
<1>2. /\ s \o t \in Seq(S) /\ Len(s \o t) = Len(s) + Len(t)
      /\ \A k \in 1 .. Len(s) + Len(t) : (s \o t)[k] = IF k <= Len(s) THEN s[k] ELSE t[k - Len(s)]
    BY ConcatProperties, Zenon
<1>3. ASSUME NEW k \in 1 .. Len(s)
      PROVE  (s \o t)[k] = s[k]
    <2>1. k \in 1 .. Len(s) + Len(t) /\ k <= Len(s)
        BY <1>1
    <2> QED
        BY <1>2, <2>1, Zenon
<1>4. ASSUME NEW k \in 1 .. Len(t)
      PROVE  (s \o t)[Len(s) + k] = t[k]
    <2> DEFINE at == Len(s) + k
    <2>1. at \in 1 .. Len(s) + Len(t) /\ ~(at <= Len(s)) /\ at - Len(s) = k
        BY <1>1
    <2> HIDE DEF at
    <2>2. (s \o t)[at] = t[k]
        BY <1>2, <2>1, Zenon
    <2> QED
        BY <2>2 DEF at
<1> QED
    BY <1>1, <1>2, <1>3, <1>4

(* t consists of the sequences seqs, and the n-th of them ends at O[n]. *)
Laid(seqs, t, O) ==
    /\ O \in [0 .. Len(seqs) -> Nat] /\ O[0] = 0 /\ O[Len(seqs)] = Len(t)
    /\ \A n \in 0 .. Len(seqs) : O[n] <= Len(t)
    /\ \A n \in 1 .. Len(seqs) :
         /\ O[n] = O[n - 1] + Len(seqs[n])
         /\ \A k \in 1 .. Len(seqs[n]) : t[O[n - 1] + k] = seqs[n][k]

(* Each sequence lies in the flattened one behind those before it. *)
LEMMA FlattenLayout ==
    ASSUME NEW S, NEW seqs \in Seq(Seq(S))
    PROVE  FlattenSeq(seqs) \in Seq(S) /\ \E O : Laid(seqs, FlattenSeq(seqs), O)
<1> DEFINE N == Len(seqs)
<1>1. N \in Nat /\ \A n \in 1 .. N : seqs[n] \in Seq(S)
    BY LenProperties, ElementOfSeq
<1>2. PICK g \in [0 .. N -> Seq(S)] :
          /\ g[0] = <<>>
          /\ \A n \in 1 .. N : g[n] = g[n - 1] \o seqs[n]
          /\ FlattenSeq(seqs) = g[N]
    BY FlattenIs
<1> HIDE DEF N
<1>a. \A n \in 1 .. N : n - 1 \in 0 .. N /\ n \in 0 .. N
    BY <1>1
<1>3. \A n \in 0 .. N : g[n] \in Seq(S) /\ Len(g[n]) \in Nat
    BY <1>2, LenProperties
<1>4. ASSUME NEW n \in 1 .. N
      PROVE  /\ Len(seqs[n]) \in Nat
             /\ Len(g[n]) = Len(g[n - 1]) + Len(seqs[n])
             /\ \A k \in 1 .. Len(g[n - 1]) : g[n][k] = g[n - 1][k]
             /\ \A k \in 1 .. Len(seqs[n]) : g[n][Len(g[n - 1]) + k] = seqs[n][k]
    <2> DEFINE s == g[n - 1]
               u == seqs[n]
    <2>1. s \in Seq(S) /\ u \in Seq(S) /\ g[n] = s \o u
        BY <1>1, <1>2, <1>3, <1>a
    <2> HIDE DEF s, u
    <2>2. /\ s \o u \in Seq(S) /\ Len(s) \in Nat /\ Len(u) \in Nat
          /\ Len(s \o u) = Len(s) + Len(u)
          /\ \A k \in 1 .. Len(s) : (s \o u)[k] = s[k]
          /\ \A k \in 1 .. Len(u) : (s \o u)[Len(s) + k] = u[k]
        BY <2>1, ConcatAt
    <2> QED
        BY <2>1, <2>2, Zenon DEF s, u
<1> DEFINE Prefix(n, m) == /\ Len(g[n]) <= Len(g[m])
                           /\ \A k \in 1 .. Len(g[n]) : g[m][k] = g[n][k]
           K == {m \in 0 .. N : \A n \in 0 .. m : Prefix(n, m)}
<1>5. 0 \in K
    BY <1>1, <1>3
<1>6. ASSUME NEW m \in 1 .. N, m - 1 \in K
      PROVE  m \in K
    <2>1. ASSUME NEW n \in 0 .. m - 1
          PROVE  Prefix(n, m)
        <3>0. n \in 0 .. N /\ m - 1 \in 0 .. N /\ m \in 0 .. N
            BY <1>1
        <3>1. Prefix(n, m - 1)
            BY <1>6
        <3>2. Len(g[n]) \in Nat /\ Len(g[m - 1]) \in Nat /\ Len(g[m]) \in Nat
            BY <1>3, <3>0
        <3>3. /\ Len(seqs[m]) \in Nat /\ Len(g[m]) = Len(g[m - 1]) + Len(seqs[m])
              /\ \A k \in 1 .. Len(g[m - 1]) : g[m][k] = g[m - 1][k]
            BY <1>4
        <3> DEFINE a == Len(g[n])
                   b == Len(g[m - 1])
                   c == Len(seqs[m])
                   d == Len(g[m])
        <3>4. a \in Nat /\ b \in Nat /\ c \in Nat /\ d = b + c /\ a <= b
            BY <3>1, <3>2, <3>3
        <3> HIDE DEF a, b, c, d
        <3>5. a <= d /\ \A k \in 1 .. a : k \in 1 .. b
            BY <3>4
        <3> QED
            BY <3>1, <3>3, <3>5 DEF a, b, d
    <2>2. Prefix(m, m)
        BY <1>3, <1>a
    <2>3. \A n \in 0 .. m : n = m \/ n \in 0 .. m - 1
        BY <1>1
    <2> HIDE DEF Prefix
    <2> QED
        BY <1>a, <2>1, <2>2, <2>3
<1>7. \A n \in 0 .. N : Prefix(n, N)
    <2>1. N \in 0 .. N
        BY <1>1
    <2>2. N \in K
        <3> HIDE DEF K
        <3> QED
            BY <1>1, <1>5, <1>6, <2>1, Induction
    <2> QED
        BY <2>2
<1> DEFINE O == [n \in 0 .. N |-> Len(g[n])]
<1>8. /\ O \in [0 .. N -> Nat] /\ O[0] = 0 /\ O[N] = Len(g[N])
      /\ \A n \in 1 .. N : O[n] = Len(g[n]) /\ O[n - 1] = Len(g[n - 1])
    <2>1. O \in [0 .. N -> Nat] /\ \A n \in 0 .. N : O[n] = Len(g[n])
        BY <1>3
    <2>2. 0 \in 0 .. N /\ N \in 0 .. N /\ Len(<<>>) = 0
        BY <1>1, EmptySeq
    <2> HIDE DEF O
    <2> QED
        BY <1>2, <1>a, <2>1, <2>2
<1>9. ASSUME NEW n \in 1 .. N
      PROVE  /\ O[n] = O[n - 1] + Len(seqs[n])
             /\ \A k \in 1 .. Len(seqs[n]) : g[N][O[n - 1] + k] = seqs[n][k]
    <2> HIDE DEF O
    <2>1. O[n] = Len(g[n]) /\ O[n - 1] = Len(g[n - 1])
        BY <1>8
    <2>2. ASSUME NEW k \in 1 .. Len(seqs[n])
          PROVE  g[N][Len(g[n - 1]) + k] = seqs[n][k]
        <3>0. Len(g[n - 1]) \in Nat /\ Len(seqs[n]) \in Nat /\ Len(g[n]) = Len(g[n - 1]) + Len(seqs[n])
            BY <1>3, <1>4, <1>a
        <3>1. Len(g[n - 1]) + k \in 1 .. Len(g[n])
            <4> DEFINE a == Len(g[n - 1])
                       b == Len(seqs[n])
                       c == Len(g[n])
            <4>1. a \in Nat /\ b \in Nat /\ c = a + b /\ k \in 1 .. b
                BY <3>0
            <4> HIDE DEF a, b, c
            <4>2. a + k \in 1 .. c
                BY <4>1
            <4> QED
                BY <4>2 DEF a, c
        <3>2. g[N][Len(g[n - 1]) + k] = g[n][Len(g[n - 1]) + k]
            BY <1>7, <1>a, <3>1
        <3> QED
            BY <1>4, <3>2
    <2> QED
        BY <1>4, <2>1, <2>2
<1>10. Laid(seqs, g[N], O)
    <2>1. \A n \in 0 .. N : O[n] <= Len(g[N])
        BY <1>7
    <2> HIDE DEF O
    <2> QED
        BY <1>8, <1>9, <2>1 DEF Laid, N
<1>11. g[N] \in Seq(S)
    BY <1>1, <1>3
<1> QED
    BY <1>2, <1>10, <1>11

-----------------------------------------------------------------------------
(* The DER form of a signature. *)

Numbers == [1 .. 32 -> Octet]

(* The first k bytes of r can go: they are zero, and so is the top bit of  *)
(* what follows each.                                                      *)
CanGo(r, k) == \A j \in 1 .. k : r[j] = 0 /\ r[j + 1] < 128

(* n is the number of bytes ecdsa_sig_to_der takes from the front of r. *)
GoesTo(r, n) ==
    /\ n \in 0 .. 31 /\ CanGo(r, n)
    /\ n < 31 => ~ (r[n + 1] = 0 /\ r[n + 2] < 128)

(* A number of a signature is a sequence of 32 bytes. *)
LEMMA NumberIsSeq ==
    ASSUME NEW r \in Numbers
    PROVE  r \in Seq(Nat) /\ Len(r) = 32 /\ \A j \in 1 .. 32 : r[j] \in Nat
<1>2. r \in [1 .. 32 -> Nat]
    <2>1. Octet \subseteq Nat
        BY DEF Octet
    <2> HIDE DEF Octet
    <2> QED
        BY <2>1 DEF Numbers
<1>1. \A j \in 1 .. 32 : r[j] \in Nat
    BY <1>2
<1> DEFINE n == 32
<1>3. n \in Nat /\ r \in [1 .. n -> Nat]
    BY <1>2
<1> HIDE DEF n
<1>4. r \in Seq(Nat) /\ Len(r) = n
    BY <1>3
<1> QED
    BY <1>1, <1>4 DEF n

(* There is one such number of bytes, and it is the one that is chosen. *)
LEMMA StrippedIs ==
    ASSUME NEW r \in Numbers
    PROVE  \E n : GoesTo(r, n) /\ Stripped(r) = SubSeq(r, n + 1, 32)
<1> DEFINE Stops == {j \in 1 .. 31 : ~ (r[j] = 0 /\ r[j + 1] < 128)} \cup {32}
           P(k) == CanGo(r, k) /\ \A j \in 0 .. 31 : CanGo(r, j) => j <= k
           n == CHOOSE k \in 0 .. 31 : P(k)
<1>0. Stops \subseteq Nat /\ Stops # {}
    OBVIOUS
<1>1. PICK x \in Stops : \A y \in Stops : x <= y
    <2> HIDE DEF Stops
    <2> QED
        BY <1>0, LeastOf
<1>2. x - 1 \in 0 .. 31 /\ CanGo(r, x - 1)
    BY <1>1 DEF CanGo
<1>3. ASSUME NEW j \in 0 .. 31, CanGo(r, j)
      PROVE  j <= x - 1
    <2>1. x <= 31 => ~ (x <= j)
        BY <1>1, <1>3 DEF CanGo
    <2> QED
        BY <1>2, <2>1
<1>4. P(x - 1)
    BY <1>2, <1>3
<1>5. n \in 0 .. 31 /\ P(n)
    <2> HIDE DEF P
    <2> QED
        BY <1>2, <1>4
<1>6. n < 31 => ~ (r[n + 1] = 0 /\ r[n + 2] < 128)
    <2> HIDE DEF n
    <2> SUFFICES ASSUME n < 31, r[n + 1] = 0, r[n + 2] < 128
                 PROVE  FALSE
        OBVIOUS
    <2>1. n + 1 \in 0 .. 31 /\ CanGo(r, n + 1)
        BY <1>5 DEF CanGo
    <2> QED
        BY <1>5, <2>1
<1>7. Stripped(r) = SubSeq(r, n + 1, 32)
    <2>1. Len(r) = 32
        BY NumberIsSeq
    <2>2. Len(r) - 1 = 31
        BY <2>1
    <2> QED
        BY <2>1, <2>2, Zenon DEF Stripped, CanGo
<1> QED
    BY <1>5, <1>6, <1>7 DEF GoesTo

(* d is a DER integer of at most 33 bytes, of r. *)
Encodes(d, r) == d \in Seq(Nat) /\ Len(d) \in 1 .. 33 /\ IntegerOf(d, r)

(* Stripping and padding a number gives the shortest form that is not      *)
(* negative.                                                               *)
LEMMA PaddedEncodes ==
    ASSUME NEW r \in Numbers
    PROVE  Encodes(Padded(Stripped(r)), r)
<1>1. PICK n : GoesTo(r, n) /\ Stripped(r) = SubSeq(r, n + 1, 32)
    BY StrippedIs
<1> DEFINE d == Stripped(r)
<1>2. n \in 0 .. 31
    BY <1>1 DEF GoesTo
<1>a. \A j \in 1 .. n : r[j] = 0 /\ r[j + 1] < 128
    BY <1>1 DEF GoesTo, CanGo
<1>b. n < 31 => ~ (r[n + 1] = 0 /\ r[n + 2] < 128)
    BY <1>1 DEF GoesTo
<1>3. r \in Seq(Nat) /\ Len(r) = 32
    BY NumberIsSeq
<1>c. \A j \in 1 .. 32 : r[j] \in Nat
    BY NumberIsSeq
<1>4. /\ d \in Seq(Nat) /\ Len(d) = 32 - n
      /\ \A k \in 1 .. 32 - n : d[k] = r[n + k]
    <2>1. \A k \in n + 1 .. 32 : r[k] \in Nat
        BY <1>2, <1>c
    <2>2. /\ SubSeq(r, n + 1, 32) \in Seq(Nat)
          /\ Len(SubSeq(r, n + 1, 32)) = IF n + 1 <= 32 THEN 32 - (n + 1) + 1 ELSE 0
          /\ \A k \in 1 .. 32 - (n + 1) + 1 : SubSeq(r, n + 1, 32)[k] = r[(n + 1) + k - 1]
        BY <1>2, <2>1, SubSeqProperties
    <2>3. n + 1 <= 32 /\ 32 - (n + 1) + 1 = 32 - n /\ \A k \in 1 .. 32 - n : (n + 1) + k - 1 = n + k
        BY <1>2
    <2> QED
        BY <1>1, <2>2, <2>3
<1> HIDE DEF d
<1>5. CASE d[1] >= 128
    <2>1. n = 0
        <3> SUFFICES ASSUME n # 0 PROVE FALSE
            OBVIOUS
        <3>0. n \in 1 .. n /\ 1 \in 1 .. 32 - n
            BY <1>2
        <3>1. n \in 1 .. n /\ d[1] = r[n + 1]
            BY <1>4, <3>0, Zenon
        <3>2. r[n + 1] < 128
            BY <1>a, <3>1
        <3>3. r[n + 1] \in Nat
            BY <1>2, <1>c
        <3> QED
            BY <1>5, <3>1, <3>2, <3>3
    <2>2. d = r
        <3>1. Len(d) = Len(r) /\ \A k \in 1 .. Len(d) : d[k] = r[k]
            BY <1>2, <1>3, <1>4, <2>1
        <3> QED
            BY <1>3, <1>4, <3>1, SeqEqual
    <2> DEFINE p == <<0>> \o r
    <2>3. p \in Seq(Nat) /\ Len(p) = 33 /\ p[1] = 0 /\ p[2] = r[1]
        <3>1. <<0>> \in Seq(Nat) /\ Len(<<0>>) = 1 /\ <<0>>[1] = 0
            OBVIOUS
        <3>2. /\ p \in Seq(Nat) /\ Len(p) = 1 + 32
              /\ \A k \in 1 .. 1 + 32 : p[k] = IF k <= 1 THEN <<0>>[k] ELSE r[k - 1]
            <4> HIDE DEF p
            <4>1. /\ <<0>> \o r \in Seq(Nat) /\ Len(<<0>> \o r) = Len(<<0>>) + Len(r)
                  /\ \A k \in 1 .. Len(<<0>>) + Len(r) :
                       (<<0>> \o r)[k] = IF k <= Len(<<0>>) THEN <<0>>[k] ELSE r[k - Len(<<0>>)]
                BY <1>3, <3>1, ConcatProperties, ZenonT(60)
            <4> QED
                BY <1>3, <3>1, <4>1, Zenon DEF p
        <3> QED
            BY <3>1, <3>2
    <2>4. Padded(d) = p
        BY <1>5, <2>2 DEF Padded
    <2> HIDE DEF p
    <2>5. IntegerOf(p, r)
        <3>1. p[1] < 128 /\ p[2] >= 128 /\ Len(r) - Len(p) = -1
            BY <1>3, <1>5, <2>2, <2>3
        <3> QED
            BY <3>1 DEF IntegerOf, p
    <2> QED
        BY <2>3, <2>4, <2>5 DEF Encodes, d
<1>6. CASE ~ (d[1] >= 128)
    <2>1. Padded(d) = d
        BY <1>6 DEF Padded
    <2>2. d[1] = r[n + 1] /\ d[1] \in Nat /\ d[1] < 128
        <3>1. 1 \in 1 .. 32 - n /\ n + 1 \in 1 .. 32
            BY <1>2
        <3>2. d[1] = r[n + 1] /\ r[n + 1] \in Nat
            BY <1>4, <1>c, <3>1
        <3> QED
            BY <1>6, <3>2
    <2>3. Len(d) > 1 /\ d[1] = 0 => d[2] >= 128
        <3> SUFFICES ASSUME Len(d) > 1, d[1] = 0
                     PROVE  d[2] >= 128
            OBVIOUS
        <3>1. n < 31 /\ d[2] = r[n + 2] /\ r[n + 2] \in Nat
            <4>1. n < 31
                BY <1>2, <1>4
            <4>2. 2 \in 1 .. 32 - n /\ n + 2 \in 1 .. 32
                BY <1>2, <4>1
            <4> QED
                BY <1>4, <1>c, <4>1, <4>2
        <3> QED
            BY <1>b, <2>2, <3>1
    <2> DEFINE zeros == [j \in 1 .. n |-> 0]
    <2>4. zeros \in Seq(Nat) /\ Len(zeros) = n /\ \A j \in 1 .. n : zeros[j] = 0
        <3>1. n \in Nat /\ zeros \in [1 .. n -> Nat]
            BY <1>2
        <3> QED
            BY <3>1
    <2> HIDE DEF zeros
    <2>5. /\ zeros \o d \in Seq(Nat) /\ Len(zeros \o d) = n + (32 - n)
          /\ \A k \in 1 .. n + (32 - n) : (zeros \o d)[k] = IF k <= n THEN zeros[k] ELSE d[k - n]
        <3>1. /\ zeros \o d \in Seq(Nat) /\ Len(zeros \o d) = Len(zeros) + Len(d)
              /\ \A k \in 1 .. Len(zeros) + Len(d) :
                   (zeros \o d)[k] = IF k <= Len(zeros) THEN zeros[k] ELSE d[k - Len(zeros)]
            BY <1>4, <2>4, ConcatProperties, Zenon
        <3> QED
            BY <1>4, <2>4, <3>1, Zenon
    <2>6. Len(zeros \o d) = Len(r)
        BY <1>2, <1>3, <2>5
    <2>7. \A k \in 1 .. Len(r) : r[k] = (zeros \o d)[k]
        <3>1. ASSUME NEW k \in 1 .. 32
              PROVE  r[k] = (zeros \o d)[k]
            <4>a. k \in 1 .. n + (32 - n)
                BY <1>2
            <4>0. (zeros \o d)[k] = IF k <= n THEN zeros[k] ELSE d[k - n]
                BY <2>5, <4>a, Zenon
            <4>1. CASE k <= n
                <5>1. k \in 1 .. n
                    BY <1>2, <4>1
                <5> QED
                    BY <1>a, <2>4, <4>0, <4>1, <5>1
            <4>2. CASE ~ (k <= n)
                <5>1. k - n \in 1 .. 32 - n /\ n + (k - n) = k
                    BY <1>2, <4>2
                <5> QED
                    BY <1>4, <4>0, <4>2, <5>1
            <4> QED
                BY <4>1, <4>2
        <3> QED
            BY <1>3, <3>1
    <2>8. r = zeros \o d
        BY <1>3, <2>5, <2>6, <2>7, SeqEqual
    <2>9. Len(r) - Len(d) = n /\ n >= 0
        BY <1>2, <1>3, <1>4
    <2>10. IntegerOf(d, r)
        BY <2>2, <2>3, <2>8, <2>9 DEF IntegerOf, zeros
    <2> QED
        <3>0. Len(d) = 32 - n
            BY <1>4
        <3>1. Len(d) \in 1 .. 33
            BY <1>2, <3>0
        <3>2. Encodes(Padded(d), r)
            BY <1>4, <2>1, <2>10, <3>1, Zenon DEF Encodes
        <3> QED
            BY <3>2 DEF d
<1> QED
    BY <1>5, <1>6

(* What a sequence of bytes after two others reads. *)
LEMMA Joined ==
    ASSUME NEW x, NEW y, NEW d \in Seq(Nat), x \in Nat, y \in Nat
    PROVE  /\ <<x, y>> \o d \in Seq(Nat)
           /\ Len(<<x, y>> \o d) = 2 + Len(d)
           /\ (<<x, y>> \o d)[1] = x /\ (<<x, y>> \o d)[2] = y
           /\ \A k \in 1 .. Len(d) : (<<x, y>> \o d)[2 + k] = d[k]
<1> DEFINE h == <<x, y>>
<1>1. h \in Seq(Nat) /\ Len(h) = 2 /\ h[1] = x /\ h[2] = y
    OBVIOUS
<1>2. Len(d) \in Nat
    BY LenProperties
<1> HIDE DEF h
<1>3. /\ h \o d \in Seq(Nat) /\ Len(h \o d) = Len(h) + Len(d)
      /\ \A k \in 1 .. Len(h) + Len(d) : (h \o d)[k] = IF k <= Len(h) THEN h[k] ELSE d[k - Len(h)]
    BY <1>1, ConcatProperties, Zenon
<1>4. 1 \in 1 .. Len(h) + Len(d) /\ 2 \in 1 .. Len(h) + Len(d) /\ 1 <= Len(h) /\ 2 <= Len(h)
    BY <1>1, <1>2
<1>5. (h \o d)[1] = x /\ (h \o d)[2] = y
    BY <1>1, <1>3, <1>4, Zenon
<1>6. ASSUME NEW k \in 1 .. Len(d)
      PROVE  (h \o d)[2 + k] = d[k]
    <2> DEFINE at == 2 + k
    <2>1. at \in 1 .. Len(h) + Len(d) /\ ~ (at <= Len(h)) /\ at - Len(h) = k
        BY <1>1, <1>2
    <2> HIDE DEF at
    <2>2. (h \o d)[at] = d[at - Len(h)]
        BY <1>3, <2>1
    <2> QED
        BY <2>1, <2>2 DEF at
<1>7. Len(h \o d) = 2 + Len(d)
    BY <1>1, <1>3
<1> QED
    BY <1>3, <1>5, <1>6, <1>7 DEF h

DerOf(a, b) ==
    LET body == (<<2, Len(a)>> \o a) \o (<<2, Len(b)>> \o b) IN <<48, Len(body)>> \o body

(* The layout of a signature, whatever the two integers in it are. *)
LaidOut(d, a, b) ==
    /\ Len(d) = 6 + Len(a) + Len(b)
    /\ d[1] = 48 /\ d[2] = Len(d) - 2 /\ d[3] = 2 /\ d[4] = Len(a)
    /\ d[5 + Len(a)] = 2 /\ d[6 + Len(a)] = Len(b)
    /\ SubSeq(d, 5, 4 + Len(a)) = a
    /\ SubSeq(d, 7 + Len(a), Len(d)) = b

(* The octets of a signature stand where LaidOut says. *)
LEMMA Layout ==
    ASSUME NEW a \in Seq(Nat), NEW b \in Seq(Nat)
    PROVE  LaidOut(DerOf(a, b), a, b)
<1> DEFINE d == DerOf(a, b)
           A == <<2, Len(a)>> \o a
           B == <<2, Len(b)>> \o b
           body == A \o B
           m == Len(a)
           n == Len(b)
<1>0. d = <<48, Len(body)>> \o body
    BY DEF DerOf
<1>1. m \in Nat /\ n \in Nat
    BY LenProperties
<1>2. /\ A \in Seq(Nat) /\ Len(A) = 2 + m /\ A[1] = 2 /\ A[2] = m
      /\ \A k \in 1 .. m : A[2 + k] = a[k]
    BY <1>1, Joined
<1>3. /\ B \in Seq(Nat) /\ Len(B) = 2 + n /\ B[1] = 2 /\ B[2] = n
      /\ \A k \in 1 .. n : B[2 + k] = b[k]
    BY <1>1, Joined
<1>4. body = A \o B
    OBVIOUS
<1> HIDE DEF A, B, body, d
<1>5. /\ A \o B \in Seq(Nat) /\ Len(A \o B) = Len(A) + Len(B)
      /\ \A k \in 1 .. Len(A) + Len(B) : (A \o B)[k] = IF k <= Len(A) THEN A[k] ELSE B[k - Len(A)]
    <2>1. A \in Seq(Nat) /\ B \in Seq(Nat)
        BY <1>2, <1>3
    <2> QED
        BY <2>1, ConcatProperties, Zenon
<1>6. body \in Seq(Nat) /\ Len(body) = 4 + m + n
    <2>1. Len(body) = Len(A) + Len(B)
        BY <1>4, <1>5, Zenon
    <2>2. Len(body) = 4 + m + n
        BY <1>1, <1>2, <1>3, <2>1
    <2> QED
        BY <1>4, <1>5, <2>2, Zenon
<1>7. \A k \in 1 .. 2 + m : body[k] = A[k]
    <2>1. ASSUME NEW k \in 1 .. 2 + m
          PROVE  body[k] = A[k]
        <3>1. k \in 1 .. Len(A) + Len(B) /\ k <= Len(A)
            BY <1>1, <1>2, <1>3
        <3> QED
            BY <1>4, <1>5, <3>1, Zenon
    <2> QED
        BY <2>1
<1>8. \A k \in 1 .. 2 + n : body[2 + m + k] = B[k]
    <2>1. ASSUME NEW k \in 1 .. 2 + n
          PROVE  body[2 + m + k] = B[k]
        <3> DEFINE at == 2 + m + k
        <3>0. Len(A) = 2 + m /\ Len(B) = 2 + n
            BY <1>2, <1>3, Zenon
        <3>1. at \in 1 .. Len(A) + Len(B) /\ ~ (at <= Len(A)) /\ at - Len(A) = k
            BY <1>1, <3>0
        <3> HIDE DEF at
        <3>2. (A \o B)[at] = B[at - Len(A)]
            BY <1>5, <3>1
        <3> QED
            BY <1>4, <3>1, <3>2 DEF at
    <2> QED
        BY <2>1
<1>9. /\ d \in Seq(Nat) /\ Len(d) = 2 + Len(body) /\ d[1] = 48 /\ d[2] = Len(body)
      /\ \A k \in 1 .. Len(body) : d[2 + k] = body[k]
    <2>1. 48 \in Nat /\ Len(body) \in Nat
        BY <1>1, <1>6
    <2> QED
        <3> DEFINE l == Len(body)
        <3>1. 48 \in Nat /\ l \in Nat /\ body \in Seq(Nat) /\ d = <<48, l>> \o body
            BY <1>0, <1>6, <2>1
        <3> HIDE DEF l
        <3> DEFINE e == <<48, l>> \o body
        <3>2. /\ e \in Seq(Nat) /\ Len(e) = 2 + Len(body) /\ e[1] = 48 /\ e[2] = l
              /\ \A k \in 1 .. Len(body) : e[2 + k] = body[k]
            BY <3>1, Joined
        <3> HIDE DEF e
        <3>3. d = e
            BY <3>1 DEF e
        <3> QED
            BY <3>2, <3>3, Zenon DEF l
<1>10. Len(d) = 6 + m + n /\ d[2] = Len(d) - 2
    BY <1>1, <1>6, <1>9
<1>11. \A k \in 1 .. 2 + m : d[2 + k] = A[k]
    <2>1. ASSUME NEW k \in 1 .. 2 + m
          PROVE  d[2 + k] = A[k]
        <3>1. k \in 1 .. Len(body)
            BY <1>1, <1>6
        <3> QED
            BY <1>7, <1>9, <3>1, Zenon
    <2> QED
        BY <2>1
<1>12. \A k \in 1 .. 2 + n : d[4 + m + k] = B[k]
    <2>1. ASSUME NEW k \in 1 .. 2 + n
          PROVE  d[4 + m + k] = B[k]
        <3>1. 2 + m + k \in 1 .. Len(body) /\ 2 + (2 + m + k) = 4 + m + k
            BY <1>1, <1>6
        <3>2. d[2 + (2 + m + k)] = body[2 + m + k]
            BY <1>9, <3>1, Zenon
        <3>3. body[2 + m + k] = B[k]
            BY <1>8, <2>1, Zenon
        <3> QED
            BY <3>1, <3>2, <3>3
    <2> QED
        BY <2>1
<1>13. d[3] = 2 /\ d[4] = m
    <2>1. 1 \in 1 .. 2 + m /\ 2 \in 1 .. 2 + m /\ 2 + 1 = 3 /\ 2 + 2 = 4
        BY <1>1
    <2>2. d[2 + 1] = A[1] /\ d[2 + 2] = A[2]
        BY <1>11, <2>1, Zenon
    <2> QED
        BY <1>2, <2>1, <2>2
<1>14. d[5 + m] = 2 /\ d[6 + m] = n
    <2>1. 1 \in 1 .. 2 + n /\ 2 \in 1 .. 2 + n /\ 4 + m + 1 = 5 + m /\ 4 + m + 2 = 6 + m
        BY <1>1
    <2>2. d[4 + m + 1] = B[1] /\ d[4 + m + 2] = B[2]
        BY <1>12, <2>1, Zenon
    <2> QED
        BY <1>3, <2>1, <2>2
<1>15. \A k \in 1 .. m : d[4 + k] = a[k]
    <2>1. ASSUME NEW k \in 1 .. m
          PROVE  d[4 + k] = a[k]
        <3>1. 2 + k \in 1 .. 2 + m /\ 2 + (2 + k) = 4 + k
            BY <1>1
        <3>2. d[2 + (2 + k)] = A[2 + k] /\ A[2 + k] = a[k]
            BY <1>2, <1>11, <3>1, Zenon
        <3> QED
            BY <3>1, <3>2
    <2> QED
        BY <2>1
<1>16. \A k \in 1 .. n : d[6 + m + k] = b[k]
    <2>1. ASSUME NEW k \in 1 .. n
          PROVE  d[6 + m + k] = b[k]
        <3>1. 2 + k \in 1 .. 2 + n /\ 4 + m + (2 + k) = 6 + m + k
            BY <1>1
        <3>2. d[4 + m + (2 + k)] = B[2 + k] /\ B[2 + k] = b[k]
            BY <1>3, <1>12, <3>1, Zenon
        <3> QED
            BY <3>1, <3>2
    <2> QED
        BY <2>1
<1>17. \A k \in 1 .. Len(d) : d[k] \in Nat
    <2>1. d \in Seq(Nat)
        BY <1>9
    <2> QED
        BY <2>1, ElementOfSeq, Zenon
<1>18. SubSeq(d, 5, 4 + m) = a
    <2> DEFINE t == SubSeq(d, 5, 4 + m)
    <2>1. 5 \in Int /\ 4 + m \in Int /\ \A k \in 5 .. 4 + m : d[k] \in Nat
        BY <1>1, <1>10, <1>17
    <2>2. /\ t \in Seq(Nat) /\ Len(t) = IF 5 <= 4 + m THEN (4 + m) - 5 + 1 ELSE 0
          /\ \A k \in 1 .. (4 + m) - 5 + 1 : t[k] = d[5 + k - 1]
        BY <2>1, SubSeqProperties
    <2> HIDE DEF t
    <2>3. Len(t) = m
        BY <1>1, <2>2
    <2>4. ASSUME NEW k \in 1 .. m
          PROVE  t[k] = a[k]
        <3>1. k \in 1 .. (4 + m) - 5 + 1 /\ 5 + k - 1 = 4 + k
            BY <1>1
        <3> QED
            BY <1>15, <2>2, <3>1
    <2>5. t = a
        BY <2>2, <2>3, <2>4, SeqEqual
    <2> QED
        BY <2>5 DEF t
<1>19. SubSeq(d, 7 + m, Len(d)) = b
    <2> DEFINE lo == 7 + m
               hi == Len(d)
               t == SubSeq(d, lo, hi)
    <2>0. lo \in Int /\ hi \in Int
        BY <1>1, <1>10
    <2>1. \A k \in lo .. hi : d[k] \in Nat
        BY <1>1, <1>10, <1>17
    <2>a. hi = 6 + m + n /\ lo = 7 + m
        BY <1>10
    <2> HIDE DEF lo, hi
    <2>b. Len(t) = IF lo <= hi THEN hi - lo + 1 ELSE 0
        BY <2>0, <2>1, SubSeqProperties, Zenon
    <2>c. t \in Seq(Nat)
        BY <2>0, <2>1, SubSeqProperties, Zenon
    <2>2. \A k \in 1 .. hi - lo + 1 : t[k] = d[lo + k - 1]
        BY <2>0, <2>1, SubSeqProperties
    <2> HIDE DEF t
    <2>3. Len(t) = n
        BY <1>1, <2>a, <2>b
    <2>4. ASSUME NEW k \in 1 .. n
          PROVE  t[k] = b[k]
        <3>1. k \in 1 .. hi - lo + 1 /\ lo + k - 1 = 6 + m + k
            BY <1>1, <2>a
        <3> QED
            BY <1>16, <2>2, <3>1
    <2>5. t = b
        BY <2>c, <2>3, <2>4, SeqEqual
    <2> QED
        BY <2>5 DEF t, lo, hi
<1> QED
    BY <1>9, <1>10, <1>13, <1>14, <1>18, <1>19 DEF LaidOut, d

-----------------------------------------------------------------------------
(* A signature in a response is the DER form of the numbers of that        *)
(* response.                                                               *)
DerInv ==
    \/ resp.der = <<>>
    \/ /\ resp.r \in Integers32 /\ resp.s \in Integers32
       /\ resp.der = ecdsa_sig_to_der(resp.r, resp.s)

(* No signature at first. *)
LEMMA InitDerInv == Init => DerInv
BY DEF Init, NoReply, DerInv

(* A signature is sent with its numbers. *)
LEMMA NextDerInv ==
    ASSUME DerInv, [Next]_vars
    PROVE  DerInv'
<1>1. CASE UNCHANGED resp
    BY <1>1 DEF DerInv
<1>2. CASE ReplyPlain
    BY <1>2 DEF ReplyPlain, Reply, DerInv
<1>3. CASE ReplySigned
    <2>1. PICK r \in Integers32, s \in Integers32 : \E calls : Reply(calls, r, s, ecdsa_sig_to_der(r, s))
        BY <1>3, Zenon DEF ReplySigned
    <2>2. resp'.r = r /\ resp'.s = s /\ resp'.der = ecdsa_sig_to_der(r, s)
        BY <2>1 DEF Reply
    <2> QED
        BY <2>2 DEF DerInv
<1>4. CASE ctap_send_response
    BY <1>4 DEF ctap_send_response, NoReply, DerInv
<1>5. ASSUME \/ \E m \in Requests, o \in Lookups : \E k \in Keys[o] : Call(m, o, k)
             \/ StepMatch \/ StepSkip \/ StepEnd
             \/ \E o \in Lookups \ {"value"} : \E k \in Keys[o] : CallInItem(o, k)
             \/ \E k \in Keys["text"] : find_cbor_string(k)
             \/ Return
             \/ UNCHANGED vars
      PROVE  UNCHANGED resp
    BY <1>5, ZenonT(60) DEF Call, StepMatch, StepSkip, StepEnd, CallInItem, find_cbor_string, Return, vars
<1> QED
    BY <1>1, <1>2, <1>3, <1>4, <1>5, Zenon DEF Next

(* Two integers of at most 33 bytes, with their heads, fit der. *)
LEMMA LengthsAdd ==
    ASSUME NEW m \in 1 .. 33, NEW n \in 1 .. 33
    PROVE  6 + m + n <= 72 /\ n = (6 + m + n) - (5 + m) - 1
OBVIOUS

(* What the layout of a signature says of its DER form. *)
LEMMA DerInvImplies == DerInv => SignatureDer
<1> SUFFICES ASSUME DerInv, resp.der # <<>>
             PROVE  SignatureDer
    BY DEF SignatureDer
<1> DEFINE r == resp.r
           s == resp.s
           d == resp.der
           a == Padded(Stripped(r))
           b == Padded(Stripped(s))
<1>1. r \in Numbers /\ s \in Numbers /\ d = ecdsa_sig_to_der(r, s)
    BY NumbersAssumption DEF DerInv, Numbers, Octet
<1>2. Encodes(a, r) /\ Encodes(b, s)
    BY <1>1, PaddedEncodes
<1>3. d = DerOf(a, b)
    BY <1>1 DEF DerInteger, ecdsa_sig_to_der, DerOf
<1> HIDE DEF a, b, d, r, s
<1>4. a \in Seq(Nat) /\ b \in Seq(Nat) /\ Len(a) \in 1 .. 33 /\ Len(b) \in 1 .. 33
    BY <1>2 DEF Encodes
<1>5. /\ Len(d) = 6 + Len(a) + Len(b)
      /\ d[1] = 48 /\ d[2] = Len(d) - 2 /\ d[3] = 2 /\ d[4] = Len(a)
      /\ d[5 + Len(a)] = 2 /\ d[6 + Len(a)] = Len(b)
      /\ SubSeq(d, 5, 4 + Len(a)) = a
      /\ SubSeq(d, 7 + Len(a), Len(d)) = b
    <2>1. a \in Seq(Nat) /\ b \in Seq(Nat)
        BY <1>4
    <2> QED
        BY <1>3, <2>1, Layout DEF LaidOut
<1> DEFINE at == 5 + d[4]
<1>6. at = 5 + Len(a) /\ at - 1 = 4 + Len(a) /\ at + 1 = 6 + Len(a) /\ at + 2 = 7 + Len(a)
    BY <1>4, <1>5
<1> HIDE DEF at
<1>7. Len(d) <= 72 /\ Len(b) = Len(d) - at - 1
    BY <1>4, <1>5, <1>6, LengthsAdd, ZenonT(60)
<1>8. d[at] = 2 /\ d[at + 1] = Len(d) - at - 1
    BY <1>5, <1>6, <1>7
<1>9. IntegerOf(SubSeq(d, 5, at - 1), r) /\ IntegerOf(SubSeq(d, at + 2, Len(d)), s)
    <2>1. SubSeq(d, 5, at - 1) = a /\ SubSeq(d, at + 2, Len(d)) = b
        BY <1>5, <1>6, Zenon
    <2> QED
        BY <1>2, <2>1, Zenon DEF Encodes
<1> QED
    BY <1>5, <1>7, <1>8, <1>9, Zenon DEF SignatureDer, d, r, s, at

(* Every signature the key sends is the DER form of its numbers, which is  *)
(* unique, and fits the 72 bytes of der: for all values of r and s, those  *)
(* with any number of leading zero bytes and with the top bit set too.     *)
THEOREM SignatureCorrect == Spec => []SignatureDer
<1>1. Init => DerInv
    BY InitDerInv
<1>2. DerInv /\ [Next]_vars => DerInv'
    BY NextDerInv
<1>3. DerInv => SignatureDer
    BY DerInvImplies
<1> QED
    BY <1>1, <1>2, <1>3, PTL DEF Spec

-----------------------------------------------------------------------------
(* The encoder. *)

CallType == [major : 0 .. 7, val : Long, body : Seq(Octet)]

(* Membership in Word, without the interval. *)
LEMMA WordIs == \A v : v \in Word <=> v \in Nat /\ v < 2^16
<1>1. \A a, b \in Int : \A v : v \in a .. b <=> v \in Int /\ a <= v /\ v <= b
    OBVIOUS
<1> DEFINE m == 2^16 - 1
<1>2. m \in Int /\ 0 \in Int /\ \A v \in Int : v <= m <=> v < 2^16
    OBVIOUS
<1>3. Word = 0 .. m
    BY Zenon DEF Word
<1> HIDE DEF m
<1>4. \A v : v \in Word <=> v \in Int /\ 0 <= v /\ v <= m
    BY <1>1, <1>2, <1>3, Zenon
<1> QED
    BY <1>2, <1>4

LEMMA LongIs == \A v : v \in Long <=> v \in Nat /\ v < 2^30
<1>1. \A a, b \in Int : \A v : v \in a .. b <=> v \in Int /\ a <= v /\ v <= b
    OBVIOUS
<1> DEFINE m == 2^30 - 1
<1>2. m \in Int /\ 0 \in Int /\ \A v \in Int : v <= m <=> v < 2^30
    OBVIOUS
<1>3. Long = 0 .. m
    BY Zenon DEF Long
<1> HIDE DEF m
<1>4. \A v : v \in Long <=> v \in Int /\ 0 <= v /\ v <= m
    BY <1>1, <1>2, <1>3, Zenon
<1> QED
    BY <1>2, <1>4

LEMMA WordIsLong == \A v \in Word : v \in Long
<1> SUFFICES ASSUME NEW v \in Word PROVE v \in Long
    OBVIOUS
<1>1. v \in Nat /\ v < 2^16
    BY WordIs
<1>2. v < 2^30
    BY <1>1
<1> QED
    BY <1>1, <1>2, LongIs

(* The three sizes of a head that the lookups know. *)
LEMMA HeadForm ==
    ASSUME NEW major \in 0 .. 7, NEW val \in Word
    PROVE  /\ val < 24 => HeadBytes(major, val) = <<32 * major + val>>
           /\ 24 <= val /\ val < 256 => HeadBytes(major, val) = <<32 * major + 24, val>>
           /\ 256 <= val =>
                HeadBytes(major, val) = <<32 * major + 25, val \div 256, val % 256>>
<1>0. val \in Nat /\ val < 2^16
    BY WordIs
<1>1. ASSUME val < 24
      PROVE  HeadBytes(major, val) = <<32 * major + val>>
    <2>1. ~(24 <= val) /\ ~(256 <= val)
        BY <1>0, <1>1
    <2> QED
        BY <1>1, <2>1, ZenonT(60) DEF HeadBytes
<1>2. ASSUME 24 <= val, val < 256
      PROVE  HeadBytes(major, val) = <<32 * major + 24, val>>
    <2>1. ~(val < 24) /\ ~(256 <= val)
        BY <1>0, <1>2
    <2> QED
        BY <1>2, <2>1, ZenonT(60) DEF HeadBytes
<1>3. ASSUME 256 <= val
      PROVE  HeadBytes(major, val) = <<32 * major + 25, val \div 256, val % 256>>
    <2>1. ~(val < 24) /\ ~(val < 256)
        BY <1>0, <1>3
    <2> QED
        BY <1>0, <1>3, <2>1, ZenonT(60) DEF HeadBytes
<1> QED
    BY <1>1, <1>2, <1>3

(* The larger one. *)
LEMMA HeadLong ==
    ASSUME NEW major \in 0 .. 7, NEW val \in Nat, 2^16 <= val
    PROVE  HeadBytes(major, val) =
             <<32 * major + 26, val \div 2^24, (val \div 2^16) % 256, (val \div 256) % 256, val % 256>>
<1>1. ~(val < 24) /\ ~(val < 256) /\ ~(val < 2^16)
    OBVIOUS
<1> QED
    BY <1>1, ZenonT(60) DEF HeadBytes

(* A head of a number of 16 bits has one to three bytes, any other five. *)
LEMMA HeadType ==
    ASSUME NEW major \in 0 .. 7, NEW val \in Long
    PROVE  HeadBytes(major, val) \in Seq(Octet) /\ Len(HeadBytes(major, val)) \in 1 .. 5
<1>a. \A a \in Octet : <<a>> \in Seq(Octet) /\ Len(<<a>>) = 1
    OBVIOUS
<1>b. \A a, b \in Octet : <<a, b>> \in Seq(Octet) /\ Len(<<a, b>>) = 2
    OBVIOUS
<1>c. \A a, b, c \in Octet : <<a, b, c>> \in Seq(Octet) /\ Len(<<a, b, c>>) = 3
    OBVIOUS
<1>e. \A a, b, c, d, e \in Octet :
        <<a, b, c, d, e>> \in Seq(Octet) /\ Len(<<a, b, c, d, e>>) = 5
    OBVIOUS
<1> DEFINE h == HeadBytes(major, val)
           x == 32 * major + val
           y == 32 * major + 24
           z == 32 * major + 25
           w == 32 * major + 26
           hi == val \div 256
           lo == val % 256
           b1 == val \div 2^24
           b2 == (val \div 2^16) % 256
           b3 == (val \div 256) % 256
<1>v. val \in Nat /\ val < 2^30
    BY LongIs
<1>w. val < 2^16 => val \in Word
    BY <1>v, WordIs
<1>f. val < 2^16 =>
        /\ val < 24 => h = <<x>>
        /\ 24 <= val /\ val < 256 => h = <<y, val>>
        /\ 256 <= val => h = <<z, hi, lo>>
    BY <1>w, HeadForm
<1>l. 2^16 <= val => h = <<w, b1, b2, b3, lo>>
    BY <1>v, HeadLong
<1>g. /\ val < 24 => x \in Octet
      /\ y \in Octet /\ z \in Octet /\ w \in Octet /\ lo \in Octet
      /\ val < 2^16 => hi \in Octet
      /\ val < 256 => val \in Octet
    BY <1>v DEF Octet
<1>k. b1 \in Octet /\ b2 \in Octet /\ b3 \in Octet
    <2>1. val \div 2^24 \in 0 .. 255
        BY <1>v
    <2>2. val \div 2^16 \in Int /\ val \div 256 \in Int
        BY <1>v
    <2>3. \A n \in Int : n % 256 \in 0 .. 255
        OBVIOUS
    <2> QED
        BY <2>1, <2>2, <2>3 DEF Octet
<1>t. val < 24 => val < 256 /\ val < 2^16
    BY <1>v
<1>u. val < 256 => val < 2^16
    BY <1>v
<1> HIDE DEF h, x, y, z, w, hi, lo, b1, b2, b3
<1>1. val < 24 => h \in Seq(Octet) /\ Len(h) = 1
    BY <1>a, <1>f, <1>g, <1>t, Zenon
<1>2. 24 <= val /\ val < 256 => h \in Seq(Octet) /\ Len(h) = 2
    <2> SUFFICES ASSUME 24 <= val, val < 256 PROVE h \in Seq(Octet) /\ Len(h) = 2
        OBVIOUS
    <2>1. h = <<y, val>> /\ y \in Octet /\ val \in Octet
        BY <1>f, <1>g, <1>u
    <2> QED
        BY <1>b, <2>1, Zenon
<1>3. 256 <= val /\ val < 2^16 => h \in Seq(Octet) /\ Len(h) = 3
    <2> SUFFICES ASSUME 256 <= val, val < 2^16 PROVE h \in Seq(Octet) /\ Len(h) = 3
        OBVIOUS
    <2>1. h = <<z, hi, lo>> /\ z \in Octet /\ hi \in Octet /\ lo \in Octet
        BY <1>f, <1>g
    <2> QED
        BY <1>c, <2>1, Zenon
<1>4. 2^16 <= val => h \in Seq(Octet) /\ Len(h) = 5
    <2> SUFFICES ASSUME 2^16 <= val PROVE h \in Seq(Octet) /\ Len(h) = 5
        OBVIOUS
    <2>1. h = <<w, b1, b2, b3, lo>> /\ w \in Octet /\ lo \in Octet
        BY <1>l, <1>g
    <2> QED
        BY <1>e, <1>k, <2>1, Zenon
<1> QED
    BY <1>1, <1>2, <1>3, <1>4, <1>v DEF h

(* What a call writes, and how long it is. *)
LEMMA CallBytesType ==
    ASSUME NEW c \in CallType
    PROVE  /\ HeadBytes(c.major, c.val) \in Seq(Octet) /\ Len(HeadBytes(c.major, c.val)) \in 1 .. 5
           /\ c.body \in Seq(Octet) /\ Len(c.body) \in Nat
           /\ CallBytes(c) \in Seq(Octet)
           /\ Len(CallBytes(c)) = Len(HeadBytes(c.major, c.val)) + Len(c.body)
           /\ Len(CallBytes(c)) \in Nat \ {0}
<1>1. c.major \in 0 .. 7 /\ c.val \in Long /\ c.body \in Seq(Octet)
    BY DEF CallType
<1> DEFINE h == HeadBytes(c.major, c.val)
           b == c.body
<1>2. h \in Seq(Octet) /\ Len(h) \in 1 .. 5
    BY <1>1, HeadType
<1>3. CallBytes(c) = h \o b
    BY DEF CallBytes
<1>4. b \in Seq(Octet)
    BY <1>1
<1> HIDE DEF h, b
<1>5. h \o b \in Seq(Octet) /\ Len(h \o b) = Len(h) + Len(b) /\ Len(b) \in Nat
    BY <1>2, <1>4, ConcatAt
<1>6. Len(h) + Len(b) \in Nat \ {0}
    <2> DEFINE p == Len(h)
               q == Len(b)
    <2>1. p \in 1 .. 5 /\ q \in Nat
        BY <1>2, <1>5
    <2> HIDE DEF p, q
    <2>2. p + q \in Nat \ {0}
        BY <2>1
    <2> QED
        BY <2>2, Zenon DEF p, q
<1> QED
    BY <1>2, <1>3, <1>4, <1>5, <1>6, Zenon DEF h, b

(* The bytes of some calls, and of more calls behind them. *)
BytesOf(calls) == [j \in DOMAIN calls |-> CallBytes(calls[j])]

(* What a sequence of calls writes, call by call. *)
LEMMA BytesOfType ==
    ASSUME NEW calls \in Seq(CallType)
    PROVE  /\ Len(calls) \in Nat /\ BytesOf(calls) \in Seq(Seq(Octet))
           /\ Len(BytesOf(calls)) = Len(calls)
           /\ \A j \in 1 .. Len(calls) :
                calls[j] \in CallType /\ BytesOf(calls)[j] = CallBytes(calls[j])
           /\ Written(calls) = FlattenSeq(BytesOf(calls))
<1>1. /\ Len(calls) \in Nat /\ DOMAIN calls = 1 .. Len(calls)
      /\ \A j \in 1 .. Len(calls) : calls[j] \in CallType
    BY LenProperties, ElementOfSeq
<1>2. \A j \in 1 .. Len(calls) : CallBytes(calls[j]) \in Seq(Octet)
    BY <1>1, CallBytesType
<1>3. BytesOf(calls) \in [1 .. Len(calls) -> Seq(Octet)]
    BY <1>1, <1>2 DEF BytesOf
<1>4. BytesOf(calls) \in Seq(Seq(Octet)) /\ Len(BytesOf(calls)) = Len(calls)
    BY <1>1, <1>3, IsASeq, LenProperties
<1> QED
    BY <1>1, <1>4 DEF BytesOf, Written

EncoderStates(capacity) ==
    {e \in [buffer : Seq(Octet), capacity : {capacity}] : Len(e.buffer) <= capacity}

(* The encoder never passes its capacity, and writes what fits. *)
LEMMA PutFits ==
    ASSUME NEW capacity \in Nat, NEW e \in EncoderStates(capacity), NEW b \in Seq(Octet)
    PROVE  /\ Put(e, b) \in EncoderStates(capacity)
           /\ Len(e.buffer) + Len(b) <= capacity => Put(e, b).buffer = e.buffer \o b
<1>1. /\ e.buffer \in Seq(Octet) /\ e.capacity = capacity /\ Len(e.buffer) <= capacity
      /\ e \in [buffer : Seq(Octet), capacity : {capacity}]
    BY DEF EncoderStates
<1> DEFINE s == e.buffer
<1>2. /\ s \o b \in Seq(Octet) /\ Len(s) \in Nat /\ Len(b) \in Nat
      /\ Len(s \o b) = Len(s) + Len(b)
    BY <1>1, ConcatAt
<1>3. CASE Len(s) + Len(b) > capacity
    BY <1>1, <1>2, <1>3 DEF Put
<1>4. CASE ~(Len(s) + Len(b) > capacity)
    <2>1. Put(e, b) = [e EXCEPT !.buffer = s \o b]
        BY <1>1, <1>4 DEF Put
    <2> DEFINE t == s \o b
    <2>2. t \in Seq(Octet) /\ Len(t) <= capacity
        BY <1>2, <1>4
    <2> HIDE DEF t, s
    <2>3. Put(e, b) = [e EXCEPT !.buffer = t]
        BY <2>1 DEF t, s
    <2>4. Put(e, b).buffer = t
        BY <1>1, <2>3
    <2>5. Put(e, b) \in [buffer : Seq(Octet), capacity : {capacity}]
        BY <1>1, <2>2, <2>3
    <2>6. Put(e, b) \in EncoderStates(capacity)
        BY <2>2, <2>4, <2>5 DEF EncoderStates
    <2> QED
        BY <2>4, <2>6 DEF t, s
<1> QED
    BY <1>3, <1>4

(* So it is for a call: head and string. *)
LEMMA EncodeCall ==
    ASSUME NEW capacity \in Nat, NEW e \in EncoderStates(capacity), NEW c \in CallType
    PROVE  /\ cbor_encode(e, c) \in EncoderStates(capacity)
           /\ Len(e.buffer) + Len(CallBytes(c)) <= capacity =>
                cbor_encode(e, c).buffer = e.buffer \o CallBytes(c)
<1> DEFINE h == HeadBytes(c.major, c.val)
           b == c.body
           f == Put(e, h)
           s == e.buffer
<1>1. /\ h \in Seq(Octet) /\ b \in Seq(Octet) /\ Len(b) \in Nat /\ Len(h) \in Nat
      /\ Len(CallBytes(c)) = Len(h) + Len(b)
    <2>1. /\ h \in Seq(Octet) /\ b \in Seq(Octet) /\ Len(b) \in Nat
          /\ Len(CallBytes(c)) = Len(h) + Len(b)
        BY CallBytesType, Zenon
    <2>2. Len(h) \in Nat
        BY <2>1, LenProperties, Zenon
    <2> QED
        BY <2>1, <2>2, Zenon
<1>2. CallBytes(c) = h \o b
    BY DEF CallBytes
<1>3. cbor_encode(e, c) = Put(f, b)
    BY DEF cbor_encode, cbor_encode_head
<1>4. s \in Seq(Octet) /\ Len(s) \in Nat
    BY LenProperties DEF EncoderStates
<1>s. e.buffer = s
    OBVIOUS
<1> HIDE DEF h, b, s
<1>5. /\ f \in EncoderStates(capacity)
      /\ Len(s) + Len(h) <= capacity => f.buffer = s \o h
    BY <1>1, <1>s, PutFits
<1> HIDE DEF f
<1>6. /\ Put(f, b) \in EncoderStates(capacity)
      /\ Len(f.buffer) + Len(b) <= capacity => Put(f, b).buffer = f.buffer \o b
    BY <1>1, <1>5, PutFits
<1>7. ASSUME Len(s) + Len(CallBytes(c)) <= capacity
      PROVE  cbor_encode(e, c).buffer = s \o CallBytes(c)
    <2>1. Len(s) + Len(h) <= capacity /\ Len(s) + Len(h) + Len(b) <= capacity
        BY <1>1, <1>4, <1>7
    <2>2. f.buffer = s \o h /\ Len(s \o h) = Len(s) + Len(h)
        BY <1>1, <1>4, <1>5, <2>1, ConcatAt
    <2>3. Put(f, b).buffer = (s \o h) \o b
        BY <1>6, <2>1, <2>2
    <2>4. (s \o h) \o b = s \o (h \o b)
        BY <1>1, <1>4, ConcatAssociative
    <2> QED
        BY <1>2, <1>3, <2>3, <2>4
<1> QED
    BY <1>3, <1>6, <1>7, <1>s

(* The recursive function is the encoder after each call. *)
LEMMA EncoderIs ==
    ASSUME NEW capacity \in Nat, NEW calls \in Seq(CallType)
    PROVE  \E f \in [0 .. Len(calls) -> EncoderStates(capacity)] :
              /\ f[0] = cbor_init(capacity)
              /\ \A n \in 1 .. Len(calls) : f[n] = cbor_encode(f[n - 1], calls[n])
              /\ Encode(capacity, calls) = f[Len(calls)].buffer
<1> DEFINE N == Len(calls)
           S == EncoderStates(capacity)
           init == cbor_init(capacity)
           step == [q \in (1 .. N) \X S |-> cbor_encode(q[2], calls[q[1]])]
<1>1. N \in Nat /\ \A n \in 1 .. N : calls[n] \in CallType
    BY BytesOfType
<1>2. \A n \in 1 .. N, v \in S : step[<<n, v>>] = cbor_encode(v, calls[n]) /\ step[<<n, v>>] \in S
    BY <1>1, EncodeCall
<1>3. init \in S
    BY DEF EncoderStates, cbor_init
<1> DEFINE Eq(f) == f = [n \in 0 .. N |-> IF n = 0 THEN init ELSE cbor_encode(f[n - 1], calls[n])]
           c == CHOOSE f : Eq(f)
<1>c. Encode(capacity, calls) = c[N].buffer
    BY DEF Encode, Encoder
<1> HIDE DEF step, init, S
<1>4. PICK g \in [0 .. N -> S] : Iterates(g, N, init, step)
    <2>1. StepsIn(N, S, step)
        BY <1>2 DEF StepsIn
    <2> HIDE DEF N
    <2> QED
        BY <1>1, <1>3, <2>1, Recursion, Zenon
<1> HIDE DEF N
<1>5. g[0] = init /\ \A n \in 1 .. N : g[n] = cbor_encode(g[n - 1], calls[n])
    <2>0. \A n \in 1 .. N : n - 1 \in 0 .. N
        BY <1>1
    <2>1. g[0] = init /\ \A n \in 1 .. N : g[n] = step[<<n, g[n - 1]>>]
        BY <1>4 DEF Iterates
    <2>2. \A n \in 1 .. N : g[n - 1] \in S
        BY <1>4, <2>0
    <2> QED
        BY <1>2, <2>1, <2>2
<1>6. Eq(g)
    <2>1. \A n \in 0 .. N : n = 0 \/ n \in 1 .. N
        BY <1>1
    <2>2. \A n \in 0 .. N : g[n] = IF n = 0 THEN init ELSE cbor_encode(g[n - 1], calls[n])
        BY <1>1, <1>5, <2>1
    <2> QED
        BY <1>4, <2>2
<1>7. Eq(c)
    <2> HIDE DEF Eq
    <2> QED
        BY <1>6
<1> HIDE DEF c
<1> DEFINE K == {n \in 0 .. N : c[n] = g[n]}
<1>8. N \in K
    <2>1. 0 \in K
        BY <1>1, <1>5, <1>7
    <2>2. ASSUME NEW n \in 1 .. N, n - 1 \in K PROVE n \in K
        <3>1. n \in 0 .. N /\ n # 0 /\ c[n - 1] = g[n - 1]
            BY <1>1, <2>2
        <3>2. c[n] = cbor_encode(c[n - 1], calls[n])
            BY <1>7, <3>1
        <3> QED
            BY <1>5, <3>1, <3>2
    <2>3. N \in 0 .. N
        BY <1>1
    <2> HIDE DEF K
    <2> QED
        BY <1>1, <2>1, <2>2, <2>3, Induction
<1> QED
    BY <1>c, <1>4, <1>5, <1>8 DEF N, init, S

(* Whatever the calls, cbor_encode_head and the string encoders never write *)
(* past the capacity given to cbor_init.                                   *)
THEOREM EncodeFits ==
    ASSUME NEW capacity \in Nat, NEW calls \in Seq(CallType)
    PROVE  Encode(capacity, calls) \in Seq(Octet) /\ Len(Encode(capacity, calls)) <= capacity
<1>1. PICK f \in [0 .. Len(calls) -> EncoderStates(capacity)] :
          Encode(capacity, calls) = f[Len(calls)].buffer
    BY EncoderIs
<1>2. Len(calls) \in 0 .. Len(calls)
    BY LenProperties
<1>3. f[Len(calls)] \in EncoderStates(capacity)
    BY <1>1, <1>2
<1> QED
    BY <1>1, <1>3 DEF EncoderStates

(* Calls that fit the buffer together are written, each whole and in order: *)
(* no bounds check of the encoder drops one too early.                     *)
THEOREM EncodeWhole ==
    ASSUME NEW capacity \in Nat, NEW calls \in Seq(CallType), Len(Written(calls)) <= capacity
    PROVE  Encode(capacity, calls) = Written(calls)
<1> DEFINE N == Len(calls)
           S == EncoderStates(capacity)
           ss == BytesOf(calls)
<1>1. /\ N \in Nat /\ ss \in Seq(Seq(Octet)) /\ Len(ss) = N
      /\ \A n \in 1 .. N : calls[n] \in CallType /\ ss[n] = CallBytes(calls[n])
      /\ Written(calls) = FlattenSeq(ss)
    BY BytesOfType
<1>2. PICK f \in [0 .. N -> S] :
              /\ f[0] = cbor_init(capacity)
              /\ \A n \in 1 .. N : f[n] = cbor_encode(f[n - 1], calls[n])
              /\ Encode(capacity, calls) = f[N].buffer
    BY EncoderIs
<1> HIDE DEF N, ss, S
<1>3. PICK g \in [0 .. N -> Seq(Octet)] :
              /\ g[0] = <<>>
              /\ \A n \in 1 .. N : g[n] = g[n - 1] \o ss[n]
              /\ Written(calls) = g[N]
    <2>1. \E g \in [0 .. Len(ss) -> Seq(Octet)] :
              /\ g[0] = <<>>
              /\ \A n \in 1 .. Len(ss) : g[n] = g[n - 1] \o ss[n]
              /\ FlattenSeq(ss) = g[Len(ss)]
        BY <1>1, FlattenIs
    <2> QED
        BY <1>1, <2>1
<1>4. ASSUME NEW n \in 1 .. N
      PROVE  /\ n - 1 \in 0 .. N /\ n \in 0 .. N
             /\ f[n - 1] \in S /\ calls[n] \in CallType
             /\ Len(g[n - 1]) \in Nat /\ Len(g[n]) = Len(g[n - 1]) + Len(CallBytes(calls[n]))
             /\ Len(CallBytes(calls[n])) \in Nat
             /\ g[n] = g[n - 1] \o CallBytes(calls[n])
    <2>1. n - 1 \in 0 .. N /\ n \in 0 .. N
        BY <1>1
    <2>2. CallBytes(calls[n]) \in Seq(Octet) /\ g[n - 1] \in Seq(Octet)
        BY <1>1, <1>3, <2>1, CallBytesType
    <2>3. g[n] = g[n - 1] \o CallBytes(calls[n])
        BY <1>1, <1>3
    <2> DEFINE s == g[n - 1]
               t == CallBytes(calls[n])
    <2>4. s \in Seq(Octet) /\ t \in Seq(Octet) /\ g[n] = s \o t
        BY <2>2, <2>3
    <2> HIDE DEF s, t
    <2>5. Len(s) \in Nat /\ Len(t) \in Nat /\ Len(s \o t) = Len(s) + Len(t)
        BY <2>4, ConcatAt
    <2>6. f[n - 1] \in S
        BY <1>2, <2>1
    <2> QED
        BY <1>1, <2>1, <2>4, <2>5, <2>6 DEF s, t
<1> DEFINE K == {n \in 0 .. N : Len(g[n]) <= capacity => f[n].buffer = g[n]}
<1>5. N \in K
    <2>1. 0 \in K
        BY <1>1, <1>2, <1>3 DEF cbor_init
    <2>2. ASSUME NEW n \in 1 .. N, n - 1 \in K PROVE n \in K
        <3>1. SUFFICES ASSUME Len(g[n]) <= capacity PROVE f[n].buffer = g[n]
            BY <1>4
        <3> DEFINE s == g[n - 1]
                   t == CallBytes(calls[n])
                   x == f[n - 1]
                   y == calls[n]
        <3>2. Len(s) \in Nat /\ Len(t) \in Nat /\ Len(s) + Len(t) <= capacity
            BY <1>4, <3>1
        <3>3. x.buffer = s
            BY <1>4, <2>2, <3>2
        <3>4. x \in EncoderStates(capacity) /\ y \in CallType /\ f[n] = cbor_encode(x, y) /\ t = CallBytes(y)
            BY <1>2, <1>4 DEF S
        <3>5. g[n] = s \o t
            BY <1>4
        <3> HIDE DEF s, t, x, y
        <3>6. Len(x.buffer) + Len(CallBytes(y)) <= capacity
            BY <3>2, <3>3, <3>4
        <3>7. cbor_encode(x, y).buffer = x.buffer \o CallBytes(y)
            BY <3>4, <3>6, EncodeCall
        <3> QED
            BY <3>3, <3>4, <3>5, <3>7
    <2>3. N \in 0 .. N
        BY <1>1
    <2> HIDE DEF K
    <2> QED
        BY <1>1, <2>1, <2>2, <2>3, Induction
<1> QED
    BY <1>2, <1>3, <1>5

-----------------------------------------------------------------------------
(* Where the parts of a document lie. *)

(* d has the bytes s at p. *)
Holds(d, p, s) ==
    /\ p \in Nat \ {0} /\ p + Len(s) <= Len(d) + 1
    /\ \A k \in 1 .. Len(s) : d[p + k - 1] = s[k]

(* d has the bytes ss one after the other, the n-th from P[n - 1] to P[n]. *)
Spread(d, ss, P) ==
    /\ P \in [0 .. Len(ss) -> Nat \ {0}]
    /\ \A n \in 1 .. Len(ss) : P[n] = P[n - 1] + Len(ss[n]) /\ Holds(d, P[n - 1], ss[n])

(* Bytes that are there are there part by part. *)
LEMMA HoldsConcat ==
    ASSUME NEW d \in Seq(Octet), NEW p, NEW s \in Seq(Octet), NEW t \in Seq(Octet),
           Holds(d, p, s \o t)
    PROVE  Holds(d, p, s) /\ Holds(d, p + Len(s), t)
<1> DEFINE u == s \o t
           a == Len(s)
           b == Len(t)
           c == Len(d)
<1>1. /\ a \in Nat /\ b \in Nat /\ Len(u) = a + b
      /\ \A k \in 1 .. a : u[k] = s[k]
      /\ \A k \in 1 .. b : u[a + k] = t[k]
    BY ConcatAt
<1>2. c \in Nat
    BY LenProperties
<1>3. p \in Nat \ {0} /\ p + Len(u) <= c + 1 /\ \A k \in 1 .. Len(u) : d[p + k - 1] = u[k]
    BY DEF Holds
<1> HIDE DEF u, a, b, c
<1>4. /\ p \in Nat \ {0} /\ p + a \in Nat \ {0} /\ p + a <= c + 1 /\ p + a + b <= c + 1
      /\ \A k \in 1 .. a : k \in 1 .. Len(u)
      /\ \A k \in 1 .. b : a + k \in 1 .. Len(u) /\ p + (a + k) - 1 = p + a + k - 1
    BY <1>1, <1>2, <1>3
<1>5. \A k \in 1 .. a : d[p + k - 1] = s[k]
    BY <1>1, <1>3, <1>4
<1>6. \A k \in 1 .. b : d[p + a + k - 1] = t[k]
    BY <1>1, <1>3, <1>4
<1> QED
    BY <1>4, <1>5, <1>6 DEF Holds, a, b, c

(* The same for any number of parts. *)
LEMMA HoldsFlatten ==
    ASSUME NEW d \in Seq(Octet), NEW p, NEW ss \in Seq(Seq(Octet)), Holds(d, p, FlattenSeq(ss))
    PROVE  \E P : /\ Spread(d, ss, P) /\ P[0] = p
                  /\ P[Len(ss)] = p + Len(FlattenSeq(ss))
<1> DEFINE t == FlattenSeq(ss)
           N == Len(ss)
           c == Len(d)
           M == Len(t)
<1>1. PICK O : Laid(ss, t, O)
    BY FlattenLayout
<1>2. /\ N \in Nat /\ t \in Seq(Octet) /\ M \in Nat /\ c \in Nat
      /\ \A n \in 1 .. N : ss[n] \in Seq(Octet) /\ Len(ss[n]) \in Nat
    BY FlattenLayout, LenProperties, ElementOfSeq
<1>3. p \in Nat \ {0} /\ p + M <= c + 1 /\ \A k \in 1 .. M : d[p + k - 1] = t[k]
    BY DEF Holds
<1> HIDE DEF t, N, c, M
<1>4. /\ O \in [0 .. N -> Nat] /\ O[0] = 0 /\ O[N] = M
      /\ \A n \in 0 .. N : O[n] <= M
      /\ \A n \in 1 .. N : /\ O[n] = O[n - 1] + Len(ss[n])
                           /\ \A k \in 1 .. Len(ss[n]) : t[O[n - 1] + k] = ss[n][k]
    BY <1>1 DEF Laid, N, M
<1> DEFINE P == [n \in 0 .. N |-> p + O[n]]
<1>5. P \in [0 .. N -> Nat \ {0}] /\ \A n \in 0 .. N : P[n] = p + O[n]
    BY <1>3, <1>4
<1> HIDE DEF P
<1>6. P[0] = p /\ P[N] = p + M
    BY <1>2, <1>3, <1>4, <1>5
<1>7. ASSUME NEW n \in 1 .. N
      PROVE  P[n] = P[n - 1] + Len(ss[n]) /\ Holds(d, P[n - 1], ss[n])
    <2>0. n - 1 \in 0 .. N /\ n \in 0 .. N
        BY <1>2
    <2> DEFINE a == O[n - 1]
               s == ss[n]
               b == Len(s)
    <2>1. /\ a \in Nat /\ b \in Nat /\ O[n] = a + b /\ a + b <= M
          /\ \A k \in 1 .. b : t[a + k] = s[k]
        BY <1>2, <1>4, <2>0
    <2>2. P[n - 1] = p + a /\ P[n] = p + O[n]
        BY <1>5, <2>0
    <2> HIDE DEF a, s, b
    <2>3. /\ p + a \in Nat \ {0} /\ p + a + b <= c + 1 /\ p + O[n] = p + a + b
          /\ \A k \in 1 .. b : a + k \in 1 .. M /\ p + (a + k) - 1 = p + a + k - 1
        BY <1>2, <1>3, <2>1
    <2>4. \A k \in 1 .. b : d[p + a + k - 1] = s[k]
        BY <1>3, <2>1, <2>3
    <2>5. Holds(d, p + a, s)
        BY <2>3, <2>4 DEF Holds, b, c
    <2> QED
        BY <2>2, <2>3, <2>5 DEF s, b
<1> QED
    BY <1>5, <1>6, <1>7 DEF Spread, N, t, M

(* Later bytes are at later places. *)
LEMMA SpreadRises ==
    ASSUME NEW d, NEW ss \in Seq(Seq(Octet)), NEW P, Spread(d, ss, P),
           \A n \in 1 .. Len(ss) : Len(ss[n]) \in Nat \ {0}
    PROVE  \A j, k \in 0 .. Len(ss) : j < k => P[j] < P[k]
<1> DEFINE N == Len(ss)
           K == {k \in 0 .. N : \A j \in 0 .. N : j < k => P[j] < P[k]}
<1>1. N \in Nat
    BY LenProperties
<1>2. /\ \A n \in 0 .. N : P[n] \in Nat
      /\ \A n \in 1 .. N : P[n] = P[n - 1] + Len(ss[n])
    BY DEF Spread
<1>3. \A n \in 1 .. N : P[n - 1] < P[n]
    <2> SUFFICES ASSUME NEW n \in 1 .. N PROVE P[n - 1] < P[n]
        OBVIOUS
    <2>1. n - 1 \in 0 .. N
        BY <1>1
    <2> DEFINE a == P[n - 1]
               b == Len(ss[n])
    <2>2. a \in Nat /\ b \in Nat \ {0} /\ P[n] = a + b
        BY <1>2, <2>1
    <2> HIDE DEF a, b
    <2>3. a < a + b
        BY <2>2
    <2> QED
        BY <2>2, <2>3 DEF a
<1> HIDE DEF N
<1>4. 0 \in K
    BY <1>1
<1>5. ASSUME NEW n \in 1 .. N, n - 1 \in K PROVE n \in K
    <2>1. n \in 0 .. N /\ n - 1 \in 0 .. N
        BY <1>1
    <2>2. ASSUME NEW j \in 0 .. N, j < n PROVE P[j] < P[n]
        <3>1. j = n - 1 \/ j < n - 1
            BY <1>1, <2>2
        <3>2. P[j] \in Nat /\ P[n - 1] \in Nat /\ P[n] \in Nat
            BY <1>2, <2>1
        <3>3. j < n - 1 => P[j] < P[n - 1]
            BY <1>5
        <3>4. P[n - 1] < P[n]
            BY <1>3
        <3> DEFINE a == P[j]
                   b == P[n - 1]
                   c == P[n]
        <3>5. a \in Nat /\ b \in Nat /\ c \in Nat /\ b < c /\ (a = b \/ a < b)
            BY <3>1, <3>2, <3>3, <3>4
        <3> HIDE DEF a, b, c
        <3>6. a < c
            BY <3>5
        <3> QED
            BY <3>6 DEF a, c
    <2> QED
        BY <2>1, <2>2
<1>6. \A n \in 0 .. N : n \in K
    <2> HIDE DEF K
    <2> QED
        BY <1>1, <1>4, <1>5, Induction
<1> QED
    BY <1>6 DEF N

(* The parts of a sequence of sequences can be joined separately. *)
LEMMA FlattenConcat ==
    ASSUME NEW S, NEW x \in Seq(Seq(S)), NEW y \in Seq(Seq(S))
    PROVE  FlattenSeq(x \o y) = FlattenSeq(x) \o FlattenSeq(y)
<1> DEFINE z == x \o y
           A0 == Len(x)
           B0 == Len(y)
<1>1. /\ z \in Seq(Seq(S)) /\ A0 \in Nat /\ B0 \in Nat /\ Len(z) = A0 + B0
      /\ \A k \in 1 .. A0 : z[k] = x[k]
      /\ \A k \in 1 .. B0 : z[A0 + k] = y[k]
    BY ConcatAt
<1> HIDE DEF z
<1>a. ASSUME NEW s \in Seq(S), NEW t \in Seq(S), NEW u \in Seq(S)
      PROVE  (s \o t) \o u = s \o (t \o u)
    BY ConcatAssociative, SMTT(40)
<1>2. PICK f \in [0 .. Len(x) -> Seq(S)] :
          /\ f[0] = <<>> /\ \A n \in 1 .. Len(x) : f[n] = f[n - 1] \o x[n]
          /\ FlattenSeq(x) = f[Len(x)]
    BY FlattenIs
<1>3. PICK g \in [0 .. Len(y) -> Seq(S)] :
          /\ g[0] = <<>> /\ \A n \in 1 .. Len(y) : g[n] = g[n - 1] \o y[n]
          /\ FlattenSeq(y) = g[Len(y)]
    BY FlattenIs
<1>4. PICK h \in [0 .. Len(z) -> Seq(S)] :
          /\ h[0] = <<>> /\ \A n \in 1 .. Len(z) : h[n] = h[n - 1] \o z[n]
          /\ FlattenSeq(z) = h[Len(z)]
    BY <1>1, FlattenIs
<1>e. /\ \A n \in 1 .. B0 : y[n] \in Seq(S)
      /\ \A n \in 0 .. B0 : g[n] \in Seq(S)
    BY <1>1, <1>3, ElementOfSeq
<1> HIDE DEF A0, B0
<1>5. h[A0] = f[A0]
    <2> DEFINE K == {n \in 0 .. A0 : h[n] = f[n]}
    <2>1. 0 \in K
        BY <1>1, <1>2, <1>4
    <2>2. ASSUME NEW n \in 1 .. A0, n - 1 \in K PROVE n \in K
        <3>1. n \in 1 .. Len(z) /\ n \in 0 .. A0
            BY <1>1
        <3>2. h[n - 1] = f[n - 1] /\ z[n] = x[n]
            BY <1>1, <2>2
        <3>3. h[n] = h[n - 1] \o z[n]
            BY <1>4, <3>1
        <3>4. f[n] = f[n - 1] \o x[n]
            BY <1>2 DEF A0
        <3> QED
            BY <3>1, <3>2, <3>3, <3>4
    <2>3. A0 \in 0 .. A0
        BY <1>1
    <2>4. A0 \in K
        <3> HIDE DEF K
        <3> QED
            BY <1>1, <2>1, <2>2, <2>3, Induction
    <2> QED
        BY <2>4
<1>f. f[A0] \in Seq(S)
    <2>1. A0 \in 0 .. Len(x)
        BY <1>1 DEF A0
    <2> QED
        BY <1>2, <2>1
<1>6. h[A0 + B0] = f[A0] \o g[B0]
    <2> DEFINE K == {n \in 0 .. B0 : h[A0 + n] = f[A0] \o g[n]}
    <2>1. 0 \in K
        <3>1. A0 + 0 = A0 /\ 0 \in 0 .. B0
            BY <1>1
        <3>2. f[A0] \o g[0] = f[A0]
            BY <1>3, <1>f, ConcatEmptySeq
        <3> QED
            BY <1>5, <3>1, <3>2
    <2>2. ASSUME NEW n \in 1 .. B0, n - 1 \in K PROVE n \in K
        <3>1. A0 + n \in 1 .. Len(z) /\ n \in 0 .. B0 /\ n - 1 \in 0 .. B0 /\ (A0 + n) - 1 = A0 + (n - 1)
            BY <1>1
        <3>2. h[A0 + n] = h[(A0 + n) - 1] \o z[A0 + n]
            <4> DEFINE m == A0 + n
            <4>1. m \in 1 .. Len(z)
                BY <3>1
            <4> HIDE DEF m
            <4>2. h[m] = h[m - 1] \o z[m]
                BY <1>4, <4>1
            <4> QED
                BY <4>2, Zenon DEF m
        <3>3. z[A0 + n] = y[n] /\ h[(A0 + n) - 1] = f[A0] \o g[n - 1]
            BY <1>1, <2>2, <3>1
        <3>4. g[n] = g[n - 1] \o y[n]
            BY <1>3 DEF B0
        <3> DEFINE a == f[A0]
                   b == g[n - 1]
                   c == y[n]
        <3>5. a \in Seq(S) /\ b \in Seq(S) /\ c \in Seq(S)
            BY <1>e, <1>f, <3>1
        <3>6. h[A0 + n] = (a \o b) \o c /\ g[n] = b \o c
            BY <3>2, <3>3, <3>4
        <3> HIDE DEF a, b, c
        <3>7. (a \o b) \o c = a \o (b \o c)
            BY <1>a, <3>5, Zenon
        <3>8. h[A0 + n] = a \o g[n]
            BY <3>6, <3>7
        <3> QED
            BY <3>1, <3>8 DEF a
    <2>3. B0 \in 0 .. B0
        BY <1>1
    <2>4. B0 \in K
        <3> HIDE DEF K
        <3> QED
            BY <1>1, <2>1, <2>2, <2>3, Induction
    <2> QED
        BY <2>4
<1> QED
    BY <1>1, <1>2, <1>3, <1>4, <1>6 DEF A0, B0, z

(* Calls one after the other write one after the other. *)
LEMMA WrittenConcat ==
    ASSUME NEW a \in Seq(CallType), NEW b \in Seq(CallType)
    PROVE  a \o b \in Seq(CallType) /\ Written(a \o b) = Written(a) \o Written(b)
<1> DEFINE c == a \o b
           A0 == Len(a)
           B0 == Len(b)
           x == BytesOf(a)
           y == BytesOf(b)
           z == BytesOf(c)
<1>a. ASSUME NEW u \in Seq(Seq(Octet)), NEW v \in Seq(Seq(Octet))
      PROVE  /\ u \o v \in Seq(Seq(Octet)) /\ Len(u \o v) = Len(u) + Len(v)
             /\ \A k \in 1 .. Len(u) : (u \o v)[k] = u[k]
             /\ \A k \in 1 .. Len(v) : (u \o v)[Len(u) + k] = v[k]
    BY ConcatAt
<1>1. /\ c \in Seq(CallType) /\ A0 \in Nat /\ B0 \in Nat /\ Len(c) = A0 + B0
      /\ \A k \in 1 .. A0 : c[k] = a[k]
      /\ \A k \in 1 .. B0 : c[A0 + k] = b[k]
    BY ConcatAt
<1> HIDE DEF c
<1>2. /\ x \in Seq(Seq(Octet)) /\ Len(x) = A0 /\ Written(a) = FlattenSeq(x)
      /\ \A j \in 1 .. A0 : x[j] = CallBytes(a[j])
    BY BytesOfType
<1>3. /\ y \in Seq(Seq(Octet)) /\ Len(y) = B0 /\ Written(b) = FlattenSeq(y)
      /\ \A j \in 1 .. B0 : y[j] = CallBytes(b[j])
    BY BytesOfType
<1>4. /\ z \in Seq(Seq(Octet)) /\ Len(z) = A0 + B0 /\ Written(c) = FlattenSeq(z)
      /\ \A j \in 1 .. A0 + B0 : z[j] = CallBytes(c[j])
    BY <1>1, BytesOfType
<1> HIDE DEF A0, B0, x, y, z
<1>5. /\ x \o y \in Seq(Seq(Octet)) /\ Len(x \o y) = A0 + B0
      /\ \A k \in 1 .. A0 : (x \o y)[k] = x[k]
      /\ \A k \in 1 .. B0 : (x \o y)[A0 + k] = y[k]
    <2>1. /\ x \o y \in Seq(Seq(Octet)) /\ Len(x \o y) = Len(x) + Len(y)
          /\ \A k \in 1 .. Len(x) : (x \o y)[k] = x[k]
          /\ \A k \in 1 .. Len(y) : (x \o y)[Len(x) + k] = y[k]
        BY <1>a, <1>2, <1>3, Zenon
    <2> QED
        BY <1>2, <1>3, <2>1, Zenon
<1>6. ASSUME NEW k \in 1 .. A0 + B0
      PROVE  z[k] = (x \o y)[k]
    <2>1. CASE k <= A0
        <3>1. k \in 1 .. A0
            BY <1>1, <2>1
        <3> QED
            BY <1>1, <1>2, <1>4, <1>5, <3>1
    <2>2. CASE k > A0
        <3> DEFINE h == k - A0
        <3>1. h \in 1 .. B0 /\ A0 + h = k
            BY <1>1, <2>2
        <3> HIDE DEF h
        <3>2. z[A0 + h] = CallBytes(c[A0 + h])
            BY <1>4, <3>1
        <3> QED
            BY <1>1, <1>3, <1>5, <3>1, <3>2
    <2>3. k <= A0 \/ k > A0
        BY <1>1
    <2> QED
        BY <2>1, <2>2, <2>3, Zenon
<1>7. z = x \o y
    BY <1>4, <1>5, <1>6, SeqEqual
<1> QED
    BY <1>1, <1>2, <1>3, <1>4, <1>7, FlattenConcat DEF c

(* What is written is bytes. *)
LEMMA WrittenType ==
    ASSUME NEW calls \in Seq(CallType)
    PROVE  Written(calls) \in Seq(Octet) /\ Len(Written(calls)) \in Nat
<1>1. BytesOf(calls) \in Seq(Seq(Octet)) /\ Written(calls) = FlattenSeq(BytesOf(calls))
    BY BytesOfType
<1>2. FlattenSeq(BytesOf(calls)) \in Seq(Octet)
    BY <1>1, FlattenLayout
<1> QED
    BY <1>1, <1>2, LenProperties

(* What one call writes. *)
LEMMA WrittenOne ==
    ASSUME NEW c \in CallType
    PROVE  <<c>> \in Seq(CallType) /\ Written(<<c>>) = CallBytes(c)
<1> DEFINE ss == BytesOf(<<c>>)
<1>1. <<c>> \in Seq(CallType) /\ Len(<<c>>) = 1 /\ <<c>>[1] = c
    OBVIOUS
<1>2. ss \in Seq(Seq(Octet)) /\ Len(ss) = 1 /\ ss[1] = CallBytes(c) /\ Written(<<c>>) = FlattenSeq(ss)
    <2>1. 1 \in 1 .. 1
        OBVIOUS
    <2> DEFINE one == <<c>>
    <2>2. one \in Seq(CallType) /\ Len(one) = 1 /\ one[1] = c
        BY <1>1
    <2> HIDE DEF one
    <2>3. BytesOf(one) \in Seq(Seq(Octet)) /\ Len(BytesOf(one)) = 1
          /\ BytesOf(one)[1] = CallBytes(c) /\ Written(one) = FlattenSeq(BytesOf(one))
        BY <2>1, <2>2, BytesOfType
    <2> QED
        BY <2>3 DEF one
<1> HIDE DEF ss
<1>3. PICK g \in [0 .. Len(ss) -> Seq(Octet)] :
              /\ g[0] = <<>>
              /\ \A n \in 1 .. Len(ss) : g[n] = g[n - 1] \o ss[n]
              /\ FlattenSeq(ss) = g[Len(ss)]
    BY <1>2, FlattenIs
<1>4. g[1] = <<>> \o CallBytes(c)
    <2>1. 1 \in 1 .. Len(ss) /\ 1 - 1 = 0
        BY <1>2
    <2> QED
        BY <1>2, <1>3, <2>1
<1>5. <<>> \o CallBytes(c) = CallBytes(c)
    BY CallBytesType, ConcatEmptySeq
<1> QED
    BY <1>1, <1>2, <1>3, <1>4, <1>5

(* No call writes nothing. *)
LEMMA WrittenNone == Written(<<>>) = <<>>
<1> DEFINE ss == BytesOf(<<>>)
<1>1. <<>> \in Seq(CallType) /\ Len(<<>>) = 0
    OBVIOUS
<1>2. ss \in Seq(Seq(Octet)) /\ Len(ss) = 0 /\ Written(<<>>) = FlattenSeq(ss)
    BY <1>1, BytesOfType
<1> HIDE DEF ss
<1>3. PICK g \in [0 .. Len(ss) -> Seq(Octet)] : g[0] = <<>> /\ FlattenSeq(ss) = g[Len(ss)]
    BY <1>2, FlattenIs
<1> QED
    BY <1>2, <1>3

(* What the calls of several sequences write is what each writes. *)
LEMMA WrittenFlatten ==
    ASSUME NEW cc \in Seq(Seq(CallType))
    PROVE  /\ FlattenSeq(cc) \in Seq(CallType)
           /\ [j \in DOMAIN cc |-> Written(cc[j])] \in Seq(Seq(Octet))
           /\ Len([j \in DOMAIN cc |-> Written(cc[j])]) = Len(cc)
           /\ Written(FlattenSeq(cc)) = FlattenSeq([j \in DOMAIN cc |-> Written(cc[j])])
<1> DEFINE N == Len(cc)
           ss == [j \in DOMAIN cc |-> Written(cc[j])]
<1>1. /\ N \in Nat /\ DOMAIN cc = 1 .. N
      /\ \A n \in 1 .. N : cc[n] \in Seq(CallType)
    BY LenProperties, ElementOfSeq
<1>2. \A n \in 1 .. N : Written(cc[n]) \in Seq(Octet)
    BY <1>1, WrittenType
<1>3. ss \in [1 .. N -> Seq(Octet)] /\ \A n \in 1 .. N : ss[n] = Written(cc[n])
    BY <1>1, <1>2
<1> HIDE DEF ss
<1>4. ss \in Seq(Seq(Octet)) /\ Len(ss) = N
    <2> HIDE DEF N
    <2> QED
        BY <1>1, <1>3, IsASeq, LenProperties
<1>5. PICK g \in [0 .. Len(cc) -> Seq(CallType)] :
              /\ g[0] = <<>>
              /\ \A n \in 1 .. Len(cc) : g[n] = g[n - 1] \o cc[n]
              /\ FlattenSeq(cc) = g[Len(cc)]
    BY FlattenIs
<1>6. PICK h \in [0 .. Len(ss) -> Seq(Octet)] :
              /\ h[0] = <<>>
              /\ \A n \in 1 .. Len(ss) : h[n] = h[n - 1] \o ss[n]
              /\ FlattenSeq(ss) = h[Len(ss)]
    BY <1>4, FlattenIs
<1> DEFINE K == {n \in 0 .. N : Written(g[n]) = h[n]}
<1>7. N \in 0 .. N
    BY <1>1
<1>8. N \in K
    <2>1. 0 \in K
        BY <1>1, <1>5, <1>6, WrittenNone
    <2>2. ASSUME NEW n \in 1 .. N, n - 1 \in K PROVE n \in K
        <3>1. n \in 0 .. N /\ n - 1 \in 0 .. N
            BY <1>1
        <3>2. g[n] = g[n - 1] \o cc[n] /\ h[n] = h[n - 1] \o Written(cc[n])
            BY <1>3, <1>4, <1>5, <1>6
        <3>3. Written(g[n - 1]) = h[n - 1]
            BY <2>2
        <3> DEFINE a == g[n - 1]
                   b == cc[n]
        <3>4. a \in Seq(CallType) /\ b \in Seq(CallType)
            BY <1>1, <1>5, <3>1
        <3>5. g[n] = a \o b /\ h[n] = Written(a) \o Written(b)
            BY <3>2, <3>3
        <3> HIDE DEF a, b
        <3>6. Written(g[n]) = h[n]
            BY <3>4, <3>5, WrittenConcat
        <3> QED
            BY <3>1, <3>6
    <2> HIDE DEF K, N
    <2> QED
        BY <1>1, <1>7, <2>1, <2>2, Induction
<1>9. g[N] \in Seq(CallType)
    BY <1>5, <1>7
<1> QED
    BY <1>4, <1>5, <1>6, <1>8, <1>9 DEF ss

(* What is due changes with every call by what the call announces. *)
LEMMA AnnouncedType ==
    ASSUME NEW c \in CallType
    PROVE  /\ Announced(c) \in Nat
           /\ c.major \notin {4, 5} => Announced(c) = 0
           /\ c.major = 4 => Announced(c) = c.val
           /\ c.major = 5 => Announced(c) = 2 * c.val
<1>1. c.major \in 0 .. 7 /\ c.val \in Nat
    BY LongIs DEF CallType
<1>2. /\ c.major \notin {4, 5} => Announced(c) = 0
      /\ c.major = 4 => Announced(c) = c.val
      /\ c.major = 5 => Announced(c) = 2 * c.val
    <2>1. c.major \notin {4, 5} => c.major # 4 /\ c.major # 5
        OBVIOUS
    <2>2. c.major = 4 => c.major # 5
        OBVIOUS
    <2>3. c.major = 5 => c.major # 4
        OBVIOUS
    <2>4. c.major # 4 /\ c.major # 5 => Announced(c) = 0
        BY DEF Announced
    <2>5. ASSUME c.major = 4 PROVE Announced(c) = c.val
        BY <2>2, <2>5 DEF Announced
    <2>6. ASSUME c.major = 5 PROVE Announced(c) = 2 * c.val
        BY <2>3, <2>6 DEF Announced
    <2> QED
        BY <2>1, <2>4, <2>5, <2>6
<1> QED
    BY <1>1, <1>2

(* The recursive function is what is due after each call. *)
LEMMA DueIs ==
    ASSUME NEW calls \in Seq(CallType)
    PROVE  /\ Due(calls) \in [0 .. Len(calls) -> Int]
           /\ Due(calls)[0] = 1
           /\ \A n \in 1 .. Len(calls) :
                Due(calls)[n] = Due(calls)[n - 1] - 1 + Announced(calls[n])
<1> DEFINE N == Len(calls)
           step == [q \in (1 .. N) \X Int |-> q[2] - 1 + Announced(calls[q[1]])]
<1>1. N \in Nat /\ \A n \in 1 .. N : calls[n] \in CallType
    BY BytesOfType
<1>2. \A n \in 1 .. N : Announced(calls[n]) \in Nat
    BY <1>1, AnnouncedType
<1>3. \A n \in 1 .. N, v \in Int :
        step[<<n, v>>] = v - 1 + Announced(calls[n]) /\ step[<<n, v>>] \in Int
    BY <1>2
<1> DEFINE Eq(f) == f = [n \in 0 .. N |-> IF n = 0 THEN 1 ELSE f[n - 1] - 1 + Announced(calls[n])]
           c == CHOOSE f : Eq(f)
<1>c. Due(calls) = c
    BY Zenon DEF Due
<1> HIDE DEF step
<1>4. PICK g \in [0 .. N -> Int] : Iterates(g, N, 1, step)
    <2>1. StepsIn(N, Int, step)
        BY <1>3 DEF StepsIn
    <2>2. 1 \in Int
        OBVIOUS
    <2> HIDE DEF N
    <2> QED
        BY <1>1, <2>1, <2>2, Recursion, Zenon
<1> HIDE DEF N
<1>5. g[0] = 1 /\ \A n \in 1 .. N : g[n] = g[n - 1] - 1 + Announced(calls[n])
    <2>0. \A n \in 1 .. N : n - 1 \in 0 .. N
        BY <1>1
    <2>1. g[0] = 1 /\ \A n \in 1 .. N : g[n] = step[<<n, g[n - 1]>>]
        BY <1>4 DEF Iterates
    <2>2. \A n \in 1 .. N : g[n - 1] \in Int
        BY <1>4, <2>0
    <2> QED
        BY <1>3, <2>1, <2>2
<1>6. Eq(g)
    <2>1. \A n \in 0 .. N : n = 0 \/ n \in 1 .. N
        BY <1>1
    <2>2. \A n \in 0 .. N : g[n] = IF n = 0 THEN 1 ELSE g[n - 1] - 1 + Announced(calls[n])
        BY <1>1, <1>5, <2>1
    <2> QED
        BY <1>4, <2>2
<1>7. Eq(c)
    <2> HIDE DEF Eq
    <2> QED
        BY <1>6
<1> HIDE DEF c
<1> DEFINE K == {n \in 0 .. N : c[n] = g[n]}
<1>8. \A n \in 0 .. N : n \in K
    <2>1. 0 \in K
        BY <1>1, <1>5, <1>7
    <2>2. ASSUME NEW n \in 1 .. N, n - 1 \in K PROVE n \in K
        <3>1. n \in 0 .. N /\ n # 0 /\ c[n - 1] = g[n - 1]
            BY <1>1, <2>2
        <3>2. c[n] = c[n - 1] - 1 + Announced(calls[n])
            BY <1>7, <3>1
        <3> QED
            BY <1>5, <3>1, <3>2
    <2> HIDE DEF K
    <2> QED
        BY <1>1, <2>1, <2>2, Induction
<1>9. c = g
    <2>1. \A n \in 0 .. N : c[n] = g[n]
        BY <1>8
    <2>2. c = [n \in 0 .. N |-> IF n = 0 THEN 1 ELSE c[n - 1] - 1 + Announced(calls[n])]
        BY <1>7
    <2>3. DOMAIN c = 0 .. N /\ c = [n \in DOMAIN c |-> c[n]]
        BY <2>2, Zenon
    <2>4. c = [n \in 0 .. N |-> g[n]]
        BY <2>1, <2>3
    <2> QED
        BY <1>4, <2>4
<1> QED
    BY <1>4, <1>5, <1>9, <1>c DEF N

-----------------------------------------------------------------------------
(* skip_cbor_item: the recursion, and that it lands behind the item. *)

(* What any byte reads as. *)
LEMMA HeadReads ==
    ASSUME NEW d \in Seq(Octet), NEW p
    PROVE  HeaderLen(d, p) \in 1 .. 3 /\ Argument(d, p) \in Nat
<1>1. DOMAIN d = 1 .. Len(d) /\ \A n \in 1 .. Len(d) : d[n] \in Octet
    BY LenProperties, ElementOfSeq
<1>2. \A n : ByteAt(d, n) \in Octet
    <2>1. 0 \in Octet
        BY DEF Octet
    <2> QED
        BY <1>1, <2>1, Zenon DEF ByteAt
<1>3. \A n : ByteAt(d, n) \in Nat
    <2>1. \A b \in Octet : b \in Nat
        BY DEF Octet
    <2> QED
        BY <1>2, <2>1, Zenon
<1>4. HeaderLen(d, p) = 1 \/ HeaderLen(d, p) = 2 \/ HeaderLen(d, p) = 3
    <2> DEFINE v == VlenAt(d, p)
    <2>1. CASE v = 24
        <3>1. v # 25
            BY <2>1
        <3> QED
            BY <2>1, <3>1 DEF HeaderLen
    <2>2. CASE v = 25
        <3>1. v # 24
            BY <2>2
        <3> QED
            BY <2>2, <3>1 DEF HeaderLen
    <2>3. CASE v # 24 /\ v # 25
        BY <2>3 DEF HeaderLen
    <2> QED
        BY <2>1, <2>2, <2>3
<1>5. Argument(d, p) \in Nat
    <2> DEFINE v == VlenAt(d, p)
    <2>1. v \in Nat
        BY <1>3 DEF VlenAt
    <2> HIDE DEF v
    <2>2. CASE v = 24
        <3>1. v # 25
            BY <2>2
        <3> QED
            BY <1>3, <2>2, <3>1 DEF Argument, v
    <2>3. CASE v = 25
        <3>1. v # 24
            BY <2>3
        <3>2. Argument(d, p) = 256 * ByteAt(d, p + 1) + ByteAt(d, p + 2)
            BY <2>3, <3>1 DEF Argument, v
        <3> DEFINE a == ByteAt(d, p + 1)
                   b == ByteAt(d, p + 2)
        <3>3. a \in Nat /\ b \in Nat
            BY <1>3
        <3> HIDE DEF a, b
        <3>4. 256 * a + b \in Nat
            BY <3>3
        <3> QED
            BY <3>2, <3>4 DEF a, b
    <2>4. CASE v # 24 /\ v # 25
        BY <2>1, <2>4 DEF Argument, v
    <2> QED
        BY <2>2, <2>3, <2>4
<1>6. \A x : x = 1 \/ x = 2 \/ x = 3 => x \in 1 .. 3
    OBVIOUS
<1> QED
    BY <1>4, <1>5, <1>6

(* skip_items, taken apart: the position after the item at p where f says  *)
(* how far the items in it reach, and one step of the recursion.           *)
After(f, d, p) ==
    CASE TypeAt(d, p) \in {2, 3} -> p + HeaderLen(d, p) + Argument(d, p)
      [] TypeAt(d, p) = 4        -> f[<<p + HeaderLen(d, p), Argument(d, p)>>]
      [] TypeAt(d, p) = 5        -> f[<<p + HeaderLen(d, p), 2 * Argument(d, p)>>]
      [] OTHER                   -> p + HeaderLen(d, p)

StepOf(f, d, lim, q) ==
    IF q[2] = 0 \/ q[1] >= lim THEN q[1] ELSE f[<<After(f, d, q[1]), q[2] - 1>>]

Skips(f, d, lim) == f = [q \in Nat \X Nat |-> StepOf(f, d, lim, q)]

Forward == {f \in [Nat \X Nat -> Nat] : \A p, n \in Nat : f[<<p, n>>] >= p}

(* A forward skip returns a position, and never one before the item. *)
LEMMA ForwardIs ==
    ASSUME NEW f \in Forward, NEW p \in Nat, NEW n \in Nat
    PROVE  f[<<p, n>>] \in Nat /\ f[<<p, n>>] >= p
BY DEF Forward

AfterForm(f, d, p) ==
    /\ TypeAt(d, p) \in {2, 3} => After(f, d, p) = p + HeaderLen(d, p) + Argument(d, p)
    /\ TypeAt(d, p) = 4 => After(f, d, p) = f[<<p + HeaderLen(d, p), Argument(d, p)>>]
    /\ TypeAt(d, p) = 5 => After(f, d, p) = f[<<p + HeaderLen(d, p), 2 * Argument(d, p)>>]
    /\ TypeAt(d, p) \notin {2, 3, 4, 5} => After(f, d, p) = p + HeaderLen(d, p)

(* The cases of After. *)
LEMMA AfterForms == ASSUME NEW f, NEW d, NEW p PROVE AfterForm(f, d, p)
<1> DEFINE t == TypeAt(d, p)
<1>1. ASSUME t \in {2, 3} PROVE After(f, d, p) = p + HeaderLen(d, p) + Argument(d, p)
    <2>1. t # 4 /\ t # 5
        BY <1>1
    <2> QED
        BY <1>1, <2>1, Zenon DEF After
<1>2. ASSUME t = 4 PROVE After(f, d, p) = f[<<p + HeaderLen(d, p), Argument(d, p)>>]
    <2>1. t \notin {2, 3} /\ t # 5
        BY <1>2
    <2> QED
        BY <1>2, <2>1, Zenon DEF After
<1>3. ASSUME t = 5 PROVE After(f, d, p) = f[<<p + HeaderLen(d, p), 2 * Argument(d, p)>>]
    <2>1. t \notin {2, 3} /\ t # 4
        BY <1>3
    <2> QED
        BY <1>3, <2>1, Zenon DEF After
<1>4. ASSUME t \notin {2, 3, 4, 5} PROVE After(f, d, p) = p + HeaderLen(d, p)
    <2>1. t \notin {2, 3} /\ t # 4 /\ t # 5
        BY <1>4
    <2> QED
        BY <2>1, Zenon DEF After
<1> QED
    BY <1>1, <1>2, <1>3, <1>4, Zenon DEF AfterForm

(* The next item is further on. *)
LEMMA AfterIs ==
    ASSUME NEW d \in Seq(Octet), NEW f \in Forward, NEW p \in Nat
    PROVE  After(f, d, p) \in Nat /\ After(f, d, p) > p
<1> DEFINE t == TypeAt(d, p)
           a == Argument(d, p)
           h == HeaderLen(d, p)
<1>1. h \in 1 .. 3 /\ a \in Nat
    BY HeadReads
<1>2. /\ t \in {2, 3} => After(f, d, p) = p + h + a
      /\ t = 4 => After(f, d, p) = f[<<p + h, a>>]
      /\ t = 5 => After(f, d, p) = f[<<p + h, 2 * a>>]
      /\ t \notin {2, 3, 4, 5} => After(f, d, p) = p + h
    BY AfterForms, Zenon DEF AfterForm
<1> HIDE DEF t, a, h
<1>3. p + h \in Nat /\ p + h > p /\ 2 * a \in Nat /\ p + h + a \in Nat /\ p + h + a > p
    BY <1>1
<1>4. /\ f[<<p + h, a>>] \in Nat /\ f[<<p + h, a>>] >= p + h
      /\ f[<<p + h, 2 * a>>] \in Nat /\ f[<<p + h, 2 * a>>] >= p + h
    BY <1>1, <1>3, ForwardIs
<1>5. CASE t \in {2, 3}
    BY <1>2, <1>3, <1>5
<1>6. CASE t = 4
    <2> DEFINE x == f[<<p + h, a>>]
    <2>1. x \in Nat /\ x >= p + h
        BY <1>4
    <2> HIDE DEF x
    <2>2. x > p
        BY <1>1, <2>1
    <2> QED
        BY <1>2, <1>6, <2>1, <2>2 DEF x
<1>7. CASE t = 5
    <2> DEFINE x == f[<<p + h, 2 * a>>]
    <2>1. x \in Nat /\ x >= p + h
        BY <1>4
    <2> HIDE DEF x
    <2>2. x > p
        BY <1>1, <2>1
    <2> QED
        BY <1>2, <1>7, <2>1, <2>2 DEF x
<1>8. CASE t \notin {2, 3, 4, 5}
    BY <1>2, <1>3, <1>8
<1> QED
    BY <1>5, <1>6, <1>7, <1>8

StepForm(f, d, lim, p, n) ==
    /\ n = 0 \/ p >= lim => StepOf(f, d, lim, <<p, n>>) = p
    /\ n # 0 /\ p < lim => StepOf(f, d, lim, <<p, n>>) = f[<<After(f, d, p), n - 1>>]

(* The cases of StepOf. *)
LEMMA StepForms ==
    ASSUME NEW d, NEW lim \in Nat, NEW f, NEW p \in Nat, NEW n \in Nat
    PROVE  StepForm(f, d, lim, p, n)
<1>1. <<p, n>>[1] = p /\ <<p, n>>[2] = n
    OBVIOUS
<1>2. StepOf(f, d, lim, <<p, n>>) = IF n = 0 \/ p >= lim THEN p ELSE f[<<After(f, d, p), n - 1>>]
    BY <1>1, Zenon DEF StepOf
<1>3. p < lim => ~(p >= lim)
    OBVIOUS
<1> QED
    BY <1>2, <1>3, Zenon DEF StepForm

(* A step does not go back. *)
LEMMA StepIs ==
    ASSUME NEW d \in Seq(Octet), NEW lim \in Nat, NEW f \in Forward, NEW p \in Nat, NEW n \in Nat
    PROVE  /\ StepOf(f, d, lim, <<p, n>>) \in Nat /\ StepOf(f, d, lim, <<p, n>>) >= p
           /\ n = 0 \/ p >= lim => StepOf(f, d, lim, <<p, n>>) = p
           /\ n # 0 /\ p < lim => StepOf(f, d, lim, <<p, n>>) = f[<<After(f, d, p), n - 1>>]
<1>1. <<p, n>>[1] = p /\ <<p, n>>[2] = n
    OBVIOUS
<1>2. StepOf(f, d, lim, <<p, n>>) = IF n = 0 \/ p >= lim THEN p ELSE f[<<After(f, d, p), n - 1>>]
    BY <1>1, Zenon DEF StepOf
<1> DEFINE x == After(f, d, p)
<1>3. x \in Nat /\ x > p
    BY AfterIs
<1> HIDE DEF x
<1>4. n # 0 => f[<<x, n - 1>>] \in Nat /\ f[<<x, n - 1>>] >= x
    <2>1. n # 0 => n - 1 \in Nat
        OBVIOUS
    <2> QED
        BY <1>3, <2>1, ForwardIs
<1> DEFINE y == f[<<x, n - 1>>]
           r == StepOf(f, d, lim, <<p, n>>)
<1>5. r = IF n = 0 \/ p >= lim THEN p ELSE y
    BY <1>2 DEF x
<1>6. n # 0 => y \in Nat /\ y >= x
    BY <1>4
<1> HIDE DEF y, r
<1>7. /\ r \in Nat /\ r >= p /\ (n = 0 \/ p >= lim => r = p)
      /\ n # 0 /\ p < lim => r = y
    BY <1>3, <1>5, <1>6
<1> QED
    BY <1>7 DEF r, y, x

(* A step looks only at what lies behind it. *)
SameBehind(f, g, p) == \A x, m \in Nat : x > p => f[<<x, m>>] = g[<<x, m>>]

SameStep(f, g, d, lim, p, n) == StepOf(f, d, lim, <<p, n>>) = StepOf(g, d, lim, <<p, n>>)

(* A step depends on what is behind its position only. *)
LEMMA StepSame ==
    ASSUME NEW d \in Seq(Octet), NEW lim \in Nat, NEW f \in Forward, NEW g,
           NEW p \in Nat, NEW n \in Nat, SameBehind(f, g, p)
    PROVE  SameStep(f, g, d, lim, p, n)
<1> DEFINE t == TypeAt(d, p)
           a == Argument(d, p)
           h == HeaderLen(d, p)
           x == After(f, d, p)
           y == After(g, d, p)
<1>1. h \in 1 .. 3 /\ a \in Nat
    BY HeadReads
<1>2. /\ t \in {2, 3} => x = p + h + a
      /\ t = 4 => x = f[<<p + h, a>>]
      /\ t = 5 => x = f[<<p + h, 2 * a>>]
      /\ t \notin {2, 3, 4, 5} => x = p + h
    BY AfterForms, Zenon DEF AfterForm
<1>y. /\ t \in {2, 3} => y = p + h + a
      /\ t = 4 => y = g[<<p + h, a>>]
      /\ t = 5 => y = g[<<p + h, 2 * a>>]
      /\ t \notin {2, 3, 4, 5} => y = p + h
    BY AfterForms, Zenon DEF AfterForm
<1>4. x \in Nat /\ x > p
    BY AfterIs
<1> DEFINE u == StepOf(f, d, lim, <<p, n>>)
           v == StepOf(g, d, lim, <<p, n>>)
<1>5. (n = 0 \/ p >= lim => u = p) /\ (n # 0 /\ p < lim => u = f[<<x, n - 1>>])
    <2>1. StepForm(f, d, lim, p, n)
        BY StepForms, Zenon
    <2> QED
        BY <2>1, Zenon DEF StepForm
<1>g. (n = 0 \/ p >= lim => v = p) /\ (n # 0 /\ p < lim => v = g[<<y, n - 1>>])
    <2>1. StepForm(g, d, lim, p, n)
        BY StepForms, Zenon
    <2> QED
        BY <2>1, Zenon DEF StepForm
<1> HIDE DEF t, a, h, x, y, u, v
<1>3. p + h \in Nat /\ p + h > p /\ 2 * a \in Nat
    BY <1>1
<1>6. f[<<p + h, a>>] = g[<<p + h, a>>] /\ f[<<p + h, 2 * a>>] = g[<<p + h, 2 * a>>]
    BY <1>1, <1>3 DEF SameBehind
<1>7. x = y
    <2>1. CASE t \in {2, 3}
        BY <1>2, <1>y, <2>1
    <2>2. CASE t = 4
        BY <1>2, <1>y, <1>6, <2>2
    <2>3. CASE t = 5
        BY <1>2, <1>y, <1>6, <2>3
    <2>4. CASE t \notin {2, 3, 4, 5}
        BY <1>2, <1>y, <2>4
    <2> QED
        BY <2>1, <2>2, <2>3, <2>4
<1>8. n # 0 => f[<<x, n - 1>>] = g[<<x, n - 1>>]
    <2>1. n # 0 => n - 1 \in Nat
        OBVIOUS
    <2> QED
        BY <1>4, <2>1 DEF SameBehind
<1>9. (n = 0 \/ p >= lim) \/ (n # 0 /\ p < lim)
    OBVIOUS
<1> QED
    <2>1. u = v
        BY <1>5, <1>g, <1>7, <1>8, <1>9
    <2> QED
        BY <2>1, Zenon DEF u, v, SameStep

(* The recursion of skip_items is well founded whatever the data are: every *)
(* item has a head, so that each call is for a later position.              *)
LEMMA SkipsExist ==
    ASSUME NEW d \in Seq(Octet), NEW lim \in Nat
    PROVE  \E f \in Forward : Skips(f, d, lim)
<1> DEFINE N == lim + 1
           D == Nat \X Nat
           base == [q \in D |-> q[1]]
           Next1(f) == [q \in D |-> StepOf(f, d, lim, q)]
           step == [r \in (1 .. N) \X Forward |-> Next1(r[2])]
<1>0. N \in Nat
    OBVIOUS
<1>b. \A q \in D : \E p, n \in Nat : q = <<p, n>>
    OBVIOUS
<1>c. \A p, n \in Nat : <<p, n>> \in D
    OBVIOUS
<1>1. base \in Forward /\ \A p, n \in Nat : base[<<p, n>>] = p
    <2>1. base \in [D -> Nat] /\ \A p, n \in Nat : base[<<p, n>>] = p
        OBVIOUS
    <2> HIDE DEF base
    <2> QED
        BY <2>1 DEF Forward
<1> HIDE DEF D
<1>2. ASSUME NEW f \in Forward
      PROVE  /\ Next1(f) \in Forward
             /\ \A p, n \in Nat : Next1(f)[<<p, n>>] = StepOf(f, d, lim, <<p, n>>)
    <2>1. \A p, n \in Nat : StepOf(f, d, lim, <<p, n>>) \in Nat /\ StepOf(f, d, lim, <<p, n>>) >= p
        BY StepIs
    <2>2. \A p, n \in Nat : Next1(f)[<<p, n>>] = StepOf(f, d, lim, <<p, n>>)
        BY <1>c, Zenon
    <2>3. Next1(f) \in [D -> Nat]
        <3>1. \A q \in D : StepOf(f, d, lim, q) \in Nat
            BY <1>b, <2>1, Zenon
        <3> QED
            BY <3>1
    <2> HIDE DEF Next1
    <2>4. \A p, n \in Nat : Next1(f)[<<p, n>>] >= p
        BY <2>1, <2>2
    <2>5. Next1(f) \in Forward
        BY <2>3, <2>4 DEF Forward, D
    <2> QED
        BY <2>2, <2>5
<1>3. \A m \in 1 .. N, f \in Forward : step[<<m, f>>] = Next1(f) /\ step[<<m, f>>] \in Forward
    <2> HIDE DEF Next1
    <2> QED
        BY <1>2
<1> HIDE DEF Next1, step, base
<1>4. PICK F \in [0 .. N -> Forward] : Iterates(F, N, base, step)
    <2>1. StepsIn(N, Forward, step)
        BY <1>3 DEF StepsIn
    <2> HIDE DEF N
    <2> QED
        BY <1>0, <1>1, <2>1, Recursion, Zenon
<1>5. F[0] = base /\ \A n \in 1 .. N : n - 1 \in 0 .. N /\ F[n - 1] \in Forward /\ F[n] = Next1(F[n - 1])
    <2>0. \A n \in 1 .. N : n - 1 \in 0 .. N
        BY <1>0
    <2>1. F[0] = base /\ \A n \in 1 .. N : F[n] = step[<<n, F[n - 1]>>]
        BY <1>4 DEF Iterates
    <2>2. \A n \in 1 .. N : F[n - 1] \in Forward
        BY <1>4, <2>0
    <2> HIDE DEF N
    <2> QED
        BY <1>3, <2>0, <2>1, <2>2
(* After n rounds nothing changes any more for positions from lim - n on. *)
<1> DEFINE Same(n) == \A p, m \in Nat : p >= lim - n => F[n + 1][<<p, m>>] = F[n][<<p, m>>]
           K == {n \in 0 .. lim : Same(n)}
<1>6. 0 \in K
    <2> SUFFICES ASSUME NEW p \in Nat, NEW m \in Nat, p >= lim
                 PROVE  F[1][<<p, m>>] = F[0][<<p, m>>]
        OBVIOUS
    <2>1. 1 \in 1 .. N /\ 1 - 1 = 0
        OBVIOUS
    <2>2. F[1] = Next1(F[0]) /\ F[0] = base
        BY <1>5, <2>1
    <2>3. F[1][<<p, m>>] = StepOf(base, d, lim, <<p, m>>)
        BY <1>1, <1>2, <2>2
    <2>4. StepOf(base, d, lim, <<p, m>>) = p
        <3>1. StepForm(base, d, lim, p, m)
            BY StepForms, Zenon
        <3> QED
            BY <3>1 DEF StepForm
    <2> QED
        BY <1>1, <2>2, <2>3, <2>4
<1>7. ASSUME NEW n \in 1 .. lim, n - 1 \in K PROVE n \in K
    <2>0. n \in 0 .. lim /\ n \in 1 .. N /\ n + 1 \in 1 .. N /\ (n + 1) - 1 = n /\ (n - 1) + 1 = n
        OBVIOUS
    <2>1. /\ F[n] \in Forward /\ F[n - 1] \in Forward
          /\ F[n + 1] = Next1(F[n]) /\ F[n] = Next1(F[n - 1])
        BY <1>5, <2>0
    <2>2. ASSUME NEW p \in Nat, NEW m \in Nat, p >= lim - n
          PROVE  F[n + 1][<<p, m>>] = F[n][<<p, m>>]
        <3>1. \A x, k \in Nat : x > p => F[n][<<x, k>>] = F[n - 1][<<x, k>>]
            <4>1. Same(n - 1)
                BY <1>7
            <4>2. \A x \in Nat : x > p => x >= lim - (n - 1)
                BY <2>2
            <4> QED
                BY <2>0, <4>1, <4>2
        <3> DEFINE f == F[n]
                   g == F[n - 1]
        <3>2. f \in Forward /\ g \in Forward /\ SameBehind(f, g, p)
            BY <2>1, <3>1 DEF SameBehind
        <3>3. F[n + 1][<<p, m>>] = StepOf(f, d, lim, <<p, m>>) /\ F[n][<<p, m>>] = StepOf(g, d, lim, <<p, m>>)
            BY <1>2, <2>1
        <3> HIDE DEF f, g
        <3>4. SameStep(f, g, d, lim, p, m)
            BY <3>2, StepSame, Zenon
        <3> QED
            BY <3>3, <3>4 DEF SameStep
    <2> QED
        BY <2>0, <2>2
<1>8. lim \in K
    <2>1. lim \in 0 .. lim
        OBVIOUS
    <2> HIDE DEF K
    <2> QED
        BY <1>6, <1>7, <2>1, Induction
<1> DEFINE f == F[lim]
<1>9. f \in Forward /\ F[lim + 1] = Next1(f)
    <2>1. lim + 1 \in 1 .. N /\ (lim + 1) - 1 = lim
        OBVIOUS
    <2> QED
        BY <1>5, <2>1
<1>10. \A p, m \in Nat : Next1(f)[<<p, m>>] = f[<<p, m>>]
    <2>1. Same(lim)
        BY <1>8
    <2>2. \A p \in Nat : p >= lim - lim
        OBVIOUS
    <2> QED
        BY <1>9, <2>1, <2>2
<1> HIDE DEF f
<1>11. \A q \in D : f[q] = StepOf(f, d, lim, q)
    BY <1>b, <1>2, <1>9, <1>10
<1>12. f = [q \in D |-> StepOf(f, d, lim, q)]
    <2>1. f = [q \in D |-> f[q]]
        BY <1>9 DEF Forward, D
    <2> QED
        BY <1>11, <2>1
<1> QED
    BY <1>9, <1>12 DEF Skips, D

(* skip_items is such a function. *)
LEMMA SkipIs ==
    ASSUME NEW d \in Seq(Octet), NEW lim \in Nat
    PROVE  \E f \in Forward :
             \A p, n \in Nat :
               /\ skip_items(d, lim, p, n) = f[<<p, n>>]
               /\ f[<<p, n>>] = StepOf(f, d, lim, <<p, n>>)
<1> DEFINE c == CHOOSE f : Skips(f, d, lim)
<1>1. \A p, n : skip_items(d, lim, p, n) = c[<<p, n>>]
    BY Zenon DEF skip_items, Skips, StepOf, After
<1>2. PICK g \in Forward : Skips(g, d, lim)
    BY SkipsExist
<1>3. Skips(c, d, lim)
    BY <1>2, Zenon
<1> HIDE DEF c
<1>4. /\ DOMAIN c = Nat \X Nat
      /\ \A p, n \in Nat : c[<<p, n>>] = StepOf(c, d, lim, <<p, n>>)
    <2>1. c = [q \in Nat \X Nat |-> StepOf(c, d, lim, q)]
        BY <1>3 DEF Skips
    <2>2. \A p, n \in Nat : <<p, n>> \in Nat \X Nat
        OBVIOUS
    <2> QED
        BY <2>1, <2>2, Zenon
(* There is only one such function. *)
<1> DEFINE K == {n \in 0 .. lim : \A p, m \in Nat : p >= lim - n => g[<<p, m>>] = c[<<p, m>>]}
<1>5. \A p, m \in Nat : g[<<p, m>>] = StepOf(g, d, lim, <<p, m>>)
    <2>1. g = [q \in Nat \X Nat |-> StepOf(g, d, lim, q)]
        BY <1>2 DEF Skips
    <2>2. \A p, n \in Nat : <<p, n>> \in Nat \X Nat
        OBVIOUS
    <2> QED
        BY <2>1, <2>2, Zenon
<1>6. 0 \in K
    <2> SUFFICES ASSUME NEW p \in Nat, NEW m \in Nat, p >= lim
                 PROVE  g[<<p, m>>] = c[<<p, m>>]
        OBVIOUS
    <2>1. StepOf(g, d, lim, <<p, m>>) = p
        <3>1. StepForm(g, d, lim, p, m)
            BY StepForms, Zenon
        <3> QED
            BY <3>1 DEF StepForm
    <2>2. StepOf(c, d, lim, <<p, m>>) = p
        <3>1. StepForm(c, d, lim, p, m)
            BY StepForms, Zenon
        <3> QED
            BY <3>1 DEF StepForm
    <2> QED
        BY <1>4, <1>5, <2>1, <2>2
<1>7. ASSUME NEW n \in 1 .. lim, n - 1 \in K PROVE n \in K
    <2>1. ASSUME NEW p \in Nat, NEW m \in Nat, p >= lim - n
          PROVE  g[<<p, m>>] = c[<<p, m>>]
        <3>1. \A x \in Nat : x > p => x >= lim - (n - 1)
            BY <2>1
        <3>2. SameBehind(g, c, p)
            BY <1>7, <3>1 DEF SameBehind
        <3>3. SameStep(g, c, d, lim, p, m)
            BY <3>2, StepSame, Zenon
        <3> QED
            BY <1>4, <1>5, <3>3 DEF SameStep
    <2>2. n \in 0 .. lim
        OBVIOUS
    <2> QED
        BY <2>1, <2>2
<1>8. lim \in K
    <2>1. lim \in 0 .. lim
        OBVIOUS
    <2> HIDE DEF K
    <2> QED
        BY <1>6, <1>7, <2>1, Induction
<1>9. \A p, m \in Nat : g[<<p, m>>] = c[<<p, m>>]
    <2>1. \A p \in Nat : p >= lim - lim
        OBVIOUS
    <2> QED
        BY <1>8, <2>1
<1> QED
    BY <1>1, <1>2, <1>5, <1>9

(* Calls j + 1 to e write n items, if W is what is due after each call. *)
Items(W, j, n, e) == W[e] = W[j] - n /\ \A k \in j .. e - 1 : W[k] > W[j] - n

Unfolds(f, N, P, A) ==
    /\ \A j \in 0 .. N : f[<<P[j], 0>>] = P[j]
    /\ \A j \in 0 .. N - 1, n \in Nat \ {0} :
         f[<<P[j], n>>] = f[<<f[<<P[j + 1], A[j + 1]>>], n - 1>>]

Tallies(N, W, A) == \A k \in 1 .. N : W[k] = W[k - 1] - 1 + A[k]

Lands(f, N, W, P) ==
    \A j, e \in 0 .. N, n \in Nat : j <= e /\ Items(W, j, n, e) => f[<<P[j], n>>] = P[e]

(* A walk that goes into every item and comes out behind all that it       *)
(* announced gets from the start of n items to their end.                  *)
LEMMA Nesting ==
    ASSUME NEW N \in Nat, NEW W \in [0 .. N -> Int], NEW P, NEW A \in [1 .. N -> Nat],
           Tallies(N, W, A), NEW f, Unfolds(f, N, P, A)
    PROVE  Lands(f, N, W, P)
<1>0. \A k \in 1 .. N : W[k] = W[k - 1] - 1 + A[k]
    BY DEF Tallies
<1> DEFINE Good(j, e) == \A n \in Nat : Items(W, j, n, e) => f[<<P[j], n>>] = P[e]
           K == {m \in 0 .. N : \A j, e \in 0 .. N : j <= e /\ e - j <= m => Good(j, e)}
<1>1. ASSUME NEW j \in 0 .. N, NEW n \in Nat, Items(W, j, n, j)
      PROVE  n = 0 /\ f[<<P[j], n>>] = P[j]
    <2>1. W[j] = W[j] - n /\ W[j] \in Int
        BY <1>1 DEF Items
    <2>2. n = 0
        BY <2>1
    <2> QED
        BY <2>2 DEF Unfolds
<1>2. ASSUME NEW m \in 1 .. N, m - 1 \in K, NEW j \in 0 .. N, NEW e \in 0 .. N, j < e, e - j = m,
             NEW n \in Nat, Items(W, j, n, e)
      PROVE  f[<<P[j], n>>] = P[e]
    <2>0. /\ j \in 0 .. N - 1 /\ j + 1 \in 1 .. N /\ j + 1 \in 0 .. N /\ (j + 1) - 1 = j
          /\ W[j] \in Int /\ W[e] \in Int /\ W[j + 1] \in Int /\ A[j + 1] \in Nat
        BY <1>2
    <2> DEFINE w == W[j]
               a == A[j + 1]
    <2>1. W[j + 1] = w - 1 + a
        BY <1>0, <2>0
    <2>2. W[e] = w - n /\ \A k \in j .. e - 1 : W[k] > w - n
        BY <1>2 DEF Items
    <2>3. n # 0
        <3>1. j \in j .. e - 1
            BY <1>2
        <3>2. w > w - n
            BY <2>2, <3>1
        <3> QED
            BY <2>0, <3>2
    (* The first place where the item at j is complete. *)
    <2> DEFINE T == {k \in j + 1 .. e : W[k] <= w - 1}
    <2>4. PICK h \in T : \A k \in T : h <= k
        <3>1. e \in T
            <4>1. W[e] <= w - 1
                BY <2>0, <2>2, <2>3
            <4>2. e \in j + 1 .. e
                BY <1>2
            <4> QED
                BY <4>1, <4>2
        <3>2. T \subseteq Nat
            BY <1>2
        <3> HIDE DEF T
        <3> QED
            BY <3>1, <3>2, LeastOf
    <2>5. /\ h \in j + 1 .. e /\ W[h] <= w - 1 /\ h \in 0 .. N /\ W[h] \in Int
        BY <1>2, <2>4
    <2>6. \A k \in j + 1 .. h - 1 : W[k] > w - 1
        <3> SUFFICES ASSUME NEW k \in j + 1 .. h - 1 PROVE W[k] > w - 1
            OBVIOUS
        <3>1. k \in j + 1 .. e /\ k \in 0 .. N /\ k < h
            BY <1>2, <2>5
        <3>2. k \notin T
            BY <2>4, <2>5, <3>1
        <3>3. ~(W[k] <= w - 1) /\ W[k] \in Int
            BY <3>1, <3>2
        <3> QED
            BY <2>0, <3>3
    <2>7. W[h] = w - 1
        <3>1. CASE h = j + 1
            <4>1. w - 1 + a <= w - 1 /\ a \in Nat /\ w \in Int
                BY <2>0, <2>1, <2>5, <3>1
            <4> HIDE DEF w, a
            <4>2. a = 0
                BY <4>1
            <4> QED
                BY <2>1, <3>1, <4>1, <4>2
        <3>2. CASE h # j + 1
            <4>1. h - 1 \in j + 1 .. h - 1 /\ h \in 1 .. N /\ h - 1 \in 0 .. N
                <5>1. j \in Nat /\ e \in Nat /\ e <= N /\ h \in Int /\ j + 1 <= h /\ h <= e /\ h # j + 1
                    BY <2>5, <3>2
                <5> HIDE DEF T
                <5> QED
                    BY <5>1
            <4> DEFINE x == W[h - 1]
                       y == W[h]
                       b == A[h]
            <4>2. x > w - 1 /\ y = x - 1 + b /\ x \in Int /\ y \in Int /\ b \in Nat /\ y <= w - 1 /\ w \in Int
                BY <1>0, <2>0, <2>5, <2>6, <4>1
            <4> HIDE DEF x, y, b, w
            <4>3. y = w - 1
                BY <4>2
            <4> QED
                BY <4>3 DEF y
        <3> QED
            BY <3>1, <3>2
    <2>8. f[<<P[j + 1], a>>] = P[h]
        <3>1. Items(W, j + 1, a, h)
            <4>1. W[j + 1] - a = w - 1
                BY <2>0, <2>1
            <4> QED
                BY <2>6, <2>7, <4>1 DEF Items
        <3>2. j + 1 <= h /\ h - (j + 1) <= m - 1
            BY <1>2, <2>5
        <3>3. Good(j + 1, h)
            BY <1>2, <2>0, <2>5, <3>2
        <3> QED
            BY <2>0, <3>1, <3>3
    <2>9. f[<<P[h], n - 1>>] = P[e]
        <3>1. Items(W, h, n - 1, e)
            <4>1. W[h] - (n - 1) = w - n
                BY <2>0, <2>7
            <4>2. \A k \in h .. e - 1 : k \in j .. e - 1
                BY <1>2, <2>5
            <4> QED
                BY <2>2, <4>1, <4>2 DEF Items
        <3>2. h <= e /\ e - h <= m - 1 /\ n - 1 \in Nat
            BY <1>2, <2>3, <2>5
        <3>3. Good(h, e)
            BY <1>2, <2>5, <3>2
        <3> QED
            BY <3>1, <3>2, <3>3
    <2>10. f[<<P[j], n>>] = f[<<f[<<P[j + 1], a>>], n - 1>>]
        BY <2>0, <2>3 DEF Unfolds
    <2> QED
        BY <2>8, <2>9, <2>10
<1>3. 0 \in K
    <2> SUFFICES ASSUME NEW j \in 0 .. N, NEW e \in 0 .. N, j <= e, e - j <= 0,
                        NEW n \in Nat, Items(W, j, n, e)
                 PROVE  f[<<P[j], n>>] = P[e]
        OBVIOUS
    <2>1. e = j
        OBVIOUS
    <2> QED
        BY <1>1, <2>1
<1>4. ASSUME NEW m \in 1 .. N, m - 1 \in K PROVE m \in K
    <2> SUFFICES ASSUME NEW j \in 0 .. N, NEW e \in 0 .. N, j <= e, e - j <= m,
                        NEW n \in Nat, Items(W, j, n, e)
                 PROVE  f[<<P[j], n>>] = P[e]
        OBVIOUS
    <2>1. CASE e - j = m
        <3>1. j < e
            BY <2>1
        <3>2. m - 1 \in K
            BY <1>4
        <3> HIDE DEF K
        <3> QED
            BY <1>2, <2>1, <3>1, <3>2
    <2>2. CASE e - j <= m - 1
        <3>1. Good(j, e)
            BY <1>4, <2>2
        <3> QED
            BY <3>1
    <2> QED
        BY <2>1, <2>2
<1>5. N \in K
    <2>1. N \in 0 .. N
        OBVIOUS
    <2> HIDE DEF K
    <2> QED
        BY <1>3, <1>4, <2>1, Induction
<1>6. \A j, e \in 0 .. N : j <= e => Good(j, e)
    <2>1. \A j, e \in 0 .. N : e - j <= N
        OBVIOUS
    <2> QED
        BY <1>5, <2>1
<1> QED
    BY <1>6 DEF Lands

Short(val) == IF val < 24 THEN val ELSE IF val < 256 THEN 24 ELSE 25

(* What is read at p is the head of c. *)
ReadsCall(d, p, c) ==
    /\ p \in DOMAIN d /\ d[p] = 32 * c.major + Short(c.val) /\ d[p] \in Octet
    /\ TypeAt(d, p) = c.major /\ VlenAt(d, p) = Short(c.val) /\ Argument(d, p) = c.val
    /\ 24 <= c.val /\ c.val < 256 => ByteAt(d, p + 1) = c.val
    /\ HeaderLen(d, p) = Len(HeadBytes(c.major, c.val))
    /\ Holds(d, p + HeaderLen(d, p), c.body)
    /\ Len(CallBytes(c)) = HeaderLen(d, p) + Len(c.body)

(* A head reads as what was written. *)
LEMMA ReadsHead ==
    ASSUME NEW d \in Seq(Octet), NEW p, NEW m \in 0 .. 7, NEW val \in Word,
           Holds(d, p, HeadBytes(m, val))
    PROVE  /\ p \in DOMAIN d /\ d[p] = 32 * m + Short(val) /\ d[p] \in Octet
           /\ TypeAt(d, p) = m /\ VlenAt(d, p) = Short(val) /\ Argument(d, p) = val
           /\ 24 <= val /\ val < 256 => ByteAt(d, p + 1) = val
           /\ HeaderLen(d, p) = Len(HeadBytes(m, val))
<1> DEFINE h == HeadBytes(m, val)
           L == Len(h)
           M == Len(d)
<1>1. val \in Nat /\ val < 2^16
    BY WordIs
<1>d. \A v \in Nat : 256 * (v \div 256) + (v % 256) = v
    OBVIOUS
<1>2. /\ val < 24 => h = <<32 * m + val>>
      /\ 24 <= val /\ val < 256 => h = <<32 * m + 24, val>>
      /\ 256 <= val => h = <<32 * m + 25, val \div 256, val % 256>>
    BY HeadForm, ZenonT(60)
<1>3. /\ p \in Nat \ {0} /\ p + L <= M + 1 /\ M \in Nat /\ DOMAIN d = 1 .. M
      /\ \A k \in 1 .. L : d[p + k - 1] = h[k]
      /\ \A k \in 1 .. M : d[k] \in Octet
    BY LenProperties, ElementOfSeq DEF Holds
<1> DEFINE s == Short(val)
<1>4. /\ s \in 0 .. 25 /\ (val < 24 => s = val) /\ (24 <= val /\ val < 256 => s = 24)
      /\ 256 <= val => s = 25
    BY <1>1 DEF Short
<1>5. ASSUME NEW L0 \in {1, 2, 3}, L = L0
      PROVE  /\ p \in 1 .. M /\ d[p] = h[1] /\ ByteAt(d, p) = h[1]
             /\ L0 >= 2 => d[p + 1] = h[2] /\ ByteAt(d, p + 1) = h[2]
             /\ L0 = 3 => ByteAt(d, p + 2) = h[3]
    <2>1. /\ p \in 1 .. M /\ 1 \in 1 .. L /\ p + 1 - 1 = p
          /\ L0 >= 2 => p + 1 \in 1 .. M /\ 2 \in 1 .. L /\ p + 2 - 1 = p + 1
          /\ L0 = 3 => p + 2 \in 1 .. M /\ 3 \in 1 .. L /\ p + 3 - 1 = p + 2
        <3> HIDE DEF L, M, h
        <3> QED
            BY <1>3, <1>5
    <2> HIDE DEF L, M, h
    <2>2. d[p] = h[1] /\ (L0 >= 2 => d[p + 1] = h[2]) /\ (L0 = 3 => d[p + 2] = h[3])
        BY <1>3, <2>1
    <2> QED
        BY <1>3, <2>1, <2>2, Zenon DEF ByteAt
<1> HIDE DEF s
<1>6. d[p] = 32 * m + s => (32 * m + s) \div 32 = m /\ (32 * m + s) % 32 = s
    BY <1>4
<1>7. CASE val < 24
    <2>1. h = <<32 * m + val>> /\ L = 1 /\ h[1] = 32 * m + val /\ s = val
        BY <1>2, <1>4, <1>7
    <2> HIDE DEF h, L, M
    <2>2. p \in 1 .. M /\ d[p] = 32 * m + s /\ ByteAt(d, p) = 32 * m + s
        BY <1>5, <2>1
    <2>3. TypeAt(d, p) = m /\ VlenAt(d, p) = s /\ s # 24 /\ s # 25
        BY <1>6, <1>7, <2>1, <2>2 DEF TypeAt, VlenAt
    <2>4. HeaderLen(d, p) = 1
        BY <2>3, Zenon DEF HeaderLen
    <2>5. Argument(d, p) = val
        BY <2>1, <2>3, Zenon DEF Argument
    <2>6. ~(24 <= val)
        BY <1>1, <1>7
    <2> QED
        BY <1>3, <2>1, <2>2, <2>3, <2>4, <2>5, <2>6 DEF s, h, L
<1>8. CASE 24 <= val /\ val < 256
    <2>1. h = <<32 * m + 24, val>> /\ L = 2 /\ h[1] = 32 * m + 24 /\ h[2] = val /\ s = 24
        BY <1>2, <1>4, <1>8
    <2> HIDE DEF h, L, M
    <2>2. /\ p \in 1 .. M /\ d[p] = 32 * m + s /\ ByteAt(d, p) = 32 * m + s
          /\ d[p + 1] = val /\ ByteAt(d, p + 1) = val
        <3>1. 2 \in {1, 2, 3} /\ 2 >= 2
            OBVIOUS
        <3>2. /\ p \in 1 .. M /\ d[p] = h[1] /\ ByteAt(d, p) = h[1]
              /\ d[p + 1] = h[2] /\ ByteAt(d, p + 1) = h[2]
            BY <1>5, <2>1, <3>1
        <3> QED
            BY <2>1, <3>2
    <2>3. TypeAt(d, p) = m /\ VlenAt(d, p) = s /\ s = 24 /\ s # 25
        BY <1>6, <1>8, <2>1, <2>2 DEF TypeAt, VlenAt
    <2>4. HeaderLen(d, p) = 2
        BY <2>3, Zenon DEF HeaderLen
    <2>5. Argument(d, p) = val
        BY <2>2, <2>3, Zenon DEF Argument
    <2> QED
        BY <1>3, <2>1, <2>2, <2>3, <2>4, <2>5 DEF s, h, L
<1>9. CASE 256 <= val
    <2>1. /\ h = <<32 * m + 25, val \div 256, val % 256>> /\ L = 3 /\ h[1] = 32 * m + 25
          /\ h[2] = val \div 256 /\ h[3] = val % 256 /\ s = 25
        BY <1>2, <1>4, <1>9
    <2> HIDE DEF h, L, M
    <2>2. /\ p \in 1 .. M /\ d[p] = 32 * m + s /\ ByteAt(d, p) = 32 * m + s
          /\ ByteAt(d, p + 1) = val \div 256 /\ ByteAt(d, p + 2) = val % 256
        <3>1. 3 \in {1, 2, 3} /\ 3 >= 2
            OBVIOUS
        <3>2. /\ p \in 1 .. M /\ d[p] = h[1] /\ ByteAt(d, p) = h[1]
              /\ ByteAt(d, p + 1) = h[2] /\ ByteAt(d, p + 2) = h[3]
            BY <1>5, <2>1, <3>1
        <3> QED
            BY <2>1, <3>2
    <2>3. TypeAt(d, p) = m /\ VlenAt(d, p) = s /\ s = 25 /\ s # 24
        BY <1>6, <1>9, <2>1, <2>2 DEF TypeAt, VlenAt
    <2>4. HeaderLen(d, p) = 3
        BY <2>3, Zenon DEF HeaderLen
    <2>5. Argument(d, p) = 256 * ByteAt(d, p + 1) + ByteAt(d, p + 2)
        BY <2>3, Zenon DEF Argument
    <2>6. Argument(d, p) = val
        <3>1. 256 * (val \div 256) + (val % 256) = val
            BY <1>1, <1>d
        <3>2. Argument(d, p) = 256 * (val \div 256) + (val % 256)
            BY <2>2, <2>5, Zenon
        <3> QED
            BY <3>1, <3>2, Zenon
    <2>7. ~(val < 256)
        BY <1>1, <1>9
    <2> QED
        BY <1>3, <2>1, <2>2, <2>3, <2>4, <2>6, <2>7 DEF s, h, L
<1> QED
    BY <1>1, <1>7, <1>8, <1>9

(* The fields of a well-formed call. *)
LEMMA WellFormedType ==
    ASSUME NEW c, WellFormedCall(c)
    PROVE  /\ c \in CallType /\ c.major \in 0 .. 7 /\ c.val \in Nat
           /\ c.body \in Seq(Octet) /\ Len(c.body) \in Nat
           /\ c.major \in {2, 3} => Len(c.body) = c.val
           /\ c.major \notin {2, 3} => c.body = <<>> /\ Len(c.body) = 0
<1>1. c \in CallType
    BY DEF WellFormedCall, CallType
<1>2. c.major \in 0 .. 7 /\ c.val \in Long /\ c.body \in Seq(Octet)
    BY <1>1 DEF CallType
<1>3. c.val \in Nat /\ Len(c.body) \in Nat
    BY <1>2, LongIs, LenProperties
<1>4. /\ c.major \in {2, 3} => Len(c.body) = c.val
      /\ c.major \notin {2, 3} => c.body = <<>>
    BY DEF WellFormedCall
<1>5. Len(<<>>) = 0
    OBVIOUS
<1> QED
    BY <1>1, <1>2, <1>3, <1>4, <1>5

(* A call reads as what was written, if its head is one the lookups know. *)
LEMMA ReadsCallBytes ==
    ASSUME NEW d \in Seq(Octet), NEW p, NEW c, WellFormedCall(c), c.val \in Word,
           Holds(d, p, CallBytes(c))
    PROVE  ReadsCall(d, p, c)
<1> DEFINE h == HeadBytes(c.major, c.val)
           b == c.body
<1>1. c \in CallType /\ c.major \in 0 .. 7 /\ c.val \in Word /\ b \in Seq(Octet)
    BY WellFormedType
<1>2. h \in Seq(Octet) /\ Len(CallBytes(c)) = Len(h) + Len(b)
    BY <1>1, CallBytesType
<1>3. CallBytes(c) = h \o b
    BY DEF CallBytes
<1>4. Holds(d, p, h) /\ Holds(d, p + Len(h), b)
    <2> HIDE DEF h, b
    <2> QED
        BY <1>1, <1>2, <1>3, HoldsConcat
<1> DEFINE m == c.major
           val == c.val
<1>5. m \in 0 .. 7 /\ val \in Word /\ Holds(d, p, HeadBytes(m, val))
    BY <1>1, <1>4
<1>6. h = HeadBytes(m, val)
    OBVIOUS
<1> HIDE DEF m, val, h
<1>7. /\ p \in DOMAIN d /\ d[p] = 32 * m + Short(val) /\ d[p] \in Octet
      /\ TypeAt(d, p) = m /\ VlenAt(d, p) = Short(val) /\ Argument(d, p) = val
      /\ 24 <= val /\ val < 256 => ByteAt(d, p + 1) = val
      /\ HeaderLen(d, p) = Len(h)
    BY <1>5, <1>6, ReadsHead, Zenon
<1>8. HeaderLen(d, p) = Len(HeadBytes(c.major, c.val))
    BY <1>7, Zenon DEF h
<1> QED
    BY <1>2, <1>4, <1>7, <1>8, Zenon DEF ReadsCall, m, val, b

(* Behind an item lies what its head announces. *)
LEMMA AfterCall ==
    ASSUME NEW d \in Seq(Octet), NEW f \in Forward, \A x \in Nat : f[<<x, 0>>] = x,
           NEW p \in Nat, NEW c, WellFormedCall(c), ReadsCall(d, p, c)
    PROVE  After(f, d, p) = f[<<p + Len(CallBytes(c)), Announced(c)>>]
<1> DEFINE t == TypeAt(d, p)
           a == Argument(d, p)
           h == HeaderLen(d, p)
           b == Len(c.body)
           w == Len(CallBytes(c))
           z == Announced(c)
<1>1. /\ c \in CallType /\ c.val \in Nat /\ b \in Nat
      /\ c.major \in {2, 3} => b = c.val
      /\ c.major \notin {2, 3} => b = 0
    BY WellFormedType
<1>2. /\ z \in Nat /\ (c.major \notin {4, 5} => z = 0)
      /\ c.major = 4 => z = c.val
      /\ c.major = 5 => z = 2 * c.val
    BY <1>1, AnnouncedType
<1>3. t = c.major /\ a = c.val /\ w = h + b
    BY DEF ReadsCall
<1>4. /\ t \in {2, 3} => After(f, d, p) = p + h + a
      /\ t = 4 => After(f, d, p) = f[<<p + h, a>>]
      /\ t = 5 => After(f, d, p) = f[<<p + h, 2 * a>>]
      /\ t \notin {2, 3, 4, 5} => After(f, d, p) = p + h
    <2>1. AfterForm(f, d, p)
        BY AfterForms, Zenon
    <2> QED
        BY <2>1, Zenon DEF AfterForm
<1>5. h \in Nat
    BY HeadReads
<1> HIDE DEF t, a, h, b, w, z
<1>6. p + w \in Nat /\ f[<<p + w, 0>>] = p + w
    BY <1>1, <1>3, <1>5
<1>7. CASE t \in {2, 3}
    <2>1. z = 0 /\ p + w = p + h + a
        BY <1>1, <1>2, <1>3, <1>5, <1>7
    <2> QED
        BY <1>4, <1>6, <1>7, <2>1 DEF z, w
<1>8. CASE t = 4
    <2>1. z = a /\ p + w = p + h
        BY <1>1, <1>2, <1>3, <1>5, <1>8
    <2> QED
        BY <1>4, <1>8, <2>1, Zenon DEF z, w
<1>9. CASE t = 5
    <2>1. z = 2 * a /\ p + w = p + h
        BY <1>1, <1>2, <1>3, <1>5, <1>9
    <2> QED
        BY <1>4, <1>9, <2>1, Zenon DEF z, w
<1>10. CASE t \notin {2, 3, 4, 5}
    <2>1. z = 0 /\ p + w = p + h
        BY <1>1, <1>2, <1>3, <1>5, <1>10
    <2> QED
        BY <1>4, <1>6, <1>10, <2>1, Zenon DEF z, w
<1> QED
    BY <1>7, <1>8, <1>9, <1>10

WellFormedCalls(calls) ==
    calls \in Seq(CallType) /\ \A n \in 1 .. Len(calls) : WellFormedCall(calls[n])

(* No head has more than three bytes. *)
ShortCalls(calls) == \A n \in DOMAIN calls : calls[n].val \in Word

(* One item takes at least one call. *)
LEMMA BalancedNotEmpty ==
    ASSUME NEW calls \in Seq(CallType), Balanced(calls)
    PROVE  Len(calls) \in Nat \ {0} /\ 1 \in 1 .. Len(calls)
<1>1. Len(calls) \in Nat /\ Due(calls)[0] = 1
    BY LenProperties, DueIs
<1>2. Due(calls)[Len(calls)] = 0
    BY DEF Balanced
<1>3. Len(calls) # 0
    BY <1>1, <1>2
<1> QED
    BY <1>1, <1>3

(* skip_cbor_item, at any well-formed item that ends before the limit and  *)
(* has no head of more than three bytes, goes to the byte right behind it: *)
(* over strings of every length and arrays and maps nested to any depth.   *)
THEOREM SkipDocument ==
    ASSUME NEW d \in Seq(Octet), NEW lim \in Nat, NEW calls, WellFormedCalls(calls),
           Balanced(calls), NEW p, Holds(d, p, Written(calls)), p + Len(Written(calls)) <= lim
    PROVE  /\ ShortCalls(calls) => skip_cbor_item(d, lim, p) = p + Len(Written(calls))
           /\ Holds(d, p, CallBytes(calls[1]))
           /\ Len(Written(calls)) \in Nat \ {0}
<1> DEFINE N == Len(calls)
           ss == BytesOf(calls)
           W == Due(calls)
           A == [k \in 1 .. N |-> Announced(calls[k])]
           M == Len(Written(calls))
<1>1. calls \in Seq(CallType) /\ \A n \in 1 .. N : WellFormedCall(calls[n])
    BY DEF WellFormedCalls
<1>2. /\ N \in Nat /\ ss \in Seq(Seq(Octet)) /\ Len(ss) = N
      /\ \A j \in 1 .. N : calls[j] \in CallType /\ ss[j] = CallBytes(calls[j])
      /\ Written(calls) = FlattenSeq(ss)
    BY <1>1, BytesOfType
<1>3. PICK P : Spread(d, ss, P) /\ P[0] = p /\ P[Len(ss)] = p + Len(FlattenSeq(ss))
    <2> HIDE DEF ss
    <2> QED
        BY <1>2, HoldsFlatten
<1>4. PICK f \in Forward : \A x, n \in Nat :
               /\ skip_items(d, lim, x, n) = f[<<x, n>>]
               /\ f[<<x, n>>] = StepOf(f, d, lim, <<x, n>>)
    BY SkipIs
<1>5. /\ W \in [0 .. N -> Int] /\ W[0] = 1
      /\ \A n \in 1 .. N : W[n] = W[n - 1] - 1 + Announced(calls[n])
    BY <1>1, DueIs
<1>6. W[N] = 0 /\ \A n \in 0 .. N - 1 : W[n] > 0
    BY DEF Balanced
<1>7. A \in [1 .. N -> Nat] /\ \A n \in 1 .. N : A[n] = Announced(calls[n])
    BY <1>2, AnnouncedType
<1>8. N # 0 /\ 1 \in 1 .. N
    BY <1>1, BalancedNotEmpty
<1>s. ShortCalls(calls) => \A n \in 1 .. N : calls[n].val \in Word
    BY <1>1, LenProperties DEF ShortCalls
<1> HIDE DEF N, ss, W, A
<1>9. /\ P \in [0 .. N -> Nat \ {0}] /\ P[N] = p + M /\ P[0] = p
      /\ \A n \in 1 .. N : /\ P[n] = P[n - 1] + Len(CallBytes(calls[n]))
                           /\ Holds(d, P[n - 1], CallBytes(calls[n]))
    BY <1>2, <1>3 DEF Spread
<1>10. \A n \in 1 .. N : Len(ss[n]) \in Nat \ {0}
    BY <1>2, CallBytesType
<1>11. \A j, k \in 0 .. N : j < k => P[j] < P[k]
    BY <1>2, <1>3, <1>10, SpreadRises
<1>12. \A x \in Nat : f[<<x, 0>>] = x
    <2> SUFFICES ASSUME NEW x \in Nat PROVE f[<<x, 0>>] = x
        OBVIOUS
    <2>1. StepForm(f, d, lim, x, 0)
        BY StepForms
    <2> QED
        BY <1>4, <2>1 DEF StepForm
<1>13. ASSUME ShortCalls(calls) PROVE Unfolds(f, N, P, A)
    <2>1. \A j \in 0 .. N : f[<<P[j], 0>>] = P[j]
        BY <1>9, <1>12
    <2>2. ASSUME NEW j \in 0 .. N - 1, NEW n \in Nat \ {0}
          PROVE  f[<<P[j], n>>] = f[<<f[<<P[j + 1], A[j + 1]>>], n - 1>>]
        <3>1. /\ j \in 0 .. N /\ N \in 0 .. N /\ j < N /\ j + 1 \in 1 .. N /\ (j + 1) - 1 = j
            BY <1>2
        <3> DEFINE x == P[j]
                   c == calls[j + 1]
        <3>2. x \in Nat /\ x < P[N] /\ P[N] \in Nat
            BY <1>9, <1>11, <3>1
        <3>3. x < lim
            <4> DEFINE y == P[N]
            <4>1. y <= lim /\ x < y /\ x \in Nat /\ y \in Nat
                BY <1>9, <3>2
            <4> HIDE DEF x, y
            <4> QED
                BY <4>1
        <3>4. P[j + 1] = x + Len(CallBytes(c)) /\ Holds(d, x, CallBytes(c))
            BY <1>9, <3>1
        <3>5. WellFormedCall(c) /\ A[j + 1] = Announced(c) /\ c.val \in Word
            BY <1>1, <1>7, <1>13, <1>s, <3>1 DEF N
        <3> HIDE DEF x, c
        <3>6. After(f, d, x) = f[<<P[j + 1], A[j + 1]>>]
            <4>1. ReadsCall(d, x, c)
                BY <3>4, <3>5, ReadsCallBytes
            <4>2. After(f, d, x) = f[<<x + Len(CallBytes(c)), Announced(c)>>]
                BY <1>12, <3>2, <3>5, <4>1, AfterCall
            <4> QED
                BY <3>4, <3>5, <4>2, Zenon
        <3>7. StepForm(f, d, lim, x, n)
            BY <3>2, StepForms
        <3>8. f[<<x, n>>] = f[<<After(f, d, x), n - 1>>]
            BY <1>4, <3>2, <3>3, <3>7 DEF StepForm
        <3> QED
            BY <3>6, <3>8, Zenon DEF x
    <2> QED
        BY <2>1, <2>2, Zenon DEF Unfolds
<1>14. ASSUME ShortCalls(calls) PROVE f[<<P[0], 1>>] = P[N]
    <2>1. Items(W, 0, 1, N)
        BY <1>2, <1>5, <1>6 DEF Items
    <2>2. 0 \in 0 .. N /\ N \in 0 .. N /\ 1 \in Nat /\ 0 <= N
        BY <1>2
    <2>3. Tallies(N, W, A)
        BY <1>5, <1>7 DEF Tallies
    <2>4. Lands(f, N, W, P)
        BY <1>2, <1>5, <1>7, <1>13, <1>14, <2>3, Nesting, Zenon
    <2> QED
        BY <2>1, <2>2, <2>4, Zenon DEF Lands
<1>15. p \in Nat /\ skip_cbor_item(d, lim, p) = f[<<p, 1>>]
    <2>1. p \in Nat
        BY DEF Holds
    <2> QED
        BY <1>4, <2>1 DEF skip_cbor_item
<1>16. Holds(d, p, CallBytes(calls[1]))
    <2>1. 1 - 1 = 0
        OBVIOUS
    <2> QED
        BY <1>8, <1>9, <2>1
<1>17. M \in Nat \ {0}
    <2>1. M \in Nat
        BY <1>1, WrittenType
    <2>2. 0 \in 0 .. N /\ N \in 0 .. N /\ 0 < N
        BY <1>2, <1>8
    <2>3. p < p + M
        BY <1>9, <1>11, <2>2
    <2> HIDE DEF M
    <2> QED
        BY <1>15, <2>1, <2>3
<1> QED
    BY <1>9, <1>14, <1>15, <1>16, <1>17, Zenon

-----------------------------------------------------------------------------
(* Maps, their pairs and their keys. *)

IsSequence(s) == s \in Seq({s[n] : n \in DOMAIN s})

ItemsIn(s, S) == \A n \in DOMAIN s : s[n] \in S

(* A sequence of its own elements is one of any set that has them. *)
LEMMA OwnItems ==
    ASSUME NEW s, NEW S, IsSequence(s), ItemsIn(s, S)
    PROVE  s \in Seq(S) /\ Len(s) \in Nat /\ DOMAIN s = 1 .. Len(s)
<1> DEFINE R == {s[n] : n \in DOMAIN s}
<1>1. s \in Seq(R)
    BY DEF IsSequence
<1>2. R \subseteq S
    BY DEF ItemsIn
<1> HIDE DEF R
<1>3. Len(s) \in Nat /\ s \in [1 .. Len(s) -> R] /\ DOMAIN s = 1 .. Len(s)
    BY <1>1, LenProperties
<1>4. s \in [1 .. Len(s) -> S]
    BY <1>2, <1>3
<1>5. s \in Seq(S)
    BY <1>3, <1>4
<1> QED
    BY <1>3, <1>5

(* The calls of a value. *)
LEMMA ValueFacts ==
    ASSUME NEW v, WellFormedValue(v)
    PROVE  WellFormedCalls(v.calls) /\ Balanced(v.calls) /\ 1 \in 1 .. Len(v.calls)
           /\ WellFormedCall(v.calls[1])
<1> DEFINE s == v.calls
<1>1. IsSequence(s) /\ \A n \in DOMAIN s : WellFormedCall(s[n])
    BY Zenon DEF WellFormedValue, IsSequence
<1>2. ItemsIn(s, CallType)
    BY <1>1, WellFormedType DEF ItemsIn
<1>3. Balanced(s)
    BY Zenon DEF WellFormedValue
<1> HIDE DEF s
<1>4. s \in Seq(CallType) /\ DOMAIN s = 1 .. Len(s)
    BY <1>1, <1>2, OwnItems, Zenon
<1>5. 1 \in 1 .. Len(s)
    BY <1>3, <1>4, BalancedNotEmpty
<1> QED
    BY <1>1, <1>3, <1>4, <1>5 DEF WellFormedCalls, s

(* The pairs of a map. *)
LEMMA PairFacts ==
    ASSUME NEW m \in Maps
    PROVE  /\ Len(m) \in Nat /\ Len(m) \in Word /\ DOMAIN m = 1 .. Len(m)
           /\ \A j \in 1 .. Len(m) :
                /\ WellFormedKey(m[j].k) /\ WellFormedCall(m[j].k)
                /\ WellFormedValue(m[j].v) /\ m[j].v.pairs \in Maps
                /\ WellFormedCalls(m[j].v.calls) /\ Balanced(m[j].v.calls)
           /\ \A j, h \in 1 .. Len(m) : m[j].k = m[h].k => j = h
<1>1. /\ m \in Seq({m[j] : j \in DOMAIN m}) /\ Len(m) \in Word
      /\ \A j \in DOMAIN m : WellFormedKey(m[j].k) /\ WellFormedValue(m[j].v) /\ m[j].v.pairs \in Maps
      /\ \A j, h \in DOMAIN m : m[j].k = m[h].k => j = h
    BY MapsAssumption, Zenon
<1>2. Len(m) \in Nat /\ DOMAIN m = 1 .. Len(m)
    BY <1>1, LenProperties
<1>3. \A j \in DOMAIN m : WellFormedCall(m[j].k)
    BY <1>1, Zenon DEF WellFormedKey
<1>4. \A j \in DOMAIN m : WellFormedCalls(m[j].v.calls) /\ Balanced(m[j].v.calls)
    BY <1>1, ValueFacts, Zenon
<1> QED
    BY <1>1, <1>2, <1>3, <1>4, Zenon

(* The call that starts a map. *)
LEMMA MapHead ==
    ASSUME NEW n \in Word
    PROVE  WellFormedCall(Map(n)) /\ Map(n) \in CallType /\ Map(n).major = 5 /\ Map(n).val = n
<1>1. <<>> \in Seq(Octet) /\ 5 \in 0 .. 7 /\ 5 \notin {2, 3}
    OBVIOUS
<1>2. Map(n) \in CallType
    BY <1>1, WordIsLong DEF Map, CallType
<1>3. Map(n).major = 5 /\ Map(n).val = n /\ Map(n).body = <<>>
    BY DEF Map
<1>4. 5 \in 0 .. 7 \ {6}
    OBVIOUS
<1> QED
    BY <1>1, <1>2, <1>3, <1>4 DEF WellFormedCall, CallType

(* What a pair writes. *)
LEMMA PairCallsType ==
    ASSUME NEW k, WellFormedCall(k), NEW calls, WellFormedCalls(calls)
    PROVE  /\ <<k>> \o calls \in Seq(CallType)
           /\ Written(<<k>> \o calls) = CallBytes(k) \o Written(calls)
           /\ CallBytes(k) \in Seq(Octet) /\ Written(calls) \in Seq(Octet)
<1>1. k \in CallType /\ calls \in Seq(CallType)
    BY WellFormedType DEF WellFormedCalls
<1>2. <<k>> \in Seq(CallType) /\ Written(<<k>>) = CallBytes(k) /\ CallBytes(k) \in Seq(Octet)
    BY <1>1, WrittenOne, CallBytesType
<1> DEFINE one == <<k>>
<1>3. one \in Seq(CallType)
    BY <1>2
<1> HIDE DEF one
<1>4. one \o calls \in Seq(CallType) /\ Written(one \o calls) = Written(one) \o Written(calls)
    BY <1>1, <1>3, WrittenConcat
<1>5. Written(calls) \in Seq(Octet)
    BY <1>1, WrittenType
<1> QED
    BY <1>2, <1>4, <1>5 DEF one

(* The pairs of a map, and where they are written. *)
CallsOf(m) == [j \in DOMAIN m |-> PairCalls(m[j])]

(* What the pairs of a map write. *)
LEMMA CallsOfType ==
    ASSUME NEW m \in Maps
    PROVE  /\ CallsOf(m) \in Seq(Seq(CallType)) /\ Len(CallsOf(m)) = Len(m)
           /\ \A j \in 1 .. Len(m) :
                /\ CallsOf(m)[j] \in Seq(CallType)
                /\ Written(CallsOf(m)[j]) = CallBytes(m[j].k) \o Written(m[j].v.calls)
                /\ CallBytes(m[j].k) \in Seq(Octet) /\ Written(m[j].v.calls) \in Seq(Octet)
           /\ MapCalls(m) = <<Map(Len(m))>> \o FlattenSeq(CallsOf(m))
<1> DEFINE N == Len(m)
<1>1. N \in Nat /\ DOMAIN m = 1 .. N
      /\ \A j \in 1 .. N : WellFormedCall(m[j].k) /\ WellFormedCalls(m[j].v.calls)
    BY PairFacts, Zenon
<1>2. MapCalls(m) = <<Map(N)>> \o FlattenSeq(CallsOf(m))
    BY Zenon DEF MapCalls, CallsOf
<1>3. ASSUME NEW j \in 1 .. N
      PROVE  /\ CallsOf(m)[j] \in Seq(CallType)
             /\ Written(CallsOf(m)[j]) = CallBytes(m[j].k) \o Written(m[j].v.calls)
             /\ CallBytes(m[j].k) \in Seq(Octet) /\ Written(m[j].v.calls) \in Seq(Octet)
    <2> DEFINE k == m[j].k
               c == m[j].v.calls
    <2>1. WellFormedCall(k) /\ WellFormedCalls(c)
        BY <1>1
    <2>2. CallsOf(m)[j] = <<k>> \o c
        BY <1>1, Zenon DEF CallsOf, PairCalls
    <2> HIDE DEF k, c
    <2>3. /\ <<k>> \o c \in Seq(CallType)
          /\ Written(<<k>> \o c) = CallBytes(k) \o Written(c)
          /\ CallBytes(k) \in Seq(Octet) /\ Written(c) \in Seq(Octet)
        BY <2>1, PairCallsType
    <2> QED
        BY <2>2, <2>3, Zenon DEF k, c
<1>4. CallsOf(m) \in [1 .. N -> Seq(CallType)]
    BY <1>1, <1>3 DEF CallsOf
<1>5. CallsOf(m) \in Seq(Seq(CallType)) /\ Len(CallsOf(m)) = N
    <2> HIDE DEF N
    <2> QED
        BY <1>1, <1>4, IsASeq, LenProperties
<1> QED
    BY <1>2, <1>3, <1>5

(* What a map writes: its head and its pairs. *)
LEMMA MapCallsType ==
    ASSUME NEW m \in Maps
    PROVE  /\ MapCalls(m) \in Seq(CallType)
           /\ FlattenSeq(CallsOf(m)) \in Seq(CallType)
           /\ Written(MapCalls(m)) = CallBytes(Map(Len(m))) \o Written(FlattenSeq(CallsOf(m)))
           /\ CallBytes(Map(Len(m))) \in Seq(Octet)
           /\ Written(FlattenSeq(CallsOf(m))) \in Seq(Octet)
<1> DEFINE c == Map(Len(m))
           s == FlattenSeq(CallsOf(m))
<1>1. c \in CallType
    BY PairFacts, MapHead
<1>2. s \in Seq(CallType)
    BY CallsOfType, WrittenFlatten
<1>3. MapCalls(m) = <<c>> \o s
    BY CallsOfType
<1> HIDE DEF c, s
<1>4. <<c>> \in Seq(CallType) /\ Written(<<c>>) = CallBytes(c) /\ CallBytes(c) \in Seq(Octet)
    BY <1>1, WrittenOne, CallBytesType
<1> DEFINE one == <<c>>
<1>5. one \in Seq(CallType)
    BY <1>4
<1> HIDE DEF one
<1>6. one \o s \in Seq(CallType) /\ Written(one \o s) = Written(one) \o Written(s)
    BY <1>2, <1>5, WrittenConcat
<1>7. Written(s) \in Seq(Octet)
    BY <1>2, WrittenType
<1> QED
    BY <1>2, <1>3, <1>4, <1>6, <1>7 DEF one, c, s

PairsAt(d, m, P) ==
    /\ P \in [0 .. Len(m) -> Nat \ {0}]
    /\ \A j \in 1 .. Len(m) :
         /\ Holds(d, P[j - 1], CallBytes(m[j].k))
         /\ Holds(d, P[j - 1] + Len(CallBytes(m[j].k)), Written(m[j].v.calls))
         /\ P[j] = P[j - 1] + Len(CallBytes(m[j].k)) + Len(Written(m[j].v.calls))
    /\ \A j, h \in 0 .. Len(m) : j < h => P[j] < P[h]

(* Where the pairs of a map lie. *)
LEMMA MapLayout ==
    ASSUME NEW d \in Seq(Octet), NEW p, NEW m \in Maps, Holds(d, p, Written(MapCalls(m)))
    PROVE  /\ ReadsCall(d, p, Map(Len(m)))
           /\ Len(Written(MapCalls(m))) \in Nat \ {0}
           /\ \E P : /\ PairsAt(d, m, P) /\ P[0] = p + HeaderLen(d, p)
                     /\ P[Len(m)] = p + Len(Written(MapCalls(m)))
<1> DEFINE N == Len(m)
           head == CallBytes(Map(N))
           cc == CallsOf(m)
           rest == Written(FlattenSeq(cc))
           ss == [j \in DOMAIN cc |-> Written(cc[j])]
<1>1. /\ Written(MapCalls(m)) = head \o rest /\ head \in Seq(Octet) /\ rest \in Seq(Octet)
    BY MapCallsType
<1>2. /\ N \in Nat /\ N \in Word /\ WellFormedCall(Map(N)) /\ Map(N) \in CallType
      /\ Map(N).body = <<>> /\ Map(N).major = 5
    <2>1. N \in Nat /\ N \in Word
        BY PairFacts
    <2>2. Map(N).body = <<>>
        BY DEF Map
    <2> QED
        BY <2>1, <2>2, MapHead
<1>3. /\ cc \in Seq(Seq(CallType)) /\ Len(cc) = N
      /\ \A j \in 1 .. N :
           /\ cc[j] \in Seq(CallType)
           /\ Written(cc[j]) = CallBytes(m[j].k) \o Written(m[j].v.calls)
           /\ CallBytes(m[j].k) \in Seq(Octet) /\ Written(m[j].v.calls) \in Seq(Octet)
    BY CallsOfType
<1>4. ss \in Seq(Seq(Octet)) /\ Len(ss) = N /\ rest = FlattenSeq(ss)
    <2> HIDE DEF cc
    <2> QED
        BY <1>3, WrittenFlatten
<1>5. \A j \in 1 .. N : ss[j] = CallBytes(m[j].k) \o Written(m[j].v.calls)
    <2>1. DOMAIN cc = 1 .. N
        BY <1>3, LenProperties
    <2> HIDE DEF cc
    <2> QED
        BY <1>3, <2>1
<1> HIDE DEF ss, cc
<1>6. Holds(d, p, head) /\ Holds(d, p + Len(head), rest)
    <2> HIDE DEF head, rest
    <2> QED
        BY <1>1, HoldsConcat
<1>7. ReadsCall(d, p, Map(N))
    <2> DEFINE c == Map(N)
    <2>1. WellFormedCall(c) /\ c.val \in Word /\ Holds(d, p, CallBytes(c))
        BY <1>2, <1>6, MapHead
    <2> HIDE DEF c
    <2>2. ReadsCall(d, p, c)
        BY <2>1, ReadsCallBytes
    <2> QED
        BY <2>2 DEF c
<1>8. Len(head) = HeaderLen(d, p) /\ Len(head) \in Nat \ {0}
    <2> DEFINE c == Map(N)
    <2>1. c \in CallType /\ c.body = <<>> /\ ReadsCall(d, p, c)
        BY <1>2, <1>7
    <2> HIDE DEF c
    <2>2. Len(CallBytes(c)) \in Nat \ {0} /\ Len(CallBytes(c)) = HeaderLen(d, p) + Len(c.body)
        BY <2>1, CallBytesType DEF ReadsCall
    <2>3. Len(c.body) = 0
        BY <2>1
    <2>4. HeaderLen(d, p) \in Nat
        BY HeadReads
    <2> QED
        BY <2>2, <2>3, <2>4 DEF c
<1> HIDE DEF head, rest
<1>9. PICK P : /\ Spread(d, ss, P) /\ P[0] = p + Len(head)
               /\ P[Len(ss)] = p + Len(head) + Len(FlattenSeq(ss))
    <2> DEFINE q == p + Len(head)
    <2>1. Holds(d, q, FlattenSeq(ss))
        BY <1>4, <1>6
    <2> HIDE DEF q
    <2>2. \E P : Spread(d, ss, P) /\ P[0] = q /\ P[Len(ss)] = q + Len(FlattenSeq(ss))
        BY <1>4, <2>1, HoldsFlatten
    <2> QED
        BY <2>2 DEF q
<1>10. P[N] = p + Len(Written(MapCalls(m))) /\ Len(Written(MapCalls(m))) \in Nat \ {0}
    <2>1. Len(head \o rest) = Len(head) + Len(rest) /\ Len(rest) \in Nat
        BY <1>1, ConcatAt
    <2>2. p \in Nat
        BY <1>6 DEF Holds
    <2> DEFINE a == Len(head)
               b == Len(rest)
    <2>3. a \in Nat \ {0} /\ b \in Nat /\ Len(Written(MapCalls(m))) = a + b /\ P[N] = p + a + b
        BY <1>1, <1>4, <1>8, <1>9, <2>1
    <2> HIDE DEF a, b
    <2>4. a + b \in Nat \ {0} /\ p + a + b = p + (a + b)
        BY <2>2, <2>3
    <2> QED
        BY <2>3, <2>4
<1>11. PairsAt(d, m, P)
    <2>1. /\ P \in [0 .. N -> Nat \ {0}]
          /\ \A n \in 1 .. N : P[n] = P[n - 1] + Len(ss[n]) /\ Holds(d, P[n - 1], ss[n])
        BY <1>4, <1>9 DEF Spread
    <2>2. ASSUME NEW j \in 1 .. N
          PROVE  /\ Holds(d, P[j - 1], CallBytes(m[j].k))
                 /\ Holds(d, P[j - 1] + Len(CallBytes(m[j].k)), Written(m[j].v.calls))
                 /\ P[j] = P[j - 1] + Len(CallBytes(m[j].k)) + Len(Written(m[j].v.calls))
                 /\ Len(ss[j]) \in Nat \ {0}
        <3> DEFINE s == CallBytes(m[j].k)
                   t == Written(m[j].v.calls)
                   x == P[j - 1]
        <3>0. j - 1 \in 0 .. N
            BY <1>2
        <3>1. /\ s \in Seq(Octet) /\ t \in Seq(Octet) /\ x \in Nat /\ P[j] = x + Len(s \o t)
              /\ Holds(d, x, s \o t) /\ ss[j] = s \o t
            BY <1>3, <1>5, <2>1, <3>0
        <3>2. Len(s) \in Nat \ {0}
            <4> DEFINE k == m[j].k
            <4>1. WellFormedCall(k)
                BY PairFacts
            <4> HIDE DEF k
            <4>2. Len(CallBytes(k)) \in Nat \ {0}
                BY <4>1, WellFormedType, CallBytesType
            <4> QED
                BY <4>2 DEF k
        <3> HIDE DEF s, t, x
        <3>3. Holds(d, x, s) /\ Holds(d, x + Len(s), t)
            BY <3>1, HoldsConcat
        <3>4. Len(s \o t) = Len(s) + Len(t) /\ Len(t) \in Nat
            BY <3>1, ConcatAt
        <3>5. P[j] = x + Len(s) + Len(t) /\ Len(s \o t) \in Nat \ {0}
            <4> DEFINE a == Len(s)
                       b == Len(t)
                       l == Len(s \o t)
            <4>1. l = a + b /\ a \in Nat \ {0} /\ b \in Nat /\ P[j] = x + l
                BY <3>1, <3>2, <3>4
            <4> HIDE DEF a, b, l
            <4>2. P[j] = x + a + b /\ l \in Nat \ {0}
                BY <3>1, <4>1
            <4> QED
                BY <4>2 DEF a, b, l
        <3> QED
            BY <3>1, <3>3, <3>5 DEF s, t, x
    <2>3. \A j, h \in 0 .. N : j < h => P[j] < P[h]
        <3>1. \A n \in 1 .. Len(ss) : Len(ss[n]) \in Nat \ {0}
            BY <1>4, <2>2
        <3> QED
            BY <1>4, <1>9, <3>1, SpreadRises
    <2> QED
        BY <2>1, <2>2, <2>3 DEF PairsAt
<1> QED
    BY <1>7, <1>8, <1>9, <1>10, <1>11

(* Bytes that are there can be taken out. *)
LEMMA HoldsSubSeq ==
    ASSUME NEW d \in Seq(Octet), NEW p, NEW s \in Seq(Octet), Holds(d, p, s)
    PROVE  SubSeq(d, p, p + Len(s) - 1) = s
<1> DEFINE n == Len(s)
           t == SubSeq(d, p, p + n - 1)
<1>1. /\ p \in Nat \ {0} /\ n \in Nat /\ Len(d) \in Nat /\ p + n <= Len(d) + 1
      /\ \A k \in 1 .. n : d[p + k - 1] = s[k]
    BY LenProperties DEF Holds
<1> HIDE DEF n
<1>2. \A k \in p .. p + n - 1 : d[k] \in Octet
    <2>1. \A k \in p .. p + n - 1 : k \in 1 .. Len(d)
        BY <1>1
    <2> QED
        BY <2>1, ElementOfSeq
<1>3. /\ t \in Seq(Octet) /\ Len(t) = n
      /\ \A k \in 1 .. n : t[k] = d[p + k - 1]
    <2> DEFINE q == p + n - 1
    <2>1. p \in Int /\ q \in Int /\ \A k \in p .. q : d[k] \in Octet
        BY <1>1, <1>2
    <2>2. (IF p <= q THEN q - p + 1 ELSE 0) = n
        BY <1>1
    <2> HIDE DEF q
    <2>3. /\ SubSeq(d, p, q) \in Seq(Octet)
          /\ Len(SubSeq(d, p, q)) = IF p <= q THEN q - p + 1 ELSE 0
          /\ \A k \in 1 .. q - p + 1 : SubSeq(d, p, q)[k] = d[p + k - 1]
        BY <2>1, SubSeqProperties
    <2>4. \A k \in 1 .. n : k \in 1 .. q - p + 1
        BY <1>1 DEF q
    <2> QED
        BY <2>2, <2>3, <2>4 DEF q
<1>4. Len(s) = n
    BY DEF n
<1>5. t = s
    <2> HIDE DEF t
    <2> QED
        BY <1>1, <1>3, <1>4, SeqEqual
<1> QED
    BY <1>5 DEF n

(* A call that announces nothing is an item. *)
LEMMA OneBalanced ==
    ASSUME NEW c, WellFormedCall(c), c.major \notin {4, 5}
    PROVE  WellFormedCalls(<<c>>) /\ Balanced(<<c>>) /\ Written(<<c>>) = CallBytes(c)
<1>1. c \in CallType
    BY WellFormedType
<1>2. Announced(c) = 0
    BY <1>1, AnnouncedType
<1> DEFINE s == <<c>>
<1>3. s \in Seq(CallType) /\ Len(s) = 1 /\ s[1] = c /\ Written(s) = CallBytes(c)
    BY <1>1, WrittenOne
<1> HIDE DEF s
<1>4. /\ Due(s)[0] = 1
      /\ \A n \in 1 .. Len(s) : Due(s)[n] = Due(s)[n - 1] - 1 + Announced(s[n])
    BY <1>3, DueIs
<1>5. Due(s)[1] = 0
    <2>1. 1 \in 1 .. Len(s) /\ 1 - 1 = 0
        BY <1>3
    <2> QED
        BY <1>2, <1>3, <1>4, <2>1
<1>6. Balanced(s)
    BY <1>3, <1>4, <1>5 DEF Balanced
<1>7. WellFormedCalls(s)
    <2>1. \A n \in 1 .. Len(s) : n = 1
        BY <1>3
    <2> QED
        BY <1>3, <2>1 DEF WellFormedCalls
<1> QED
    BY <1>3, <1>6, <1>7 DEF s

(* The pair at the j-th place is found where it is written. *)
PairReads(d, m, P, j, lim) ==
    /\ WellFormedKey(m[j].k) /\ WellFormedCall(m[j].k) /\ ReadsCall(d, P[j - 1], m[j].k)
    /\ WellFormedValue(m[j].v) /\ m[j].v.pairs \in Maps
    /\ skip_cbor_item(d, lim, P[j - 1]) = P[j - 1] + Len(CallBytes(m[j].k))
    /\ Holds(d, P[j - 1] + Len(CallBytes(m[j].k)), Written(m[j].v.calls))
    /\ ShortCalls(m[j].v.calls) =>
         skip_cbor_item(d, lim, P[j - 1] + Len(CallBytes(m[j].k))) = P[j]
    /\ P[j] = P[j - 1] + Len(CallBytes(m[j].k)) + Len(Written(m[j].v.calls))
    /\ P[j - 1] \in Nat \ {0} /\ P[j] \in Nat \ {0} /\ P[j] <= lim
    /\ Len(CallBytes(m[j].k)) \in Nat \ {0} /\ Len(Written(m[j].v.calls)) \in Nat \ {0}

(* So it is for every pair of a map that is there. *)
LEMMA PairAt ==
    ASSUME NEW d \in Seq(Octet), NEW m \in Maps, NEW P, PairsAt(d, m, P),
           NEW j \in 1 .. Len(m), NEW lim \in Nat, P[Len(m)] = lim
    PROVE  PairReads(d, m, P, j, lim)
<1> DEFINE k == m[j].k
           v == m[j].v
           s == CallBytes(k)
           t == Written(v.calls)
           x == P[j - 1]
           y == x + Len(s)
           N == Len(m)
<1>1. /\ N \in Nat /\ WellFormedKey(k) /\ WellFormedCall(k) /\ WellFormedValue(v) /\ v.pairs \in Maps
      /\ WellFormedCalls(v.calls) /\ Balanced(v.calls)
    BY PairFacts
<1>2. /\ P \in [0 .. N -> Nat \ {0}]
      /\ Holds(d, x, s) /\ Holds(d, y, t) /\ P[j] = y + Len(t)
      /\ \A h \in 0 .. N : j < h => P[j] < P[h]
    <2>1. j \in 0 .. Len(m)
        BY <1>1
    <2> QED
        BY <2>1 DEF PairsAt
<1>3. x \in Nat \ {0} /\ P[j] \in Nat \ {0} /\ P[N] \in Nat
    <2>1. j - 1 \in 0 .. N /\ j \in 0 .. N /\ N \in 0 .. N
        BY <1>1
    <2> QED
        BY <1>2, <2>1
<1>4. P[j] <= lim
    <2>1. j = N \/ (N \in 0 .. N /\ j < N)
        BY <1>1
    <2> DEFINE a == P[j]
               b == P[N]
    <2>2. a \in Nat /\ b \in Nat /\ (a = b \/ a < b) /\ b = lim
        BY <1>2, <1>3, <2>1
    <2> HIDE DEF a, b
    <2>3. a <= lim
        BY <2>2
    <2> QED
        BY <2>3 DEF a
<1>k. k.val \in Word
    BY <1>1 DEF WellFormedKey
<1>5. ReadsCall(d, x, k)
    <2> HIDE DEF k, x
    <2> QED
        BY <1>1, <1>2, <1>k, ReadsCallBytes
<1>6. Len(s) \in Nat \ {0} /\ Len(t) \in Nat
    <2> DEFINE c == v.calls
    <2>1. WellFormedCall(k) /\ WellFormedCalls(c) /\ s = CallBytes(k) /\ t = Written(c)
        BY <1>1
    <2> HIDE DEF k, c, s, t
    <2>2. k \in CallType /\ c \in Seq(CallType)
        BY <2>1, WellFormedType DEF WellFormedCalls
    <2> QED
        BY <2>1, <2>2, CallBytesType, WrittenType
<1>7. y \in Nat /\ y <= lim /\ y + Len(t) <= lim
    <2> DEFINE a == Len(s)
               b == Len(t)
    <2>1. x \in Nat \ {0} /\ a \in Nat \ {0} /\ b \in Nat /\ y = x + a /\ y + b <= lim
        BY <1>2, <1>3, <1>4, <1>6
    <2> HIDE DEF a, b, y, x
    <2>2. y \in Nat /\ y <= lim
        BY <2>1
    <2> QED
        BY <2>1, <2>2 DEF b
<1>8. skip_cbor_item(d, lim, x) = x + Len(s)
    <2> DEFINE c == <<k>>
    <2>1. k.major \notin {4, 5}
        BY <1>1 DEF WellFormedKey
    <2>2. WellFormedCalls(c) /\ Balanced(c) /\ Written(c) = s
        <3> HIDE DEF k
        <3> QED
            BY <1>1, <2>1, OneBalanced
    <2>3. Holds(d, x, Written(c)) /\ x + Len(Written(c)) <= lim
        BY <1>2, <1>7, <2>2
    <2> HIDE DEF c, x
    <2>a. WellFormedCalls(c) /\ Balanced(c)
        BY <2>2
    <2>b. ShortCalls(c)
        <3>1. c = <<k>> /\ \A n \in DOMAIN c : c[n] = k
            BY DEF c
        <3> HIDE DEF k
        <3> QED
            BY <1>k, <3>1 DEF ShortCalls
    <2>4. skip_cbor_item(d, lim, x) = x + Len(Written(c))
        BY <2>a, <2>b, <2>3, SkipDocument
    <2> QED
        BY <2>2, <2>4
<1>9. (ShortCalls(v.calls) => skip_cbor_item(d, lim, y) = y + Len(t)) /\ Len(t) \in Nat \ {0}
    <2> DEFINE c == v.calls
    <2>1. WellFormedCalls(c) /\ Balanced(c) /\ t = Written(c)
        BY <1>1
    <2>2. (ShortCalls(c) => skip_cbor_item(d, lim, y) = y + Len(t)) /\ Len(t) \in Nat \ {0}
        <3> HIDE DEF c, y, t
        <3> QED
            BY <1>2, <1>7, <2>1, SkipDocument
    <2> QED
        BY <2>2
<1> QED
    BY <1>1, <1>2, <1>3, <1>4, <1>5, <1>6, <1>8, <1>9 DEF PairReads

CallIs(c, major, val, body) ==
    (c = [major |-> major, val |-> val, body |-> body])
      <=> c.major = major /\ c.val = val /\ c.body = body

(* A call is its three fields. *)
LEMMA CallEqual ==
    ASSUME NEW c \in CallType, NEW major, NEW val, NEW body
    PROVE  CallIs(c, major, val, body)
<1>1. c = [major |-> c.major, val |-> c.val, body |-> c.body]
    BY DEF CallType
<1>2. ASSUME c.major = major, c.val = val, c.body = body
      PROVE  c = [major |-> major, val |-> val, body |-> body]
    BY <1>1, <1>2
<1>3. ASSUME c = [major |-> major, val |-> val, body |-> body]
      PROVE  c.major = major /\ c.val = val /\ c.body = body
    BY <1>3
<1> QED
    BY <1>2, <1>3 DEF CallIs

(* The keys of each kind of lookup. *)
LEMMA KeyTypes ==
    ASSUME NEW o \in Lookups, NEW x \in Keys[o]
    PROVE  /\ o \notin {"neg", "text"} => x \in 1 .. 255
           /\ o = "neg" => x \in 1 .. 24
           /\ o = "text" => x \in Seq(Octet) /\ Len(x) \in Nat /\ Len(x) < 256
<1>1. CASE o \in {"value", "int", "string", "item"}
    <2>1. \A y \in {"value", "int", "string", "item"} : Keys[y] \subseteq 1 .. 255
        BY KeysAssumption
    <2>2. x \in 1 .. 255
        BY <1>1, <2>1
    <2>3. o # "neg" /\ o # "text"
        BY <1>1
    <2> QED
        BY <2>2, <2>3
<1>2. CASE o = "neg"
    <2>1. Keys["neg"] \subseteq 1 .. 24
        BY KeysAssumption
    <2> QED
        BY <1>2, <2>1
<1>3. CASE o = "text"
    <2>1. x \in Seq(Octet) /\ Len(x) < 256
        BY <1>3, KeysAssumption, Zenon
    <2>2. Len(x) \in Nat
        BY <2>1, LenProperties
    <2> QED
        BY <1>3, <2>1, <2>2
<1> QED
    BY <1>1, <1>2, <1>3 DEF Lookups

(* The comparison a lookup makes at a key is a comparison with the key it  *)
(* looks for: the short ways it takes confuse no two keys of a request.    *)
LEMMA MatchNumber ==
    ASSUME NEW k, WellFormedCall(k), ReadsCall(data, offset, k),
           op \in Lookups \ {"neg", "text"}, key \in Keys[op]
    PROVE  KeyMatches <=> k = KeyCall
<1>1. k \in CallType /\ k.major \in 0 .. 7 /\ k.val \in Nat /\ (k.major = 0 => k.body = <<>>)
    BY WellFormedType
<1>2. key \in 1 .. 255
    BY KeyTypes
<1>3. KeyMatches <=> TypeAt(data, offset) = 0 /\ current_key = key
    <2>1. op # "neg" /\ op # "text"
        OBVIOUS
    <2> QED
        BY <2>1, Zenon DEF KeyMatches
<1>4. KeyCall = [major |-> 0, val |-> key, body |-> <<>>]
    <2>1. op # "neg" /\ op \notin {"text", "grep"}
        BY DEF Lookups
    <2> QED
        BY <2>1, Zenon DEF KeyCall, Uint
<1>5. k = KeyCall <=> k.major = 0 /\ k.val = key
    <2>1. CallIs(k, 0, key, <<>>)
        BY <1>1, CallEqual, Zenon
    <2> QED
        BY <1>1, <1>4, <2>1 DEF CallIs
<1>6. /\ TypeAt(data, offset) = k.major /\ VlenAt(data, offset) = Short(k.val)
      /\ 24 <= k.val /\ k.val < 256 => ByteAt(data, offset + 1) = k.val
    BY DEF ReadsCall
<1>7. current_key = key <=> k.val = key
    <2> DEFINE w == k.val
               u == VlenAt(data, offset)
    <2>1. w \in Nat /\ u = Short(w)
        BY <1>1, <1>6
    <2>2. CASE w < 24
        <3>1. u = w /\ u # 24 /\ u # 25
            BY <2>1, <2>2 DEF Short
        <3>2. current_key = u
            BY <3>1, Zenon DEF current_key
        <3> QED
            BY <3>1, <3>2
    <2>3. CASE 24 <= w /\ w < 256
        <3>1. u = 24 /\ u # 25
            BY <2>1, <2>3 DEF Short
        <3>2. current_key = ByteAt(data, offset + 1)
            BY <3>1, Zenon DEF current_key
        <3> QED
            BY <1>6, <2>3, <3>2
    <2>4. CASE 256 <= w
        <3>1. u = 25 /\ u # 24
            BY <2>1, <2>4 DEF Short
        <3>2. current_key = 0
            BY <3>1, Zenon DEF current_key
        <3>3. key # 0 /\ w # key
            BY <1>2, <2>1, <2>4
        <3> QED
            BY <3>2, <3>3
    <2>5. w < 24 \/ (24 <= w /\ w < 256) \/ 256 <= w
        BY <2>1
    <2> QED
        BY <2>2, <2>3, <2>4, <2>5
<1> QED
    BY <1>3, <1>5, <1>6, <1>7

(* A negative key. *)
LEMMA MatchNegative ==
    ASSUME NEW k, WellFormedCall(k), ReadsCall(data, offset, k), op = "neg", key \in Keys[op]
    PROVE  KeyMatches <=> k = KeyCall
<1>1. /\ k \in CallType /\ k.major \in 0 .. 7 /\ k.val \in Nat /\ (k.major = 1 => k.body = <<>>)
    BY WellFormedType
<1>2. key \in 1 .. 24
    <2>1. op \in Lookups
        BY DEF Lookups
    <2>2. op = "neg" => key \in 1 .. 24
        BY <2>1, KeyTypes, Zenon
    <2> QED
        BY <2>2, Zenon
<1>3. KeyMatches <=> data[offset] = 32 + key - 1
    BY DEF KeyMatches, ByteAt, ReadsCall
<1>4. KeyCall = [major |-> 1, val |-> key - 1, body |-> <<>>]
    BY DEF KeyCall, Nint
<1>5. k = KeyCall <=> k.major = 1 /\ k.val = key - 1
    <2>1. CallIs(k, 1, key - 1, <<>>)
        BY <1>1, CallEqual, Zenon
    <2> QED
        BY <1>1, <1>4, <2>1 DEF CallIs
<1> DEFINE b == data[offset]
           m == k.major
           w == k.val
<1>6. b = 32 * m + Short(w)
    BY DEF ReadsCall
<1>7. m \in 0 .. 7 /\ w \in Nat
    BY <1>1
<1> HIDE DEF b, m, w
<1>8. b = 32 + key - 1 <=> m = 1 /\ w = key - 1
    BY <1>2, <1>6, <1>7 DEF Short
<1> QED
    BY <1>3, <1>5, <1>8 DEF b, m, w

(* A text key. *)
LEMMA MatchText ==
    ASSUME NEW k, WellFormedKey(k), data \in Seq(Octet), ReadsCall(data, offset, k),
           op = "text", key \in Keys[op]
    PROVE  KeyMatches <=> k = KeyCall
<1>0. WellFormedCall(k) /\ (k.major = 3 => k.val < 256)
    <2>1. k.major \in {0, 1} => k.major # 3
        OBVIOUS
    <2> QED
        BY <2>1 DEF WellFormedKey
<1>1. /\ k \in CallType /\ k.major \in 0 .. 7 /\ k.val \in Nat /\ k.body \in Seq(Octet)
      /\ k.major = 3 => Len(k.body) = k.val
    BY <1>0, WellFormedType
<1>2. key \in Seq(Octet) /\ Len(key) \in Nat /\ Len(key) < 256
    <2>1. op \in Lookups
        BY DEF Lookups
    <2> QED
        BY <2>1, KeyTypes
<1> DEFINE at == offset + HeaderLen(data, offset)
           n == Len(key)
           same == \A h \in DOMAIN key : ByteAt(data, at + h - 1) = key[h]
<1>3. KeyMatches <=> TypeAt(data, offset) = 3 /\ Argument(data, offset) % 256 = n /\ same
    BY DEF KeyMatches
<1>4. KeyCall = [major |-> 3, val |-> n, body |-> key]
    BY DEF KeyCall, Text
<1>5. k = KeyCall <=> k.major = 3 /\ k.val = n /\ k.body = key
    <2>1. CallIs(k, 3, n, key)
        BY <1>1, CallEqual, Zenon
    <2> QED
        BY <1>4, <2>1 DEF CallIs
<1>6. TypeAt(data, offset) = k.major /\ Argument(data, offset) = k.val /\ Holds(data, at, k.body)
    BY DEF ReadsCall
<1>7. Len(k.body) = n => (same <=> k.body = key)
    <2> DEFINE s == k.body
               M == Len(data)
    <2> SUFFICES ASSUME Len(s) = n PROVE same <=> s = key
        OBVIOUS
    <2>1. /\ s \in Seq(Octet) /\ M \in Nat /\ DOMAIN data = 1 .. M /\ DOMAIN key = 1 .. n
          /\ at \in Nat \ {0} /\ at + n <= M + 1 /\ \A h \in 1 .. n : data[at + h - 1] = s[h]
        BY <1>1, <1>2, <1>6, LenProperties DEF Holds
    <2> HIDE DEF at, M
    <2>2. \A h \in 1 .. n : at + h - 1 \in 1 .. M
        BY <1>2, <2>1
    <2> HIDE DEF s
    <2>3. \A h \in 1 .. n : ByteAt(data, at + h - 1) = s[h]
        BY <2>1, <2>2, Zenon DEF ByteAt
    <2>4. same => s = key
        <3> SUFFICES ASSUME same PROVE s = key
            OBVIOUS
        <3>1. \A h \in 1 .. n : s[h] = key[h]
            BY <2>1, <2>3
        <3> QED
            BY <1>2, <2>1, <3>1, SeqEqual
    <2>5. s = key => same
        BY <2>1, <2>3
    <2> QED
        BY <2>4, <2>5
<1>8. k.major = 3 => k.val % 256 = k.val
    BY <1>0, <1>1, SMTT(40)
<1>9. ASSUME k.major = 3
      PROVE  KeyMatches <=> k.val = n /\ k.body = key
    <2> HIDE DEF same
    <2>1. KeyMatches <=> k.val = n /\ same
        BY <1>3, <1>6, <1>8, <1>9
    <2>2. k.val = n => (same <=> k.body = key)
        BY <1>1, <1>7, <1>9
    <2> QED
        BY <2>1, <2>2
<1> QED
    BY <1>3, <1>5, <1>6, <1>9

(* Where a well-formed key is written, the comparison of a lookup of any   *)
(* kind succeeds exactly if it is the key looked for.                      *)
THEOREM Matches ==
    ASSUME NEW k, WellFormedKey(k), data \in Seq(Octet), ReadsCall(data, offset, k),
           op \in Lookups, key \in Keys[op]
    PROVE  KeyMatches <=> k = KeyCall
<1>1. WellFormedCall(k)
    BY DEF WellFormedKey
<1>2. CASE op = "neg"
    BY <1>1, <1>2, MatchNegative
<1>3. CASE op = "text"
    BY <1>3, MatchText
<1>4. CASE op \notin {"neg", "text"}
    BY <1>1, <1>4, MatchNumber
<1> QED
    BY <1>2, <1>3, <1>4

-----------------------------------------------------------------------------
(* A lookup. *)

(* A lookup under way: the next pair is at offset, and none before it has  *)
(* the key.                                                                *)
Walking ==
    /\ op \in Lookups /\ key \in Keys[op] /\ pairs \in Maps
    /\ Holds(data, start, Written(MapCalls(pairs))) /\ len = Len(Written(MapCalls(pairs)))
    /\ i \in 0 .. Len(pairs)
    /\ \E P : PairsAt(data, pairs, P) /\ P[Len(pairs)] = start + len /\ offset = P[i]
    /\ \A j \in 1 .. i : pairs[j].k # KeyCall

(* A lookup that has ended: there was no such pair, or its value was read  *)
(* where it is written.                                                    *)
Nothing == result = Null \/ (op = "item" /\ result = [Null EXCEPT !.found = TRUE, !.ptr = start])

FoundAt(v) ==
    /\ ShortCalls(Meant.calls)
    /\ Holds(data, v, Written(Meant.calls)) /\ v + Len(Written(Meant.calls)) <= end
    /\ result = Found(v)

Ended ==
    /\ op \in Lookups
    /\ \/ Named = {} /\ Nothing
       \/ Named # {} /\ pairs \in Maps /\ \E v : FoundAt(v)

Within == start \in Positions /\ len \in Nat /\ start + len \in Positions /\ offset \in Positions

(* What holds of a lookup that has met no head it does not know, *)
OnTrack ==
    /\ pc \in {"idle", "walk", "done", "sent"} /\ op \in Lookups \cup {"grep"}
    /\ data \in Seq(Octet) /\ Len(data) <= RespBuf
    /\ Within /\ i \in Word
    /\ pc # "done" => result = Null
    /\ pc = "walk" => Walking
    /\ pc = "done" => op = "grep" \/ Ended

(* and of any. *)
LookupInv ==
    /\ pc \in {"idle", "walk", "done", "sent"} /\ op \in Lookups \cup {"grep"}
    /\ data \in Seq(Octet) /\ Len(data) <= RespBuf
    /\ lost \in BOOLEAN
    /\ ~lost => OnTrack

(* The value of a pair, read at its place. *)
LEMMA ValueRead ==
    ASSUME NEW d \in Seq(Octet), NEW lim \in Nat, NEW w, WellFormedValue(w), ShortCalls(w.calls),
           NEW v, Holds(d, v, Written(w.calls)), v + Len(Written(w.calls)) <= lim
    PROVE  /\ WellFormedCall(w.calls[1]) /\ ReadsCall(d, v, w.calls[1])
           /\ v \in Nat \ {0} /\ v < lim
           /\ Len(Written(w.calls)) \in Nat \ {0}
           /\ skip_cbor_item(d, lim, v) = v + Len(Written(w.calls))
<1> DEFINE s == w.calls
           c == s[1]
<1>1. WellFormedCalls(s) /\ Balanced(s) /\ WellFormedCall(c) /\ c.val \in Word
    <2>1. WellFormedCalls(s) /\ Balanced(s) /\ WellFormedCall(c) /\ 1 \in 1 .. Len(s)
        BY ValueFacts
    <2>2. 1 \in DOMAIN s
        BY <2>1, LenProperties DEF WellFormedCalls
    <2> QED
        BY <2>1, <2>2 DEF ShortCalls
<1>2. /\ skip_cbor_item(d, lim, v) = v + Len(Written(s))
      /\ Holds(d, v, CallBytes(s[1]))
      /\ Len(Written(s)) \in Nat \ {0}
    <2>1. Holds(d, v, Written(s)) /\ v + Len(Written(s)) <= lim
        OBVIOUS
    <2>2. WellFormedCalls(s) /\ Balanced(s) /\ ShortCalls(s)
        BY <1>1
    <2> HIDE DEF s
    <2> QED
        BY <2>1, <2>2, SkipDocument
<1>3. ReadsCall(d, v, c)
    <2>1. Holds(d, v, CallBytes(c))
        BY <1>2
    <2> HIDE DEF c
    <2> QED
        BY <1>1, <2>1, ReadsCallBytes
<1>4. v \in Nat \ {0}
    BY DEF Holds
<1>5. v < lim
    <2> DEFINE n == Len(Written(s))
    <2>1. n \in Nat \ {0} /\ v + n <= lim
        BY <1>2
    <2> HIDE DEF n
    <2> QED
        BY <1>4, <2>1
<1> QED
    BY <1>1, <1>2, <1>3, <1>4, <1>5

(* The value meant is that of a pair. *)
LEMMA MeantFacts ==
    ASSUME Named # {}, pairs \in Maps
    PROVE  WellFormedValue(Meant) /\ Meant.pairs \in Maps
<1> DEFINE j == CHOOSE j \in Named : TRUE
<1>1. j \in Named
    OBVIOUS
<1>2. j \in 1 .. Len(pairs)
    BY <1>1, PairFacts DEF Named
<1>3. Meant = pairs[j].v
    BY DEF Meant
<1> HIDE DEF j
<1> QED
    BY <1>2, <1>3, PairFacts

(* The walk knows how many pairs there are. *)
LEMMA WalkCount ==
    ASSUME OnTrack, pc = "walk"
    PROVE  Argument(data, start) = Len(pairs)
<1> DEFINE N == Len(pairs)
<1>1. pairs \in Maps /\ Holds(data, start, Written(MapCalls(pairs))) /\ data \in Seq(Octet)
    BY DEF OnTrack, Walking
<1>2. ReadsCall(data, start, Map(N))
    BY <1>1, MapLayout
<1>3. Map(N).val = N
    BY DEF Map
<1> QED
    BY <1>2, <1>3 DEF ReadsCall

(* A walk that has pairs left goes on, and one that has not does not. *)
LEMMA NextPair ==
    ASSUME OnTrack, pc = "walk", i # Len(pairs)
    PROVE  /\ i + 1 \in 1 .. Len(pairs) /\ ~Exhausted
           /\ KeyMatches <=> pairs[i + 1].k = KeyCall
           /\ WellFormedValue(pairs[i + 1].v)
           /\ Holds(data, Value, Written(pairs[i + 1].v.calls))
           /\ Value + Len(Written(pairs[i + 1].v.calls)) <= end
           /\ ShortCalls(pairs[i + 1].v.calls) =>
                \E P : /\ PairsAt(data, pairs, P) /\ P[Len(pairs)] = start + len
                       /\ skip_cbor_item(data, end, Value) = P[i + 1]
<1>1. /\ op \in Lookups /\ key \in Keys[op] /\ pairs \in Maps
      /\ Holds(data, start, Written(MapCalls(pairs))) /\ i \in 0 .. Len(pairs)
      /\ data \in Seq(Octet)
    BY DEF OnTrack, Walking
<1>2. PICK P : PairsAt(data, pairs, P) /\ P[Len(pairs)] = start + len /\ offset = P[i]
    BY DEF OnTrack, Walking
<1> DEFINE N == Len(pairs)
           j == i + 1
           k == pairs[j].k
           v == pairs[j].v
           a == Len(CallBytes(k))
           b == Len(Written(v.calls))
<1>3. N \in Nat
    BY <1>1, PairFacts
<1>4. j \in 1 .. N /\ j - 1 = i
    BY <1>1, <1>3
<1>5. end \in Nat /\ start + len = end
    BY DEF OnTrack, Within, Positions, end
<1>6. /\ WellFormedKey(k) /\ WellFormedCall(k) /\ ReadsCall(data, offset, k)
      /\ WellFormedValue(v)
      /\ skip_cbor_item(data, end, offset) = offset + a
      /\ Holds(data, offset + a, Written(v.calls))
      /\ ShortCalls(v.calls) => skip_cbor_item(data, end, offset + a) = P[j]
      /\ P[j] = offset + a + b
      /\ offset \in Nat \ {0} /\ P[j] \in Nat \ {0} /\ P[j] <= end
      /\ a \in Nat \ {0} /\ b \in Nat \ {0}
    <2>1. P[Len(pairs)] = end /\ j \in 1 .. Len(pairs)
        BY <1>2, <1>4, <1>5
    <2>2. P[j - 1] = offset
        BY <1>2, <1>4
    <2> HIDE DEF j
    <2>3. PairReads(data, pairs, P, j, end)
        BY <1>1, <1>2, <1>5, <2>1, PairAt
    <2> QED
        BY <2>2, <2>3 DEF PairReads
<1>7. Value = offset + a
    BY <1>6 DEF Value
<1>8. Argument(data, start) = N
    BY WalkCount
<1>9. ~Exhausted
    <2> DEFINE p == P[j]
               x == offset
               e == end
    <2>1. /\ x \in Nat \ {0} /\ a \in Nat \ {0} /\ b \in Nat \ {0} /\ p = x + a + b /\ p <= e /\ e \in Nat
        BY <1>5, <1>6
    <2> HIDE DEF p, x, e, a, b
    <2>2. ~(x + 1 >= e) /\ ~(x >= e) /\ ~(x + a >= e)
        BY <2>1
    <2> QED
        BY <1>7, <1>8, <2>2 DEF Exhausted, x, e
<1>10. KeyMatches <=> k = KeyCall
    <2> HIDE DEF k
    <2> QED
        BY <1>1, <1>6, Matches
<1>11. /\ Value + b <= end /\ Holds(data, Value, Written(v.calls))
       /\ ShortCalls(v.calls) => skip_cbor_item(data, end, Value) = P[j]
    BY <1>6, <1>7
<1> QED
    BY <1>2, <1>4, <1>6, <1>9, <1>10, <1>11

(* A walk that has seen all pairs has not seen the key. *)
LEMMA NoPairLeft ==
    ASSUME OnTrack, pc = "walk", i = Len(pairs)
    PROVE  Named = {}
<1>1. pairs \in Maps /\ \A j \in 1 .. i : pairs[j].k # KeyCall
    BY DEF OnTrack, Walking
<1>2. DOMAIN pairs = 1 .. Len(pairs)
    BY <1>1, PairFacts
<1> QED
    BY <1>1, <1>2 DEF Named

(* What a lookup makes of a value that reads as the call c of n bytes. *)
FoundIs(r, v, at, c, n) ==
    /\ op \in {"value", "neg"} =>
         r.found = TRUE /\ r.ptr = at /\ r.len = c.val /\ r.type = c.major
    /\ op = "int" => /\ c.major = 0 => r.found = TRUE /\ r.ptr = at /\ r.len = c.val
                     /\ c.major # 0 => r = Null
    /\ op = "string" => r.found = (c.major \in {2, 3}) /\ r.ptr = at /\ r.len = c.val
    /\ op = "text" => /\ c.major \in {2, 3} => r.found = TRUE /\ r.ptr = at /\ r.len = c.val % 256
                      /\ c.major \notin {2, 3} => r = Null
    /\ op = "item" => r.found = TRUE /\ r.ptr = v /\ r.len = n

(* The cases of Found. *)
LEMMA FoundForm ==
    ASSUME NEW v, NEW c, NEW n, op \in Lookups, TypeAt(data, v) = c.major, Argument(data, v) = c.val,
           skip_cbor_item(data, end, v) - v = n
    PROVE  FoundIs(Found(v), v, v + HeaderLen(data, v), c, n)
<1>1. CASE op \in {"value", "neg"}
    BY <1>1 DEF Found, FoundIs
<1>2. CASE op = "int"
    BY <1>2 DEF Found, FoundIs
<1>3. CASE op = "string"
    BY <1>3 DEF Found, FoundIs
<1>4. CASE op = "text"
    BY <1>4 DEF Found, FoundIs
<1>5. CASE op = "item"
    BY <1>5 DEF Found, FoundIs
<1> QED
    BY <1>1, <1>2, <1>3, <1>4, <1>5 DEF Lookups

FoundFacts(v) ==
    /\ WellFormedCall(Meant.calls[1]) /\ ReadsCall(data, v, Meant.calls[1])
    /\ WellFormedCalls(Meant.calls)
    /\ v \in Nat \ {0} /\ Len(Written(Meant.calls)) \in Nat \ {0}
    /\ v + Len(Written(Meant.calls)) <= end
    /\ FoundIs(result, v, v + HeaderLen(data, v), Meant.calls[1], Len(Written(Meant.calls)))

(* A value that was found where it is written reads as it was written. *)
LEMMA FoundReads ==
    ASSUME op \in Lookups, data \in Seq(Octet), end \in Nat, Named # {}, pairs \in Maps,
           NEW v, FoundAt(v)
    PROVE  FoundFacts(v)
<1> DEFINE w == Meant
           c == w.calls[1]
           n == Len(Written(w.calls))
<1>1. WellFormedValue(w)
    BY MeantFacts
<1>2. /\ ShortCalls(w.calls)
      /\ Holds(data, v, Written(w.calls)) /\ v + n <= end /\ result = Found(v)
    BY DEF FoundAt
<1>3. /\ WellFormedCall(c) /\ ReadsCall(data, v, c) /\ v \in Nat \ {0} /\ n \in Nat \ {0}
      /\ skip_cbor_item(data, end, v) = v + n
    <2> DEFINE e == end
    <2>1. v + Len(Written(w.calls)) <= e /\ e \in Nat
        BY <1>2
    <2> HIDE DEF w, e
    <2>2. /\ WellFormedCall(w.calls[1]) /\ ReadsCall(data, v, w.calls[1])
          /\ v \in Nat \ {0}
          /\ Len(Written(w.calls)) \in Nat \ {0}
          /\ skip_cbor_item(data, e, v) = v + Len(Written(w.calls))
        BY <1>1, <1>2, <2>1, ValueRead
    <2> QED
        BY <2>2 DEF e
<1>4. skip_cbor_item(data, end, v) - v = n
    <2> HIDE DEF n
    <2> QED
        BY <1>3
<1>5. TypeAt(data, v) = c.major /\ Argument(data, v) = c.val
    BY <1>3 DEF ReadsCall
<1>6. FoundIs(result, v, v + HeaderLen(data, v), c, n)
    <2> HIDE DEF c, n
    <2> QED
        BY <1>2, <1>4, <1>5, FoundForm
<1>7. WellFormedCalls(w.calls)
    BY <1>1, ValueFacts
<1> QED
    BY <1>2, <1>3, <1>6, <1>7 DEF FoundFacts

(* A map that is written somewhere is entered at its first pair. *)
MapEntered(d, p, m) ==
    /\ Len(Written(MapCalls(m))) \in Nat \ {0} /\ TypeAt(d, p) = 5
    /\ p \in 1 .. Len(d) + 1 /\ p + Len(Written(MapCalls(m))) \in 1 .. Len(d) + 1
    /\ p + HeaderLen(d, p) \in 1 .. Len(d) + 1
    /\ \E P : /\ PairsAt(d, m, P) /\ P[Len(m)] = p + Len(Written(MapCalls(m)))
              /\ p + HeaderLen(d, p) = P[0]

(* Every map that is there can be entered. *)
LEMMA EnterMap ==
    ASSUME NEW d \in Seq(Octet), NEW p, NEW m \in Maps, Holds(d, p, Written(MapCalls(m)))
    PROVE  MapEntered(d, p, m)
<1> DEFINE n == Len(Written(MapCalls(m)))
           N == Len(m)
           D == Len(d)
<1>1. N \in Nat /\ D \in Nat
    BY PairFacts, LenProperties
<1>2. ReadsCall(d, p, Map(N)) /\ n \in Nat \ {0}
    BY MapLayout
<1>3. PICK P : PairsAt(d, m, P) /\ P[0] = p + HeaderLen(d, p) /\ P[N] = p + n
    BY MapLayout
<1>4. TypeAt(d, p) = 5
    BY <1>2 DEF ReadsCall, Map
<1>5. p \in Nat \ {0} /\ p + n <= D + 1
    BY DEF Holds
<1>6. HeaderLen(d, p) \in 1 .. 3
    BY HeadReads
<1>7. P[0] <= P[N] /\ P[N] \in Nat
    <2>1. 0 \in 0 .. N /\ N \in 0 .. N /\ (N = 0 \/ 0 < N)
        BY <1>1
    <2>2. P[0] \in Nat /\ P[N] \in Nat
        BY <1>3, <2>1 DEF PairsAt
    <2>3. N = 0 \/ P[0] < P[N]
        BY <1>3, <2>1 DEF PairsAt
    <2> QED
        BY <2>2, <2>3
<1>8. /\ p \in 1 .. D + 1 /\ p + n \in 1 .. D + 1 /\ p + HeaderLen(d, p) \in 1 .. D + 1
    <2> DEFINE h == HeaderLen(d, p)
    <2>1. h \in Nat /\ p + h <= p + n
        BY <1>3, <1>6, <1>7
    <2> HIDE DEF h, n, D
    <2>2. /\ p \in 1 .. D + 1 /\ p + n \in 1 .. D + 1 /\ p + h \in 1 .. D + 1
        BY <1>1, <1>2, <1>5, <2>1
    <2> QED
        BY <2>2 DEF h
<1> QED
    BY <1>2, <1>3, <1>4, <1>8 DEF MapEntered

(* The lookup that starts there. *)
LEMMA EnterWalk ==
    ASSUME NEW p, NEW m \in Maps, data' \in Seq(Octet), Len(data') <= RespBuf, pairs' = m,
           Holds(data', p, Written(MapCalls(m))), NEW o \in Lookups, NEW k \in Keys[o],
           Enter(data', p, Len(Written(MapCalls(m))), o, k)
    PROVE  OnTrack'
<1> DEFINE d == data'
           n == Len(Written(MapCalls(m)))
<1>1. MapEntered(d, p, m)
    BY EnterMap
<1>2. n \in Nat \ {0} /\ TypeAt(d, p) = 5
    BY <1>1 DEF MapEntered
<1>3. /\ pc' = "walk" /\ offset' = p + HeaderLen(d, p) /\ start' = p /\ len' = n
      /\ op' = o /\ key' = k /\ i' = 0 /\ result' = Null
    <2> HIDE DEF n
    <2>1. n # 0
        BY <1>2
    <2>2. Enter(d, p, n, o, k)
        BY DEF n
    <2> QED
        BY <1>2, <2>1, <2>2 DEF Enter
<1>4. Within'
    BY <1>1, <1>2, <1>3 DEF Within, Positions, MapEntered
<1>5. Walking'
    <2>1. Len(m) \in Nat
        BY PairFacts
    <2>2. i' \in 0 .. Len(pairs') /\ \A j \in 1 .. i' : pairs'[j].k # KeyCall'
        BY <1>3, <2>1
    <2>3. \E P : PairsAt(data', pairs', P) /\ P[Len(pairs')] = start' + len' /\ offset' = P[i']
        BY <1>1, <1>3 DEF MapEntered
    <2>4. /\ op' \in Lookups /\ key' \in Keys[op'] /\ pairs' \in Maps
          /\ Holds(data', start', Written(MapCalls(pairs'))) /\ len' = Len(Written(MapCalls(pairs')))
        BY <1>3
    <2> QED
        BY <2>2, <2>3, <2>4 DEF Walking
<1>6. i' \in Word
    BY <1>3, WordIs
<1> QED
    BY <1>3, <1>4, <1>5, <1>6 DEF OnTrack

(* Each action keeps the invariant. *)
LEMMA LookupInit == Init => OnTrack
<1> SUFFICES ASSUME Init PROVE OnTrack
    OBVIOUS
<1>1. data = <<>> /\ data \in Seq(Octet) /\ Len(data) = 0
    BY DEF Init
<1>2. i \in Word
    BY WordIs DEF Init
<1>3. Within
    BY <1>1 DEF Init, Within, Positions
<1>4. Len(data) <= RespBuf
    BY <1>1, SizesAssumption
<1> QED
    BY <1>1, <1>2, <1>3, <1>4 DEF Init, OnTrack, Lookups

(* A lookup in a request: the whole request has been written. *)
LEMMA LookupCall ==
    ASSUME NEW m \in Requests, NEW o \in Lookups, NEW k \in Keys[o], Call(m, o, k)
    PROVE  OnTrack'
<1> DEFINE s == MapCalls(m)
<1>1. m \in Maps /\ Len(Written(s)) <= RespBuf
    BY RequestsAssumption
<1>2. s \in Seq(CallType)
    BY <1>1, MapCallsType
<1>3. data' = Written(s)
    <2> HIDE DEF s
    <2>1. Encode(RespBuf, s) = Written(s)
        BY <1>1, <1>2, SizesAssumption, EncodeWhole
    <2> QED
        BY <2>1 DEF Call, s
<1>4. data' \in Seq(Octet) /\ Len(data') <= RespBuf
    BY <1>1, <1>2, <1>3, WrittenType
<1>5. Holds(data', 1, Written(s))
    <2>1. Len(data') \in Nat
        BY <1>4, LenProperties
    <2>2. \A j \in 1 .. Len(data') : 1 + j - 1 = j
        BY <2>1
    <2>3. 1 + Len(data') <= Len(data') + 1
        BY <2>1
    <2> QED
        BY <1>3, <2>2, <2>3 DEF Holds
<1>6. pairs' = m /\ Enter(data', 1, Len(Written(s)), o, k)
    BY <1>3 DEF Call
<1> QED
    BY <1>1, <1>4, <1>5, <1>6, EnterWalk

(* The key looked for is that of the pair the walk has come to. *)
LEMMA LookupMatch ==
    ASSUME OnTrack, StepMatch, ~LosesWay
    PROVE  OnTrack'
<1>1. /\ op \in Lookups /\ pairs \in Maps /\ pc = "walk" /\ end \in Nat
    BY DEF OnTrack, Walking, StepMatch, Within, Positions, end
<1>2. i # Len(pairs)
    <2>1. Argument(data, start) = Len(pairs)
        BY WalkCount DEF StepMatch
    <2> QED
        BY <2>1 DEF StepMatch, Exhausted
<1> DEFINE j == i + 1
<1>3. /\ j \in 1 .. Len(pairs) /\ pairs[j].k = KeyCall
      /\ Holds(data, Value, Written(pairs[j].v.calls))
      /\ Value + Len(Written(pairs[j].v.calls)) <= end
    BY <1>1, <1>2, NextPair DEF StepMatch
<1>s. ShortCalls(pairs[j].v.calls)
    BY Zenon DEF LosesWay, ShortCalls
<1> HIDE DEF j
<1>4. Named = {j}
    BY <1>1, <1>3, PairFacts DEF Named
<1>5. Meant = pairs[j].v
    BY <1>4 DEF Meant
<1>6. UNCHANGED <<data, pairs, start, len, op, key, i, offset>> /\ result' = Found(Value) /\ pc' = "done"
    BY DEF StepMatch
<1>7. Named' = Named /\ Meant' = Meant /\ end' = end
    BY <1>6 DEF Named, Meant, KeyCall, end
<1>8. Found(Value)' = Found(Value) /\ Value' = Value
    BY <1>6 DEF Found, end, Value
<1>9. FoundAt(Value)'
    BY <1>3, <1>5, <1>6, <1>7, <1>8, <1>s DEF FoundAt
<1>10. Ended'
    BY <1>1, <1>4, <1>6, <1>7, <1>9 DEF Ended
<1>11. Within'
    BY <1>6 DEF OnTrack, Within, Positions
<1> QED
    BY <1>6, <1>10, <1>11 DEF OnTrack

(* The next pair is where the walk goes. *)
LEMMA LookupSkip ==
    ASSUME OnTrack, StepSkip, ~LosesWay
    PROVE  OnTrack'
<1>1. /\ Walking /\ op \in Lookups /\ pairs \in Maps /\ pc = "walk" /\ i \in 0 .. Len(pairs)
      /\ Within
    BY DEF OnTrack, Walking, StepSkip
<1>2. i # Len(pairs)
    <2>1. Argument(data, start) = Len(pairs)
        BY WalkCount DEF StepSkip
    <2> QED
        BY <2>1 DEF StepSkip, Exhausted
<1> DEFINE j == i + 1
           N == Len(pairs)
<1>s. ShortCalls(pairs[j].v.calls)
    BY Zenon DEF LosesWay, ShortCalls
<1>3. /\ j \in 1 .. N /\ pairs[j].k # KeyCall
      /\ \E P : /\ PairsAt(data, pairs, P) /\ P[Len(pairs)] = start + len
                /\ skip_cbor_item(data, end, Value) = P[j]
    BY <1>1, <1>2, <1>s, NextPair DEF StepSkip
<1>4. /\ UNCHANGED <<data, pairs, start, len, op, key, result, pc>> /\ i' = j
      /\ offset' = skip_cbor_item(data, end, Value)
    BY DEF StepSkip
<1>5. N \in Nat /\ N \in Word
    BY <1>1, PairFacts
<1>6. PICK P : PairsAt(data, pairs, P) /\ P[Len(pairs)] = start + len /\ offset' = P[j]
    BY <1>3, <1>4
<1>7. \A h \in 1 .. j : pairs[h].k # KeyCall
    <2>1. \A h \in 1 .. i : pairs[h].k # KeyCall
        BY <1>1 DEF Walking
    <2>2. \A h \in 1 .. j : h = j \/ h \in 1 .. i
        BY <1>1, <1>5
    <2> QED
        BY <1>3, <2>1, <2>2
<1>8. i' \in 0 .. Len(pairs') /\ i' \in Word
    <2>1. j \in 0 .. N
        BY <1>3, <1>5
    <2>2. j \in Word
        BY <1>3, <1>5, WordIs
    <2> QED
        BY <1>4, <2>1, <2>2
<1>9. KeyCall' = KeyCall
    BY <1>4 DEF KeyCall
<1>10. Walking'
    <2>1. \E Q : PairsAt(data', pairs', Q) /\ Q[Len(pairs')] = start' + len' /\ offset' = Q[i']
        BY <1>4, <1>6
    <2>2. \A h \in 1 .. i' : pairs'[h].k # KeyCall'
        BY <1>4, <1>7, <1>9
    <2>3. /\ op' \in Lookups /\ key' \in Keys[op'] /\ pairs' \in Maps
          /\ Holds(data', start', Written(MapCalls(pairs'))) /\ len' = Len(Written(MapCalls(pairs')))
        BY <1>1, <1>4 DEF Walking
    <2> QED
        BY <1>8, <2>1, <2>2, <2>3 DEF Walking
<1>11. offset' \in Positions
    <2>1. P[j] \in Nat \ {0} /\ P[j] <= P[N] /\ P[N] \in Nat
        <3>1. j \in 0 .. N /\ N \in 0 .. N /\ (j = N \/ j < N)
            BY <1>3, <1>5
        <3>2. P[j] \in Nat \ {0} /\ P[N] \in Nat
            BY <1>6, <3>1 DEF PairsAt
        <3>3. j = N \/ P[j] < P[N]
            BY <1>6, <3>1 DEF PairsAt
        <3> QED
            BY <3>2, <3>3
    <2>2. P[N] \in 1 .. Len(data) + 1
        BY <1>1, <1>6 DEF Within, Positions
    <2> QED
        BY <1>6, <2>1, <2>2 DEF Positions
<1>12. Within'
    BY <1>1, <1>4, <1>11 DEF Within, Positions
<1>13. /\ pc' = "walk" /\ op' \in Lookups /\ data' \in Seq(Octet) /\ Len(data') <= RespBuf
       /\ result' = Null
    BY <1>1, <1>4 DEF OnTrack
<1> QED
    BY <1>8, <1>10, <1>12, <1>13 DEF OnTrack

(* The walk ends without the key only when there is none. *)
LEMMA LookupEnd ==
    ASSUME OnTrack, StepEnd
    PROVE  OnTrack'
<1>1. op \in Lookups /\ pairs \in Maps /\ pc = "walk"
    BY DEF OnTrack, Walking, StepEnd
<1>2. i = Len(pairs)
    BY <1>1, NextPair DEF StepEnd
<1>3. Named = {}
    BY <1>1, <1>2, NoPairLeft
<1>4. /\ UNCHANGED <<data, pairs, start, len, op, key, i, offset>> /\ pc' = "done"
      /\ \/ result' = Null
         \/ op = "item" /\ result' = [Null EXCEPT !.found = TRUE, !.ptr = start]
    BY DEF StepEnd
<1>5. Named' = {}
    BY <1>3, <1>4 DEF Named, KeyCall
<1>6. Ended'
    BY <1>1, <1>4, <1>5 DEF Ended, Nothing
<1>7. Within'
    BY <1>4 DEF OnTrack, Within, Positions
<1> QED
    BY <1>4, <1>6, <1>7 DEF OnTrack

(* A lookup in something that is not a map finds nothing. *)
LEMMA EnterOther ==
    ASSUME NEW p \in 1 .. Len(data') + 1, NEW n \in Nat, p + n \in 1 .. Len(data') + 1,
           NEW o \in Lookups, NEW k, data' \in Seq(Octet), Len(data') <= RespBuf,
           pairs' = <<>>, n = 0 \/ TypeAt(data', p) # 5, Enter(data', p, n, o, k)
    PROVE  OnTrack'
<1>1. /\ pc' = "done" /\ offset' = p /\ start' = p /\ len' = n
      /\ op' = o /\ key' = k /\ i' = 0 /\ result' = Null
    BY DEF Enter
<1>2. Within'
    BY <1>1 DEF Within, Positions
<1>3. Named' = {}
    BY DEF Named
<1>4. Ended'
    BY <1>1, <1>3 DEF Ended, Nothing
<1>5. i' \in Word
    BY <1>1, WordIs
<1> QED
    BY <1>1, <1>2, <1>4, <1>5 DEF OnTrack

(* A lookup in the item found before: in its map, or in nothing. *)
LEMMA LookupInItem ==
    ASSUME OnTrack, NEW o \in Lookups, NEW k \in Keys[o], CallInItem(o, k)
    PROVE  OnTrack'
<1>1. /\ Ended /\ op = "item" /\ op \in Lookups /\ result.found = TRUE
      /\ data \in Seq(Octet) /\ Len(data) <= RespBuf /\ Within /\ end \in Nat
      /\ end \in Positions
    BY DEF OnTrack, CallInItem, Lookups, Within, end, Positions
<1>2. /\ data' = data /\ Enter(data', result.ptr, result.len, o, k)
      /\ pairs' = IF Named = {} THEN <<>> ELSE Meant.pairs
    BY DEF CallInItem
<1>3. CASE Named = {}
    <2>1. result = [Null EXCEPT !.found = TRUE, !.ptr = start]
        BY <1>1, <1>3 DEF Ended, Nothing, Null
    <2>2. result.ptr = start /\ result.len = 0
        BY <2>1 DEF Null
    <2>3. start \in 1 .. Len(data') + 1 /\ start + 0 \in 1 .. Len(data') + 1
        BY <1>1, <1>2 DEF Within, Positions
    <2> QED
        BY <1>1, <1>2, <1>3, <2>2, <2>3, EnterOther
<1>4. CASE Named # {}
    <2>1. PICK v : pairs \in Maps /\ FoundAt(v)
        BY <1>1, <1>4 DEF Ended
    <2> DEFINE s == Meant.calls
               n == Len(Written(s))
    <2>2. FoundFacts(v)
        BY <1>1, <1>4, <2>1, FoundReads
    <2>3. result.ptr = v /\ result.len = n
        BY <1>1, <2>2 DEF FoundFacts, FoundIs
    <2>4. v \in Nat \ {0} /\ n \in Nat \ {0} /\ v + n <= end
        BY <2>2 DEF FoundFacts
    <2>5. v \in 1 .. Len(data') + 1 /\ v + n \in 1 .. Len(data') + 1
        <3> DEFINE e == end
                   D == Len(data)
        <3>1. D \in Nat /\ e \in 1 .. D + 1 /\ v + n <= e
            BY <1>1, <2>4, LenProperties DEF Positions
        <3> HIDE DEF n, e, D
        <3>2. v \in 1 .. D + 1 /\ v + n \in 1 .. D + 1
            BY <2>4, <3>1
        <3> QED
            BY <1>2, <3>2 DEF D
    <2>6. TypeAt(data, v) = s[1].major
        BY <2>2 DEF FoundFacts, ReadsCall
    <2>7. WellFormedValue(Meant) /\ Meant.pairs \in Maps
        BY <1>4, <2>1, MeantFacts
    <2>8. Enter(data', v, n, o, k) /\ pairs' = Meant.pairs
        BY <1>2, <1>4, <2>3
    <2>9. CASE s[1].major = 5
        <3> DEFINE m == Meant.pairs
        <3>1. s = MapCalls(m)
            BY <2>7, <2>9 DEF WellFormedValue
        <3>2. Holds(data', v, Written(MapCalls(m)))
            BY <1>2, <2>1, <3>1 DEF FoundAt
        <3>3. Enter(data', v, Len(Written(MapCalls(m))), o, k)
            BY <2>8, <3>1
        <3>4. m \in Maps /\ pairs' = m
            BY <2>7, <2>8
        <3> HIDE DEF m
        <3> QED
            BY <1>1, <1>2, <3>2, <3>3, <3>4, EnterWalk
    <2>10. CASE s[1].major # 5
        <3>1. pairs' = <<>>
            BY <2>7, <2>8, <2>10 DEF WellFormedValue
        <3>2. TypeAt(data', v) # 5
            BY <1>2, <2>6, <2>10
        <3>3. n \in Nat
            BY <2>4
        <3> HIDE DEF n
        <3> QED
            BY <1>1, <1>2, <2>5, <2>8, <3>1, <3>2, <3>3, EnterOther
    <2> QED
        BY <2>9, <2>10
<1> QED
    BY <1>3, <1>4

(* The search for an option leaves the request alone. *)
LEMMA LookupGrep ==
    ASSUME OnTrack, NEW k, find_cbor_string(k)
    PROVE  OnTrack'
<1>1. UNCHANGED <<pc, data, start, len, i, offset>> /\ op' = "grep" /\ pc = "done"
    BY DEF find_cbor_string
<1>2. Within'
    BY <1>1 DEF OnTrack, Within, Positions
<1> QED
    BY <1>1, <1>2 DEF OnTrack

(* The handler goes on. *)
LEMMA LookupReturn ==
    ASSUME Return
    PROVE  OnTrack'
<1>1. /\ pc' = "idle" /\ data' = <<>> /\ start' = 1 /\ len' = 0
      /\ op' = "value" /\ i' = 0 /\ offset' = 1 /\ result' = Null
    BY DEF Return
<1>2. data' \in Seq(Octet) /\ Len(data') = 0
    BY <1>1
<1>3. i' \in Word
    BY <1>1, WordIs
<1>4. Within'
    BY <1>1, <1>2 DEF Within, Positions
<1>5. Len(data') <= RespBuf
    BY <1>2, SizesAssumption
<1> QED
    BY <1>1, <1>2, <1>3, <1>4, <1>5 DEF OnTrack, Lookups

(* A response leaves the lookups alone. *)
LEMMA LookupReply ==
    ASSUME OnTrack, UNCHANGED lookup, pc \in {"idle", "sent"}, pc' \in {"idle", "sent"}
    PROVE  OnTrack'
<1>1. UNCHANGED <<data, start, len, op, key, i, offset, result>>
    BY DEF lookup
<1>2. Within'
    BY <1>1 DEF OnTrack, Within, Positions
<1> QED
    BY <1>1, <1>2 DEF OnTrack

(* A step of no one. *)
LEMMA LookupStutter ==
    ASSUME OnTrack, UNCHANGED vars
    PROVE  OnTrack'
<1>1. UNCHANGED <<pc, data, pairs, start, len, op, key, i, offset, result>>
    BY DEF lookup, vars
<1>2. Within' /\ (Walking => Walking') /\ (Ended => Ended')
    <2>1. Within' = Within
        BY <1>1 DEF Within, Positions
    <2>2. KeyCall' = KeyCall /\ end' = end
        BY <1>1 DEF KeyCall, end
    <2>3. Named' = Named
        BY <1>1, <2>2 DEF Named
    <2>4. Meant' = Meant
        BY <1>1, <2>3 DEF Meant
    <2>5. \A v : Found(v)' = Found(v)
        BY <1>1, <2>2 DEF Found
    <2>6. \A v : FoundAt(v) => FoundAt(v)'
        BY <1>1, <2>2, <2>4, <2>5 DEF FoundAt
    <2>7. Ended => Ended'
        BY <1>1, <2>3, <2>6 DEF Ended, Nothing
    <2>8. Walking => Walking'
        BY <1>1, <2>2 DEF Walking
    <2> QED
        BY <2>1, <2>7, <2>8 DEF OnTrack
<1> QED
    BY <1>1, <1>2 DEF OnTrack

(* At first no lookup is under way. *)
LEMMA LookupStarts == Init => LookupInv
<1>1. Init => OnTrack /\ lost \in BOOLEAN
    BY LookupInit DEF Init
<1> QED
    BY <1>1 DEF LookupInv, OnTrack

(* All together: a lookup on the track stays there or is lost. *)
LEMMA LookupNext == LookupInv /\ [Next]_vars => LookupInv'
<1> SUFFICES ASSUME LookupInv, [Next]_vars PROVE LookupInv'
    OBVIOUS
<1> DEFINE Types == /\ pc \in {"idle", "walk", "done", "sent"} /\ op \in Lookups \cup {"grep"}
                    /\ data \in Seq(Octet) /\ Len(data) <= RespBuf
<1>a. Types /\ lost \in BOOLEAN /\ (~lost => OnTrack)
    BY DEF LookupInv
<1>b. Types' /\ lost' \in BOOLEAN /\ (~lost' => OnTrack') => LookupInv'
    BY DEF LookupInv
<1>c. OnTrack' => Types'
    BY DEF OnTrack
<1>1. ASSUME NEW m \in Requests, NEW o \in Lookups, NEW k \in Keys[o], Call(m, o, k)
      PROVE  LookupInv'
    <2>1. OnTrack'
        BY <1>1, LookupCall
    <2>2. lost' = lost
        BY <1>1 DEF Call
    <2> HIDE DEF Types
    <2> QED
        BY <1>a, <1>b, <1>c, <2>1, <2>2, Zenon
<1>l. LosesWay \in BOOLEAN /\ (lost => LosesWay)
    BY <1>a, Zenon DEF LosesWay
<1>2. CASE StepMatch
    <2>1. lost' = LosesWay /\ Types'
        BY <1>2, <1>a DEF StepMatch
    <2>2. ~LosesWay => OnTrack'
        BY <1>2, <1>a, <1>l, LookupMatch
    <2> HIDE DEF Types
    <2> QED
        BY <1>b, <1>l, <2>1, <2>2, Zenon
<1>3. CASE StepSkip
    <2>1. lost' = LosesWay /\ Types'
        BY <1>3, <1>a DEF StepSkip
    <2>2. ~LosesWay => OnTrack'
        BY <1>3, <1>a, <1>l, LookupSkip
    <2> HIDE DEF Types
    <2> QED
        BY <1>b, <1>l, <2>1, <2>2, Zenon
<1>4. CASE StepEnd
    <2>1. lost' = lost /\ Types'
        BY <1>4, <1>a DEF StepEnd
    <2>2. ~lost => OnTrack'
        BY <1>4, <1>a, LookupEnd
    <2> HIDE DEF Types
    <2> QED
        BY <1>a, <1>b, <2>1, <2>2, Zenon
<1>5. ASSUME NEW o \in Lookups \ {"value"}, NEW k \in Keys[o], CallInItem(o, k)
      PROVE  LookupInv'
    <2>1. lost' = lost /\ Types'
        BY <1>5, <1>a DEF CallInItem, Enter
    <2>2. ~lost => OnTrack'
        BY <1>5, <1>a, LookupInItem
    <2> HIDE DEF Types
    <2> QED
        BY <1>a, <1>b, <2>1, <2>2, Zenon
<1>6. ASSUME NEW k \in Keys["text"], find_cbor_string(k)
      PROVE  LookupInv'
    <2>1. lost' = lost /\ UNCHANGED <<pc, data>> /\ op' = "grep"
        BY <1>6 DEF find_cbor_string
    <2>2. Types'
        BY <1>a, <2>1
    <2>3. ~lost => OnTrack'
        BY <1>6, <1>a, LookupGrep
    <2> HIDE DEF Types
    <2> QED
        BY <1>a, <1>b, <2>1, <2>2, <2>3, Zenon
<1>7. CASE Return
    <2>1. OnTrack' /\ lost' = FALSE
        BY <1>7, LookupReturn DEF Return
    <2> HIDE DEF Types
    <2> QED
        BY <1>b, <1>c, <2>1, Zenon
<1>8. ASSUME UNCHANGED lookup, pc \in {"idle", "sent"}, pc' \in {"idle", "sent"}
      PROVE  LookupInv'
    <2>1. lost' = lost /\ Types'
        BY <1>8, <1>a DEF lookup
    <2>2. ~lost => OnTrack'
        BY <1>8, <1>a, LookupReply
    <2> HIDE DEF Types
    <2> QED
        BY <1>a, <1>b, <2>1, <2>2, Zenon
<1>9. CASE ReplyPlain
    BY <1>8, <1>9 DEF ReplyPlain, Reply
<1>10. CASE ReplySigned
    BY <1>8, <1>10 DEF ReplySigned, Reply
<1>11. CASE ctap_send_response
    BY <1>8, <1>11 DEF ctap_send_response
<1>12. CASE UNCHANGED vars
    <2>1. lost' = lost /\ Types'
        BY <1>12, <1>a DEF lookup, vars
    <2>2. ~lost => OnTrack'
        BY <1>12, <1>a, LookupStutter
    <2> HIDE DEF Types
    <2> QED
        BY <1>a, <1>b, <2>1, <2>2, Zenon
<1> QED
    BY <1>1, <1>2, <1>3, <1>4, <1>5, <1>6, <1>7, <1>9, <1>10, <1>11, <1>12 DEF Next

(* The bytes a lookup points at. *)
LEMMA TakenBody ==
    ASSUME data \in Seq(Octet), NEW v, NEW c, WellFormedCall(c), c.major \in {2, 3}, ReadsCall(data, v, c),
           result.ptr = v + HeaderLen(data, v), result.len = c.val
    PROVE  Taken = c.body
<1> DEFINE at == v + HeaderLen(data, v)
<1>1. c.body \in Seq(Octet) /\ Len(c.body) = c.val
    BY WellFormedType
<1>2. Holds(data, at, c.body)
    BY DEF ReadsCall
<1> HIDE DEF at
<1>3. SubSeq(data, at, at + Len(c.body) - 1) = c.body
    BY <1>1, <1>2, HoldsSubSeq
<1> QED
    BY <1>1, <1>3 DEF Taken, at

(* The first of them. *)
LEMMA TakenPrefix ==
    ASSUME data \in Seq(Octet), NEW v, NEW c, WellFormedCall(c), c.major \in {2, 3}, ReadsCall(data, v, c),
           result.ptr = v + HeaderLen(data, v), NEW n \in Nat, n <= c.val, result.len = n
    PROVE  Taken = SubSeq(c.body, 1, n)
<1> DEFINE at == v + HeaderLen(data, v)
           b == c.body
           t == SubSeq(b, 1, n)
           D == Len(data)
<1>1. b \in Seq(Octet) /\ Len(b) = c.val /\ Len(b) \in Nat
    BY WellFormedType
<1>2. Holds(data, at, b)
    BY DEF ReadsCall
<1> HIDE DEF at, b
<1>3. t \in Seq(Octet) /\ Len(t) = n /\ \A k \in 1 .. n : t[k] = b[k]
    <2>1. \A k \in 1 .. n : k \in 1 .. Len(b)
        BY <1>1
    <2>2. \A k \in 1 .. n : b[k] \in Octet
        BY <1>1, <2>1, ElementOfSeq
    <2>3. 1 \in Int /\ n \in Int /\ (IF 1 <= n THEN n - 1 + 1 ELSE 0) = n /\ n - 1 + 1 = n
          /\ \A k \in 1 .. n : 1 + k - 1 = k
        OBVIOUS
    <2>4. /\ SubSeq(b, 1, n) \in Seq(Octet)
          /\ Len(SubSeq(b, 1, n)) = IF 1 <= n THEN n - 1 + 1 ELSE 0
          /\ \A k \in 1 .. n - 1 + 1 : SubSeq(b, 1, n)[k] = b[1 + k - 1]
        BY <2>2, <2>3, SubSeqProperties
    <2> QED
        BY <2>3, <2>4
<1> HIDE DEF t
<1>4. Holds(data, at, t)
    <2>1. /\ at \in Nat \ {0} /\ at + Len(b) <= D + 1 /\ D \in Nat
          /\ \A k \in 1 .. Len(b) : data[at + k - 1] = b[k]
        BY <1>2, LenProperties DEF Holds
    <2> HIDE DEF D
    <2>2. at + n <= D + 1 /\ \A k \in 1 .. n : k \in 1 .. Len(b)
        BY <1>1, <2>1
    <2>3. \A k \in 1 .. n : data[at + k - 1] = t[k]
        BY <1>3, <2>1, <2>2
    <2> QED
        BY <1>3, <2>1, <2>2, <2>3 DEF Holds, D
<1>5. SubSeq(data, at, at + Len(t) - 1) = t
    BY <1>3, <1>4, HoldsSubSeq
<1> QED
    BY <1>3, <1>5 DEF Taken, at, t, b

(* The same for a whole item. *)
LEMMA TakenItem ==
    ASSUME OnTrack, NEW s, WellFormedCalls(s), NEW v, Holds(data, v, Written(s)),
           result.ptr = v, result.len = Len(Written(s))
    PROVE  Taken = Encode(RespBuf, s)
<1> DEFINE n == Len(Written(s))
           D == Len(data)
<1>1. s \in Seq(CallType) /\ Written(s) \in Seq(Octet) /\ n \in Nat
    BY WrittenType DEF WellFormedCalls
<1>2. D \in Nat /\ D <= RespBuf /\ data \in Seq(Octet)
    BY LenProperties DEF OnTrack
<1>3. v \in Nat \ {0} /\ v + n <= D + 1
    BY DEF Holds
<1>4. n <= RespBuf
    <2> HIDE DEF n, D
    <2> QED
        BY <1>1, <1>2, <1>3, SizesAssumption
<1>5. Encode(RespBuf, s) = Written(s)
    BY <1>1, <1>4, SizesAssumption, EncodeWhole
<1>6. SubSeq(data, v, v + Len(Written(s)) - 1) = Written(s)
    BY <1>1, <1>2, HoldsSubSeq
<1> QED
    BY <1>5, <1>6 DEF Taken

(* A lookup that has found nothing. *)
LEMMA NothingIs ==
    ASSUME Nothing
    PROVE  /\ result.len = 0 /\ (op # "item" => result.found = FALSE)
           /\ result.found => result.ptr = start
<1>1. Null.found = FALSE /\ Null.len = 0
    BY DEF Null
<1>2. CASE result = Null
    BY <1>1, <1>2
<1>3. CASE op = "item" /\ result = [Null EXCEPT !.found = TRUE, !.ptr = start]
    <2>1. result.len = 0 /\ result.ptr = start
        BY <1>3 DEF Null
    <2> QED
        BY <1>3, <2>1
<1> QED
    BY <1>2, <1>3 DEF Nothing

(* The invariant gives the result of the lookups in maps. *)
LEMMA LookupResult ==
    ASSUME OnTrack, op # "grep"
    PROVE  LookupCorrect
<1> SUFFICES ASSUME pc = "done" PROVE LookupCorrect
    BY DEF LookupCorrect
<1>1. Ended /\ op \in Lookups /\ data \in Seq(Octet) /\ end \in Nat
    BY DEF OnTrack, Ended, Within, Positions, end
<1>2. CASE Named = {}
    <2>1. Nothing
        BY <1>1, <1>2 DEF Ended
    <2>2. result.len = 0 /\ (op # "item" => ~result.found)
        BY <2>1, NothingIs
    <2> QED
        BY <1>2, <2>2 DEF LookupCorrect
<1>3. CASE Named # {}
    <2>1. PICK v : pairs \in Maps /\ FoundAt(v)
        BY <1>1, <1>3 DEF Ended
    <2> DEFINE s == Meant.calls
               c == s[1]
               at == v + HeaderLen(data, v)
    <2>2. FoundFacts(v)
        BY <1>1, <1>3, <2>1, FoundReads
    <2>3. /\ WellFormedCall(c) /\ ReadsCall(data, v, c) /\ WellFormedCalls(s)
          /\ FoundIs(result, v, at, c, Len(Written(s))) /\ Holds(data, v, Written(s))
        BY <2>1, <2>2 DEF FoundFacts, FoundAt
    <2>4. c.val \in Nat
        BY <2>3, WellFormedType
    <2>5. c.major \in {2, 3} /\ result.ptr = at /\ result.len = c.val => Taken = c.body
        <3> HIDE DEF c
        <3> QED
            BY <1>1, <2>3, TakenBody
    <2>6. result.ptr = v /\ result.len = Len(Written(s)) => Taken = Encode(RespBuf, s)
        <3> HIDE DEF s
        <3> QED
            BY <2>3, TakenItem
    <2> DEFINE isString == c.major \in {2, 3}
    <2>7. CASE op = "item"
        <3>1. result.found /\ Taken = Encode(RespBuf, s)
            BY <2>3, <2>6, <2>7 DEF FoundIs
        <3> QED
            BY <1>3, <2>7, <3>1 DEF LookupCorrect
    <2>8. CASE op = "int"
        <3>1. IF c.major = 0 THEN result.found /\ result.len = c.val ELSE ~result.found
            BY <2>3, <2>8 DEF FoundIs, Null
        <3> HIDE DEF c
        <3> QED
            BY <1>3, <2>8, <3>1 DEF LookupCorrect, c
    <2>9. CASE op = "string"
        <3>1. IF isString THEN result.found /\ Taken = c.body ELSE ~result.found
            BY <2>3, <2>5, <2>9 DEF FoundIs
        <3> QED
            BY <1>3, <2>9, <3>1 DEF LookupCorrect
    <2>10. CASE op = "text"
        <3>1. c.val % 256 \in Nat /\ c.val % 256 <= c.val
            <4> DEFINE x == c.val
            <4>1. x \in Nat
                BY <2>4
            <4> HIDE DEF x
            <4>2. x % 256 \in Nat /\ x % 256 <= x
                BY <4>1
            <4> QED
                BY <4>2 DEF x
        <3>2. /\ isString => result.found /\ result.ptr = at /\ result.len = c.val % 256
              /\ ~isString => ~result.found
            BY <2>3, <2>10 DEF FoundIs, Null
        <3>3. isString => Taken = SubSeq(c.body, 1, c.val % 256)
            <4> DEFINE n == c.val % 256
            <4>1. isString /\ n \in Nat /\ n <= c.val /\ result.ptr = at /\ result.len = n
                    => Taken = SubSeq(c.body, 1, n)
                <5> HIDE DEF c, n
                <5> QED
                    BY <1>1, <2>3, TakenPrefix
            <4> QED
                BY <3>1, <3>2, <4>1
        <3>4. IF isString THEN result.found /\ Taken = SubSeq(c.body, 1, c.val % 256) ELSE ~result.found
            BY <3>2, <3>3
        <3> QED
            BY <1>3, <2>10, <3>4 DEF LookupCorrect
    <2>11. CASE op \in {"value", "neg"}
        <3>1. /\ result.found /\ result.type = c.major /\ result.len = c.val
              /\ isString => Taken = c.body
            BY <2>3, <2>5, <2>11 DEF FoundIs
        <3> QED
            BY <1>3, <2>11, <3>1 DEF LookupCorrect
    <2> QED
        BY <1>1, <2>7, <2>8, <2>9, <2>10, <2>11 DEF Lookups
<1> QED
    BY <1>2, <1>3

(* What is found lies in the request. *)
LEMMA LookupStays ==
    ASSUME OnTrack, op # "grep"
    PROVE  result.found /\ op \notin {"int", "value", "neg"} => result.ptr + result.len \in Positions
<1> SUFFICES ASSUME result.found, op \notin {"int", "value", "neg"}
             PROVE  result.ptr + result.len \in Positions
    OBVIOUS
<1>1. pc = "done"
    BY DEF OnTrack, Null
<1>2. /\ Ended /\ op \in {"item", "string", "text"} /\ op \in Lookups /\ data \in Seq(Octet) /\ end \in Nat
      /\ end \in Positions /\ start \in Positions /\ Len(data) \in Nat
    BY <1>1, LenProperties DEF OnTrack, Ended, Within, Positions, end, Lookups
<1>3. CASE Named = {}
    <2>1. result.ptr = start /\ result.len = 0
        BY <1>2, <1>3, NothingIs DEF Ended
    <2>2. start + 0 = start
        BY <1>2 DEF Positions
    <2> QED
        BY <1>2, <2>1, <2>2
<1>4. CASE Named # {}
    <2>1. PICK v : pairs \in Maps /\ FoundAt(v)
        BY <1>2, <1>4 DEF Ended
    <2> DEFINE s == Meant.calls
               c == s[1]
               n == Len(Written(s))
               h == HeaderLen(data, v)
               e == end
               D == Len(data)
    <2>2. FoundFacts(v)
        BY <1>2, <1>4, <2>1, FoundReads
    <2>3. /\ WellFormedCall(c) /\ ReadsCall(data, v, c)
          /\ FoundIs(result, v, v + h, c, n) /\ v \in Nat \ {0} /\ n \in Nat /\ v + n <= e
        BY <2>2 DEF FoundFacts
    <2>4. h \in 1 .. 3 /\ c.val \in Nat
        BY <1>2, <2>3, HeadReads, WellFormedType
    <2>5. c.major \in {2, 3} => v + h + c.val <= D + 1
        <3>1. Holds(data, v + h, c.body)
            BY <2>3 DEF ReadsCall
        <3>2. c.major \in {2, 3} => Len(c.body) = c.val
            BY <2>3, WellFormedType
        <3> QED
            BY <3>1, <3>2 DEF Holds
    <2>6. \/ result.ptr = v /\ result.len = n
          \/ c.major \in {2, 3} /\ result.ptr = v + h /\ result.len \in {c.val, c.val % 256}
        <3>1. Null.found = FALSE
            BY DEF Null
        <3> DEFINE isString == c.major \in {2, 3}
        <3>2. CASE op = "item"
            BY <2>3, <3>2 DEF FoundIs
        <3>3. CASE op = "string"
            <4>1. result.found = isString /\ result.ptr = v + h /\ result.len = c.val
                BY <2>3, <3>3 DEF FoundIs
            <4> QED
                BY <4>1
        <3>4. CASE op = "text"
            <4>1. /\ isString => result.ptr = v + h /\ result.len = c.val % 256
                  /\ ~isString => result = Null
                BY <2>3, <3>4 DEF FoundIs
            <4> QED
                BY <3>1, <4>1
        <3> QED
            BY <1>2, <3>2, <3>3, <3>4
    <2>7. c.val % 256 \in Nat /\ c.val % 256 <= c.val
        <3> DEFINE x == c.val
        <3>1. x \in Nat
            BY <2>4
        <3> HIDE DEF x
        <3>2. x % 256 \in Nat /\ x % 256 <= x
            BY <3>1
        <3> QED
            BY <3>2 DEF x
    <2>8. v + n \in 1 .. D + 1
        <3>1. e \in 1 .. D + 1 /\ D \in Nat
            BY <1>2 DEF Positions
        <3> HIDE DEF e, D, n
        <3> QED
            BY <2>3, <3>1
    <2>9. ASSUME NEW x \in {c.val, c.val % 256}, c.major \in {2, 3}
          PROVE  v + h + x \in 1 .. D + 1
        <3> DEFINE y == c.val
        <3>1. x \in Nat /\ x <= y /\ y \in Nat /\ v + h + y <= D + 1
            BY <2>4, <2>5, <2>7, <2>9
        <3>2. h \in Nat /\ D \in Nat
            BY <1>2, <2>4
        <3> HIDE DEF y, h, D, c
        <3> QED
            BY <2>3, <3>1, <3>2
    <2> QED
        <3>1. CASE result.ptr = v /\ result.len = n
            BY <2>8, <3>1 DEF Positions
        <3>2. CASE c.major \in {2, 3} /\ result.ptr = v + h /\ result.len \in {c.val, c.val % 256}
            BY <2>9, <3>2 DEF Positions
        <3> QED
            BY <2>6, <3>1, <3>2
<1> QED
    BY <1>3, <1>4

-----------------------------------------------------------------------------
(* The responses. *)

(* With k items due before it, the calls s are all due and leave l; they   *)
(* write at most z bytes.                                                  *)
Runs(s, k, l, z) ==
    /\ s \in Seq(CallType) /\ k \in Int /\ l \in Int /\ z \in Int
    /\ k - 1 + Due(s)[Len(s)] = l
    /\ \A j \in 0 .. Len(s) - 1 : k - 1 + Due(s)[j] > 0
    /\ Len(Written(s)) <= z

(* Calls that fulfil one item are balanced. *)
LEMMA RunsBalanced ==
    ASSUME NEW s, NEW z, Runs(s, 1, 0, z)
    PROVE  s \in Seq(CallType) /\ Balanced(s) /\ Len(Written(s)) <= z
<1> DEFINE D == Due(s)
           N == Len(s)
<1>1. s \in Seq(CallType) /\ N \in Nat
    BY LenProperties DEF Runs
<1>2. D \in [0 .. N -> Int]
    BY <1>1, DueIs
<1>3. 1 - 1 + D[N] = 0 /\ \A j \in 0 .. N - 1 : 1 - 1 + D[j] > 0
    BY DEF Runs
<1> HIDE DEF D, N
<1>4. D[N] = 0 /\ \A j \in 0 .. N - 1 : D[j] > 0
    BY <1>1, <1>2, <1>3
<1> QED
    BY <1>1, <1>4 DEF Balanced, D, N, Runs

(* What is due in a concatenation. *)
LEMMA DueConcat ==
    ASSUME NEW a \in Seq(CallType), NEW b \in Seq(CallType)
    PROVE  /\ \A n \in 0 .. Len(a) : Due(a \o b)[n] = Due(a)[n]
           /\ \A n \in 0 .. Len(b) : Due(a \o b)[Len(a) + n] = Due(a)[Len(a)] - 1 + Due(b)[n]
<1> DEFINE s == a \o b
           x == Len(a)
           y == Len(b)
           D == Due(s)
           A == Due(a)
           B == Due(b)
<1>1. /\ s \in Seq(CallType) /\ x \in Nat /\ y \in Nat /\ Len(s) = x + y
      /\ \A k \in 1 .. x : s[k] = a[k]
      /\ \A k \in 1 .. y : s[x + k] = b[k]
    BY ConcatAt
<1>2. /\ D \in [0 .. Len(s) -> Int] /\ D[0] = 1
      /\ \A n \in 1 .. Len(s) : D[n] = D[n - 1] - 1 + Announced(s[n])
    <2> HIDE DEF s
    <2> QED
        BY <1>1, DueIs
<1>3. /\ A \in [0 .. x -> Int] /\ A[0] = 1
      /\ \A n \in 1 .. x : A[n] = A[n - 1] - 1 + Announced(a[n])
    BY DueIs
<1>4. /\ B \in [0 .. y -> Int] /\ B[0] = 1
      /\ \A n \in 1 .. y : B[n] = B[n - 1] - 1 + Announced(b[n])
    BY DueIs
<1>5. \A k \in 1 .. y : Announced(b[k]) \in Nat
    <2>1. \A k \in 1 .. y : b[k] \in CallType
        BY ElementOfSeq
    <2> QED
        BY <2>1, AnnouncedType
<1> HIDE DEF s, D, A, B, x, y
<1>6. \A n \in 0 .. x : D[n] = A[n]
    <2> DEFINE S == {n \in 0 .. x : D[n] = A[n]}
    <2>1. 0 \in S
        BY <1>1, <1>2, <1>3
    <2>2. ASSUME NEW n \in 1 .. x, n - 1 \in S
          PROVE  n \in S
        <3>1. n \in 1 .. Len(s) /\ n \in 0 .. x
            BY <1>1
        <3>2. D[n - 1] = A[n - 1] /\ s[n] = a[n]
            BY <1>1, <2>2
        <3>3. D[n] = A[n]
            BY <1>2, <1>3, <3>1, <3>2
        <3> QED
            BY <3>1, <3>3
    <2> HIDE DEF S
    <2>3. \A n \in 0 .. x : n \in S
        BY <1>1, <2>1, <2>2, Induction
    <2> QED
        BY <2>3 DEF S
<1>7. \A n \in 0 .. y : D[x + n] = A[x] - 1 + B[n]
    <2> DEFINE S == {n \in 0 .. y : D[x + n] = A[x] - 1 + B[n]}
    <2>0. A[x] \in Int /\ D[x] = A[x]
        BY <1>1, <1>3, <1>6
    <2>1. 0 \in S
        <3>1. x + 0 = x /\ A[x] - 1 + 1 = A[x] /\ 0 \in 0 .. y
            BY <1>1, <2>0
        <3> QED
            BY <1>4, <2>0, <3>1
    <2>2. ASSUME NEW n \in 1 .. y, n - 1 \in S
          PROVE  n \in S
        <3>1. /\ x + n \in 1 .. Len(s) /\ n \in 0 .. y /\ n - 1 \in 0 .. y
              /\ x + n - 1 = x + (n - 1) /\ (x + n) - 1 = x + (n - 1)
            BY <1>1
        <3>2. D[x + (n - 1)] = A[x] - 1 + B[n - 1] /\ s[x + n] = b[n]
            BY <1>1, <2>2
        <3>3. D[x + n] = D[x + (n - 1)] - 1 + Announced(b[n])
            BY <1>2, <3>1, <3>2
        <3> DEFINE p == B[n - 1]
                   q == Announced(b[n])
                   u == A[x]
        <3>4. p \in Int /\ q \in Int /\ u \in Int
            BY <1>4, <1>5, <2>0, <3>1
        <3> HIDE DEF p, q, u
        <3>6. (u - 1 + p) - 1 + q = u - 1 + (p - 1 + q)
            BY <3>4
        <3>7. D[x + n] = u - 1 + B[n]
            BY <1>4, <3>2, <3>3, <3>4, <3>6 DEF p, q, u
        <3> QED
            BY <3>1, <3>7 DEF u
    <2> HIDE DEF S
    <2>3. \A n \in 0 .. y : n \in S
        BY <1>1, <2>1, <2>2, Induction
    <2> QED
        BY <2>3 DEF S
<1> QED
    BY <1>6, <1>7 DEF s, D, A, B, x, y

(* Calls run one after the other. *)
LEMMA RunsConcat ==
    ASSUME NEW a, NEW b, NEW k, NEW l, NEW m, NEW y, NEW z, Runs(a, k, l, y), Runs(b, l, m, z)
    PROVE  Runs(a \o b, k, m, y + z)
<1> DEFINE s == a \o b
           M == Len(a)
           N == Len(b)
           D == Due(s)
           A == Due(a)
           B == Due(b)
<1>1. /\ a \in Seq(CallType) /\ b \in Seq(CallType) /\ k \in Int /\ l \in Int /\ m \in Int
      /\ y \in Int /\ z \in Int
      /\ k - 1 + A[M] = l /\ \A j \in 0 .. M - 1 : k - 1 + A[j] > 0
      /\ l - 1 + B[N] = m /\ \A j \in 0 .. N - 1 : l - 1 + B[j] > 0
      /\ Len(Written(a)) <= y /\ Len(Written(b)) <= z
    BY DEF Runs
<1>2. s \in Seq(CallType) /\ M \in Nat /\ N \in Nat /\ Len(s) = M + N
    BY <1>1, ConcatAt
<1>3. /\ \A n \in 0 .. M : D[n] = A[n]
      /\ \A n \in 0 .. N : D[M + n] = A[M] - 1 + B[n]
    BY <1>1, DueConcat
<1>4. A \in [0 .. M -> Int] /\ B \in [0 .. N -> Int]
    BY <1>1, DueIs
<1>5. Len(Written(s)) <= y + z
    <2>1. /\ Written(s) = Written(a) \o Written(b)
          /\ Written(a) \in Seq(Octet) /\ Written(b) \in Seq(Octet)
        BY <1>1, WrittenConcat, WrittenType
    <2> DEFINE u == Len(Written(a))
               v == Len(Written(b))
    <2>2. Len(Written(s)) = u + v /\ u \in Nat /\ v \in Nat /\ u <= y /\ v <= z
        BY <1>1, <2>1, ConcatAt
    <2> HIDE DEF u, v
    <2> QED
        BY <1>1, <2>2
<1> HIDE DEF s, M, N, D, A, B
<1>6. k - 1 + D[M + N] = m
    <2>1. M \in 0 .. M /\ N \in 0 .. N
        BY <1>2
    <2>2. A[M] \in Int /\ B[N] \in Int /\ D[M + N] = A[M] - 1 + B[N]
        BY <1>3, <1>4, <2>1
    <2> DEFINE u == A[M]
               v == B[N]
               w == D[M + N]
    <2>3. u \in Int /\ v \in Int /\ w = u - 1 + v /\ k - 1 + u = l /\ l - 1 + v = m
        BY <1>1, <2>2
    <2> HIDE DEF u, v, w
    <2>4. k - 1 + w = m
        BY <1>1, <2>3
    <2> QED
        BY <2>4 DEF w
<1>7. ASSUME NEW j \in 0 .. (M + N) - 1
      PROVE  k - 1 + D[j] > 0
    <2>1. CASE j < M
        <3>1. j \in 0 .. M - 1 /\ j \in 0 .. M
            BY <1>2, <2>1
        <3> QED
            BY <1>1, <1>3, <3>1
    <2>2. CASE ~(j < M)
        <3> DEFINE h == j - M
        <3>1. h \in 0 .. N - 1 /\ h \in 0 .. N /\ M + h = j /\ M \in 0 .. M
            BY <1>2, <2>2
        <3> HIDE DEF h
        <3>2. D[j] = A[M] - 1 + B[h] /\ A[M] \in Int /\ B[h] \in Int /\ l - 1 + B[h] > 0
            BY <1>1, <1>3, <1>4, <3>1
        <3> DEFINE u == A[M]
                   v == B[h]
                   w == D[j]
        <3>3. u \in Int /\ v \in Int /\ w = u - 1 + v /\ k - 1 + u = l /\ l - 1 + v > 0
            BY <1>1, <3>2
        <3> HIDE DEF u, v, w
        <3>4. k - 1 + w > 0
            BY <1>1, <3>3
        <3> QED
            BY <3>4 DEF w
    <2> QED
        BY <2>1, <2>2
<1>8. y + z \in Int
    BY <1>1
<1>9. k - 1 + D[Len(s)] = m /\ \A j \in 0 .. Len(s) - 1 : k - 1 + D[j] > 0
    BY <1>2, <1>6, <1>7
<1> QED
    BY <1>1, <1>2, <1>5, <1>8, <1>9 DEF Runs, s, D

(* The calls s, given what is due before each and the bytes written.       *)
Tally(s, W, Z) ==
    /\ s \in Seq(CallType) /\ W \in Seq(Nat) /\ Z \in Seq(Nat)
    /\ Len(W) = Len(s) + 1 /\ Len(Z) = Len(s) + 1
    /\ \A j \in 1 .. Len(s) :
         /\ W[j] # 0 /\ W[j + 1] = W[j] - 1 + Announced(s[j])
         /\ Z[j] + Len(CallBytes(s[j])) <= Z[j + 1]

(* Such calls run. *)
LEMMA TallyRuns ==
    ASSUME NEW s, NEW W, NEW Z, Tally(s, W, Z), Z[1] = 0
    PROVE  Runs(s, W[1], W[Len(s) + 1], Z[Len(s) + 1])
<1> DEFINE N == Len(s)
           D == Due(s)
           b == BytesOf(s)
           k == W[1]
<1>1. /\ s \in Seq(CallType) /\ N \in Nat /\ W \in Seq(Nat) /\ Z \in Seq(Nat)
      /\ Len(W) = N + 1 /\ Len(Z) = N + 1
    BY LenProperties DEF Tally
<1>2. \A j \in 1 .. N + 1 : W[j] \in Nat /\ Z[j] \in Nat
    BY <1>1, ElementOfSeq
<1>3. /\ D \in [0 .. N -> Int] /\ D[0] = 1
      /\ \A n \in 1 .. N : D[n] = D[n - 1] - 1 + Announced(s[n])
    BY <1>1, DueIs
<1>4. /\ b \in Seq(Seq(Octet)) /\ Len(b) = N /\ Written(s) = FlattenSeq(b)
      /\ \A j \in 1 .. N : s[j] \in CallType /\ b[j] = CallBytes(s[j])
    BY <1>1, BytesOfType
<1>5. PICK O : Laid(b, Written(s), O)
    <2> HIDE DEF b
    <2> QED
        BY <1>4, FlattenLayout
<1>6. /\ O \in [0 .. N -> Nat] /\ O[0] = 0 /\ O[N] = Len(Written(s))
      /\ \A n \in 1 .. N : O[n] = O[n - 1] + Len(b[n])
    BY <1>4, <1>5 DEF Laid
<1>7. \A j \in 1 .. N : Announced(s[j]) \in Nat /\ Len(CallBytes(s[j])) \in Nat
    BY <1>4, AnnouncedType, CallBytesType
<1>8. \A j \in 1 .. N :
        /\ W[j] # 0 /\ W[j + 1] = W[j] - 1 + Announced(s[j])
        /\ Z[j] + Len(CallBytes(s[j])) <= Z[j + 1]
    BY DEF Tally
<1> HIDE DEF N, D, b, k
<1> DEFINE S == {n \in 0 .. N : k - 1 + D[n] = W[n + 1] /\ O[n] <= Z[n + 1]}
<1>9. 0 \in S
    <2>1. W[1] \in Nat /\ 0 \in 0 .. N /\ 0 + 1 = 1
        BY <1>1, <1>2
    <2>2. k \in Nat /\ k - 1 + 1 = k
        BY <2>1 DEF k
    <2> QED
        BY <1>3, <1>6, <2>1, <2>2 DEF k
<1>10. ASSUME NEW n \in 1 .. N, n - 1 \in S
       PROVE  n \in S
    <2>1. n \in 0 .. N /\ n - 1 \in 0 .. N /\ (n - 1) + 1 = n /\ n \in 1 .. N + 1 /\ 1 \in 1 .. N + 1
        BY <1>1
    <2> DEFINE d == D[n - 1]
               a == Announced(s[n])
               x == Len(CallBytes(s[n]))
               o == O[n - 1]
               w == W[n]
               z == Z[n]
               e == Z[n + 1]
    <2>2. k - 1 + d = w /\ o <= z
        BY <1>10, <2>1
    <2>3. /\ d \in Int /\ a \in Nat /\ x \in Nat /\ o \in Nat /\ w \in Nat /\ z \in Nat /\ k \in Nat
          /\ e \in Nat
        <3>1. n + 1 \in 1 .. N + 1
            BY <1>1
        <3> QED
            BY <1>2, <1>3, <1>6, <1>7, <2>1, <3>1 DEF k
    <2>4. D[n] = d - 1 + a /\ O[n] = o + x /\ W[n + 1] = w - 1 + a /\ z + x <= e
        BY <1>3, <1>4, <1>6, <1>8
    <2> HIDE DEF d, a, x, o, w, z, e
    <2>5. k - 1 + (d - 1 + a) = w - 1 + a /\ o + x <= e
        BY <2>2, <2>3, <2>4
    <2>6. k - 1 + D[n] = W[n + 1] /\ O[n] <= Z[n + 1]
        BY <2>4, <2>5 DEF e
    <2> QED
        BY <2>1, <2>6
<1> HIDE DEF S
<1>11. \A n \in 0 .. N : n \in S
    BY <1>1, <1>9, <1>10, Induction
<1>12. k - 1 + D[N] = W[N + 1] /\ O[N] <= Z[N + 1]
    BY <1>1, <1>11 DEF S
<1>13. ASSUME NEW j \in 0 .. N - 1
       PROVE  k - 1 + D[j] > 0
    <2>1. j \in 0 .. N /\ j + 1 \in 1 .. N /\ j + 1 \in 1 .. N + 1
        BY <1>1
    <2>2. k - 1 + D[j] = W[j + 1] /\ W[j + 1] \in Nat /\ W[j + 1] # 0
        BY <1>2, <1>8, <1>11, <2>1 DEF S
    <2> QED
        BY <2>2
<1>14. k \in Int /\ W[N + 1] \in Int /\ Z[N + 1] \in Int
    <2>1. 1 \in 1 .. N + 1 /\ N + 1 \in 1 .. N + 1
        BY <1>1
    <2> QED
        BY <1>2, <2>1 DEF k
<1> QED
    BY <1>1, <1>6, <1>12, <1>13, <1>14 DEF Runs, D, N, k

(* A call of at most b bytes that announces a items. *)
Opens(c, a, b) == c \in CallType /\ Announced(c) = a /\ Len(CallBytes(c)) <= b

(* The size of a call. *)
LEMMA CallSize ==
    ASSUME NEW c \in CallType, c.val \in Word
    PROVE  /\ c.val < 24 => Len(CallBytes(c)) = 1 + Len(c.body)
           /\ c.val < 256 => Len(CallBytes(c)) <= 2 + Len(c.body)
           /\ Len(CallBytes(c)) <= 3 + Len(c.body)
<1> DEFINE m == c.major
           v == c.val
           h == Len(HeadBytes(m, v))
           x == Len(c.body)
<1>1. m \in 0 .. 7 /\ v \in Word /\ v \in Nat
    BY WordIs DEF CallType
<1>2. h \in 1 .. 5 /\ x \in Nat /\ Len(CallBytes(c)) = h + x
    BY CallBytesType
<1>3. (v < 24 => h = 1) /\ (v < 256 => h <= 2) /\ h <= 3
    <2> HIDE DEF m, v
    <2>1. /\ v < 24 => HeadBytes(m, v) = <<32 * m + v>>
          /\ 24 <= v /\ v < 256 => HeadBytes(m, v) = <<32 * m + 24, v>>
          /\ 256 <= v => HeadBytes(m, v) = <<32 * m + 25, v \div 256, v % 256>>
        BY <1>1, HeadForm
    <2>2. v < 24 => h = 1
        BY <2>1
    <2>3. 24 <= v /\ v < 256 => h = 2
        BY <2>1
    <2>4. 256 <= v => h = 3
        BY <2>1
    <2> HIDE DEF h
    <2> QED
        BY <1>1, <2>2, <2>3, <2>4
<1> HIDE DEF h, x, v
<1>4. /\ v < 24 => h + x = 1 + x
      /\ v < 256 => h + x <= 2 + x
      /\ h + x <= 3 + x
    BY <1>1, <1>2, <1>3
<1> QED
    BY <1>2, <1>4 DEF v, x

(* The calls the responses are made of. *)
LEMMA NumberOpens ==
    ASSUME NEW m \in 0 .. 7, NEW n \in Word
    PROVE  LET c == [major |-> m, val |-> n, body |-> <<>>]
               a == IF m = 4 THEN n ELSE IF m = 5 THEN 2 * n ELSE 0
           IN  /\ Opens(c, a, 3)
               /\ n < 256 => Opens(c, a, 2)
               /\ n < 24 => Opens(c, a, 1)
<1> DEFINE c == [major |-> m, val |-> n, body |-> <<>>]
           a == IF m = 4 THEN n ELSE IF m = 5 THEN 2 * n ELSE 0
<1>1. c \in CallType /\ c.val = n /\ c.major = m /\ Len(c.body) = 0
    BY WordIsLong DEF CallType
<1> HIDE DEF c
<1>2. Announced(c) = a
    BY <1>1, AnnouncedType
<1>3. /\ n < 24 => Len(CallBytes(c)) = 1 + 0
      /\ n < 256 => Len(CallBytes(c)) <= 2 + 0
      /\ Len(CallBytes(c)) <= 3 + 0
    BY <1>1, CallSize
<1>4. /\ n < 24 => Len(CallBytes(c)) <= 1
      /\ n < 256 => Len(CallBytes(c)) <= 2
      /\ Len(CallBytes(c)) <= 3
    <2> DEFINE x == Len(CallBytes(c))
    <2>1. x \in Nat /\ (n < 24 => x = 1 + 0) /\ (n < 256 => x <= 2 + 0) /\ x <= 3 + 0
        BY <1>1, <1>3, CallBytesType
    <2> HIDE DEF x
    <2>2. (n < 24 => x <= 1) /\ (n < 256 => x <= 2) /\ x <= 3
        BY <2>1
    <2> QED
        BY <2>2 DEF x
<1> QED
    BY <1>1, <1>2, <1>4 DEF Opens, c

(* A string. *)
LEMMA StringOpens ==
    ASSUME NEW m \in {2, 3}, NEW s \in Seq(Octet), Len(s) < 256
    PROVE  Opens([major |-> m, val |-> Len(s), body |-> s], 0, 2 + Len(s))
<1> DEFINE c == [major |-> m, val |-> Len(s), body |-> s]
<1>0. Len(s) \in Nat
    BY LenProperties
<1>1. c \in CallType /\ c.val = Len(s) /\ c.val \in Word /\ c.major = m /\ c.body = s
    <2>1. Len(s) < 2^16
        BY <1>0
    <2>2. Len(s) \in Word
        BY <1>0, <2>1, WordIs
    <2> QED
        BY <2>2, WordIsLong DEF CallType
<1> HIDE DEF c
<1>2. Announced(c) = 0
    BY <1>1, AnnouncedType
<1>3. Len(CallBytes(c)) <= 2 + Len(s)
    BY <1>1, CallSize
<1> QED
    BY <1>1, <1>2, <1>3 DEF Opens, c

(* The strings of the responses. *)
LEMMA FillIs ==
    ASSUME NEW n \in Nat
    PROVE  Fill(n) \in Seq(Octet) /\ Len(Fill(n)) = n
<1>1. \A k \in 1 .. n : 161 \in Octet
    BY DEF Octet
<1> QED
    BY <1>1 DEF Fill

(* Numbers and heads that fit the first byte, *)
LEMMA SmallOpens ==
    ASSUME NEW n \in 0 .. 23
    PROVE  /\ Opens(Uint(n), 0, 1) /\ Opens(Nint(n), 0, 1)
           /\ Opens(Array(n), n, 1) /\ Opens(Map(n), 2 * n, 1)
<1>1. n \in Word /\ n < 24
    <2>1. n \in Nat /\ n < 2^16
        OBVIOUS
    <2> QED
        BY <2>1, WordIs
<1>2. Opens(Uint(n), 0, 1)
    BY <1>1, NumberOpens DEF Uint
<1>3. Opens(Nint(n), 0, 1)
    BY <1>1, NumberOpens DEF Nint
<1>4. Opens(Array(n), n, 1)
    BY <1>1, NumberOpens DEF Array
<1>5. Opens(Map(n), 2 * n, 1)
    BY <1>1, NumberOpens DEF Map
<1> QED
    BY <1>2, <1>3, <1>4, <1>5

(* numbers of a byte, *)
LEMMA OctetOpens ==
    ASSUME NEW n \in Octet
    PROVE  Opens(Uint(n), 0, 2)
<1>1. n \in Word /\ n < 256
    <2>1. n \in Nat /\ n < 2^16 /\ n < 256
        BY DEF Octet
    <2> QED
        BY <2>1, WordIs
<1> QED
    BY <1>1, NumberOpens DEF Uint

(* the size of the largest message, *)
LEMMA KiloOpens == Opens(Uint(1024), 0, 3)
<1> DEFINE n == 1024
<1>1. n \in Word
    <2>1. n \in Nat /\ n < 2^16
        OBVIOUS
    <2> QED
        BY <2>1, WordIs
<1> HIDE DEF n
<1>2. Opens(Uint(n), 0, 3)
    BY <1>1, NumberOpens DEF Uint
<1> QED
    BY <1>2 DEF n

(* simple values, *)
LEMMA SimpleOpens ==
    ASSUME NEW n \in 0 .. 23
    PROVE  Opens(Simple(n), 0, 1)
<1>1. n \in Word /\ n < 24
    <2>1. n \in Nat /\ n < 2^16
        OBVIOUS
    <2> QED
        BY <2>1, WordIs
<1> QED
    BY <1>1, NumberOpens DEF Simple

(* and strings. *)
LEMMA BytesOpens ==
    ASSUME NEW s \in Seq(Octet), Len(s) < 256
    PROVE  Opens(Bytes(s), 0, 2 + Len(s)) /\ Opens(Text(s), 0, 2 + Len(s))
BY StringOpens DEF Bytes, Text

(* The strings that are filled. *)
LEMMA FillOpens ==
    ASSUME NEW n \in 0 .. 255, NEW x, x = 2 + n
    PROVE  Opens(Lit(n), 0, x) /\ Opens(Text(Fill(n)), 0, x) /\ Opens(Bytes(Fill(n)), 0, x)
<1> DEFINE s == Fill(n)
<1>1. s \in Seq(Octet) /\ Len(s) = n /\ n < 256
    BY FillIs
<1> HIDE DEF s
<1>2. Opens(Bytes(s), 0, 2 + n) /\ Opens(Text(s), 0, 2 + n)
    BY <1>1, BytesOpens
<1> QED
    BY <1>2 DEF s, Lit

(* A table of the calls s: each announces what A says and has at most the  *)
(* bytes B says; W is what is due before each, and Z the bytes before it.  *)
Described(s, A, B) ==
    /\ A \in Seq(Nat) /\ B \in Seq(Nat) /\ Len(A) = Len(s) /\ Len(B) = Len(s)
    /\ \A j \in 1 .. Len(s) : Opens(s[j], A[j], B[j])

Adds(n, A, B, W, Z) ==
    /\ W \in Seq(Nat) /\ Z \in Seq(Nat) /\ Len(W) = n + 1 /\ Len(Z) = n + 1
    /\ \A j \in 1 .. n : W[j] # 0 /\ W[j + 1] = W[j] - 1 + A[j] /\ Z[j + 1] = Z[j] + B[j]

(* Calls with a table run. *)
LEMMA TableRuns ==
    ASSUME NEW s \in Seq(CallType), NEW n, Len(s) = n, NEW A, NEW B, NEW W, NEW Z,
           Described(s, A, B), Adds(n, A, B, W, Z), Z[1] = 0
    PROVE  Runs(s, W[1], W[n + 1], Z[n + 1])
<1>1. Len(s) = n /\ n \in Nat
    BY LenProperties
<1>2. ASSUME NEW j \in 1 .. n
      PROVE  Announced(s[j]) = A[j] /\ Z[j] + Len(CallBytes(s[j])) <= Z[j + 1]
    <2> DEFINE x == Len(CallBytes(s[j]))
               b == B[j]
               z == Z[j]
    <2>1. s[j] \in CallType /\ Announced(s[j]) = A[j] /\ x <= b
        BY <1>1 DEF Described, Opens
    <2>2. x \in Nat
        BY <2>1, CallBytesType
    <2>3. b \in Nat /\ z \in Nat /\ Z[j + 1] = z + b
        <3>1. j \in 1 .. n + 1
            BY <1>1
        <3> QED
            BY <1>1, <3>1, ElementOfSeq DEF Described, Adds
    <2> HIDE DEF x, b, z
    <2>4. z + x <= Z[j + 1]
        BY <2>1, <2>2, <2>3
    <2> QED
        BY <2>1, <2>4 DEF x, z
<1>3. Tally(s, W, Z)
    BY <1>1, <1>2 DEF Tally, Adds
<1>4. Runs(s, W[1], W[Len(s) + 1], Z[Len(s) + 1])
    BY <1>3, TallyRuns
<1> QED
    BY <1>1, <1>4

(* A COSE key has 77 bytes if its algorithm fits the first byte. *)
LEMMA CoseKeyRuns ==
    ASSUME NEW alg \in Octet
    PROVE  Runs(CoseKey(alg), 1, 0, IF alg < 24 THEN 77 ELSE 78)
<1> DEFINE s == CoseKey(alg)
           x == IF alg < 24 THEN 1 ELSE 2
           A == <<10, 0, 0, 0, 0, 0, 0, 0, 0, 0, 0>>
           B == <<1, 1, 1, 1, x, 1, 1, 1, 34, 1, 34>>
           W == <<1, 10, 9, 8, 7, 6, 5, 4, 3, 2, 1, 0>>
           Z == <<0, 1, 2, 3, 4, 4 + x, 5 + x, 6 + x, 7 + x, 41 + x, 42 + x, 76 + x>>
<1>1. /\ Opens(Map(5), 10, 1) /\ Opens(Uint(1), 0, 1) /\ Opens(Uint(2), 0, 1) /\ Opens(Uint(3), 0, 1)
      /\ Opens(Nint(0), 0, 1) /\ Opens(Nint(1), 0, 1) /\ Opens(Nint(2), 0, 1)
    BY SmallOpens
<1>2. Opens(Bytes(Fill(32)), 0, 34)
    BY FillOpens
<1>3. Opens(Nint(alg), 0, x) /\ x \in 1 .. 2
    <2>1. alg \in Word /\ alg < 256 /\ alg \in Nat
        <3>1. alg \in Nat /\ alg < 2^16 /\ alg < 256
            BY DEF Octet
        <3> QED
            BY <3>1, WordIs
    <2> QED
        BY <2>1, NumberOpens DEF Nint
<1> HIDE DEF x
<1>4. s \in Seq(CallType) /\ Len(s) = 11
    BY <1>1, <1>2, <1>3 DEF Opens, CoseKey
<1>5. \A j \in 1 .. 11 : Opens(s[j], A[j], B[j])
    BY <1>1, <1>2, <1>3 DEF CoseKey
<1>6. Described(s, A, B)
    <2>1. A \in Seq(Nat) /\ B \in Seq(Nat) /\ Len(A) = 11 /\ Len(B) = 11
        BY <1>3
    <2> QED
        BY <1>4, <1>5, <2>1 DEF Described
<1>7. Adds(11, A, B, W, Z)
    <2>1. W \in Seq(Nat) /\ Z \in Seq(Nat) /\ Len(W) = 12 /\ Len(Z) = 12
        BY <1>3
    <2>2. \A j \in 1 .. 11 : W[j] # 0 /\ W[j + 1] = W[j] - 1 + A[j]
        OBVIOUS
    <2>3. \A j \in 1 .. 11 : Z[j + 1] = Z[j] + B[j]
        BY <1>3
    <2> QED
        BY <2>1, <2>2, <2>3 DEF Adds
<1>8. W[1] = 1 /\ W[12] = 0 /\ Z[1] = 0 /\ Z[12] = 76 + x
    OBVIOUS
<1> HIDE DEF s, A, B, W, Z
<1>9. Runs(s, W[1], W[11 + 1], Z[11 + 1])
    BY <1>4, <1>6, <1>7, <1>8, TableRuns
<1>10. Runs(s, 1, 0, 76 + x)
    BY <1>8, <1>9
<1>11. 76 + x = IF alg < 24 THEN 77 ELSE 78
    BY DEF x
<1> QED
    BY <1>10, <1>11 DEF s

(* A bound may be larger. *)
LEMMA OpensMore ==
    ASSUME NEW c, NEW a, NEW x \in Nat, NEW y \in Nat, Opens(c, a, x), x <= y
    PROVE  Opens(c, a, y)
<1> DEFINE z == Len(CallBytes(c))
<1>1. c \in CallType /\ Announced(c) = a /\ z <= x
    BY DEF Opens
<1>2. z \in Nat
    BY <1>1, CallBytesType
<1> HIDE DEF z
<1>3. z <= y
    BY <1>1, <1>2
<1> QED
    BY <1>1, <1>3 DEF Opens, z

(* The calls that are the same every time. *)
LEMMA CallSizes ==
    /\ Opens(Uint(1), 0, 1) /\ Opens(Uint(2), 0, 1) /\ Opens(Uint(3), 0, 1)
    /\ Opens(Uint(4), 0, 1) /\ Opens(Uint(5), 0, 1) /\ Opens(Uint(6), 0, 1)
    /\ Opens(Uint(7), 0, 1) /\ Opens(Uint(8), 0, 1) /\ Opens(Uint(9), 0, 1)
    /\ Opens(Uint(10), 0, 1) /\ Opens(Uint(15), 0, 1) /\ Opens(Nint(6), 0, 1)
    /\ Opens(Array(1), 1, 1) /\ Opens(Array(2), 2, 1) /\ Opens(Map(1), 2, 1)
    /\ Opens(Map(2), 4, 1) /\ Opens(Map(3), 6, 1) /\ Opens(Map(6), 12, 1)
    /\ Opens(Map(10), 20, 1) /\ Opens(Lit(2), 0, 4) /\ Opens(Lit(3), 0, 5)
    /\ Opens(Lit(4), 0, 6) /\ Opens(Lit(6), 0, 8) /\ Opens(Lit(8), 0, 10)
    /\ Opens(Lit(9), 0, 11) /\ Opens(Lit(10), 0, 12) /\ Opens(Lit(14), 0, 16)
    /\ Opens(Lit(16), 0, 18) /\ Opens(Bytes(Fill(16)), 0, 18)
    /\ Opens(Bytes(Fill(32)), 0, 34) /\ Opens(Bytes(Fill(37)), 0, 39)
    /\ Opens(Simple(20), 0, 1) /\ Opens(Simple(21), 0, 1) /\ Opens(Uint(32), 0, 2)
    /\ Opens(Uint(1024), 0, 3)
<1>1. /\ Opens(Uint(1), 0, 1) /\ Opens(Uint(2), 0, 1) /\ Opens(Uint(3), 0, 1)
      /\ Opens(Uint(4), 0, 1) /\ Opens(Uint(5), 0, 1) /\ Opens(Uint(6), 0, 1)
      /\ Opens(Uint(7), 0, 1) /\ Opens(Uint(8), 0, 1) /\ Opens(Uint(9), 0, 1)
      /\ Opens(Uint(10), 0, 1) /\ Opens(Uint(15), 0, 1) /\ Opens(Nint(6), 0, 1)
      /\ Opens(Array(1), 1, 1) /\ Opens(Array(2), 2, 1) /\ Opens(Map(1), 2, 1)
      /\ Opens(Map(2), 4, 1) /\ Opens(Map(3), 6, 1) /\ Opens(Map(6), 12, 1)
      /\ Opens(Map(10), 20, 1)
    BY SmallOpens
<1>2. /\ Opens(Lit(2), 0, 4) /\ Opens(Lit(3), 0, 5) /\ Opens(Lit(4), 0, 6)
      /\ Opens(Lit(6), 0, 8) /\ Opens(Lit(8), 0, 10) /\ Opens(Lit(9), 0, 11)
      /\ Opens(Lit(10), 0, 12) /\ Opens(Lit(14), 0, 16) /\ Opens(Lit(16), 0, 18)
      /\ Opens(Bytes(Fill(16)), 0, 18) /\ Opens(Bytes(Fill(32)), 0, 34)
      /\ Opens(Bytes(Fill(37)), 0, 39)
    BY FillOpens
<1>3. Opens(Simple(20), 0, 1) /\ Opens(Simple(21), 0, 1)
    BY SimpleOpens
<1>4. Opens(Uint(32), 0, 2)
    BY OctetOpens DEF Octet
<1> QED
    BY <1>1, <1>2, <1>3, <1>4, KiloOpens

(* The table of each response, or of each part that is always there. *)
LEMMA GetInfoRuns ==
    ASSUME NEW b \in BOOLEAN
    PROVE  Runs(GetInfo(b), 1, 0, 162)
<1> DEFINE s == GetInfo(b)
           A == <<20, 0, 2, 0, 0, 0, 0, 0, 12, 0, 0, 0, 0, 0, 0, 0, 0, 0, 0, 0, 0, 0, 0, 0, 2,
                  0, 0, 0, 0, 0, 0, 0, 1, 0, 0, 1, 4, 0, 0, 0, 0, 0, 0>>
           B == <<1, 1, 1, 10, 10, 1, 18, 1, 1, 4, 1, 4, 1, 11, 1, 16, 1, 10, 1, 18, 1, 1, 3, 1,
                  1, 1, 1, 1, 1, 1, 2, 1, 1, 5, 1, 1, 1, 6, 12, 5, 1, 1, 1>>
           W == <<1, 20, 19, 20, 19, 18, 17, 16, 15, 26, 25, 24, 23, 22, 21, 20, 19, 18, 17, 16,
                  15, 14, 13, 12, 11, 12, 11, 10, 9, 8, 7, 6, 5, 5, 4, 3, 3, 6, 5, 4, 3, 2, 1,
                  0>>
           Z == <<0, 1, 2, 3, 13, 23, 24, 42, 43, 44, 48, 49, 53, 54, 65, 66, 82, 83, 93, 94,
                  112, 113, 114, 117, 118, 119, 120, 121, 122, 123, 124, 126, 127, 128, 133,
                  134, 135, 136, 142, 154, 159, 160, 161, 162>>
<1>1. \A j \in 1 .. 43 : Opens(s[j], A[j], B[j])
    <2>1. \A j \in 1 .. 14 : Opens(s[j], A[j], B[j])
        BY CallSizes DEF GetInfo, Bool
    <2>2. \A j \in 15 .. 28 : Opens(s[j], A[j], B[j])
        BY CallSizes DEF GetInfo, Bool
    <2>3. \A j \in 29 .. 43 : Opens(s[j], A[j], B[j])
        BY CallSizes DEF GetInfo, Bool
    <2> HIDE DEF s, A, B
    <2> QED
        BY <2>1, <2>2, <2>3
<1>2. s \in Seq(CallType) /\ Len(s) = 43
    <2>1. s = [j \in 1 .. 43 |-> s[j]]
        BY DEF GetInfo, Bool
    <2> HIDE DEF s
    <2>2. \A j \in 1 .. 43 : s[j] \in CallType
        BY <1>1 DEF Opens
    <2> QED
        BY <2>1, <2>2
<1>3. A \in Seq(Nat) /\ B \in Seq(Nat) /\ Len(A) = 43 /\ Len(B) = 43
    OBVIOUS
<1>4. W \in Seq(Nat) /\ Z \in Seq(Nat) /\ Len(W) = 43 + 1 /\ Len(Z) = 43 + 1
    OBVIOUS
<1>5. \A j \in 1 .. 43 : W[j] # 0 /\ W[j + 1] = W[j] - 1 + A[j]
    OBVIOUS
<1>6. \A j \in 1 .. 43 : Z[j + 1] = Z[j] + B[j]
    OBVIOUS
<1>7. W[1] = 1 /\ W[43 + 1] = 0 /\ Z[1] = 0 /\ Z[43 + 1] = 162
    OBVIOUS
<1> DEFINE N == 43
<1> HIDE DEF s, A, B, W, Z
<1>8. Described(s, A, B) /\ Adds(N, A, B, W, Z) /\ Len(s) = N
    BY <1>2, <1>1, <1>3, <1>4, <1>5, <1>6 DEF Described, Adds
<1> HIDE DEF N
<1>9. Runs(s, W[1], W[N + 1], Z[N + 1])
    BY <1>2, <1>7, <1>8, TableRuns
<1> QED
    BY <1>7, <1>9 DEF s, N

(* CM_getCredsMetadata. *)
LEMMA MetadataRuns ==
    ASSUME NEW c \in Octet
    PROVE  Runs(CM_getCredsMetadata(c), 1, 0, 6)
<1> DEFINE s == CM_getCredsMetadata(c)
           A == <<4, 0, 0, 0, 0>>
           B == <<1, 1, 2, 1, 1>>
           W == <<1, 4, 3, 2, 1, 0>>
           Z == <<0, 1, 2, 4, 5, 6>>
<1>1. Opens(Uint(c), 0, 2)
    BY OctetOpens
<1>2. \A j \in 1 .. 5 : Opens(s[j], A[j], B[j])
    BY <1>1, CallSizes DEF CM_getCredsMetadata
<1>3. s \in Seq(CallType) /\ Len(s) = 5
    <2>1. s = [j \in 1 .. 5 |-> s[j]]
        BY DEF CM_getCredsMetadata
    <2> HIDE DEF s
    <2>2. \A j \in 1 .. 5 : s[j] \in CallType
        BY <1>2 DEF Opens
    <2> QED
        BY <2>1, <2>2
<1>4. A \in Seq(Nat) /\ B \in Seq(Nat) /\ Len(A) = 5 /\ Len(B) = 5
    OBVIOUS
<1>5. W \in Seq(Nat) /\ Z \in Seq(Nat) /\ Len(W) = 5 + 1 /\ Len(Z) = 5 + 1
    OBVIOUS
<1>6. \A j \in 1 .. 5 : W[j] # 0 /\ W[j + 1] = W[j] - 1 + A[j]
    OBVIOUS
<1>7. \A j \in 1 .. 5 : Z[j + 1] = Z[j] + B[j]
    OBVIOUS
<1>8. W[1] = 1 /\ W[5 + 1] = 0 /\ Z[1] = 0 /\ Z[5 + 1] = 6
    OBVIOUS
<1> DEFINE N == 5
<1> HIDE DEF s, A, B, W, Z
<1>9. Described(s, A, B) /\ Adds(N, A, B, W, Z) /\ Len(s) = N
    BY <1>3, <1>2, <1>4, <1>5, <1>6, <1>7 DEF Described, Adds
<1> HIDE DEF N
<1>10. Runs(s, W[1], W[N + 1], Z[N + 1])
    BY <1>3, <1>8, <1>9, TableRuns
<1> QED
    BY <1>8, <1>10 DEF s, N

(* CM_enumerateRPs. *)
LEMMA RPRuns ==
    ASSUME NEW n \in 2 .. 3, NEW d, Opens(d, 0, 34)
    PROVE  Runs(<<Map(n), Uint(1), Map(2), Lit(2), d, Lit(4), d, Uint(2), Bytes(Fill(32))>>, 1,
                  2 * n - 4, 116)
<1> DEFINE s == <<Map(n), Uint(1), Map(2), Lit(2), d, Lit(4), d, Uint(2), Bytes(Fill(32))>>
           A == <<2 * n, 0, 4, 0, 0, 0, 0, 0, 0>>
           B == <<1, 1, 1, 4, 34, 6, 34, 1, 34>>
           W == <<1, 2 * n, 2 * n - 1, 2 * n + 2, 2 * n + 1, 2 * n, 2 * n - 1, 2 * n - 2, 2 * n
                  - 3, 2 * n - 4>>
           Z == <<0, 1, 2, 3, 7, 41, 47, 81, 82, 116>>
<1>1. n \in 2 .. 3
    OBVIOUS
<1>2. Opens(Map(n), 2 * n, 1)
    BY SmallOpens
<1>3. \A j \in 1 .. 9 : Opens(s[j], A[j], B[j])
    BY <1>1, <1>2, CallSizes
<1>4. s \in Seq(CallType) /\ Len(s) = 9
    <2>1. s = [j \in 1 .. 9 |-> s[j]]
        OBVIOUS
    <2> HIDE DEF s
    <2>2. \A j \in 1 .. 9 : s[j] \in CallType
        BY <1>3 DEF Opens
    <2> QED
        BY <2>1, <2>2
<1>5. A \in Seq(Nat) /\ B \in Seq(Nat) /\ Len(A) = 9 /\ Len(B) = 9
    BY <1>1
<1>6. W \in Seq(Nat) /\ Z \in Seq(Nat) /\ Len(W) = 9 + 1 /\ Len(Z) = 9 + 1
    BY <1>1
<1>7. \A j \in 1 .. 9 : W[j] # 0 /\ W[j + 1] = W[j] - 1 + A[j]
    BY <1>1
<1>8. \A j \in 1 .. 9 : Z[j + 1] = Z[j] + B[j]
    BY <1>1
<1>9. W[1] = 1 /\ W[9 + 1] = 2 * n - 4 /\ Z[1] = 0 /\ Z[9 + 1] = 116
    BY <1>1
<1> DEFINE N == 9
<1> HIDE DEF s, A, B, W, Z
<1>10. Described(s, A, B) /\ Adds(N, A, B, W, Z) /\ Len(s) = N
    BY <1>4, <1>3, <1>5, <1>6, <1>7, <1>8 DEF Described, Adds
<1> HIDE DEF N
<1>11. Runs(s, W[1], W[N + 1], Z[N + 1])
    BY <1>4, <1>9, <1>10, TableRuns
<1> QED
    BY <1>9, <1>11 DEF s, N

(* CM_enumerateCredentials. *)
LEMMA CredentialRuns ==
    ASSUME NEW n \in 2 .. 3, NEW u, Opens(u, 0, 66), NEW v, Opens(v, 0, 34)
    PROVE  Runs(<<Map(n), Uint(1), Map(2), Lit(2), u, Lit(4), v, Uint(2), Map(2), Lit(2),
                  Bytes(Fill(32)), Lit(4), Lit(10)>>, 1, 2 * n - 4, 171)
<1> DEFINE s == <<Map(n), Uint(1), Map(2), Lit(2), u, Lit(4), v, Uint(2), Map(2), Lit(2),
                  Bytes(Fill(32)), Lit(4), Lit(10)>>
           A == <<2 * n, 0, 4, 0, 0, 0, 0, 0, 4, 0, 0, 0, 0>>
           B == <<1, 1, 1, 4, 66, 6, 34, 1, 1, 4, 34, 6, 12>>
           W == <<1, 2 * n, 2 * n - 1, 2 * n + 2, 2 * n + 1, 2 * n, 2 * n - 1, 2 * n - 2, 2 * n
                  - 3, 2 * n, 2 * n - 1, 2 * n - 2, 2 * n - 3, 2 * n - 4>>
           Z == <<0, 1, 2, 3, 7, 73, 79, 113, 114, 115, 119, 153, 159, 171>>
<1>1. n \in 2 .. 3
    OBVIOUS
<1>2. Opens(Map(n), 2 * n, 1)
    BY SmallOpens
<1>3. \A j \in 1 .. 13 : Opens(s[j], A[j], B[j])
    BY <1>1, <1>2, CallSizes
<1>4. s \in Seq(CallType) /\ Len(s) = 13
    <2>1. s = [j \in 1 .. 13 |-> s[j]]
        OBVIOUS
    <2> HIDE DEF s
    <2>2. \A j \in 1 .. 13 : s[j] \in CallType
        BY <1>3 DEF Opens
    <2> QED
        BY <2>1, <2>2
<1>5. A \in Seq(Nat) /\ B \in Seq(Nat) /\ Len(A) = 13 /\ Len(B) = 13
    BY <1>1
<1>6. W \in Seq(Nat) /\ Z \in Seq(Nat) /\ Len(W) = 13 + 1 /\ Len(Z) = 13 + 1
    BY <1>1
<1>7. \A j \in 1 .. 13 : W[j] # 0 /\ W[j + 1] = W[j] - 1 + A[j]
    BY <1>1
<1>8. \A j \in 1 .. 13 : Z[j + 1] = Z[j] + B[j]
    BY <1>1
<1>9. W[1] = 1 /\ W[13 + 1] = 2 * n - 4 /\ Z[1] = 0 /\ Z[13 + 1] = 171
    BY <1>1
<1> DEFINE N == 13
<1> HIDE DEF s, A, B, W, Z
<1>10. Described(s, A, B) /\ Adds(N, A, B, W, Z) /\ Len(s) = N
    BY <1>4, <1>3, <1>5, <1>6, <1>7, <1>8 DEF Described, Adds
<1> HIDE DEF N
<1>11. Runs(s, W[1], W[N + 1], Z[N + 1])
    BY <1>4, <1>9, <1>10, TableRuns
<1> QED
    BY <1>9, <1>11 DEF s, N

(* getPINRetries. *)
LEMMA RetriesRuns ==
    ASSUME NEW c \in Octet
    PROVE  Runs(getPINRetries(c), 1, 0, 4)
<1> DEFINE s == getPINRetries(c)
           A == <<2, 0, 0>>
           B == <<1, 1, 2>>
           W == <<1, 2, 1, 0>>
           Z == <<0, 1, 2, 4>>
<1>1. Opens(Uint(c), 0, 2)
    BY OctetOpens
<1>2. \A j \in 1 .. 3 : Opens(s[j], A[j], B[j])
    BY <1>1, CallSizes DEF getPINRetries
<1>3. s \in Seq(CallType) /\ Len(s) = 3
    <2>1. s = [j \in 1 .. 3 |-> s[j]]
        BY DEF getPINRetries
    <2> HIDE DEF s
    <2>2. \A j \in 1 .. 3 : s[j] \in CallType
        BY <1>2 DEF Opens
    <2> QED
        BY <2>1, <2>2
<1>4. A \in Seq(Nat) /\ B \in Seq(Nat) /\ Len(A) = 3 /\ Len(B) = 3
    OBVIOUS
<1>5. W \in Seq(Nat) /\ Z \in Seq(Nat) /\ Len(W) = 3 + 1 /\ Len(Z) = 3 + 1
    OBVIOUS
<1>6. \A j \in 1 .. 3 : W[j] # 0 /\ W[j + 1] = W[j] - 1 + A[j]
    OBVIOUS
<1>7. \A j \in 1 .. 3 : Z[j + 1] = Z[j] + B[j]
    OBVIOUS
<1>8. W[1] = 1 /\ W[3 + 1] = 0 /\ Z[1] = 0 /\ Z[3 + 1] = 4
    OBVIOUS
<1> DEFINE N == 3
<1> HIDE DEF s, A, B, W, Z
<1>9. Described(s, A, B) /\ Adds(N, A, B, W, Z) /\ Len(s) = N
    BY <1>3, <1>2, <1>4, <1>5, <1>6, <1>7 DEF Described, Adds
<1> HIDE DEF N
<1>10. Runs(s, W[1], W[N + 1], Z[N + 1])
    BY <1>3, <1>8, <1>9, TableRuns
<1> QED
    BY <1>8, <1>10 DEF s, N

(* getKeyAgreement, before the key. *)
LEMMA AgreementRuns ==
    Runs(<<Map(1), Uint(1)>>, 1, 1, 2)
<1> DEFINE s == <<Map(1), Uint(1)>>
           A == <<2, 0>>
           B == <<1, 1>>
           W == <<1, 2, 1>>
           Z == <<0, 1, 2>>
<1>1. \A j \in 1 .. 2 : Opens(s[j], A[j], B[j])
    BY CallSizes
<1>2. s \in Seq(CallType) /\ Len(s) = 2
    <2>1. s = [j \in 1 .. 2 |-> s[j]]
        OBVIOUS
    <2> HIDE DEF s
    <2>2. \A j \in 1 .. 2 : s[j] \in CallType
        BY <1>1 DEF Opens
    <2> QED
        BY <2>1, <2>2
<1>3. A \in Seq(Nat) /\ B \in Seq(Nat) /\ Len(A) = 2 /\ Len(B) = 2
    OBVIOUS
<1>4. W \in Seq(Nat) /\ Z \in Seq(Nat) /\ Len(W) = 2 + 1 /\ Len(Z) = 2 + 1
    OBVIOUS
<1>5. \A j \in 1 .. 2 : W[j] # 0 /\ W[j + 1] = W[j] - 1 + A[j]
    OBVIOUS
<1>6. \A j \in 1 .. 2 : Z[j + 1] = Z[j] + B[j]
    OBVIOUS
<1>7. W[1] = 1 /\ W[2 + 1] = 1 /\ Z[1] = 0 /\ Z[2 + 1] = 2
    OBVIOUS
<1> DEFINE N == 2
<1> HIDE DEF s, A, B, W, Z
<1>8. Described(s, A, B) /\ Adds(N, A, B, W, Z) /\ Len(s) = N
    BY <1>2, <1>1, <1>3, <1>4, <1>5, <1>6 DEF Described, Adds
<1> HIDE DEF N
<1>9. Runs(s, W[1], W[N + 1], Z[N + 1])
    BY <1>2, <1>7, <1>8, TableRuns
<1> QED
    BY <1>7, <1>9 DEF s, N

(* getPinToken. *)
LEMMA TokenRuns ==
    ASSUME NEW k, Opens(Bytes(Fill(k)), 0, 50)
    PROVE  Runs(getPinToken(k), 1, 0, 52)
<1> DEFINE s == getPinToken(k)
           A == <<2, 0, 0>>
           B == <<1, 1, 50>>
           W == <<1, 2, 1, 0>>
           Z == <<0, 1, 2, 52>>
<1>1. \A j \in 1 .. 3 : Opens(s[j], A[j], B[j])
    BY CallSizes DEF getPinToken
<1>2. s \in Seq(CallType) /\ Len(s) = 3
    <2>1. s = [j \in 1 .. 3 |-> s[j]]
        BY DEF getPinToken
    <2> HIDE DEF s
    <2>2. \A j \in 1 .. 3 : s[j] \in CallType
        BY <1>1 DEF Opens
    <2> QED
        BY <2>1, <2>2
<1>3. A \in Seq(Nat) /\ B \in Seq(Nat) /\ Len(A) = 3 /\ Len(B) = 3
    OBVIOUS
<1>4. W \in Seq(Nat) /\ Z \in Seq(Nat) /\ Len(W) = 3 + 1 /\ Len(Z) = 3 + 1
    OBVIOUS
<1>5. \A j \in 1 .. 3 : W[j] # 0 /\ W[j + 1] = W[j] - 1 + A[j]
    OBVIOUS
<1>6. \A j \in 1 .. 3 : Z[j + 1] = Z[j] + B[j]
    OBVIOUS
<1>7. W[1] = 1 /\ W[3 + 1] = 0 /\ Z[1] = 0 /\ Z[3 + 1] = 52
    OBVIOUS
<1> DEFINE N == 3
<1> HIDE DEF s, A, B, W, Z
<1>8. Described(s, A, B) /\ Adds(N, A, B, W, Z) /\ Len(s) = N
    BY <1>2, <1>1, <1>3, <1>4, <1>5, <1>6 DEF Described, Adds
<1> HIDE DEF N
<1>9. Runs(s, W[1], W[N + 1], Z[N + 1])
    BY <1>2, <1>7, <1>8, TableRuns
<1> QED
    BY <1>7, <1>9 DEF s, N

(* MakeCredential. *)
LEMMA MakeRuns ==
    ASSUME NEW der, Opens(Bytes(der), 0, 74), Opens(Bytes(AuthData), 0, 166)
    PROVE  Runs(MakeCredential(der), 1, 0, 264)
<1> DEFINE s == MakeCredential(der)
           A == <<6, 0, 0, 0, 0, 0, 4, 0, 0, 0, 0>>
           B == <<1, 1, 8, 1, 166, 1, 1, 5, 1, 5, 74>>
           W == <<1, 6, 5, 4, 3, 2, 1, 4, 3, 2, 1, 0>>
           Z == <<0, 1, 2, 10, 11, 177, 178, 179, 184, 185, 190, 264>>
<1>1. \A j \in 1 .. 11 : Opens(s[j], A[j], B[j])
    BY CallSizes DEF MakeCredential
<1>2. s \in Seq(CallType) /\ Len(s) = 11
    <2>1. s = [j \in 1 .. 11 |-> s[j]]
        BY DEF MakeCredential
    <2> HIDE DEF s
    <2>2. \A j \in 1 .. 11 : s[j] \in CallType
        BY <1>1 DEF Opens
    <2> QED
        BY <2>1, <2>2
<1>3. A \in Seq(Nat) /\ B \in Seq(Nat) /\ Len(A) = 11 /\ Len(B) = 11
    OBVIOUS
<1>4. W \in Seq(Nat) /\ Z \in Seq(Nat) /\ Len(W) = 11 + 1 /\ Len(Z) = 11 + 1
    OBVIOUS
<1>5. \A j \in 1 .. 11 : W[j] # 0 /\ W[j + 1] = W[j] - 1 + A[j]
    OBVIOUS
<1>6. \A j \in 1 .. 11 : Z[j + 1] = Z[j] + B[j]
    OBVIOUS
<1>7. W[1] = 1 /\ W[11 + 1] = 0 /\ Z[1] = 0 /\ Z[11 + 1] = 264
    OBVIOUS
<1> DEFINE N == 11
<1> HIDE DEF s, A, B, W, Z
<1>8. Described(s, A, B) /\ Adds(N, A, B, W, Z) /\ Len(s) = N
    BY <1>2, <1>1, <1>3, <1>4, <1>5, <1>6 DEF Described, Adds
<1> HIDE DEF N
<1>9. Runs(s, W[1], W[N + 1], Z[N + 1])
    BY <1>2, <1>7, <1>8, TableRuns
<1> QED
    BY <1>7, <1>9 DEF s, N

(* ga_build_response, before the user. *)
LEMMA AssertionRuns ==
    ASSUME NEW n \in 3 .. 5, NEW der, Opens(Bytes(der), 0, 74)
    PROVE  Runs(<<Map(n), Uint(1), Map(2), Lit(2), Bytes(Fill(32)), Lit(4), Lit(10), Uint(2),
                  Bytes(Fill(37)), Uint(3), Bytes(der)>>, 1, 2 * n - 6, 174)
<1> DEFINE s == <<Map(n), Uint(1), Map(2), Lit(2), Bytes(Fill(32)), Lit(4), Lit(10), Uint(2),
                  Bytes(Fill(37)), Uint(3), Bytes(der)>>
           A == <<2 * n, 0, 4, 0, 0, 0, 0, 0, 0, 0, 0>>
           B == <<1, 1, 1, 4, 34, 6, 12, 1, 39, 1, 74>>
           W == <<1, 2 * n, 2 * n - 1, 2 * n + 2, 2 * n + 1, 2 * n, 2 * n - 1, 2 * n - 2, 2 * n
                  - 3, 2 * n - 4, 2 * n - 5, 2 * n - 6>>
           Z == <<0, 1, 2, 3, 7, 41, 47, 59, 60, 99, 100, 174>>
<1>1. n \in 3 .. 5
    OBVIOUS
<1>2. Opens(Map(n), 2 * n, 1)
    BY SmallOpens
<1>3. \A j \in 1 .. 11 : Opens(s[j], A[j], B[j])
    BY <1>1, <1>2, CallSizes
<1>4. s \in Seq(CallType) /\ Len(s) = 11
    <2>1. s = [j \in 1 .. 11 |-> s[j]]
        OBVIOUS
    <2> HIDE DEF s
    <2>2. \A j \in 1 .. 11 : s[j] \in CallType
        BY <1>3 DEF Opens
    <2> QED
        BY <2>1, <2>2
<1>5. A \in Seq(Nat) /\ B \in Seq(Nat) /\ Len(A) = 11 /\ Len(B) = 11
    BY <1>1
<1>6. W \in Seq(Nat) /\ Z \in Seq(Nat) /\ Len(W) = 11 + 1 /\ Len(Z) = 11 + 1
    BY <1>1
<1>7. \A j \in 1 .. 11 : W[j] # 0 /\ W[j + 1] = W[j] - 1 + A[j]
    BY <1>1
<1>8. \A j \in 1 .. 11 : Z[j + 1] = Z[j] + B[j]
    BY <1>1
<1>9. W[1] = 1 /\ W[11 + 1] = 2 * n - 6 /\ Z[1] = 0 /\ Z[11 + 1] = 174
    BY <1>1
<1> DEFINE N == 11
<1> HIDE DEF s, A, B, W, Z
<1>10. Described(s, A, B) /\ Adds(N, A, B, W, Z) /\ Len(s) = N
    BY <1>4, <1>3, <1>5, <1>6, <1>7, <1>8 DEF Described, Adds
<1> HIDE DEF N
<1>11. Runs(s, W[1], W[N + 1], Z[N + 1])
    BY <1>4, <1>9, <1>10, TableRuns
<1> QED
    BY <1>9, <1>11 DEF s, N

(* The user, before the name. *)
LEMMA UserRuns ==
    ASSUME NEW k \in 2 .. 4, NEW m \in 1 .. 2, NEW u, Opens(u, 0, 66)
    PROVE  Runs(<<Uint(4), Map(m), Lit(2), u>>, k, k + 2 * m - 4, 72)
<1> DEFINE s == <<Uint(4), Map(m), Lit(2), u>>
           A == <<0, 2 * m, 0, 0>>
           B == <<1, 1, 4, 66>>
           W == <<k, k - 1, k + 2 * m - 2, k + 2 * m - 3, k + 2 * m - 4>>
           Z == <<0, 1, 2, 6, 72>>
<1>1. k \in 2 .. 4 /\ m \in 1 .. 2
    OBVIOUS
<1>2. Opens(Map(m), 2 * m, 1)
    BY SmallOpens
<1>3. \A j \in 1 .. 4 : Opens(s[j], A[j], B[j])
    BY <1>1, <1>2, CallSizes
<1>4. s \in Seq(CallType) /\ Len(s) = 4
    <2>1. s = [j \in 1 .. 4 |-> s[j]]
        OBVIOUS
    <2> HIDE DEF s
    <2>2. \A j \in 1 .. 4 : s[j] \in CallType
        BY <1>3 DEF Opens
    <2> QED
        BY <2>1, <2>2
<1>5. A \in Seq(Nat) /\ B \in Seq(Nat) /\ Len(A) = 4 /\ Len(B) = 4
    BY <1>1
<1>6. W \in Seq(Nat) /\ Z \in Seq(Nat) /\ Len(W) = 4 + 1 /\ Len(Z) = 4 + 1
    BY <1>1
<1>7. \A j \in 1 .. 4 : W[j] # 0 /\ W[j + 1] = W[j] - 1 + A[j]
    BY <1>1
<1>8. \A j \in 1 .. 4 : Z[j + 1] = Z[j] + B[j]
    BY <1>1
<1>9. W[1] = k /\ W[4 + 1] = k + 2 * m - 4 /\ Z[1] = 0 /\ Z[4 + 1] = 72
    BY <1>1
<1> DEFINE N == 4
<1> HIDE DEF s, A, B, W, Z
<1>10. Described(s, A, B) /\ Adds(N, A, B, W, Z) /\ Len(s) = N
    BY <1>4, <1>3, <1>5, <1>6, <1>7, <1>8 DEF Described, Adds
<1> HIDE DEF N
<1>11. Runs(s, W[1], W[N + 1], Z[N + 1])
    BY <1>4, <1>9, <1>10, TableRuns
<1> QED
    BY <1>9, <1>11 DEF s, N

(* A pair of two calls that announce nothing. *)
LEMMA PairRuns ==
    ASSUME NEW k \in Nat, 2 <= k, NEW c, NEW d, NEW x \in Nat, NEW y \in Nat,
           Opens(c, 0, x), Opens(d, 0, y)
    PROVE  Runs(<<c, d>>, k, k - 2, x + y)
<1> DEFINE s == <<c, d>>
           A == <<0, 0>>
           B == <<x, y>>
           W == <<k, k - 1, k - 2>>
           Z == <<0, x, x + y>>
<1>1. k \in Nat /\ 2 <= k /\ x \in Nat /\ y \in Nat
    OBVIOUS
<1>2. \A j \in 1 .. 2 : Opens(s[j], A[j], B[j])
    BY <1>1, CallSizes
<1>3. s \in Seq(CallType) /\ Len(s) = 2
    <2>1. s = [j \in 1 .. 2 |-> s[j]]
        OBVIOUS
    <2> HIDE DEF s
    <2>2. \A j \in 1 .. 2 : s[j] \in CallType
        BY <1>2 DEF Opens
    <2> QED
        BY <2>1, <2>2
<1>4. A \in Seq(Nat) /\ B \in Seq(Nat) /\ Len(A) = 2 /\ Len(B) = 2
    BY <1>1
<1>5. W \in Seq(Nat) /\ Z \in Seq(Nat) /\ Len(W) = 2 + 1 /\ Len(Z) = 2 + 1
    BY <1>1
<1>6. \A j \in 1 .. 2 : W[j] # 0 /\ W[j + 1] = W[j] - 1 + A[j]
    BY <1>1
<1>7. \A j \in 1 .. 2 : Z[j + 1] = Z[j] + B[j]
    BY <1>1
<1>8. W[1] = k /\ W[2 + 1] = k - 2 /\ Z[1] = 0 /\ Z[2 + 1] = x + y
    BY <1>1
<1> DEFINE N == 2
<1> HIDE DEF s, A, B, W, Z
<1>9. Described(s, A, B) /\ Adds(N, A, B, W, Z) /\ Len(s) = N
    BY <1>3, <1>2, <1>4, <1>5, <1>6, <1>7 DEF Described, Adds
<1> HIDE DEF N
<1>10. Runs(s, W[1], W[N + 1], Z[N + 1])
    BY <1>3, <1>8, <1>9, TableRuns
<1> QED
    BY <1>8, <1>10 DEF s, N

(* No call fulfils nothing. *)
LEMMA RunsNone ==
    ASSUME NEW k \in Int
    PROVE  Runs(<<>>, k, k, 0)
<1> DEFINE s == <<>>
<1>1. s \in Seq(CallType) /\ Len(s) = 0
    OBVIOUS
<1>2. Written(s) = <<>>
    BY WrittenNone
<1> HIDE DEF s
<1>3. Due(s)[0] = 1
    BY <1>1, DueIs
<1>4. k - 1 + 1 = k /\ \A j \in 0 .. 0 - 1 : FALSE
    OBVIOUS
<1>5. Len(Written(s)) <= 0
    BY <1>2
<1> QED
    BY <1>1, <1>3, <1>4, <1>5 DEF Runs, s

(* A bound on the bytes may be larger. *)
LEMMA RunsMore ==
    ASSUME NEW s, NEW k, NEW l, NEW y, NEW z \in Int, Runs(s, k, l, y), y <= z
    PROVE  Runs(s, k, l, z)
<1> DEFINE x == Len(Written(s))
<1>1. x \in Nat /\ x <= y /\ y \in Int
    BY WrittenType DEF Runs
<1> HIDE DEF x
<1>2. x <= z
    BY <1>1
<1> QED
    BY <1>2 DEF Runs, x

(* The authenticator data ends with the whole public key. *)
LEMMA AuthDataIs ==
    /\ AuthData \in Seq(Octet) /\ Len(AuthData) <= 164
    /\ SubSeq(AuthData, 88, Len(AuthData)) = Written(CoseKey(6))
<1> DEFINE s == CoseKey(6)
           w == Written(s)
           f == Fill(87)
           d == AuthData
           n == Len(w)
<1>1. s \in Seq(CallType) /\ n <= 77
    <2>1. Runs(s, 1, 0, 77)
        <3>1. 6 \in Octet /\ 6 < 24
            BY DEF Octet
        <3> QED
            BY <3>1, CoseKeyRuns
    <2> HIDE DEF s
    <2> QED
        BY <2>1, RunsBalanced
<1>2. w \in Seq(Octet) /\ n \in Nat
    <2> HIDE DEF s
    <2> QED
        BY <1>1, WrittenType
<1>3. Encode(CoseRoom, s) = w
    <2> HIDE DEF s
    <2>1. n <= CoseRoom
        <3> HIDE DEF n
        <3> QED
            BY <1>1, <1>2, RoomAssumption, SizesAssumption
    <2> QED
        BY <1>1, <2>1, SizesAssumption, EncodeWhole
<1>4. d = f \o w
    BY <1>3 DEF AuthData
<1>5. f \in Seq(Octet) /\ Len(f) = 87
    BY FillIs
<1> HIDE DEF d, f, w
<1>6. d \in Seq(Octet) /\ Len(d) = 87 + n /\ \A k \in 1 .. n : d[87 + k] = w[k]
    <2>0. f \in Seq(Octet) /\ w \in Seq(Octet)
        BY <1>2, <1>5
    <2>1. /\ f \o w \in Seq(Octet) /\ Len(f \o w) = Len(f) + Len(w)
          /\ \A k \in 1 .. Len(w) : (f \o w)[Len(f) + k] = w[k]
        BY <2>0, ConcatAt
    <2> QED
        BY <1>4, <1>5, <2>1
<1> DEFINE p == 88
<1>7. Holds(d, p, w)
    <2>1. \A k \in 1 .. n : p + k - 1 = 87 + k
        BY <1>2
    <2>2. p + n <= Len(d) + 1 /\ p \in Nat \ {0}
        BY <1>2, <1>6
    <2> HIDE DEF p
    <2> QED
        BY <1>6, <2>1, <2>2 DEF Holds
<1>8. p + Len(w) - 1 = Len(d) /\ Len(d) <= 164
    BY <1>1, <1>2, <1>6
<1> HIDE DEF p
<1>9. SubSeq(d, p, p + Len(w) - 1) = w
    BY <1>2, <1>6, <1>7, HoldsSubSeq
<1> QED
    BY <1>6, <1>8, <1>9 DEF d, p, w

(* A signature is made of bytes, and has at most 72. *)
LEMMA IntegerType ==
    ASSUME NEW r \in Numbers
    PROVE  DerInteger(r) \in Seq(Octet) /\ Len(DerInteger(r)) \in 0 .. 35
<1> DEFINE d == Stripped(r)
           e == Padded(d)
<1>1. PICK n : n \in 0 .. 31 /\ d = SubSeq(r, n + 1, 32)
    BY StrippedIs DEF GoesTo
<1>2. d \in Seq(Octet) /\ Len(d) = 32 - n
    <2>1. \A k \in n + 1 .. 32 : r[k] \in Octet
        <3>1. \A k \in n + 1 .. 32 : k \in 1 .. 32
            BY <1>1
        <3> QED
            BY <3>1 DEF Numbers
    <2> DEFINE lo == n + 1
               hi == 32
    <2>2. lo \in Int /\ hi \in Int /\ (IF lo <= hi THEN hi - lo + 1 ELSE 0) = 32 - n
        BY <1>1
    <2>3. \A k \in lo .. hi : r[k] \in Octet
        BY <2>1
    <2>4. d = SubSeq(r, lo, hi)
        BY <1>1
    <2> HIDE DEF lo, hi, d
    <2>5. SubSeq(r, lo, hi) \in Seq(Octet) /\ Len(SubSeq(r, lo, hi)) = IF lo <= hi THEN hi - lo + 1 ELSE 0
        BY <2>2, <2>3, SubSeqProperties
    <2> QED
        BY <2>2, <2>4, <2>5
<1>3. e \in Seq(Octet) /\ Len(e) \in 0 .. 33
    <2>1. CASE d[1] >= 128
        <3> DEFINE z == <<0>>
        <3>1. z \in Seq(Octet) /\ Len(z) = 1
            BY DEF Octet
        <3>2. e = z \o d
            BY <2>1 DEF Padded
        <3> HIDE DEF z, d, e
        <3>3. e \in Seq(Octet) /\ Len(e) = 1 + Len(d)
            <4>1. z \o d \in Seq(Octet) /\ Len(z \o d) = Len(z) + Len(d)
                BY <1>2, <3>1, ConcatAt
            <4> QED
                BY <3>1, <3>2, <4>1
        <3> DEFINE x == Len(d)
                   y == Len(e)
        <3>4. x = 32 - n /\ y = 1 + x
            BY <1>2, <3>3
        <3> HIDE DEF x, y
        <3>5. y \in 0 .. 33
            BY <1>1, <3>4
        <3> QED
            BY <3>3, <3>5 DEF y
    <2>2. CASE ~(d[1] >= 128)
        <3>1. e = d
            BY <2>2 DEF Padded
        <3>2. 32 - n \in 0 .. 33
            BY <1>1
        <3> HIDE DEF d, e
        <3> QED
            BY <1>2, <3>1, <3>2
    <2> QED
        BY <2>1, <2>2
<1> DEFINE h == <<2, Len(e)>>
<1> HIDE DEF e
<1>4. h \in Seq(Octet) /\ Len(h) = 2
    BY <1>3 DEF Octet
<1>5. DerInteger(r) = h \o e
    BY DEF DerInteger, e
<1> HIDE DEF h
<1>6. h \o e \in Seq(Octet) /\ Len(h \o e) = Len(h) + Len(e)
    BY <1>3, <1>4, ConcatAt
<1> DEFINE x == Len(e)
<1>7. Len(h \o e) = 2 + x /\ x \in 0 .. 33
    BY <1>3, <1>4, <1>6
<1> HIDE DEF x
<1>8. 2 + x \in 0 .. 35
    BY <1>7
<1> QED
    BY <1>5, <1>6, <1>7, <1>8

(* So has the whole. *)
LEMMA SignatureType ==
    ASSUME NEW r \in Integers32, NEW s \in Integers32
    PROVE  ecdsa_sig_to_der(r, s) \in Seq(Octet) /\ Len(ecdsa_sig_to_der(r, s)) <= 72
<1> DEFINE a == DerInteger(r)
           b == DerInteger(s)
           c == a \o b
           h == <<48, Len(c)>>
<1>1. r \in Numbers /\ s \in Numbers
    BY NumbersAssumption DEF Numbers, Octet
<1>2. a \in Seq(Octet) /\ Len(a) \in 0 .. 35 /\ b \in Seq(Octet) /\ Len(b) \in 0 .. 35
    BY <1>1, IntegerType
<1>3. ecdsa_sig_to_der(r, s) = h \o c
    BY DEF ecdsa_sig_to_der
<1> HIDE DEF a, b
<1>4. c \in Seq(Octet) /\ Len(c) = Len(a) + Len(b)
    BY <1>2, ConcatAt
<1>5. Len(c) \in 0 .. 70
    <2> DEFINE x == Len(a)
               y == Len(b)
    <2>1. x \in 0 .. 35 /\ y \in 0 .. 35 /\ Len(c) = x + y
        BY <1>2, <1>4
    <2> HIDE DEF x, y
    <2>2. x + y \in 0 .. 70
        BY <2>1
    <2> QED
        BY <2>1, <2>2
<1> HIDE DEF c
<1>6. h \in Seq(Octet) /\ Len(h) = 2
    BY <1>5 DEF Octet
<1> HIDE DEF h
<1>7. h \o c \in Seq(Octet) /\ Len(h \o c) = Len(h) + Len(c)
    BY <1>4, <1>6, ConcatAt
<1> DEFINE x == Len(c)
<1>8. Len(h \o c) = 2 + x /\ x \in 0 .. 70
    BY <1>5, <1>6, <1>7
<1> HIDE DEF x
<1>9. 2 + x <= 72
    BY <1>8
<1> QED
    BY <1>3, <1>7, <1>8, <1>9

(* A response: one item, of at most 300 bytes. *)
Sound(s) == Runs(s, 1, 0, 300)

(* Each response is sound. *)
LEMMA InfoSound ==
    ASSUME NEW b \in BOOLEAN
    PROVE  Sound(GetInfo(b))
<1> DEFINE s == GetInfo(b)
<1>1. Runs(s, 1, 0, 162)
    BY GetInfoRuns
<1> HIDE DEF s
<1> QED
    BY <1>1, RunsMore DEF Sound, s

(* The counts, *)
LEMMA MetadataSound ==
    ASSUME NEW c \in Octet
    PROVE  Sound(CM_getCredsMetadata(c))
<1> DEFINE s == CM_getCredsMetadata(c)
<1>1. Runs(s, 1, 0, 6)
    BY MetadataRuns
<1> HIDE DEF s
<1> QED
    BY <1>1, RunsMore DEF Sound, s

(* the retries, *)
LEMMA RetriesSound ==
    ASSUME NEW c \in Octet
    PROVE  Sound(getPINRetries(c))
<1> DEFINE s == getPINRetries(c)
<1>1. Runs(s, 1, 0, 4)
    BY RetriesRuns
<1> HIDE DEF s
<1> QED
    BY <1>1, RunsMore DEF Sound, s

(* the token, *)
LEMMA TokenSound ==
    ASSUME NEW k \in {16, 32, 48}
    PROVE  Sound(getPinToken(k))
<1> DEFINE s == getPinToken(k)
           c == Bytes(Fill(k))
           x == 2 + k
<1>1. Opens(c, 0, x)
    BY FillOpens
<1>2. x \in Nat /\ x <= 50
    OBVIOUS
<1> HIDE DEF c, x
<1>3. Opens(c, 0, 50)
    BY <1>1, <1>2, OpensMore
<1>4. Runs(s, 1, 0, 52)
    BY <1>3, TokenRuns DEF c
<1> HIDE DEF s
<1> QED
    BY <1>4, RunsMore DEF Sound, s

(* and the key of the key agreement. *)
LEMMA AgreementSound == Sound(getKeyAgreement)
<1> DEFINE a == <<Map(1), Uint(1)>>
           b == CoseKey(24)
<1>1. Runs(a, 1, 1, 2)
    BY AgreementRuns
<1>2. Runs(b, 1, 0, 78)
    <2>1. 24 \in Octet /\ ~(24 < 24)
        BY DEF Octet
    <2> QED
        BY <2>1, CoseKeyRuns
<1>3. getKeyAgreement = a \o b
    BY DEF getKeyAgreement
<1> HIDE DEF a, b
<1>4. Runs(a \o b, 1, 0, 2 + 78)
    BY <1>1, <1>2, RunsConcat
<1> DEFINE s == a \o b
<1> HIDE DEF s
<1>5. Runs(s, 1, 0, 300)
    BY <1>4, RunsMore DEF s
<1> QED
    BY <1>3, <1>5 DEF Sound, s

(* The pair that is there only the first time. *)
LEMMA TotalRuns ==
    ASSUME NEW begin \in BOOLEAN, NEW k \in {3, 6}, NEW total \in Octet
    PROVE  Runs(IF begin THEN <<Uint(k), Uint(total)>> ELSE <<>>, IF begin THEN 2 ELSE 0, 0, 3)
<1>1. CASE begin
    <2> DEFINE c == Uint(k)
               d == Uint(total)
    <2>1. Opens(c, 0, 1) /\ Opens(d, 0, 2)
        BY SmallOpens, OctetOpens
    <2> HIDE DEF c, d
    <2>2. Runs(<<c, d>>, 2, 2 - 2, 1 + 2)
        BY <2>1, PairRuns
    <2>3. 2 - 2 = 0 /\ 1 + 2 = 3
        OBVIOUS
    <2>4. Runs(<<c, d>>, 2, 0, 3)
        BY <2>2, <2>3
    <2> QED
        BY <1>1, <2>4 DEF c, d
<1>2. CASE ~begin
    <2>1. Runs(<<>>, 0, 0, 0)
        BY RunsNone
    <2> DEFINE s == <<>>
    <2> HIDE DEF s
    <2>2. Runs(s, 0, 0, 3)
        BY <2>1, RunsMore DEF s
    <2> QED
        BY <1>2, <2>2 DEF s
<1> QED
    BY <1>1, <1>2

(* An RP, first or next. *)
LEMMA RPsSound ==
    ASSUME NEW begin \in BOOLEAN, NEW l \in 0 .. 32, NEW t \in Octet
    PROVE  Sound(CM_enumerateRPs(begin, l, t))
<1> DEFINE n == IF begin THEN 3 ELSE 2
           x == IF l > 0 THEN l ELSE 10
           d == Lit(x)
           a == <<Map(n), Uint(1), Map(2), Lit(2), d, Lit(4), d, Uint(2), Bytes(Fill(32))>>
           b == IF begin THEN <<Uint(3), Uint(t)>> ELSE <<>>
           k == IF begin THEN 2 ELSE 0
<1>1. n \in 2 .. 3 /\ x \in 0 .. 32 /\ 2 * n - 4 = k
    OBVIOUS
<1>2. CM_enumerateRPs(begin, l, t) = a \o b
    BY DEF CM_enumerateRPs
<1>3. Opens(d, 0, 34)
    <2> HIDE DEF x
    <2>1. x \in 0 .. 255 /\ 2 + x \in Nat /\ 2 + x <= 34
        BY <1>1
    <2>2. Opens(d, 0, 2 + x)
        BY <2>1, FillOpens
    <2> HIDE DEF d
    <2> QED
        BY <2>1, <2>2, OpensMore
<1>4. Runs(b, k, 0, 3)
    BY TotalRuns
<1> HIDE DEF d, n, k, b
<1>5. Runs(a, 1, 2 * n - 4, 116)
    BY <1>1, <1>3, RPRuns
<1>6. Runs(a, 1, k, 116)
    BY <1>1, <1>5
<1> HIDE DEF a
<1>7. Runs(a \o b, 1, 0, 116 + 3)
    BY <1>4, <1>6, RunsConcat
<1> DEFINE s == a \o b
<1> HIDE DEF s
<1>8. Runs(s, 1, 0, 300)
    BY <1>7, RunsMore DEF s
<1> QED
    BY <1>2, <1>8 DEF Sound, s

(* A credential, first or next. *)
LEMMA CredentialsSound ==
    ASSUME NEW begin \in BOOLEAN, NEW u \in 0 .. 64, NEW w \in 0 .. 32, NEW t \in Octet
    PROVE  Sound(CM_enumerateCredentials(begin, u, w, t))
<1> DEFINE n == IF begin THEN 3 ELSE 2
           x == IF w > 0 THEN w ELSE 15
           c == Bytes(Fill(u))
           d == Lit(x)
           a == <<Map(n), Uint(1), Map(2), Lit(2), c, Lit(4), d, Uint(2), Map(2), Lit(2),
                  Bytes(Fill(32)), Lit(4), Lit(10)>>
           b == IF begin THEN <<Uint(3), Uint(t)>> ELSE <<>>
           k == IF begin THEN 2 ELSE 0
<1>1. n \in 2 .. 3 /\ x \in 0 .. 32 /\ 2 * n - 4 = k
    OBVIOUS
<1>2. CM_enumerateCredentials(begin, u, w, t) = a \o b
    BY DEF CM_enumerateCredentials
<1>3. Opens(c, 0, 66) /\ Opens(d, 0, 34)
    <2> HIDE DEF x
    <2>1. /\ x \in 0 .. 255 /\ 2 + x \in Nat /\ 2 + x <= 34
          /\ u \in 0 .. 255 /\ 2 + u \in Nat /\ 2 + u <= 66
        BY <1>1
    <2>2. Opens(d, 0, 2 + x) /\ Opens(c, 0, 2 + u)
        BY <2>1, FillOpens
    <2> HIDE DEF c, d
    <2> QED
        BY <2>1, <2>2, OpensMore
<1>4. Runs(b, k, 0, 3)
    BY TotalRuns
<1> HIDE DEF c, d, n, k, b
<1>5. Runs(a, 1, 2 * n - 4, 171)
    BY <1>1, <1>3, CredentialRuns
<1>6. Runs(a, 1, k, 171)
    BY <1>1, <1>5
<1> HIDE DEF a
<1>7. Runs(a \o b, 1, 0, 171 + 3)
    BY <1>4, <1>6, RunsConcat
<1> DEFINE s == a \o b
<1> HIDE DEF s
<1>8. Runs(s, 1, 0, 300)
    BY <1>7, RunsMore DEF s
<1> QED
    BY <1>2, <1>8 DEF Sound, s

(* A byte string of bounded length. *)
LEMMA BytesFit ==
    ASSUME NEW s \in Seq(Octet), NEW n \in 0 .. 253, Len(s) <= n
    PROVE  Opens(Bytes(s), 0, 2 + n)
<1> DEFINE x == Len(s)
           c == Bytes(s)
<1>1. x \in Nat /\ x <= n
    BY LenProperties
<1>2. x < 256 /\ 2 + x \in Nat /\ 2 + n \in Nat /\ 2 + x <= 2 + n
    <2> HIDE DEF x
    <2> QED
        BY <1>1
<1>3. Opens(c, 0, 2 + x)
    BY <1>2, BytesOpens
<1> HIDE DEF c, x
<1>4. Opens(c, 0, 2 + n)
    BY <1>2, <1>3, OpensMore
<1> QED
    BY <1>4 DEF c

(* A new credential. *)
LEMMA MakeSound ==
    ASSUME NEW der \in Seq(Octet), Len(der) <= 72
    PROVE  Sound(MakeCredential(der))
<1> DEFINE s == MakeCredential(der)
           d == AuthData
<1>1. Opens(Bytes(der), 0, 74)
    <2>1. 72 \in 0 .. 253 /\ 2 + 72 = 74
        OBVIOUS
    <2>2. Opens(Bytes(der), 0, 2 + 72)
        BY <2>1, BytesFit
    <2> QED
        BY <2>1, <2>2
<1>2. Opens(Bytes(d), 0, 166)
    <2>1. d \in Seq(Octet) /\ Len(d) <= 164
        BY AuthDataIs
    <2>2. 164 \in 0 .. 253 /\ 2 + 164 = 166
        OBVIOUS
    <2> HIDE DEF d
    <2>3. Opens(Bytes(d), 0, 2 + 164)
        BY <2>1, <2>2, BytesFit
    <2> QED
        BY <2>2, <2>3
<1>3. Runs(s, 1, 0, 264)
    BY <1>1, <1>2, MakeRuns
<1> HIDE DEF s
<1> QED
    BY <1>3, RunsMore DEF Sound, s

(* The user of an assertion, with k items due before it. *)
UserCalls(u, w) ==
    IF ~(u > 0) THEN <<>>
    ELSE <<Uint(4), Map(IF w > 0 THEN 2 ELSE 1), Lit(2), Bytes(Fill(u))>>
         \o (IF w = 0 THEN <<>> ELSE <<Lit(4), Text(Fill(w))>>)

(* The user leaves two items fewer, or none fewer if there is none. *)
LEMMA UserPart ==
    ASSUME NEW u \in 0 .. 64, NEW w \in 0 .. 32, NEW k \in {0, 2}
    PROVE  Runs(UserCalls(u, w), IF u > 0 THEN k + 2 ELSE k, k, 112)
<1>1. CASE ~(u > 0)
    <2>1. Runs(<<>>, k, k, 0)
        BY RunsNone
    <2> DEFINE s == <<>>
    <2> HIDE DEF s
    <2>2. Runs(s, k, k, 112)
        BY <2>1, RunsMore DEF s
    <2> QED
        BY <1>1, <2>2 DEF s, UserCalls
<1>2. CASE u > 0
    <2> DEFINE m == IF w > 0 THEN 2 ELSE 1
               c == Bytes(Fill(u))
               a == <<Uint(4), Map(m), Lit(2), c>>
               b == IF w = 0 THEN <<>> ELSE <<Lit(4), Text(Fill(w))>>
               j == k + 2
               l == j + 2 * m - 4
    <2>1. j \in 2 .. 4 /\ m \in 1 .. 2 /\ l \in Nat /\ (w = 0 => l = k) /\ (w # 0 => l = k + 2)
        OBVIOUS
    <2>2. Opens(c, 0, 66)
        <3>1. /\ u \in 0 .. 255 /\ 2 + u \in Nat /\ 2 + u <= 66
            OBVIOUS
        <3>2. Opens(c, 0, 2 + u)
            BY <3>1, FillOpens
        <3> HIDE DEF c
        <3> QED
            BY <3>1, <3>2, OpensMore
    <2> HIDE DEF c, m, j
    <2>3. Runs(a, j, l, 72)
        BY <2>1, <2>2, UserRuns
    <2> HIDE DEF l
    <2>4. Runs(b, l, k, 40)
        <3>1. CASE w = 0
            <4>1. Runs(<<>>, k, k, 0)
                BY RunsNone
            <4> DEFINE s == <<>>
            <4> HIDE DEF s
            <4>2. Runs(s, k, k, 40)
                BY <4>1, RunsMore DEF s
            <4> QED
                BY <2>1, <3>1, <4>2 DEF s
        <3>2. CASE w # 0
            <4> DEFINE x == Lit(4)
                       y == Text(Fill(w))
            <4>1. w \in 0 .. 255 /\ 2 + w \in Nat /\ 2 + w <= 34
                OBVIOUS
            <4>2. Opens(x, 0, 6) /\ Opens(y, 0, 2 + w)
                BY <4>1, FillOpens, CallSizes
            <4> HIDE DEF x, y
            <4>3. Opens(y, 0, 34)
                BY <4>1, <4>2, OpensMore
            <4>4. l \in Nat /\ 2 <= l /\ l - 2 = k
                BY <2>1, <3>2
            <4>5. Runs(<<x, y>>, l, l - 2, 6 + 34)
                BY <4>2, <4>3, <4>4, PairRuns
            <4>6. b = <<x, y>> /\ 6 + 34 = 40
                BY <3>2 DEF x, y
            <4> QED
                BY <4>4, <4>5, <4>6
        <3> QED
            BY <3>1, <3>2
    <2>5. UserCalls(u, w) = a \o b
        BY <1>2 DEF UserCalls, c, m
    <2> HIDE DEF a, b
    <2>6. Runs(a \o b, j, k, 72 + 40)
        BY <2>3, <2>4, RunsConcat
    <2>7. Runs(a \o b, k + 2, k, 112)
        <3>1. 72 + 40 = 112
            OBVIOUS
        <3> QED
            BY <2>6, <3>1 DEF j
    <2> QED
        BY <1>2, <2>5, <2>7
<1> QED
    BY <1>1, <1>2

(* An assertion, with and without user, name and number of credentials. *)
LEMMA AssertionSound ==
    ASSUME NEW der \in Seq(Octet), Len(der) <= 72,
           NEW u \in 0 .. 64, NEW w \in 0 .. 32, NEW t \in Octet
    PROVE  Sound(ga_build_response(der, u, w, t))
<1> DEFINE n == 3 + (IF u > 0 THEN 1 ELSE 0) + (IF t > 1 THEN 1 ELSE 0)
           a == <<Map(n), Uint(1), Map(2), Lit(2), Bytes(Fill(32)), Lit(4), Lit(10),
                  Uint(2), Bytes(Fill(37)), Uint(3), Bytes(der)>>
           b == UserCalls(u, w)
           c == IF t > 1 THEN <<Uint(6), Uint(t)>> ELSE <<>>
           k == IF t > 1 THEN 2 ELSE 0
           l == IF u > 0 THEN k + 2 ELSE k
<1>1. n \in 3 .. 5 /\ 2 * n - 6 = l /\ k \in {0, 2}
    OBVIOUS
<1>2. ga_build_response(der, u, w, t) = (a \o b) \o c
    BY DEF ga_build_response, UserCalls
<1>3. Opens(Bytes(der), 0, 74)
    <2>1. 72 \in 0 .. 253 /\ 2 + 72 = 74
        OBVIOUS
    <2>2. Opens(Bytes(der), 0, 2 + 72)
        BY <2>1, BytesFit
    <2> QED
        BY <2>1, <2>2
<1>4. Runs(c, k, 0, 3)
    <2> DEFINE begin == t > 1
    <2>1. begin \in BOOLEAN
        OBVIOUS
    <2>2. Runs(IF begin THEN <<Uint(6), Uint(t)>> ELSE <<>>, IF begin THEN 2 ELSE 0, 0, 3)
        <3> HIDE DEF begin
        <3> QED
            BY <2>1, TotalRuns
    <2> QED
        BY <2>2
<1>5. Runs(b, l, k, 112)
    <2> HIDE DEF k
    <2> QED
        BY <1>1, UserPart
<1> HIDE DEF n, k, l, b, c
<1>6. Runs(a, 1, 2 * n - 6, 174)
    BY <1>1, <1>3, AssertionRuns
<1>7. Runs(a, 1, l, 174)
    BY <1>1, <1>6
<1> HIDE DEF a
<1> DEFINE d == a \o b
<1>8. Runs(d, 1, k, 174 + 112)
    BY <1>5, <1>7, RunsConcat
<1> HIDE DEF d
<1>9. Runs(d \o c, 1, 0, (174 + 112) + 3)
    BY <1>4, <1>8, RunsConcat
<1> DEFINE s == d \o c
<1> HIDE DEF s
<1>10. Runs(s, 1, 0, 300)
    BY <1>9, RunsMore DEF s
<1> QED
    BY <1>2, <1>10 DEF Sound, s, d

-----------------------------------------------------------------------------
(* The theorems. *)

(* The responses without a signature. *)
LEMMA PlainSound ==
    ASSUME NEW s \in PlainResponses
    PROVE  Sound(s)
<1>1. ASSUME NEW b \in BOOLEAN, s = GetInfo(b)
      PROVE  Sound(s)
    BY <1>1, InfoSound
<1>2. ASSUME NEW c \in Counts, s = CM_getCredsMetadata(c)
      PROVE  Sound(s)
    BY <1>2, LengthsAssumption, MetadataSound
<1>3. ASSUME NEW b \in BOOLEAN, NEW l \in RpLens, NEW t \in Counts, s = CM_enumerateRPs(b, l, t)
      PROVE  Sound(s)
    <2>1. l \in 0 .. 32 /\ t \in Octet
        BY LengthsAssumption
    <2> QED
        BY <1>3, <2>1, RPsSound
<1>4. ASSUME NEW b \in BOOLEAN, NEW u \in IdLens, NEW n \in NameLens, NEW t \in Counts,
             s = CM_enumerateCredentials(b, u, n, t)
      PROVE  Sound(s)
    <2>1. u \in 0 .. 64 /\ n \in 0 .. 32 /\ t \in Octet
        BY LengthsAssumption
    <2> QED
        BY <1>4, <2>1, CredentialsSound
<1>5. ASSUME NEW c \in Counts, s = getPINRetries(c)
      PROVE  Sound(s)
    BY <1>5, LengthsAssumption, RetriesSound
<1>6. ASSUME s = getKeyAgreement
      PROVE  Sound(s)
    BY <1>6, AgreementSound
<1>7. ASSUME NEW l \in {16, 32, 48}, s = getPinToken(l)
      PROVE  Sound(s)
    BY <1>7, TokenSound
<1>8. \/ \E b \in BOOLEAN : s = GetInfo(b)
      \/ \E c \in Counts : s = CM_getCredsMetadata(c)
      \/ \E b \in BOOLEAN, l \in RpLens, t \in Counts : s = CM_enumerateRPs(b, l, t)
      \/ \E b \in BOOLEAN, u \in IdLens, n \in NameLens, t \in Counts :
           s = CM_enumerateCredentials(b, u, n, t)
      \/ \E c \in Counts : s = getPINRetries(c)
      \/ s = getKeyAgreement
      \/ \E l \in {16, 32, 48} : s = getPinToken(l)
    BY DEF PlainResponses
<1> QED
    BY <1>1, <1>2, <1>3, <1>4, <1>5, <1>6, <1>7, <1>8

(* A sound response fits the buffer behind the status byte. *)
LEMMA SoundWhole ==
    ASSUME NEW s, Sound(s)
    PROVE  /\ Balanced(s) /\ Encode(RespBuf, s) = Written(s)
           /\ 1 + Len(Written(s)) <= RespBuf /\ Len(Written(s)) <= RespBuf
<1> DEFINE n == Len(Written(s))
<1>1. s \in Seq(CallType) /\ Balanced(s) /\ n <= 300
    <2> DEFINE z == 300
    <2>1. Runs(s, 1, 0, z)
        BY DEF Sound
    <2> HIDE DEF z
    <2>2. s \in Seq(CallType) /\ Balanced(s) /\ n <= z
        BY <2>1, RunsBalanced
    <2> QED
        BY <2>2 DEF z
<1>2. n \in Nat
    BY <1>1, WrittenType
<1>3. 1 + n <= RespBuf /\ n <= RespBuf
    <2> HIDE DEF n
    <2>1. 301 <= 2^10
        OBVIOUS
    <2> QED
        BY <1>1, <1>2, <2>1, RoomAssumption, SizesAssumption
<1>4. Encode(RespBuf, s) = Written(s)
    <2>1. s \in Seq(CallType) /\ Len(Written(s)) <= RespBuf /\ RespBuf \in Nat
        BY <1>1, <1>3, SizesAssumption
    <2> HIDE DEF n
    <2> QED
        BY <2>1, EncodeWhole
<1> QED
    BY <1>1, <1>3, <1>4

ReplyInv == Len(resp.bytes) <= RespBuf /\ ResponseWhole

(* Such a response is whole. *)
LEMMA ReplyIs ==
    ASSUME NEW s, Sound(s), NEW r1, NEW s1, NEW der, Reply(s, r1, s1, der)
    PROVE  ReplyInv'
<1>1. resp'.calls = s /\ resp'.bytes = Encode(RespBuf, s)
    BY DEF Reply
<1>2. /\ Balanced(s) /\ Encode(RespBuf, s) = Written(s)
      /\ 1 + Len(Written(s)) <= RespBuf /\ Len(Written(s)) <= RespBuf
    BY SoundWhole
<1>3. /\ Balanced(resp'.calls) /\ resp'.bytes = Written(resp'.calls)
      /\ 1 + Len(resp'.bytes) <= RespBuf /\ Len(resp'.bytes) <= RespBuf
    BY <1>1, <1>2
<1> QED
    BY <1>3, AuthDataIs DEF ReplyInv, ResponseWhole

(* Nothing has been sent at first. *)
LEMMA ReplyInit == Init => ReplyInv
<1> SUFFICES ASSUME Init PROVE ReplyInv
    OBVIOUS
<1>1. resp.bytes = <<>> /\ pc = "idle"
    BY DEF Init, NoReply
<1>2. Len(resp.bytes) = 0
    BY <1>1
<1> QED
    BY <1>1, <1>2, SizesAssumption DEF ReplyInv, ResponseWhole

(* Each action keeps it. *)
LEMMA ReplyNext ==
    ASSUME ReplyInv, [Next]_vars
    PROVE  ReplyInv'
<1>1. CASE ReplyPlain
    BY <1>1, PlainSound, ReplyIs DEF ReplyPlain
<1>2. CASE ReplySigned
    <2>1. PICK r \in Integers32, s \in Integers32 :
            \/ Reply(MakeCredential(ecdsa_sig_to_der(r, s)), r, s, ecdsa_sig_to_der(r, s))
            \/ \E u \in IdLens, n \in NameLens, t \in Counts :
                 Reply(ga_build_response(ecdsa_sig_to_der(r, s), u, n, t), r, s, ecdsa_sig_to_der(r, s))
        BY <1>2, Zenon DEF ReplySigned
    <2> DEFINE der == ecdsa_sig_to_der(r, s)
    <2>2. der \in Seq(Octet) /\ Len(der) <= 72
        BY SignatureType
    <2> HIDE DEF der
    <2>3. ASSUME Reply(MakeCredential(der), r, s, der)
          PROVE  ReplyInv'
        <3>1. Sound(MakeCredential(der))
            BY <2>2, MakeSound
        <3> QED
            BY <2>3, <3>1, ReplyIs, Zenon
    <2>4. ASSUME NEW u \in IdLens, NEW n \in NameLens, NEW t \in Counts,
                 Reply(ga_build_response(der, u, n, t), r, s, der)
          PROVE  ReplyInv'
        <3>1. u \in 0 .. 64 /\ n \in 0 .. 32 /\ t \in Octet
            BY LengthsAssumption
        <3>2. Sound(ga_build_response(der, u, n, t))
            BY <2>2, <3>1, AssertionSound
        <3> QED
            BY <2>4, <3>2, ReplyIs, Zenon
    <2> QED
        BY <2>1, <2>3, <2>4, Zenon DEF der
<1>3. CASE ctap_send_response
    <2>1. pc' = "idle" /\ resp'.bytes = <<>>
        BY <1>3 DEF ctap_send_response, NoReply
    <2>2. Len(resp'.bytes) = 0
        BY <2>1
    <2> QED
        BY <2>1, <2>2, SizesAssumption DEF ReplyInv, ResponseWhole
<1>4. ASSUME UNCHANGED resp, pc' # "sent" \/ pc' = pc
      PROVE  ReplyInv'
    BY <1>4 DEF ReplyInv, ResponseWhole
<1>5. ASSUME \/ \E m \in Requests, o \in Lookups : \E k \in Keys[o] : Call(m, o, k)
             \/ StepMatch \/ StepSkip \/ StepEnd
             \/ \E o \in Lookups \ {"value"} : \E k \in Keys[o] : CallInItem(o, k)
             \/ \E k \in Keys["text"] : find_cbor_string(k)
             \/ Return
             \/ UNCHANGED vars
      PROVE  UNCHANGED resp /\ (pc' # "sent" \/ pc' = pc)
    <2>1. ASSUME NEW d, NEW p, NEW l, NEW o, NEW k, Enter(d, p, l, o, k)
          PROVE  pc' # "sent"
        BY <2>1 DEF Enter
    <2>2. CASE \E m \in Requests, o \in Lookups : \E k \in Keys[o] : Call(m, o, k)
        BY <2>1, <2>2 DEF Call
    <2>3. CASE StepMatch \/ StepSkip \/ StepEnd \/ Return \/ UNCHANGED vars
        BY <2>3 DEF StepMatch, StepSkip, StepEnd, Return, vars
    <2>4. CASE \E o \in Lookups \ {"value"} : \E k \in Keys[o] : CallInItem(o, k)
        BY <2>1, <2>4 DEF CallInItem
    <2>5. CASE \E k \in Keys["text"] : find_cbor_string(k)
        BY <2>5 DEF find_cbor_string
    <2> QED
        BY <1>5, <2>2, <2>3, <2>4, <2>5
<1> QED
    BY <1>1, <1>2, <1>3, <1>4, <1>5, Zenon DEF Next

(* Every response the handlers build, for all lengths of the user id, the  *)
(* user name and the rp id that passkey_save can have stored, all counts   *)
(* and all signatures, is one well-formed item, written whole into the     *)
(* buffer, with room for the status byte; and the public key in authData   *)
(* is whole.                                                               *)
THEOREM ResponsesWhole == Spec => []ResponseWhole
<1>1. Init => ReplyInv
    BY ReplyInit
<1>2. ReplyInv /\ [Next]_vars => ReplyInv'
    BY ReplyNext
<1>3. ReplyInv => ResponseWhole
    BY DEF ReplyInv
<1> QED
    BY <1>1, <1>2, <1>3, PTL DEF Spec

(* In every well-formed request with distinct keys, however deep its maps, *)
(* the lookups of fido2.c and pin.c, in the request and in a map found in  *)
(* it, return what the request has under the key, and nothing if it has    *)
(* none, as long as they have neither passed nor read a head of more than  *)
(* three bytes (~lost in LookupCorrect); a lookup under a text key returns *)
(* of a string as many bytes as its length has modulo 256.  The search of  *)
(* find_cbor_string (op = "grep") is left out: it does not walk the map,   *)
(* and what it finds depends on what the strings before it contain.        *)
THEOREM LookupsCorrect == Spec => [](op # "grep" => LookupCorrect)
<1>1. Init => LookupInv
    BY LookupStarts
<1>2. LookupInv /\ [Next]_vars => LookupInv'
    BY LookupNext
<1>3. LookupInv => (op # "grep" => LookupCorrect)
    BY LookupResult DEF LookupInv, LookupCorrect
<1> QED
    BY <1>1, <1>2, <1>3, PTL DEF Spec

(* The two invariants give the types. *)
LEMMA TypeHolds ==
    ASSUME LookupInv, ReplyInv, op # "grep"
    PROVE  TypeOK
<1>1. \A p \in DOMAIN data : data[p] \in 0 .. 255
    <2>1. data \in Seq(Octet)
        BY DEF LookupInv
    <2>2. \A p \in DOMAIN data : data[p] \in Octet
        BY <2>1
    <2> QED
        BY <2>2 DEF Octet
<1>0. ~lost => OnTrack
    BY DEF LookupInv
<1>2. ~lost => (result.found /\ op \notin {"int", "value", "neg"} => result.ptr + result.len \in Positions)
    BY <1>0, LookupStays
<1>3. Len(resp.bytes) <= RespBuf
    BY DEF ReplyInv
<1>4. pc \in {"idle", "walk", "done", "sent"} /\ op \in Lookups \cup {"grep"} /\ lost \in BOOLEAN
    BY DEF LookupInv
<1>5. ~lost => i \in Word /\ start \in Positions /\ start + len \in Positions /\ offset \in Positions
    BY <1>0 DEF OnTrack, Within
<1> QED
    BY <1>1, <1>2, <1>3, <1>4, <1>5 DEF TypeOK

(* The lookups stay in the bytes of the request, and what they find lies   *)
(* in it, as long as they have met no head of more than three bytes; no    *)
(* response passes ctap_resp_buf.  find_cbor_string is left out as before. *)
THEOREM TypeCorrect == Spec => [](op # "grep" => TypeOK)
<1>1. Init => LookupInv /\ ReplyInv
    BY LookupStarts, ReplyInit
<1>2. LookupInv /\ ReplyInv /\ [Next]_vars => (LookupInv /\ ReplyInv)'
    BY LookupNext, ReplyNext
<1>3. LookupInv /\ ReplyInv => (op # "grep" => TypeOK)
    BY TypeHolds
<1> QED
    BY <1>1, <1>2, <1>3, PTL DEF Spec

=============================================================================
