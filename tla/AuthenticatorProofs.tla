-------------------------- MODULE AuthenticatorProofs --------------------------
(***************************************************************************)
(* Proofs about Authenticator: the walk of GetNextAssertion and the two    *)
(* enumerations of CredentialManagement show everything once; assertions   *)
(* sign one request; accounts are lost only to who may delete them.        *)
(***************************************************************************)
EXTENDS Authenticator, FiniteSetTheorems, SequenceTheorems, TLAPS

----------------------------------------------------------------------------
(* The i-th slot of a set of slots. *)

Rank(S, s) == Cardinality({t \in S : t < s})

LEMMA SlotSetFinite ==
    ASSUME NEW S \in SUBSET Slots
    PROVE  IsFiniteSet(S) /\ Cardinality(S) \in Nat /\ Cardinality(S) <= NumSlots
  <1>1. IsFiniteSet(Slots) /\ Cardinality(Slots) = NumSlots
    <2>1. 1 \in Int /\ NumSlots \in Int /\ ~(1 > NumSlots) /\ NumSlots - 1 + 1 = NumSlots
      BY SlotsAssumption
    <2> QED
      BY <2>1, FS_Interval DEF Slots
  <1>2. IsFiniteSet(S) /\ Cardinality(S) <= Cardinality(Slots)
    BY <1>1, FS_Subset
  <1> QED
    BY <1>1, <1>2, FS_CardinalityType

LEMMA SlotsAreNumbers == Slots \subseteq Nat
  BY SlotsAssumption DEF Slots

LEMMA RankBound ==
    ASSUME NEW S \in SUBSET Slots, NEW s \in S
    PROVE  Rank(S, s) \in 0 .. Cardinality(S) - 1
  <1> DEFINE B == {t \in S : t < s}
  <1>1. B \in SUBSET S /\ s \notin B
    BY SlotsAreNumbers
  <1>2. IsFiniteSet(S) /\ Cardinality(S) \in Nat
    BY SlotSetFinite
  <1> HIDE DEF B
  <1>3. IsFiniteSet(B) /\ Cardinality(B) <= Cardinality(S) /\ Cardinality(S) # Cardinality(B)
    BY <1>1, <1>2, FS_Subset
  <1>4. Cardinality(B) \in Nat
    BY <1>3, FS_CardinalityType
  <1>5. Rank(S, s) = Cardinality(B)
    BY DEF Rank, B
  <1> QED
    BY <1>2, <1>3, <1>4, <1>5

LEMMA RankGrows ==
    ASSUME NEW S \in SUBSET Slots, NEW s \in S, NEW t \in S, s < t
    PROVE  Rank(S, s) < Rank(S, t)
  <1> DEFINE B == {u \in S : u < s}
             C == {u \in S : u < t}
  <1>0. S \subseteq Nat
    BY SlotsAreNumbers
  <1>1. B \in SUBSET C /\ C \in SUBSET S /\ s \in C /\ s \notin B
    <2>1. \A u \in S : u < s => u < t
      BY <1>0
    <2>2. ~(s < s)
      BY <1>0
    <2> QED
      BY <2>1, <2>2, Zenon
  <1>2. IsFiniteSet(S)
    BY SlotSetFinite
  <1> HIDE DEF B, C
  <1>3. IsFiniteSet(C)
    BY <1>1, <1>2, FS_Subset
  <1>4. IsFiniteSet(B) /\ Cardinality(B) <= Cardinality(C) /\ Cardinality(C) # Cardinality(B)
    BY <1>1, <1>3, FS_Subset
  <1>5. Cardinality(B) \in Nat /\ Cardinality(C) \in Nat
    BY <1>3, <1>4, FS_CardinalityType
  <1>6. Rank(S, s) = Cardinality(B) /\ Rank(S, t) = Cardinality(C)
    BY DEF Rank, B, C
  <1> QED
    BY <1>4, <1>5, <1>6

LEMMA RankInjective ==
    ASSUME NEW S \in SUBSET Slots, NEW s \in S, NEW t \in S, Rank(S, s) = Rank(S, t)
    PROVE  s = t
  <1>1. s \in Nat /\ t \in Nat /\ Rank(S, s) \in Int
    BY SlotsAreNumbers, RankBound
  <1>2. CASE s < t
    BY <1>1, <1>2, RankGrows
  <1>3. CASE t < s
    BY <1>1, <1>3, RankGrows
  <1> QED
    BY <1>1, <1>2, <1>3

(* Ranks are distinct and below the cardinality, so each is taken: AtIndex *)
(* has a slot to choose, and only one.                                     *)
LEMMA AtIndexCorrect ==
    ASSUME NEW S \in SUBSET Slots, NEW i \in 0 .. Cardinality(S) - 1
    PROVE  AtIndex(S, i) \in S /\ Rank(S, AtIndex(S, i)) = i
  <1> DEFINE n == Cardinality(S)
             R == 0 .. n - 1
             f == [s \in S |-> Rank(S, s)]
  <1>1. IsFiniteSet(S) /\ n \in Nat
    BY SlotSetFinite
  <1>2. IsFiniteSet(R) /\ Cardinality(R) = n
    <2> HIDE DEF n
    <2>1. 0 \in Int /\ n - 1 \in Int /\ (IF 0 > n - 1 THEN 0 ELSE n - 1 - 0 + 1) = n
      BY <1>1
    <2> QED
      BY <2>1, FS_Interval
  <1>3. f \in [S -> R]
    BY RankBound
  <1>4. f \in Injection(S, R)
    BY <1>3, RankInjective DEF Injection, IsInjective
  <1>5. f \in Surjection(S, R)
    <2> HIDE DEF f, R
    <2> QED
      BY <1>1, <1>2, <1>4, FS_Injection
  <1>6. \E s \in S : f[s] = i
    BY <1>5 DEF Surjection
  <1>7. \E s \in S : Rank(S, s) = i
    BY <1>6
  <1> QED
    BY <1>7 DEF AtIndex, Rank

LEMMA FirstCorrect ==
    ASSUME NEW S \in SUBSET Slots, S # {}
    PROVE  First(S) \in S /\ \A t \in S : ~(t < First(S))
  <1>1. IsFiniteSet(S) /\ Cardinality(S) \in Nat
    BY SlotSetFinite
  <1>2. Cardinality(S) # 0
    BY <1>1, FS_EmptySet
  <1>3. 0 \in 0 .. Cardinality(S) - 1
    BY <1>1, <1>2
  <1>4. First(S) \in S /\ Rank(S, First(S)) = 0
    BY <1>3, AtIndexCorrect DEF First
  <1>5. ASSUME NEW t \in S, t < First(S) PROVE FALSE
    <2>1. Rank(S, t) < 0 /\ Rank(S, t) \in 0 .. Cardinality(S) - 1
      BY <1>4, <1>5, RankGrows, RankBound
    <2> QED
      BY <1>1, <2>1
  <1> QED
    BY <1>4, <1>5

----------------------------------------------------------------------------
(* An enumeration of f over the slots S that has got to index i: h is what *)
(* it has shown.                                                           *)

Reached(i, count) == IF i < count THEN i + 1 ELSE count

Enumerates(h, i, S, f) ==
    /\ Len(h) = Reached(i, Cardinality(S))
    /\ \A k \in 1 .. Len(h) : h[k] = f[AtIndex(S, k - 1)]

LEMMA EnumerationStarts ==
    ASSUME NEW S \in SUBSET Slots, NEW f
    PROVE  Enumerates(<<>>, -1, S, f)
  <1>1. Cardinality(S) \in Nat
    BY SlotSetFinite
  <1>2. Len(<<>>) = 0
    BY EmptySeq
  <1> QED
    BY <1>1, <1>2 DEF Enumerates, Reached

LEMMA EnumerationEnds ==
    ASSUME NEW S \in SUBSET Slots, NEW f, NEW h, NEW i \in Int,
           i >= -1, Enumerates(h, i, S, f), i + 1 >= Cardinality(S)
    PROVE  Enumerates(h, i + 1, S, f)
  <1>1. Cardinality(S) \in Nat
    BY SlotSetFinite
  <1>2. Reached(i + 1, Cardinality(S)) = Reached(i, Cardinality(S))
    BY <1>1 DEF Reached
  <1> QED
    BY <1>2 DEF Enumerates

LEMMA EnumerationMoves ==
    ASSUME NEW S \in SUBSET Slots, NEW f, NEW T, NEW h \in Seq(T), NEW i \in Int,
           i >= -1, Enumerates(h, i, S, f), i + 1 < Cardinality(S),
           f[AtIndex(S, i + 1)] \in T
    PROVE  Enumerates(Append(h, f[AtIndex(S, i + 1)]), i + 1, S, f)
  <1> DEFINE e == f[AtIndex(S, i + 1)]
             g == Append(h, e)
  <1>1. Cardinality(S) \in Nat
    BY SlotSetFinite
  <1>2. Len(h) = i + 1
    BY <1>1 DEF Enumerates, Reached
  <1>3. Reached(i + 1, Cardinality(S)) = i + 2
    BY <1>1 DEF Reached
  <1>4. e \in T
    OBVIOUS
  <1> HIDE DEF e
  <1>5. /\ Len(g) = Len(h) + 1 /\ g[Len(h) + 1] = e
        /\ \A k \in 1 .. Len(h) : g[k] = h[k]
    BY <1>4, AppendProperties
  <1> HIDE DEF g
  <1>6. ASSUME NEW k \in 1 .. Len(g)
        PROVE  g[k] = f[AtIndex(S, k - 1)]
    <2>1. CASE k \in 1 .. Len(h)
      BY <1>5, <2>1 DEF Enumerates
    <2>2. CASE k = Len(h) + 1
      <3>1. k - 1 = i + 1
        BY <1>2, <2>2
      <3> QED
        BY <1>5, <2>2, <3>1 DEF e
    <2> QED
      BY <1>2, <1>5, <2>1, <2>2
  <1>7. Len(g) = i + 2
    BY <1>2, <1>5
  <1>8. Enumerates(g, i + 1, S, f)
    BY <1>3, <1>6, <1>7 DEF Enumerates
  <1> QED
    BY <1>8 DEF g, e

LEMMA EnumerationKept ==
    ASSUME NEW S \in SUBSET Slots, NEW f, NEW g, NEW h, NEW i \in Nat,
           \A s \in S : g[s] = f[s], Enumerates(h, i, S, f)
    PROVE  Enumerates(h, i, S, g)
  <1>1. Cardinality(S) \in Nat
    BY SlotSetFinite
  <1>2. Len(h) <= Cardinality(S) /\ Len(h) \in Nat
    BY <1>1 DEF Enumerates, Reached
  <1>3. ASSUME NEW k \in 1 .. Len(h)
        PROVE  h[k] = g[AtIndex(S, k - 1)]
    <2>1. k - 1 \in 0 .. Cardinality(S) - 1
      BY <1>1, <1>2
    <2>2. AtIndex(S, k - 1) \in S
      BY <2>1, AtIndexCorrect
    <2> QED
      BY <2>2 DEF Enumerates
  <1> QED
    BY <1>3 DEF Enumerates

(* The point of it all: what an enumeration has shown. *)
LEMMA EnumerationCorrect ==
    ASSUME NEW S \in SUBSET Slots, NEW f, NEW T, NEW h \in Seq(T), NEW i \in Nat,
           \A s, t \in S : f[s] = f[t] => s = t,
           Enumerates(h, i, S, f)
    PROVE  /\ IsInjective(h)
           /\ Range(h) \subseteq {f[s] : s \in S}
           /\ i + 1 >= Cardinality(S) => Range(h) = {f[s] : s \in S}
  <1>1. Cardinality(S) \in Nat
    BY SlotSetFinite
  <1>2. Len(h) <= Cardinality(S) /\ Len(h) \in Nat /\ DOMAIN h = 1 .. Len(h)
    BY <1>1, LenProperties DEF Enumerates, Reached
  <1>3. ASSUME NEW k \in 1 .. Len(h)
        PROVE  /\ AtIndex(S, k - 1) \in S /\ Rank(S, AtIndex(S, k - 1)) = k - 1
               /\ h[k] = f[AtIndex(S, k - 1)]
    <2>1. k - 1 \in 0 .. Cardinality(S) - 1
      BY <1>1, <1>2
    <2> QED
      BY <2>1, AtIndexCorrect DEF Enumerates
  <1>4. ASSUME NEW k \in 1 .. Len(h), NEW l \in 1 .. Len(h), h[k] = h[l]
        PROVE  k = l
    <2>1. AtIndex(S, k - 1) = AtIndex(S, l - 1)
      BY <1>3, <1>4
    <2>2. k - 1 = l - 1
      BY <1>3, <2>1
    <2> QED
      BY <2>2
  <1>5. IsInjective(h)
    BY <1>2, <1>4 DEF IsInjective
  <1>6. Range(h) \subseteq {f[s] : s \in S}
    BY <1>2, <1>3 DEF Range
  <1>7. ASSUME i + 1 >= Cardinality(S), NEW s \in S
        PROVE  f[s] \in Range(h)
    <2>1. Len(h) = Cardinality(S)
      BY <1>1, <1>7 DEF Enumerates, Reached
    <2> DEFINE k == Rank(S, s) + 1
    <2>2. Rank(S, s) \in 0 .. Cardinality(S) - 1
      BY RankBound
    <2>3. k \in 1 .. Len(h) /\ k - 1 = Rank(S, s)
      BY <1>1, <2>1, <2>2
    <2>4. AtIndex(S, k - 1) = s
      BY <1>3, <2>3, RankInjective
    <2> HIDE DEF k
    <2>5. h[k] = f[s]
      BY <1>3, <2>3, <2>4
    <2> QED
      BY <1>2, <2>3, <2>5 DEF Range
  <1> QED
    BY <1>5, <1>6, <1>7

----------------------------------------------------------------------------
(* What flash_passkey.c reads of slots f. *)

UsedIn(f)      == {s \in Slots : f[s] # None}
SlotsIn(f, rp) == {s \in UsedIn(f) : f[s].rp = rp}
FirstsIn(f)    == {s \in UsedIn(f) : \A t \in UsedIn(f) : t < s => f[t].rp # f[s].rp}
RpIn(f)        == [s \in Slots |-> f[s].rp]

LEMMA SlotReads ==
    /\ Used = UsedIn(slot) /\ UniqueRpSlots = FirstsIn(slot)
    /\ \A rp : SlotsOf(rp) = SlotsIn(slot, rp)
  BY DEF Used, UniqueRpSlots, SlotsOf, UsedIn, FirstsIn, SlotsIn

LEMMA ReadSubsets ==
    ASSUME NEW f
    PROVE  /\ UsedIn(f) \in SUBSET Slots /\ FirstsIn(f) \in SUBSET Slots
           /\ \A rp : SlotsIn(f, rp) \in SUBSET Slots
  BY DEF UsedIn, FirstsIn, SlotsIn

----------------------------------------------------------------------------
(* The inductive invariant. *)

(* No account has two slots. *)
NoDuplicates == \A s, t \in UsedIn(slot) : slot[s] = slot[t] => s = t

(* The walk's challenge is one for the walk's relying party, also when the *)
(* request that armed it was refused.                                      *)
CdhAgrees == g_ga_cdh \in {g_ga_rp_hash, None}

(* What the walk has shown are the first slots of its relying party. *)
WalkPrefix ==
    walk # None =>
        /\ g_ga_count = Cardinality(SlotsIn(slot, g_ga_rp_hash))
        /\ g_ga_count > 0
        /\ Enumerates(walk, g_ga_idx, SlotsIn(slot, g_ga_rp_hash), slot)

(* The same for the two enumerations. *)
RpsPrefix == rpsShown # None => Enumerates(rpsShown, g_enum_rp_idx, FirstsIn(slot), RpIn(slot))

CredsPrefix ==
    credsShown # None =>
        Enumerates(credsShown, g_enum_cred_idx, SlotsIn(slot, g_enum_rp_hash), slot)

Inv == TypeOK /\ NoDuplicates /\ CdhAgrees /\ WalkPrefix /\ RpsPrefix /\ CredsPrefix

(* The parts of TypeOK. *)
SlotTyped    == slot \in [Slots -> Accounts \cup {None}]
SessionTyped == pinSet \in BOOLEAN /\ keyOwner \in Hosts \cup {None} /\ holder \in {None, keyOwner}
WalkTyped ==
    /\ g_ga_rp_hash \in Rps \cup {None} /\ g_ga_cdh \in Rps \cup {None}
    /\ g_ga_count \in 0 .. NumSlots
    /\ g_ga_idx \in Nat /\ (g_ga_count > 0 => g_ga_idx < g_ga_count)
EnumTyped ==
    /\ g_enum_rp_idx \in 0 .. MaxIndex /\ g_enum_cred_idx \in 0 .. MaxIndex
    /\ g_enum_rp_hash \in Rps \cup {None}
ShownTyped ==
    /\ walk # None => walk \in Seq(Accounts)
    /\ credsShown # None => credsShown \in Seq(Accounts)
    /\ rpsShown # None => rpsShown \in Seq(Rps)

Parts ==
    /\ SlotTyped /\ SessionTyped /\ WalkTyped /\ EnumTyped /\ ShownTyped
    /\ NoDuplicates /\ CdhAgrees /\ WalkPrefix /\ RpsPrefix /\ CredsPrefix

LEMMA InvParts == Inv <=> Parts /\ reply \in Replies
  BY Zenon DEF Inv, TypeOK, Parts, SlotTyped, SessionTyped, WalkTyped, EnumTyped, ShownTyped

LEMMA InvPartsNext == Inv' <=> Parts' /\ reply' \in Replies
  BY Zenon DEF Inv, TypeOK, Parts, SlotTyped, SessionTyped, WalkTyped, EnumTyped, ShownTyped

----------------------------------------------------------------------------
(* Replies. *)

LEMMA NoneIsNone == /\ None \notin Accounts /\ None \notin Rps /\ None \notin Hosts
  BY NoneAssumption

LEMMA NoReplyType == NoReply \in Replies
  BY DEF NoReply, Replies

LEMMA FailType ==
    ASSUME NEW status \in Errors, Fail(status)
    PROVE  reply' \in Replies /\ reply'.cmd = "query" /\ reply'.status = status
  BY DEF Fail, NoReply, Replies

LEMMA SucceedType ==
    ASSUME NEW cmd \in {"query", "MakeCredential"}, Succeed(cmd)
    PROVE  reply' \in Replies /\ reply'.cmd = cmd
  BY DEF Succeed, NoReply, Replies

LEMMA AssertionType ==
    ASSUME NEW account \in Accounts, NEW rp \in Rps \cup {None}, NEW cdh \in Rps \cup {None},
           ga_build_response(account, rp, cdh)
    PROVE  /\ reply' \in Replies /\ reply'.cmd = "GetAssertion" /\ reply'.status = "ok"
           /\ reply'.account = account /\ reply'.rp = rp /\ reply'.cdh = cdh
  BY DEF ga_build_response, NoReply, Replies

LEMMA PinNeededType == PinNeeded \in Errors
  BY DEF PinNeeded, Errors

LEMMA BeforeTouchType ==
    ASSUME NEW auth, NEW opt
    PROVE  BeforeTouch(auth, opt) \in Errors \cup {"ok"}
  <1>1. /\ "PIN_AUTH_INVALID" \in Errors /\ "PIN_NOT_SET" \in Errors
    BY DEF Errors
  <1> QED
    BY <1>1, PinNeededType, Zenon DEF BeforeTouch

LEMMA AfterLookupType ==
    ASSUME NEW cdh, NEW auth, NEW opt
    PROVE  AfterLookup(cdh, auth, opt) \subseteq Errors \cup {"ok"}
  <1>1. /\ "PIN_AUTH_INVALID" \in Errors /\ "NO_TOUCH" \in Errors
    BY DEF Errors
  <1> QED
    BY <1>1, PinNeededType, Zenon DEF AfterLookup

----------------------------------------------------------------------------
(* Looking accounts up. *)

LEMMA StoredAccount ==
    ASSUME SlotTyped, NEW s \in UsedIn(slot)
    PROVE  s \in Slots /\ slot[s] \in Accounts /\ slot[s].rp \in Rps
  BY DEF SlotTyped, UsedIn, Accounts

LEMMA IndexedAccount ==
    ASSUME SlotTyped, NEW rp, NEW i \in Nat
    PROVE  LET account == passkey_get_by_rp_index(rp, i) IN
           /\ i < Cardinality(SlotsIn(slot, rp)) =>
                 /\ account = slot[AtIndex(SlotsIn(slot, rp), i)]
                 /\ account \in Accounts /\ account # None
                 /\ account.rp = rp /\ rp \in Rps
                 /\ account \in Stored(rp)
           /\ ~(i < Cardinality(SlotsIn(slot, rp))) => account = None
  <1> DEFINE S == SlotsIn(slot, rp)
             account == passkey_get_by_rp_index(rp, i)
  <1>0. Cardinality(S) \in Nat /\ S \in SUBSET Slots
    BY ReadSubsets, SlotSetFinite
  <1>1. account = IF i < Cardinality(S) THEN slot[AtIndex(S, i)] ELSE None
    BY SlotReads DEF passkey_get_by_rp_index
  <1>2. CASE i < Cardinality(S)
    <2>1. i \in 0 .. Cardinality(S) - 1
      BY <1>0, <1>2
    <2>2. AtIndex(S, i) \in S
      BY <1>0, <2>1, AtIndexCorrect
    <2> DEFINE s == AtIndex(S, i)
    <2> HIDE DEF s
    <2>3. s \in UsedIn(slot) /\ slot[s].rp = rp /\ account = slot[s] /\ slot[s] # None
      BY <1>1, <1>2, <2>2 DEF SlotsIn, s, UsedIn
    <2>4. slot[s] \in Accounts /\ rp \in Rps
      BY <2>3, StoredAccount
    <2>5. slot[s] \in Stored(rp)
      BY <2>3, SlotReads DEF Stored, SlotsIn
    <2> QED
      BY <1>1, <1>2, <2>3, <2>4, <2>5 DEF s
  <1>3. CASE ~(i < Cardinality(S))
    BY <1>1, <1>3
  <1> QED
    BY <1>2, <1>3

(* Only stored relying parties have slots. *)
LEMMA SomeSlot ==
    ASSUME NEW S \in SUBSET Slots
    PROVE  S # {} <=> 0 < Cardinality(S)
  <1>1. IsFiniteSet(S) /\ Cardinality(S) \in Nat
    BY SlotSetFinite
  <1>2. Cardinality(S) = 0 <=> S = {}
    BY <1>1, FS_EmptySet
  <1> QED
    BY <1>1, <1>2

----------------------------------------------------------------------------
(* What happens to the histories when slots change. *)

LEMMA ShownKeptInv ==
    ASSUME Parts, SlotTyped', UNCHANGED <<ga, enum>>, ShownKept
    PROVE  ShownTyped' /\ WalkPrefix' /\ RpsPrefix' /\ CredsPrefix'
  <1> USE DEF Parts
  <1>1. /\ g_ga_rp_hash' = g_ga_rp_hash /\ g_ga_count' = g_ga_count /\ g_ga_idx' = g_ga_idx
        /\ g_enum_rp_idx' = g_enum_rp_idx /\ g_enum_rp_hash' = g_enum_rp_hash
        /\ g_enum_cred_idx' = g_enum_cred_idx
    BY Zenon DEF ga, enum
  <1>2. /\ walk' # None => walk' = walk /\ SlotsKept(g_ga_rp_hash)
        /\ rpsShown' # None => rpsShown' = rpsShown /\ RpsKept
        /\ credsShown' # None => credsShown' = credsShown /\ SlotsKept(g_enum_rp_hash)
    BY Zenon DEF ShownKept
  <1>3. ShownTyped'
    BY <1>2, Zenon DEF ShownTyped
  <1>4. /\ SlotsKept(g_ga_rp_hash) =>
              /\ SlotsIn(slot', g_ga_rp_hash) = SlotsIn(slot, g_ga_rp_hash)
              /\ \A s \in SlotsIn(slot, g_ga_rp_hash) : slot'[s] = slot[s]
    BY <1>1 DEF SlotsKept, SlotsOf, Used, SlotsIn, UsedIn
  <1>5. /\ SlotsKept(g_enum_rp_hash) =>
              /\ SlotsIn(slot', g_enum_rp_hash) = SlotsIn(slot, g_enum_rp_hash)
              /\ \A s \in SlotsIn(slot, g_enum_rp_hash) : slot'[s] = slot[s]
    BY <1>1 DEF SlotsKept, SlotsOf, Used, SlotsIn, UsedIn
  <1>6. RpsKept =>
              /\ FirstsIn(slot') = FirstsIn(slot)
              /\ \A s \in FirstsIn(slot) : RpIn(slot')[s] = RpIn(slot)[s]
    <2>1. UniqueRpSlots = FirstsIn(slot) /\ UniqueRpSlots' = FirstsIn(slot')
      BY SlotReads DEF UniqueRpSlots, FirstsIn, Used, UsedIn
    <2>2. FirstsIn(slot) \in SUBSET Slots
      BY ReadSubsets
    <2> QED
      BY <2>1, <2>2 DEF RpsKept, RpIn
  <1>7. g_ga_idx \in Nat /\ g_enum_rp_idx \in Nat /\ g_enum_cred_idx \in Nat
    BY SlotsAssumption DEF WalkTyped, EnumTyped
  <1>8. WalkPrefix'
    <2> SUFFICES ASSUME walk' # None
                 PROVE  /\ g_ga_count' = Cardinality(SlotsIn(slot', g_ga_rp_hash'))
                        /\ g_ga_count' > 0
                        /\ Enumerates(walk', g_ga_idx', SlotsIn(slot', g_ga_rp_hash'), slot')
      BY Zenon DEF WalkPrefix
    <2>1. /\ g_ga_count = Cardinality(SlotsIn(slot, g_ga_rp_hash)) /\ g_ga_count > 0
          /\ Enumerates(walk, g_ga_idx, SlotsIn(slot, g_ga_rp_hash), slot)
      BY <1>2, Zenon DEF WalkPrefix
    <2>2. Enumerates(walk, g_ga_idx, SlotsIn(slot, g_ga_rp_hash), slot')
      BY <1>2, <1>4, <1>7, <2>1, ReadSubsets, EnumerationKept
    <2> QED
      BY <1>1, <1>2, <1>4, <2>1, <2>2, Zenon
  <1>9. CredsPrefix'
    <2> SUFFICES ASSUME credsShown' # None
                 PROVE  Enumerates(credsShown', g_enum_cred_idx', SlotsIn(slot', g_enum_rp_hash'), slot')
      BY Zenon DEF CredsPrefix
    <2>1. Enumerates(credsShown, g_enum_cred_idx, SlotsIn(slot, g_enum_rp_hash), slot)
      BY <1>2, Zenon DEF CredsPrefix
    <2>2. Enumerates(credsShown, g_enum_cred_idx, SlotsIn(slot, g_enum_rp_hash), slot')
      BY <1>2, <1>5, <1>7, <2>1, ReadSubsets, EnumerationKept
    <2> QED
      BY <1>1, <1>2, <1>5, <2>2, Zenon
  <1>10. RpsPrefix'
    <2> SUFFICES ASSUME rpsShown' # None
                 PROVE  Enumerates(rpsShown', g_enum_rp_idx', FirstsIn(slot'), RpIn(slot'))
      BY Zenon DEF RpsPrefix
    <2>1. Enumerates(rpsShown, g_enum_rp_idx, FirstsIn(slot), RpIn(slot))
      BY <1>2, Zenon DEF RpsPrefix
    <2>2. Enumerates(rpsShown, g_enum_rp_idx, FirstsIn(slot), RpIn(slot'))
      BY <1>2, <1>6, <1>7, <2>1, ReadSubsets, EnumerationKept
    <2> QED
      BY <1>1, <1>2, <1>6, <2>2, Zenon
  <1> QED
    BY <1>3, <1>8, <1>9, <1>10

(* A command that changes nothing but its reply. *)
LEMMA NoEffectInv == Parts /\ NoEffect => Parts'
  <1> SUFFICES ASSUME Parts, NoEffect PROVE Parts'
    OBVIOUS
  <1>1. /\ slot' = slot /\ pinSet' = pinSet /\ keyOwner' = keyOwner /\ holder' = holder
        /\ g_ga_rp_hash' = g_ga_rp_hash /\ g_ga_count' = g_ga_count /\ g_ga_idx' = g_ga_idx
        /\ g_ga_cdh' = g_ga_cdh
        /\ g_enum_rp_idx' = g_enum_rp_idx /\ g_enum_rp_hash' = g_enum_rp_hash
        /\ g_enum_cred_idx' = g_enum_cred_idx
        /\ walk' = walk /\ rpsShown' = rpsShown /\ credsShown' = credsShown
    BY Zenon DEF NoEffect, session, ga, enum, shown
  <1> QED
    BY <1>1, ZenonT(60) DEF Parts, SlotTyped, SessionTyped, WalkTyped, EnumTyped, ShownTyped,
       NoDuplicates, CdhAgrees, WalkPrefix, RpsPrefix, CredsPrefix

LEMMA ReplyOnly ==
    ASSUME Inv, NoEffect, reply' \in Replies
    PROVE  Inv'
  BY InvParts, InvPartsNext, NoEffectInv

(* What a command that leaves the slots alone leaves alone with them. *)
LEMMA SlotsStay ==
    ASSUME Parts, slot' = slot
    PROVE  SlotTyped' /\ NoDuplicates'
  BY Zenon DEF Parts, SlotTyped, NoDuplicates

LEMMA SessionStays ==
    ASSUME Parts, UNCHANGED session
    PROVE  SessionTyped'
  BY Zenon DEF Parts, SessionTyped, session

LEMMA EnumStays ==
    ASSUME Parts, slot' = slot, UNCHANGED <<enum, rpsShown, credsShown>>
    PROVE  EnumTyped' /\ RpsPrefix' /\ CredsPrefix'
  BY Zenon DEF Parts, EnumTyped, RpsPrefix, CredsPrefix, enum

LEMMA WalkStays ==
    ASSUME Parts, slot' = slot, UNCHANGED <<ga, walk>>
    PROVE  WalkTyped' /\ CdhAgrees' /\ WalkPrefix'
  BY Zenon DEF Parts, WalkTyped, CdhAgrees, WalkPrefix, ga

LEMMA GaStays ==
    ASSUME Parts, UNCHANGED <<ga, enum>>
    PROVE  WalkTyped' /\ CdhAgrees' /\ EnumTyped'
  BY Zenon DEF Parts, WalkTyped, CdhAgrees, EnumTyped, ga, enum

----------------------------------------------------------------------------
(* What a step may do, besides keeping the invariant. *)

SignsStep ==
    reply'.cmd = "GetAssertion" =>
        reply'.account \in Stored(reply'.rp) /\ reply'.cdh \in {reply'.rp, None}
ProtectsStep ==
    \A s \in Used : slot'[s] # slot[s] =>
        \/ reply'.cmd = "Reset"
        \/ /\ reply'.cmd = "delete" /\ reply'.account = slot[s]
           /\ pinSet => holder # None

StepOK == SignsStep /\ ProtectsStep

LEMMA QuietStep ==
    ASSUME reply'.cmd \in {"none", "query", "MakeCredential"},
           \A s \in Used : slot'[s] = slot[s]
    PROVE  StepOK
  BY DEF StepOK, SignsStep, ProtectsStep

LEMMA FailedCommand ==
    ASSUME Inv, NEW status \in Errors, Fail(status), NoEffect
    PROVE  Inv' /\ StepOK
  <1>1. reply' \in Replies /\ reply'.cmd = "query"
    BY FailType
  <1>2. slot' = slot
    BY Zenon DEF NoEffect
  <1> QED
    BY <1>1, <1>2, ReplyOnly, QuietStep

LEMMA QueryCommand ==
    ASSUME Inv, Succeed("query"), NoEffect
    PROVE  Inv' /\ StepOK
  <1>1. reply' \in Replies /\ reply'.cmd = "query"
    BY SucceedType
  <1>2. slot' = slot
    BY Zenon DEF NoEffect
  <1> QED
    BY <1>1, <1>2, ReplyOnly, QuietStep

(* passkey_save writes the account's own slot or a free one. *)
LEMMA SaveKeeps ==
    ASSUME Parts, NEW account \in Accounts, passkey_save_slots(account) # {}, passkey_save(account)
    PROVE  SlotTyped' /\ NoDuplicates' /\ \A s \in UsedIn(slot) : slot'[s] = slot[s]
  <1> DEFINE P == passkey_save_slots(account)
             p == First(P)
  <1>1. SlotTyped /\ NoDuplicates
    BY DEF Parts
  <1>2. P \in SUBSET Slots
    BY DEF passkey_save_slots, SlotOf, Used
  <1>3. p \in P
    <2> HIDE DEF P
    <2> QED
      BY <1>2, FirstCorrect DEF P
  <1>4. slot' = [slot EXCEPT ![p] = account]
    BY DEF passkey_save
  <1> HIDE DEF p, P
  <1>5. SlotTyped' /\ \A s \in Slots : slot'[s] = IF s = p THEN account ELSE slot[s]
    BY <1>1, <1>2, <1>3, <1>4 DEF SlotTyped
  <1>6. account # None
    BY NoneIsNone
  <1>7. CASE SlotOf(account) # {}
    <2>1. p \in SlotOf(account)
      BY <1>3, <1>7 DEF P, passkey_save_slots
    <2>2. slot[p] = account
      BY <2>1 DEF SlotOf
    <2>3. slot' = slot
      BY <1>1, <1>4, <2>2 DEF SlotTyped
    <2> QED
      BY <1>5, <2>3, SlotsStay
  <1>8. CASE SlotOf(account) = {}
    <2>1. p \in Slots \ UsedIn(slot)
      BY <1>3, <1>8, SlotReads DEF P, passkey_save_slots
    <2>2. \A s \in UsedIn(slot) : slot[s] # account
      BY <1>8, SlotReads DEF SlotOf
    <2>3. \A s \in UsedIn(slot) : slot'[s] = slot[s]
      BY <1>5, <2>1 DEF UsedIn
    <2>4. \A s \in UsedIn(slot') : s \in Slots /\ (s = p \/ s \in UsedIn(slot))
      BY <1>5 DEF UsedIn
    <2>5. ASSUME NEW s \in UsedIn(slot'), NEW t \in UsedIn(slot'), slot'[s] = slot'[t]
          PROVE  s = t
      <3>1. CASE s = p /\ t # p
        BY <1>5, <2>1, <2>2, <2>3, <2>4, <2>5, <3>1
      <3>2. CASE s # p /\ t = p
        BY <1>5, <2>1, <2>2, <2>3, <2>4, <2>5, <3>2
      <3>3. CASE s # p /\ t # p
        BY <1>1, <2>3, <2>4, <2>5, <3>3 DEF NoDuplicates
      <3> QED
        BY <3>1, <3>2, <3>3
    <2> QED
      BY <1>5, <2>3, <2>5 DEF NoDuplicates
  <1> QED
    BY <1>7, <1>8

LEMMA RegisterInv ==
    ASSUME Inv, NEW account \in Accounts, NEW excluded, Register(account, excluded)
    PROVE  Inv' /\ StepOK
  <1>1. CASE Fail("CREDENTIAL_EXCLUDED") /\ NoEffect
    <2>1. "CREDENTIAL_EXCLUDED" \in Errors
      BY DEF Errors
    <2> QED
      BY <1>1, <2>1, FailedCommand
  <1>2. CASE Fail("KEY_STORE_FULL") /\ NoEffect
    <2>1. "KEY_STORE_FULL" \in Errors
      BY DEF Errors
    <2> QED
      BY <1>2, <2>1, FailedCommand
  <1>3. CASE /\ passkey_save_slots(account) # {} /\ passkey_save(account)
             /\ Succeed("MakeCredential") /\ UNCHANGED <<session, ga, enum>> /\ ShownKept
    <2>1. Parts
      BY InvParts
    <2>2. SlotTyped' /\ NoDuplicates' /\ \A s \in UsedIn(slot) : slot'[s] = slot[s]
      BY <1>3, <2>1, SaveKeeps
    <2>3. UNCHANGED session /\ UNCHANGED <<ga, enum>>
      BY <1>3, Zenon
    <2>4. ShownTyped' /\ WalkPrefix' /\ RpsPrefix' /\ CredsPrefix'
      BY <1>3, <2>1, <2>2, <2>3, ShownKeptInv
    <2>5. SessionTyped' /\ WalkTyped' /\ CdhAgrees' /\ EnumTyped'
      BY <2>1, <2>3, SessionStays, GaStays
    <2>6. reply' \in Replies /\ reply'.cmd = "MakeCredential"
      BY <1>3, SucceedType
    <2>7. Inv'
      BY <2>2, <2>4, <2>5, <2>6, InvPartsNext DEF Parts
    <2>8. StepOK
      BY <2>2, <2>6, SlotReads, QuietStep
    <2> QED
      BY <2>7, <2>8
  <1> QED
    BY <1>1, <1>2, <1>3, Zenon DEF Register

LEMMA MakeCredentialInv ==
    ASSUME Inv, MakeCredential
    PROVE  Inv' /\ StepOK
  <1> DEFINE answers == {BeforeTouch(a, o) : a \in PinAuths, o \in {"none", "uv", "rk"}}
  <1>1. answers \subseteq Errors \cup {"ok"}
    BY BeforeTouchType
  <1>2. \/ \E status \in answers \ {"ok"} : Fail(status) /\ NoEffect
        \/ Fail("NO_TOUCH") /\ NoEffect
        \/ \E account \in Accounts, excluded \in BOOLEAN : Register(account, excluded)
    BY DEF MakeCredential
  <1> HIDE DEF answers
  <1>3. ASSUME NEW status \in answers \ {"ok"}, Fail(status), NoEffect
        PROVE  Inv' /\ StepOK
    <2>1. status \in Errors
      BY <1>1
    <2> QED
      BY <1>3, <2>1, FailedCommand
  <1>4. CASE Fail("NO_TOUCH") /\ NoEffect
    <2>1. "NO_TOUCH" \in Errors
      BY DEF Errors
    <2> QED
      BY <1>4, <2>1, FailedCommand
  <1> QED
    BY <1>2, <1>3, <1>4, RegisterInv

----------------------------------------------------------------------------
(* Assertions. *)

LEMMA BuildAssertionType ==
    ASSUME NEW account \in Accounts, NEW cdh \in Rps \cup {None}, BuildAssertion(account, cdh)
    PROVE  /\ reply' \in Replies
           /\ \/ reply'.cmd = "query"
              \/ /\ reply'.cmd = "GetAssertion" /\ reply'.account = account
                 /\ reply'.rp = account.rp /\ reply'.cdh = cdh
  <1> DEFINE statuses == UNION {AfterLookup(cdh, a, o) : a \in PinAuths, o \in {"none", "uv", "noUp"}}
  <1>1. statuses \subseteq Errors \cup {"ok"}
    BY AfterLookupType
  <1>2. \E status \in statuses :
            IF status = "ok" THEN ga_build_response(account, account.rp, cdh) ELSE Fail(status)
    BY DEF BuildAssertion
  <1> HIDE DEF statuses
  <1>3. ga_build_response(account, account.rp, cdh) \/ \E status \in Errors : Fail(status)
    BY <1>1, <1>2
  <1>4. CASE ga_build_response(account, account.rp, cdh)
    <2>1. account.rp \in Rps \cup {None}
      BY DEF Accounts
    <2> QED
      BY <1>4, <2>1, AssertionType
  <1>5. CASE \E status \in Errors : Fail(status)
    BY <1>5, FailType
  <1> QED
    BY <1>3, <1>4, <1>5

(* The first account shown is the enumeration at index 0. *)
LEMMA FirstShown ==
    ASSUME NEW S \in SUBSET Slots, NEW f, NEW T, 0 < Cardinality(S), f[AtIndex(S, 0)] \in T
    PROVE  /\ <<f[AtIndex(S, 0)]>> \in Seq(T)
           /\ Enumerates(<<f[AtIndex(S, 0)]>>, 0, S, f)
  <1> DEFINE e == f[AtIndex(S, 0)]
  <1>1. e \in T
    OBVIOUS
  <1>2. Enumerates(<<>>, -1, S, f)
    BY EnumerationStarts
  <1>3. <<>> \in Seq(T) /\ -1 \in Int /\ -1 >= -1 /\ -1 + 1 = 0
    BY EmptySeq
  <1>4. Enumerates(Append(<<>>, f[AtIndex(S, 0)]), 0, S, f)
    BY <1>2, <1>3, EnumerationMoves
  <1> HIDE DEF e
  <1>5. Append(<<>>, e) = <<e>> /\ <<e>> \in Seq(T)
    BY <1>1
  <1> QED
    BY <1>4, <1>5 DEF e

LEMMA GetAssertionInv ==
    ASSUME Inv, NEW rp \in Rps, NEW cdh \in {rp, None}, NEW allowList,
           GetAssertion(rp, allowList, cdh)
    PROVE  Inv' /\ StepOK
  <1>1. Parts
    BY InvParts
  <1>2. slot' = slot /\ UNCHANGED session /\ UNCHANGED <<enum, rpsShown, credsShown>>
    BY Zenon DEF GetAssertion
  <1>3. /\ SlotTyped' /\ NoDuplicates' /\ SessionTyped'
        /\ EnumTyped' /\ RpsPrefix' /\ CredsPrefix'
    BY <1>1, <1>2, SlotsStay, SessionStays, EnumStays
  <1>4. /\ credsShown' # None => credsShown' \in Seq(Accounts)
        /\ rpsShown' # None => rpsShown' \in Seq(Rps)
    BY <1>1, <1>2, Zenon DEF Parts, ShownTyped
  <1>5. cdh \in Rps \cup {None} /\ SlotTyped
    BY <1>1 DEF Parts
  <1>6. \A s \in Used : slot'[s] = slot[s]
    BY <1>2
  <1>7. CASE /\ allowList = {} /\ SlotsOf(rp) = {}
             /\ Fail("NO_CREDENTIALS") /\ UNCHANGED <<ga, walk>>
    <2>1. WalkTyped' /\ CdhAgrees' /\ WalkPrefix' /\ (walk' # None => walk' \in Seq(Accounts))
      <3>1. WalkTyped' /\ CdhAgrees' /\ WalkPrefix'
        BY <1>1, <1>2, <1>7, WalkStays
      <3>2. walk' # None => walk' \in Seq(Accounts)
        BY <1>1, <1>7, Zenon DEF Parts, ShownTyped
      <3> QED
        BY <3>1, <3>2
    <2>2. "NO_CREDENTIALS" \in Errors
      BY DEF Errors
    <2>3. reply' \in Replies /\ reply'.cmd = "query"
      BY <1>7, <2>2, FailType
    <2>4. Inv'
      BY <1>3, <1>4, <2>1, <2>3, InvPartsNext DEF Parts, ShownTyped
    <2>5. StepOK
      BY <1>6, <2>3, QuietStep
    <2> QED
      BY <2>4, <2>5
  <1>8. CASE /\ allowList = {} /\ SlotsOf(rp) # {}
             /\ BuildAssertion(passkey_get_by_rp_index(rp, 0), cdh)
             /\ walk' = IF reply'.status = "ok" THEN <<passkey_get_by_rp_index(rp, 0)>> ELSE None
             /\ ArmWalk(rp, cdh)
    <2> DEFINE S == SlotsIn(slot, rp)
               account == passkey_get_by_rp_index(rp, 0)
    <2>1. S \in SUBSET Slots /\ 0 < Cardinality(S)
      BY <1>8, SlotReads, ReadSubsets, SomeSlot
    <2>2. /\ account = slot[AtIndex(S, 0)] /\ account \in Accounts
          /\ account.rp = rp /\ account \in Stored(rp)
      BY <1>5, <2>1, IndexedAccount
    <2> HIDE DEF account, S
    <2>3. BuildAssertion(account, cdh) /\ walk' = IF reply'.status = "ok" THEN <<account>> ELSE None
      BY <1>8 DEF account
    <2>4. /\ reply' \in Replies
          /\ \/ reply'.cmd = "query"
             \/ /\ reply'.cmd = "GetAssertion" /\ reply'.account = account
                /\ reply'.rp = rp /\ reply'.cdh = cdh
      BY <1>5, <2>2, <2>3, BuildAssertionType
    <2>5. Cardinality(S) \in Nat /\ Cardinality(S) <= NumSlots
      BY <2>1, SlotSetFinite
    <2>6. /\ g_ga_rp_hash' = rp /\ g_ga_count' = Cardinality(S) /\ g_ga_idx' = 0 /\ g_ga_cdh' = cdh
      BY <1>8, SlotReads DEF ArmWalk, passkey_count_for_rp, S
    <2>7. WalkTyped'
      BY <1>5, <2>1, <2>5, <2>6, SlotsAssumption DEF WalkTyped
    <2>8. CdhAgrees'
      BY <2>6 DEF CdhAgrees
    <2>9. <<account>> \in Seq(Accounts) /\ Enumerates(<<account>>, 0, S, slot)
      BY <2>1, <2>2, FirstShown
    <2>10. walk' # None => walk' = <<account>>
      BY <2>3, Zenon
    <2>11. walk' # None => walk' \in Seq(Accounts)
      BY <2>9, <2>10
    <2>12. S = SlotsIn(slot', g_ga_rp_hash')
      BY <1>2, <2>6 DEF S
    <2>13. WalkPrefix'
      <3> SUFFICES ASSUME walk' # None
                   PROVE  /\ g_ga_count' = Cardinality(SlotsIn(slot', g_ga_rp_hash'))
                          /\ g_ga_count' > 0
                          /\ Enumerates(walk', g_ga_idx', SlotsIn(slot', g_ga_rp_hash'), slot')
        BY Zenon DEF WalkPrefix
      <3>1. g_ga_count' > 0
        BY <2>1, <2>5, <2>6
      <3> QED
        BY <1>2, <2>6, <2>9, <2>10, <2>12, <3>1, Zenon
    <2>14. Inv'
      BY <1>3, <1>4, <2>4, <2>7, <2>8, <2>11, <2>13, InvPartsNext DEF Parts, ShownTyped
    <2>15. StepOK
      BY <1>6, <2>2, <2>4 DEF StepOK, SignsStep, ProtectsStep
    <2> QED
      BY <2>14, <2>15
  <1>9. CASE /\ allowList # {}
             /\ LET listed == {s \in SlotsOf(rp) : slot[s] \in allowList} IN
                  \/ listed = {} /\ Fail("NO_CREDENTIALS")
                  \/ listed # {} /\ BuildAssertion(slot[First(listed)], cdh)
             /\ g_ga_count' = 0 /\ walk' = None /\ UNCHANGED <<g_ga_rp_hash, g_ga_idx, g_ga_cdh>>
    <2> DEFINE listed == {s \in SlotsOf(rp) : slot[s] \in allowList}
    <2>1. WalkTyped' /\ CdhAgrees' /\ WalkPrefix'
      <3>1. ~(g_ga_count' > 0) /\ g_ga_count' \in 0 .. NumSlots
        BY <1>9, SlotsAssumption
      <3> QED
        BY <1>1, <1>9, <3>1, Zenon DEF Parts, WalkTyped, CdhAgrees, WalkPrefix
    <2>2. reply' \in Replies /\ StepOK
      <3>1. CASE listed = {} /\ Fail("NO_CREDENTIALS")
        <4>1. "NO_CREDENTIALS" \in Errors
          BY DEF Errors
        <4>2. reply' \in Replies /\ reply'.cmd = "query"
          BY <3>1, <4>1, FailType
        <4> QED
          BY <1>6, <4>2, QuietStep
      <3>2. CASE listed # {} /\ BuildAssertion(slot[First(listed)], cdh)
        <4>1. listed \in SUBSET SlotsIn(slot, rp) /\ SlotsIn(slot, rp) \in SUBSET Slots
          BY SlotReads, ReadSubsets
        <4> HIDE DEF listed
        <4>2. First(listed) \in SlotsIn(slot, rp)
          BY <3>2, <4>1, FirstCorrect
        <4> DEFINE s == First(listed)
        <4> HIDE DEF s
        <4>3. s \in UsedIn(slot) /\ slot[s].rp = rp
          BY <4>2 DEF SlotsIn, s
        <4>4. slot[s] \in Accounts /\ slot[s] \in Stored(rp)
          BY <1>5, <4>2, <4>3, StoredAccount, SlotReads DEF Stored, s
        <4>5. BuildAssertion(slot[s], cdh)
          BY <3>2 DEF s
        <4>6. /\ reply' \in Replies
              /\ \/ reply'.cmd = "query"
                 \/ /\ reply'.cmd = "GetAssertion" /\ reply'.account = slot[s]
                    /\ reply'.rp = slot[s].rp /\ reply'.cdh = cdh
          BY <1>5, <4>4, <4>5, BuildAssertionType
        <4> QED
          BY <1>6, <4>3, <4>4, <4>6 DEF StepOK, SignsStep, ProtectsStep
      <3> QED
        BY <1>9, <3>1, <3>2
    <2>3. Inv'
      BY <1>3, <1>4, <1>9, <2>1, <2>2, InvPartsNext DEF Parts, ShownTyped
    <2> QED
      BY <2>2, <2>3
  <1> QED
    BY <1>7, <1>8, <1>9, Zenon DEF GetAssertion

LEMMA GetNextAssertionInv ==
    ASSUME Inv, GetNextAssertion
    PROVE  Inv' /\ StepOK
  <1>1. Parts
    BY InvParts
  <1>2. /\ slot' = slot /\ UNCHANGED session /\ UNCHANGED <<enum, rpsShown, credsShown>>
        /\ g_ga_rp_hash' = g_ga_rp_hash /\ g_ga_count' = g_ga_count /\ g_ga_cdh' = g_ga_cdh
    BY Zenon DEF GetNextAssertion
  <1>3. /\ SlotTyped' /\ NoDuplicates' /\ SessionTyped'
        /\ EnumTyped' /\ RpsPrefix' /\ CredsPrefix'
    BY <1>1, <1>2, SlotsStay, SessionStays, EnumStays
  <1>4. /\ credsShown' # None => credsShown' \in Seq(Accounts)
        /\ rpsShown' # None => rpsShown' \in Seq(Rps)
    BY <1>1, <1>2, Zenon DEF Parts, ShownTyped
  <1>5. \A s \in Used : slot'[s] = slot[s]
    BY <1>2
  <1>6. "NO_CREDENTIALS" \in Errors /\ "NO_TOUCH" \in Errors
    BY DEF Errors
  <1>7. /\ SlotTyped /\ g_ga_idx \in Nat /\ g_ga_count \in Nat /\ CdhAgrees
        /\ g_ga_rp_hash \in Rps \cup {None} /\ g_ga_cdh \in Rps \cup {None}
    BY <1>1, SlotsAssumption DEF Parts, WalkTyped
  <1>8. CASE Fail("NO_CREDENTIALS") /\ UNCHANGED <<g_ga_idx, walk>>
    <2>1. UNCHANGED <<ga, walk>>
      BY <1>2, <1>8, Zenon DEF ga
    <2>2. WalkTyped' /\ CdhAgrees' /\ WalkPrefix'
      BY <1>1, <1>2, <2>1, WalkStays
    <2>3. walk' # None => walk' \in Seq(Accounts)
      BY <1>1, <1>8, Zenon DEF Parts, ShownTyped
    <2>4. reply' \in Replies /\ reply'.cmd = "query"
      BY <1>6, <1>8, FailType
    <2>5. Inv'
      BY <1>3, <1>4, <2>2, <2>3, <2>4, InvPartsNext DEF Parts, ShownTyped
    <2>6. StepOK
      BY <1>5, <2>4, QuietStep
    <2> QED
      BY <2>5, <2>6
  <1>9. CASE /\ g_ga_count > 0 /\ g_ga_idx + 1 < g_ga_count /\ g_ga_idx' = g_ga_idx + 1
             /\ \/ NextInWalk = None /\ Fail("NO_CREDENTIALS") /\ UNCHANGED walk
                \/ NextInWalk # None /\ Fail("NO_TOUCH") /\ walk' = None
                \/ /\ NextInWalk # None
                   /\ ga_build_response(NextInWalk, g_ga_rp_hash, g_ga_cdh)
                   /\ walk' = IF walk = None THEN None ELSE Append(walk, NextInWalk)
    <2> DEFINE S == SlotsIn(slot, g_ga_rp_hash)
               i == g_ga_idx + 1
    <2>1. S \in SUBSET Slots
      BY ReadSubsets
    <2>2. Cardinality(S) \in Nat /\ i \in Nat
      BY <1>7, <2>1, SlotSetFinite
    <2>3. /\ i < Cardinality(S) => /\ NextInWalk = slot[AtIndex(S, i)] /\ NextInWalk \in Accounts
                                   /\ NextInWalk # None /\ g_ga_rp_hash \in Rps
                                   /\ NextInWalk \in Stored(g_ga_rp_hash)
          /\ ~(i < Cardinality(S)) => NextInWalk = None
      BY <1>7, <2>2, IndexedAccount DEF NextInWalk
    <2>4. WalkTyped' /\ CdhAgrees'
      BY <1>1, <1>2, <1>7, <1>9 DEF Parts, WalkTyped, CdhAgrees
    <2>5. walk # None => /\ g_ga_count = Cardinality(S)
                         /\ Enumerates(walk, g_ga_idx, S, slot) /\ walk \in Seq(Accounts)
      BY <1>1, Zenon DEF Parts, WalkPrefix, ShownTyped
    <2>6. S = SlotsIn(slot', g_ga_rp_hash')
      BY <1>2
    <2> HIDE DEF S
    <2>7. CASE NextInWalk = None /\ Fail("NO_CREDENTIALS") /\ UNCHANGED walk
      <3>1. walk = None
        BY <1>9, <2>3, <2>5, <2>7
      <3>2. walk' = None
        BY <2>7, <3>1
      <3>3. WalkPrefix'
        BY <3>2 DEF WalkPrefix
      <3>4. reply' \in Replies /\ reply'.cmd = "query"
        BY <1>6, <2>7, FailType
      <3>5. Inv'
        BY <1>3, <1>4, <2>4, <3>2, <3>3, <3>4, InvPartsNext DEF Parts, ShownTyped
      <3>6. StepOK
        BY <1>5, <3>4, QuietStep
      <3> QED
        BY <3>5, <3>6
    <2>8. CASE NextInWalk # None /\ Fail("NO_TOUCH") /\ walk' = None
      <3>1. WalkPrefix'
        BY <2>8 DEF WalkPrefix
      <3>2. reply' \in Replies /\ reply'.cmd = "query"
        BY <1>6, <2>8, FailType
      <3>3. Inv'
        BY <1>3, <1>4, <2>4, <2>8, <3>1, <3>2, InvPartsNext DEF Parts, ShownTyped
      <3>4. StepOK
        BY <1>5, <3>2, QuietStep
      <3> QED
        BY <3>3, <3>4
    <2>9. CASE /\ NextInWalk # None
               /\ ga_build_response(NextInWalk, g_ga_rp_hash, g_ga_cdh)
               /\ walk' = IF walk = None THEN None ELSE Append(walk, NextInWalk)
      <3>1. /\ NextInWalk = slot[AtIndex(S, i)] /\ NextInWalk \in Accounts
            /\ NextInWalk \in Stored(g_ga_rp_hash) /\ i < Cardinality(S)
        BY <2>2, <2>3, <2>9
      <3>2. /\ reply' \in Replies /\ reply'.cmd = "GetAssertion"
            /\ reply'.account = NextInWalk /\ reply'.rp = g_ga_rp_hash /\ reply'.cdh = g_ga_cdh
        BY <1>7, <2>9, <3>1, AssertionType
      <3>3. walk' # None => walk # None /\ walk' = Append(walk, NextInWalk)
        BY <2>9, Zenon
      <3>4. walk' # None => walk' \in Seq(Accounts)
        BY <2>5, <3>1, <3>3, AppendProperties
      <3>5. walk # None => Enumerates(Append(walk, NextInWalk), i, S, slot)
        <4>1. g_ga_idx \in Int /\ g_ga_idx >= -1
          BY <1>7
        <4> QED
          BY <2>1, <2>5, <3>1, <4>1, EnumerationMoves
      <3>6. WalkPrefix'
        BY <1>2, <1>9, <2>5, <2>6, <3>3, <3>5, Zenon DEF WalkPrefix
      <3>7. Inv'
        BY <1>3, <1>4, <2>4, <3>2, <3>4, <3>6, InvPartsNext DEF Parts, ShownTyped
      <3>8. StepOK
        BY <1>5, <1>7, <3>1, <3>2 DEF StepOK, SignsStep, ProtectsStep, CdhAgrees
      <3> QED
        BY <3>7, <3>8
    <2> QED
      BY <1>9, <2>7, <2>8, <2>9
  <1> QED
    BY <1>8, <1>9, Zenon DEF GetNextAssertion

----------------------------------------------------------------------------
(* CredentialManagement. *)

LEMMA EnumerateRPsInv ==
    ASSUME Inv, NEW begin \in BOOLEAN, CM_enumerateRPs(begin)
    PROVE  Inv' /\ StepOK
  <1> DEFINE F == FirstsIn(slot)
             R == RpIn(slot)
             before == IF begin THEN <<>> ELSE rpsShown
             i == IF begin THEN -1 ELSE g_enum_rp_idx
  <1>1. Parts
    BY InvParts
  <1>2. /\ slot' = slot /\ UNCHANGED session /\ UNCHANGED <<ga, walk>> /\ g_enum_cred_idx' = g_enum_cred_idx
        /\ credsShown' = IF g_enum_rp_hash' = g_enum_rp_hash THEN credsShown ELSE None
        /\ g_enum_rp_idx' = IF begin THEN 0 ELSE g_enum_rp_idx + 1
        /\ begin \/ g_enum_rp_idx < MaxIndex
    BY Zenon DEF CM_enumerateRPs
  <1>3. /\ SlotTyped' /\ NoDuplicates' /\ SessionTyped' /\ WalkTyped' /\ CdhAgrees' /\ WalkPrefix'
    BY <1>1, <1>2, SlotsStay, SessionStays, WalkStays
  <1>4. \A s \in Used : slot'[s] = slot[s]
    BY <1>2
  <1>5. g_enum_rp_idx \in 0 .. MaxIndex /\ g_enum_cred_idx \in 0 .. MaxIndex
        /\ g_enum_rp_hash \in Rps \cup {None} /\ SlotTyped
    BY <1>1 DEF Parts, EnumTyped
  <1>6. /\ g_enum_rp_idx' \in 0 .. MaxIndex /\ g_enum_rp_idx' = i + 1
        /\ i \in Int /\ i >= -1 /\ g_enum_rp_idx' \in Nat
    <2>1. CASE begin
      BY <1>2, <2>1, SlotsAssumption
    <2>2. CASE ~begin
      BY <1>2, <1>5, <2>2, SlotsAssumption
    <2> QED
      BY <2>1, <2>2
  <1>7. F \in SUBSET Slots /\ Cardinality(F) \in Nat
    BY ReadSubsets, SlotSetFinite
  <1>8. before # None => before \in Seq(Rps) /\ Enumerates(before, i, F, R)
    <2>1. CASE begin
      <3>1. <<>> \in Seq(Rps) /\ Enumerates(<<>>, -1, F, R)
        BY <1>7, EnumerationStarts, EmptySeq
      <3> QED
        BY <2>1, <3>1
    <2>2. CASE ~begin
      BY <1>1, <2>2, Zenon DEF Parts, RpsPrefix, ShownTyped
    <2> QED
      BY <2>1, <2>2
  <1>9. FirstsIn(slot') = F /\ RpIn(slot') = R
    BY <1>2
  <1>10. passkey_count_unique_rps = Cardinality(F)
         /\ \A k : passkey_get_unique_rp_hash(k) = slot[AtIndex(F, k)].rp
    BY SlotReads DEF passkey_count_unique_rps, passkey_get_unique_rp_hash
  <1> HIDE DEF F, R, i
  <1>11. /\ g_enum_rp_hash' \in Rps \cup {None} /\ reply' \in Replies /\ reply'.cmd = "query"
         /\ RpsPrefix' /\ (rpsShown' # None => rpsShown' \in Seq(Rps))
    <2>1. CASE /\ g_enum_rp_idx' >= passkey_count_unique_rps
               /\ Fail("NO_CREDENTIALS") /\ rpsShown' = before /\ UNCHANGED g_enum_rp_hash
      <3>1. "NO_CREDENTIALS" \in Errors
        BY DEF Errors
      <3>2. reply' \in Replies /\ reply'.cmd = "query"
        BY <2>1, <3>1, FailType
      <3> HIDE DEF before
      <3>3. rpsShown' # None => Enumerates(rpsShown', i + 1, F, R)
        BY <1>6, <1>7, <1>8, <1>10, <2>1, EnumerationEnds
      <3>4. RpsPrefix'
        BY <1>6, <1>9, <3>3, Zenon DEF RpsPrefix
      <3>5. rpsShown' # None => rpsShown' \in Seq(Rps)
        BY <1>8, <2>1
      <3>6. g_enum_rp_hash' \in Rps \cup {None}
        BY <1>5, <2>1
      <3> QED
        BY <3>2, <3>4, <3>5, <3>6
    <2>2. CASE /\ g_enum_rp_idx' < passkey_count_unique_rps
               /\ Succeed("query")
               /\ g_enum_rp_hash' = passkey_get_unique_rp_hash(g_enum_rp_idx')
               /\ rpsShown' = IF before = None THEN None ELSE Append(before, g_enum_rp_hash')
      <3>1. reply' \in Replies /\ reply'.cmd = "query"
        BY <2>2, SucceedType
      <3>2. g_enum_rp_idx' \in 0 .. Cardinality(F) - 1
        BY <1>6, <1>7, <1>10, <2>2
      <3> DEFINE s == AtIndex(F, g_enum_rp_idx')
      <3>3. s \in F
        BY <1>7, <3>2, AtIndexCorrect
      <3>4. g_enum_rp_hash' = slot[s].rp
        BY <1>10, <2>2
      <3>5. s \in UsedIn(slot)
        BY <3>3 DEF F, FirstsIn
      <3> HIDE DEF s
      <3>6. g_enum_rp_hash' \in Rps /\ g_enum_rp_hash' = R[s]
        BY <1>5, <3>4, <3>5, StoredAccount DEF R, RpIn
      <3> HIDE DEF before
      <3>7. rpsShown' # None => before # None /\ rpsShown' = Append(before, g_enum_rp_hash')
        BY <2>2, Zenon
      <3>8. rpsShown' # None => rpsShown' \in Seq(Rps)
        BY <1>8, <3>6, <3>7, AppendProperties
      <3>9. g_enum_rp_hash' = R[AtIndex(F, i + 1)] /\ i + 1 < Cardinality(F)
        BY <1>6, <1>10, <2>2, <3>6 DEF s
      <3>10. rpsShown' # None => Enumerates(rpsShown', i + 1, F, R)
        <4> SUFFICES ASSUME rpsShown' # None PROVE Enumerates(rpsShown', i + 1, F, R)
          OBVIOUS
        <4>1. R[AtIndex(F, i + 1)] \in Rps
          BY <3>6, <3>9
        <4>2. Enumerates(Append(before, R[AtIndex(F, i + 1)]), i + 1, F, R)
          BY <1>6, <1>7, <1>8, <3>7, <3>9, <4>1, EnumerationMoves
        <4> QED
          BY <3>7, <3>9, <4>2
      <3>11. RpsPrefix'
        BY <1>6, <1>9, <3>10, Zenon DEF RpsPrefix
      <3> QED
        BY <3>1, <3>6, <3>8, <3>11
    <2> QED
      BY <2>1, <2>2, Zenon DEF CM_enumerateRPs
  <1>12. credsShown' # None => credsShown' = credsShown /\ g_enum_rp_hash' = g_enum_rp_hash
    BY <1>2, Zenon
  <1>13. CredsPrefix'
    BY <1>1, <1>2, <1>12, Zenon DEF Parts, CredsPrefix
  <1>14. ShownTyped'
    BY <1>1, <1>2, <1>11, <1>12, Zenon DEF Parts, ShownTyped
  <1>15. EnumTyped'
    BY <1>2, <1>5, <1>6, <1>11 DEF EnumTyped
  <1>16. Inv'
    BY <1>3, <1>11, <1>13, <1>14, <1>15, InvPartsNext DEF Parts
  <1>17. StepOK
    BY <1>4, <1>11, QuietStep
  <1> QED
    BY <1>16, <1>17

LEMMA EnumerateCredentialsInv ==
    ASSUME Inv, NEW begin \in BOOLEAN, NEW rph \in Rps \cup {None},
           CM_enumerateCredentials(begin, rph)
    PROVE  Inv' /\ StepOK
  <1> DEFINE S == SlotsIn(slot, g_enum_rp_hash')
             before == IF begin THEN <<>> ELSE credsShown
             i == IF begin THEN -1 ELSE g_enum_cred_idx
             account == passkey_get_by_rp_index(g_enum_rp_hash', g_enum_cred_idx')
  <1>1. Parts
    BY InvParts
  <1>2. /\ slot' = slot /\ UNCHANGED session /\ UNCHANGED <<ga, walk>> /\ g_enum_rp_idx' = g_enum_rp_idx
        /\ rpsShown' = rpsShown
        /\ g_enum_rp_hash' = IF begin /\ rph # None THEN rph ELSE g_enum_rp_hash
        /\ g_enum_cred_idx' = IF begin THEN 0 ELSE g_enum_cred_idx + 1
        /\ begin \/ g_enum_cred_idx < MaxIndex
    BY Zenon DEF CM_enumerateCredentials, CM_CredIndex
  <1>3. /\ SlotTyped' /\ NoDuplicates' /\ SessionTyped' /\ WalkTyped' /\ CdhAgrees' /\ WalkPrefix'
    BY <1>1, <1>2, SlotsStay, SessionStays, WalkStays
  <1>4. \A s \in Used : slot'[s] = slot[s]
    BY <1>2
  <1>5. g_enum_rp_idx \in 0 .. MaxIndex /\ g_enum_cred_idx \in 0 .. MaxIndex
        /\ g_enum_rp_hash \in Rps \cup {None} /\ SlotTyped
    BY <1>1 DEF Parts, EnumTyped
  <1>6. /\ g_enum_cred_idx' \in 0 .. MaxIndex /\ g_enum_cred_idx' = i + 1
        /\ i \in Int /\ i >= -1 /\ g_enum_cred_idx' \in Nat
    <2>1. CASE begin
      BY <1>2, <2>1, SlotsAssumption
    <2>2. CASE ~begin
      BY <1>2, <1>5, <2>2, SlotsAssumption
    <2> QED
      BY <2>1, <2>2
  <1>7. g_enum_rp_hash' \in Rps \cup {None}
    BY <1>2, <1>5
  <1>8. S \in SUBSET Slots /\ Cardinality(S) \in Nat
    BY ReadSubsets, SlotSetFinite
  <1>9. before # None => before \in Seq(Accounts) /\ Enumerates(before, i, S, slot)
    <2>1. CASE begin
      <3>1. <<>> \in Seq(Accounts) /\ Enumerates(<<>>, -1, S, slot)
        BY <1>8, EnumerationStarts, EmptySeq
      <3> QED
        BY <2>1, <3>1
    <2>2. CASE ~begin
      <3>1. g_enum_rp_hash' = g_enum_rp_hash
        BY <1>2, <2>2
      <3> QED
        BY <1>1, <2>2, <3>1, Zenon DEF Parts, CredsPrefix, ShownTyped
    <2> QED
      BY <2>1, <2>2
  <1>10. SlotsIn(slot', g_enum_rp_hash') = S
    BY <1>2
  <1>11. /\ g_enum_cred_idx' < Cardinality(S) =>
               /\ account = slot[AtIndex(S, g_enum_cred_idx')] /\ account \in Accounts
               /\ account # None
         /\ ~(g_enum_cred_idx' < Cardinality(S)) => account = None
    BY <1>5, <1>6, IndexedAccount
  <1>12. \/ account = None /\ Fail("NO_CREDENTIALS") /\ credsShown' = before
         \/ /\ account # None /\ Succeed("query")
            /\ credsShown' = IF before = None THEN None ELSE Append(before, account)
    BY Zenon DEF CM_enumerateCredentials
  <1> HIDE DEF S, i, before, account
  <1>13. /\ reply' \in Replies /\ reply'.cmd = "query"
         /\ CredsPrefix' /\ (credsShown' # None => credsShown' \in Seq(Accounts))
    <2>1. CASE account = None /\ Fail("NO_CREDENTIALS") /\ credsShown' = before
      <3>1. "NO_CREDENTIALS" \in Errors
        BY DEF Errors
      <3>2. reply' \in Replies /\ reply'.cmd = "query"
        BY <2>1, <3>1, FailType
      <3>3. i + 1 >= Cardinality(S)
        BY <1>6, <1>8, <1>11, <2>1
      <3>4. credsShown' # None => Enumerates(credsShown', i + 1, S, slot)
        BY <1>6, <1>8, <1>9, <2>1, <3>3, EnumerationEnds
      <3>5. CredsPrefix'
        BY <1>2, <1>6, <1>10, <3>4, Zenon DEF CredsPrefix
      <3>6. credsShown' # None => credsShown' \in Seq(Accounts)
        BY <1>9, <2>1
      <3> QED
        BY <3>2, <3>5, <3>6
    <2>2. CASE /\ account # None /\ Succeed("query")
               /\ credsShown' = IF before = None THEN None ELSE Append(before, account)
      <3>1. reply' \in Replies /\ reply'.cmd = "query"
        BY <2>2, SucceedType
      <3>2. /\ account = slot[AtIndex(S, i + 1)] /\ account \in Accounts /\ i + 1 < Cardinality(S)
        BY <1>6, <1>8, <1>11, <2>2
      <3>3. credsShown' # None => before # None /\ credsShown' = Append(before, account)
        BY <2>2, Zenon
      <3>4. credsShown' # None => credsShown' \in Seq(Accounts)
        BY <1>9, <3>2, <3>3, AppendProperties
      <3>5. credsShown' # None => Enumerates(credsShown', i + 1, S, slot)
        BY <1>6, <1>8, <1>9, <3>2, <3>3, EnumerationMoves
      <3>6. CredsPrefix'
        BY <1>2, <1>6, <1>10, <3>5, Zenon DEF CredsPrefix
      <3> QED
        BY <3>1, <3>4, <3>6
    <2> QED
      BY <1>12, <2>1, <2>2
  <1>14. RpsPrefix'
    BY <1>1, <1>2, Zenon DEF Parts, RpsPrefix
  <1>15. ShownTyped'
    BY <1>1, <1>2, <1>13, Zenon DEF Parts, ShownTyped
  <1>16. EnumTyped'
    BY <1>2, <1>5, <1>6, <1>7 DEF EnumTyped
  <1>17. Inv'
    BY <1>3, <1>13, <1>14, <1>15, <1>16, InvPartsNext DEF Parts
  <1>18. StepOK
    BY <1>4, <1>13, QuietStep
  <1> QED
    BY <1>17, <1>18

LEMMA DeleteReplyType ==
    ASSUME NEW account \in Accounts \cup {None}, NEW status \in Errors \cup {"ok"},
           reply' = [NoReply EXCEPT !.cmd = "delete", !.account = account, !.status = status]
    PROVE  reply' \in Replies /\ reply'.cmd = "delete" /\ reply'.account = account
  BY DEF NoReply, Replies

LEMMA DeleteCredentialInv ==
    ASSUME Inv, NEW keys, NEW account \in Range(slot), CM_Authorized,
           CM_deleteCredential(keys, account)
    PROVE  Inv' /\ StepOK
  <1> DEFINE named == IF keys = "integer" THEN SlotOf(account) ELSE {}
  <1>1. Parts /\ SlotTyped
    BY InvParts DEF Parts
  <1>2. account \in Accounts \cup {None}
    BY <1>1 DEF SlotTyped, Range
  <1>3. UNCHANGED session /\ UNCHANGED <<ga, enum>> /\ ShownKept
    BY Zenon DEF CM_deleteCredential
  <1>4. pinSet => holder # None
    BY DEF CM_Authorized, PinAuths
  <1>5. SessionTyped' /\ WalkTyped' /\ CdhAgrees' /\ EnumTyped'
    BY <1>1, <1>3, SessionStays, GaStays
  <1>6. CASE /\ reply' = [NoReply EXCEPT !.cmd = "delete", !.account = account,
                                         !.status = "NO_CREDENTIALS"]
             /\ UNCHANGED slot
    <2>1. "NO_CREDENTIALS" \in Errors \cup {"ok"}
      BY DEF Errors
    <2>2. reply' \in Replies /\ reply'.cmd = "delete"
      BY <1>2, <1>6, <2>1, DeleteReplyType
    <2>3. SlotTyped' /\ NoDuplicates'
      BY <1>1, <1>6, SlotsStay
    <2>4. ShownTyped' /\ WalkPrefix' /\ RpsPrefix' /\ CredsPrefix'
      BY <1>1, <1>3, <2>3, ShownKeptInv
    <2>5. Inv'
      BY <1>5, <2>2, <2>3, <2>4, InvPartsNext DEF Parts
    <2>6. StepOK
      BY <1>6, <2>2 DEF StepOK, SignsStep, ProtectsStep
    <2> QED
      BY <2>5, <2>6
  <1>7. CASE /\ named # {} /\ slot' = [slot EXCEPT ![First(named)] = None]
             /\ reply' = [NoReply EXCEPT !.cmd = "delete", !.account = account]
    <2> DEFINE p == First(named)
    <2>1. named \in SUBSET SlotOf(account) /\ named \in SUBSET Slots
      BY DEF SlotOf, Used
    <2> HIDE DEF named
    <2>2. p \in named
      BY <1>7, <2>1, FirstCorrect
    <2> HIDE DEF p
    <2>3. p \in Slots /\ slot[p] = account
      BY <2>1, <2>2 DEF SlotOf
    <2>4. slot' = [slot EXCEPT ![p] = None]
      BY <1>7 DEF p
    <2>5. SlotTyped' /\ \A s \in Slots : slot'[s] = IF s = p THEN None ELSE slot[s]
      BY <1>1, <2>3, <2>4 DEF SlotTyped
    <2>6. NoDuplicates'
      <3>1. \A s \in UsedIn(slot') : s \in UsedIn(slot) /\ slot'[s] = slot[s]
        BY <2>5 DEF UsedIn
      <3>2. NoDuplicates
        BY <1>1 DEF Parts
      <3> QED
        BY <3>1, <3>2, Zenon DEF NoDuplicates
    <2>7. ShownTyped' /\ WalkPrefix' /\ RpsPrefix' /\ CredsPrefix'
      BY <1>1, <1>3, <2>5, ShownKeptInv
    <2>8. /\ reply' \in Replies /\ reply'.cmd = "delete" /\ reply'.account = account
      BY <1>2, <1>7 DEF NoReply, Replies
    <2>9. Inv'
      BY <1>5, <2>5, <2>6, <2>7, <2>8, InvPartsNext DEF Parts
    <2>10. ProtectsStep
      <3>1. \A s \in Used : s \in Slots
        BY DEF Used
      <3> QED
        BY <1>4, <2>3, <2>5, <2>8, <3>1 DEF ProtectsStep
    <2>11. StepOK
      BY <2>8, <2>10 DEF StepOK, SignsStep
    <2> QED
      BY <2>9, <2>11
  <1> QED
    BY <1>6, <1>7, Zenon DEF CM_deleteCredential

LEMMA CredentialManagementInv ==
    ASSUME Inv, CredentialManagement
    PROVE  Inv' /\ StepOK
  <1>1. "PIN_AUTH_INVALID" \in Errors /\ "INVALID_COMMAND" \in Errors
    BY DEF Errors
  <1>2. CASE CM_Refuse
    BY <1>1, <1>2, FailedCommand DEF CM_Refuse
  <1>3. CASE CM_Query
    BY <1>1, <1>3, FailedCommand, QueryCommand DEF CM_Query
  <1>4. ASSUME NEW begin \in BOOLEAN, CM_enumerateRPs(begin)
        PROVE  Inv' /\ StepOK
    BY <1>4, EnumerateRPsInv
  <1>5. ASSUME NEW rph \in Rps \cup {None}, CM_enumerateCredentials(TRUE, rph)
        PROVE  Inv' /\ StepOK
    <2>1. TRUE \in BOOLEAN
      OBVIOUS
    <2> QED
      BY <1>5, <2>1, EnumerateCredentialsInv, Zenon
  <1>6. CASE CM_enumerateCredentials(FALSE, None)
    <2>1. FALSE \in BOOLEAN /\ None \in Rps \cup {None}
      OBVIOUS
    <2> QED
      BY <1>6, <2>1, EnumerateCredentialsInv, Zenon
  <1>7. ASSUME CM_Authorized, NEW keys, NEW account \in Range(slot), CM_deleteCredential(keys, account)
        PROVE  Inv' /\ StepOK
    BY <1>7, DeleteCredentialInv
  <1> QED
    BY <1>2, <1>3, <1>4, <1>5, <1>6, <1>7, Zenon DEF CredentialManagement

----------------------------------------------------------------------------
(* The other commands. *)

LEMMA ResetInv ==
    ASSUME Inv, NEW uptime \in Uptimes, NEW wait \in TouchWaits, Reset(uptime, wait)
    PROVE  Inv' /\ StepOK
  <1>1. Parts /\ SlotTyped
    BY InvParts DEF Parts
  <1>2. UNCHANGED <<ga, enum>> /\ ShownKept
    BY Zenon DEF Reset
  <1>3. WalkTyped' /\ CdhAgrees' /\ EnumTyped'
    BY <1>1, <1>2, GaStays
  <1>4. "NOT_ALLOWED" \in Errors /\ "NO_TOUCH" \in Errors
    BY DEF Errors
  <1>5. CASE (Fail("NOT_ALLOWED") \/ Fail("NO_TOUCH")) /\ UNCHANGED <<slot, session>>
    <2>1. reply' \in Replies /\ reply'.cmd = "query"
      BY <1>4, <1>5, FailType
    <2>2. slot' = slot /\ UNCHANGED session
      BY <1>5, Zenon
    <2>3. SlotTyped' /\ NoDuplicates' /\ SessionTyped'
      BY <1>1, <2>2, SlotsStay, SessionStays
    <2>4. ShownTyped' /\ WalkPrefix' /\ RpsPrefix' /\ CredsPrefix'
      BY <1>1, <1>2, <2>3, ShownKeptInv
    <2>5. Inv'
      BY <1>3, <2>1, <2>3, <2>4, InvPartsNext DEF Parts
    <2>6. StepOK
      BY <2>1, <2>2, QuietStep
    <2> QED
      BY <2>5, <2>6
  <1>6. CASE /\ slot' = [s \in Slots |-> None]
             /\ Session!FactoryReset
             /\ reply' = [NoReply EXCEPT !.cmd = "Reset", !.received = uptime,
                                         !.erased = uptime + wait]
    <2>1. uptime \in Nat /\ uptime + wait \in Nat
      BY UptimesAssumption
    <2>2. reply' \in Replies /\ reply'.cmd = "Reset"
      BY <1>6, <2>1 DEF NoReply, Replies
    <2>3. SlotTyped'
      BY <1>6 DEF SlotTyped
    <2>4. NoDuplicates'
      <3>1. UsedIn(slot') = {}
        BY <1>6 DEF UsedIn
      <3> QED
        BY <3>1 DEF NoDuplicates
    <2>5. SessionTyped'
      BY <1>1, <1>6, Zenon DEF Parts, SessionTyped, Session!FactoryReset
    <2>6. ShownTyped' /\ WalkPrefix' /\ RpsPrefix' /\ CredsPrefix'
      BY <1>1, <1>2, <2>3, ShownKeptInv
    <2>7. Inv'
      BY <1>3, <2>2, <2>3, <2>4, <2>5, <2>6, InvPartsNext DEF Parts
    <2>8. StepOK
      BY <2>2 DEF StepOK, SignsStep, ProtectsStep
    <2> QED
      BY <2>7, <2>8
  <1> QED
    BY <1>5, <1>6, Zenon DEF Reset

LEMMA ClientPINInv ==
    ASSUME Inv, NEW h \in Hosts, ClientPIN(h)
    PROVE  Inv' /\ StepOK
  <1>1. Parts
    BY InvParts
  <1>2. /\ slot' = slot /\ UNCHANGED <<ga, walk>> /\ UNCHANGED <<enum, rpsShown, credsShown>>
        /\ walk' = walk /\ rpsShown' = rpsShown /\ credsShown' = credsShown
    BY Zenon DEF ClientPIN, shown
  <1>3. SlotTyped' /\ NoDuplicates' /\ WalkTyped' /\ CdhAgrees' /\ WalkPrefix'
        /\ EnumTyped' /\ RpsPrefix' /\ CredsPrefix'
    BY <1>1, <1>2, SlotsStay, WalkStays, EnumStays
  <1>4. ShownTyped'
    BY <1>1, <1>2, Zenon DEF Parts, ShownTyped
  <1>5. SessionTyped'
    <2>1. SessionTyped
      BY <1>1 DEF Parts
    <2>2. CASE Session!Agree(h)
      BY <2>1, <2>2, Zenon DEF SessionTyped, Session!Agree
    <2>3. CASE Session!SetPin(h)
      BY <2>1, <2>3, Zenon DEF SessionTyped, Session!SetPin
    <2>4. CASE Session!Issue(h)
      BY <2>1, <2>4, Zenon DEF SessionTyped, Session!Issue
    <2> QED
      BY <2>2, <2>3, <2>4, Zenon DEF ClientPIN
  <1>6. reply' \in Replies /\ reply'.cmd = "query"
    BY SucceedType DEF ClientPIN
  <1>7. Inv'
    BY <1>3, <1>4, <1>5, <1>6, InvPartsNext DEF Parts
  <1>8. StepOK
    BY <1>2, <1>6, QuietStep
  <1> QED
    BY <1>7, <1>8

LEMMA PowerCycleInv ==
    ASSUME Inv, PowerCycle
    PROVE  Inv' /\ StepOK
  <1>1. Parts
    BY InvParts
  <1>2. /\ slot' = slot /\ reply' = NoReply
        /\ g_ga_rp_hash' = None /\ g_ga_count' = 0 /\ g_ga_idx' = 0 /\ g_ga_cdh' = None
        /\ g_enum_rp_idx' = 0 /\ g_enum_rp_hash' = None /\ g_enum_cred_idx' = 0
        /\ walk' = None /\ rpsShown' = None /\ credsShown' = None
    BY Zenon DEF PowerCycle
  <1>3. SlotTyped' /\ NoDuplicates'
    BY <1>1, <1>2, SlotsStay
  <1>4. SessionTyped'
    BY <1>1, Zenon DEF Parts, SessionTyped, PowerCycle, Session!PowerCycle
  <1>5. WalkTyped' /\ EnumTyped'
    BY <1>2, SlotsAssumption DEF WalkTyped, EnumTyped
  <1>6. CdhAgrees' /\ ShownTyped' /\ WalkPrefix' /\ RpsPrefix' /\ CredsPrefix'
    BY <1>2, Zenon DEF CdhAgrees, ShownTyped, WalkPrefix, RpsPrefix, CredsPrefix
  <1>7. reply' \in Replies /\ reply'.cmd = "none"
    BY <1>2, NoReplyType DEF NoReply
  <1>8. Inv'
    BY <1>3, <1>4, <1>5, <1>6, <1>7, InvPartsNext DEF Parts
  <1>9. StepOK
    BY <1>2, <1>7, QuietStep
  <1> QED
    BY <1>8, <1>9

LEMMA InitInv == Init => Inv
  <1> SUFFICES ASSUME Init PROVE Inv
    OBVIOUS
  <1>1. SlotTyped
    BY DEF Init, SlotTyped
  <1>2. NoDuplicates
    BY DEF Init, NoDuplicates, UsedIn
  <1>3. SessionTyped
    BY Zenon DEF Init, SessionTyped, Session!Init
  <1>4. WalkTyped /\ EnumTyped
    BY SlotsAssumption DEF Init, WalkTyped, EnumTyped
  <1>5. CdhAgrees /\ ShownTyped /\ WalkPrefix /\ RpsPrefix /\ CredsPrefix
    BY Zenon DEF Init, CdhAgrees, ShownTyped, WalkPrefix, RpsPrefix, CredsPrefix
  <1>6. reply \in Replies
    BY NoReplyType DEF Init
  <1> QED
    BY <1>1, <1>2, <1>3, <1>4, <1>5, <1>6, InvParts DEF Parts

LEMMA NextInv ==
    ASSUME Inv, Next
    PROVE  Inv' /\ StepOK
  <1>1. ASSUME NEW rp \in Rps, NEW cdh \in {rp, None}, NEW allowList, GetAssertion(rp, allowList, cdh)
        PROVE  Inv' /\ StepOK
    BY <1>1, GetAssertionInv
  <1>2. ASSUME NEW uptime \in Uptimes, NEW wait \in TouchWaits, Reset(uptime, wait)
        PROVE  Inv' /\ StepOK
    BY <1>2, ResetInv
  <1>3. CASE OtherCommand
    <2>1. "INVALID_COMMAND" \in Errors
      BY DEF Errors
    <2> QED
      BY <1>3, <2>1, FailedCommand, QueryCommand DEF OtherCommand
  <1>4. ASSUME NEW h \in Hosts, ClientPIN(h)
        PROVE  Inv' /\ StepOK
    BY <1>4, ClientPINInv
  <1> QED
    BY <1>1, <1>2, <1>3, <1>4, MakeCredentialInv, CredentialManagementInv, GetNextAssertionInv,
       PowerCycleInv, Zenon DEF Next

LEMMA StutterInv == Inv /\ UNCHANGED vars => Inv'
  <1> SUFFICES ASSUME Inv, UNCHANGED vars PROVE Inv'
    OBVIOUS
  <1>1. NoEffect /\ reply' = reply
    BY Zenon DEF vars, NoEffect
  <1>2. reply' \in Replies
    BY <1>1, InvParts
  <1> QED
    BY <1>1, <1>2, ReplyOnly

----------------------------------------------------------------------------
(* The theorems. *)

(* Commands of any number of hosts, in any order, with failed touches,     *)
(* resets and power cycles, keep the invariant.                            *)
THEOREM InvInvariant == Spec => []Inv
  <1>1. Inv /\ [Next]_vars => Inv'
    BY NextInv, StutterInv
  <1> QED
    BY InitInv, <1>1, PTL DEF Spec

(* Slots, session, indices and histories have their types; in particular   *)
(* g_ga_idx stays below g_ga_count while there is a walk.                   *)
THEOREM TypeCorrect == Spec => []TypeOK
  <1>1. Inv => TypeOK
    BY DEF Inv
  <1> QED
    BY InvInvariant, <1>1, PTL

(* The walk of GetNextAssertion shows each account of its relying party    *)
(* once, for any store, while no wait fails and their slots stay.          *)
THEOREM WalkCorrect == Spec => []WalkShowsEachOnce
  <1>1. Inv => WalkShowsEachOnce
    <2> SUFFICES ASSUME Inv, walk # None
                 PROVE  /\ IsInjective(walk)
                        /\ Range(walk) \subseteq Stored(g_ga_rp_hash)
                        /\ g_ga_idx + 1 >= g_ga_count => Range(walk) = Stored(g_ga_rp_hash)
      BY Zenon DEF WalkShowsEachOnce
    <2> DEFINE S == SlotsIn(slot, g_ga_rp_hash)
    <2>1. /\ g_ga_count = Cardinality(S) /\ Enumerates(walk, g_ga_idx, S, slot)
          /\ walk \in Seq(Accounts) /\ g_ga_idx \in Nat /\ NoDuplicates
      BY InvParts DEF Parts, WalkPrefix, ShownTyped, WalkTyped
    <2>2. S \in SUBSET Slots /\ \A s, t \in S : slot[s] = slot[t] => s = t
      BY <2>1, ReadSubsets DEF NoDuplicates, SlotsIn
    <2>3. Stored(g_ga_rp_hash) = {slot[s] : s \in S}
      BY SlotReads DEF Stored
    <2> HIDE DEF S
    <2> QED
      BY <2>1, <2>2, <2>3, EnumerationCorrect
  <1> QED
    BY InvInvariant, <1>1, PTL

(* The enumeration of relying parties shows each once, and all of them by  *)
(* its end, while their order stays.                                       *)
THEOREM RpsCorrect == Spec => []EnumeratesRpsOnce
  <1>1. Inv => EnumeratesRpsOnce
    <2> SUFFICES ASSUME Inv, rpsShown # None
                 PROVE  /\ IsInjective(rpsShown)
                        /\ g_enum_rp_idx >= passkey_count_unique_rps =>
                               Range(rpsShown) = {slot[s].rp : s \in Used}
      BY Zenon DEF EnumeratesRpsOnce
    <2> DEFINE F == FirstsIn(slot)
               R == RpIn(slot)
    <2>1. /\ Enumerates(rpsShown, g_enum_rp_idx, F, R)
          /\ rpsShown \in Seq(Rps) /\ g_enum_rp_idx \in Nat /\ SlotTyped
      BY InvParts, SlotsAssumption DEF Parts, RpsPrefix, ShownTyped, EnumTyped
    <2>2. F \in SUBSET Slots
      BY ReadSubsets
    <2>3. \A s \in F : R[s] = slot[s].rp /\ s \in UsedIn(slot) /\ s \in Nat
      BY <2>2, SlotsAreNumbers DEF RpIn, FirstsIn
    <2>4. ASSUME NEW s \in F, NEW t \in F, R[s] = R[t]
          PROVE  s = t
      <3>1. ~(s < t) /\ ~(t < s)
        BY <2>3, <2>4 DEF FirstsIn
      <3> QED
        BY <2>3, <3>1
    <2>5. \A s \in UsedIn(slot) : \E t \in F : R[t] = slot[s].rp
      <3> SUFFICES ASSUME NEW s \in UsedIn(slot) PROVE \E t \in F : R[t] = slot[s].rp
        OBVIOUS
      <3> DEFINE S == SlotsIn(slot, slot[s].rp)
                 t == First(S)
      <3>1. S \in SUBSET Slots /\ s \in S
        BY ReadSubsets DEF SlotsIn
      <3>2. t \in S /\ \A u \in S : ~(u < t)
        BY <3>1, FirstCorrect
      <3> HIDE DEF t
      <3>3. t \in UsedIn(slot) /\ slot[t].rp = slot[s].rp
        BY <3>2 DEF SlotsIn
      <3>4. \A u \in UsedIn(slot) : u < t => slot[u].rp # slot[t].rp
        BY <3>2, <3>3 DEF SlotsIn
      <3>5. t \in F
        BY <3>3, <3>4 DEF FirstsIn
      <3> QED
        BY <2>3, <3>3, <3>5
    <2>6. {R[s] : s \in F} = {slot[s].rp : s \in Used}
      <3>1. Used = UsedIn(slot)
        BY SlotReads
      <3> QED
        BY <2>3, <2>5, <3>1
    <2>7. passkey_count_unique_rps = Cardinality(F) /\ Cardinality(F) \in Nat
      BY <2>2, SlotReads, SlotSetFinite DEF passkey_count_unique_rps
    <2> HIDE DEF F, R
    <2>8. /\ IsInjective(rpsShown)
          /\ g_enum_rp_idx + 1 >= Cardinality(F) => Range(rpsShown) = {R[s] : s \in F}
      BY <2>1, <2>2, <2>4, EnumerationCorrect
    <2>9. g_enum_rp_idx >= passkey_count_unique_rps => g_enum_rp_idx + 1 >= Cardinality(F)
      BY <2>1, <2>7
    <2> QED
      BY <2>6, <2>8, <2>9
  <1> QED
    BY InvInvariant, <1>1, PTL

(* The enumeration of one relying party's credentials shows each once, and *)
(* all of them by its end, while nobody enumerates another one.            *)
THEOREM CredentialsCorrect == Spec => []EnumeratesCredentialsOnce
  <1>1. Inv => EnumeratesCredentialsOnce
    <2> SUFFICES ASSUME Inv, credsShown # None
                 PROVE  /\ IsInjective(credsShown)
                        /\ Range(credsShown) \subseteq Stored(g_enum_rp_hash)
                        /\ g_enum_cred_idx >= passkey_count_for_rp(g_enum_rp_hash) =>
                               Range(credsShown) = Stored(g_enum_rp_hash)
      BY Zenon DEF EnumeratesCredentialsOnce
    <2> DEFINE S == SlotsIn(slot, g_enum_rp_hash)
    <2>1. /\ Enumerates(credsShown, g_enum_cred_idx, S, slot)
          /\ credsShown \in Seq(Accounts) /\ g_enum_cred_idx \in Nat /\ NoDuplicates
      BY InvParts, SlotsAssumption DEF Parts, CredsPrefix, ShownTyped, EnumTyped
    <2>2. S \in SUBSET Slots /\ \A s, t \in S : slot[s] = slot[t] => s = t
      BY <2>1, ReadSubsets DEF NoDuplicates, SlotsIn
    <2>3. Stored(g_enum_rp_hash) = {slot[s] : s \in S}
          /\ passkey_count_for_rp(g_enum_rp_hash) = Cardinality(S) /\ Cardinality(S) \in Nat
      BY <2>2, SlotReads, SlotSetFinite DEF Stored, passkey_count_for_rp
    <2> HIDE DEF S
    <2>4. /\ IsInjective(credsShown) /\ Range(credsShown) \subseteq {slot[s] : s \in S}
          /\ g_enum_cred_idx + 1 >= Cardinality(S) => Range(credsShown) = {slot[s] : s \in S}
      BY <2>1, <2>2, EnumerationCorrect
    <2>5. g_enum_cred_idx >= Cardinality(S) => g_enum_cred_idx + 1 >= Cardinality(S)
      BY <2>1, <2>3
    <2> QED
      BY <2>3, <2>4, <2>5
  <1> QED
    BY InvInvariant, <1>1, PTL

LEMMA EveryStep == Inv /\ [Next]_vars => [StepOK]_vars
  BY NextInv

(* An assertion is by a stored account of the relying party it names and   *)
(* never signs the challenge of another one.                               *)
THEOREM SignsCorrect == Spec => SignsOneRequest
  <1>1. Inv /\ [Next]_vars =>
            [reply'.cmd = "GetAssertion" =>
               reply'.account \in Stored(reply'.rp) /\ reply'.cdh \in {reply'.rp, None}]_vars
    BY EveryStep DEF StepOK, SignsStep
  <1> QED
    BY InvInvariant, <1>1, PTL DEF Spec, SignsOneRequest

(* An account is lost only to a reset or to a deletion that names it, and  *)
(* once a PIN is set to none without the token.                            *)
THEOREM AccountsCorrect == Spec => AccountsProtected
  <1>1. Inv /\ [Next]_vars =>
            [\A s \in Used : slot'[s] # slot[s] =>
               \/ reply'.cmd = "Reset"
               \/ /\ reply'.cmd = "delete" /\ reply'.account = slot[s]
                  /\ pinSet => holder # None]_vars
    BY EveryStep DEF StepOK, ProtectsStep
  <1> QED
    BY InvInvariant, <1>1, PTL DEF Spec, AccountsProtected

=============================================================================
