------------------------------ MODULE SeqProofs -----------------------------
(***************************************************************************)
(* What Pick returns, and what joining, cutting and flattening sequences   *)
(* does to their elements, for sequences of any length.                    *)
(*                                                                         *)
(* A sequence of indexes is determined by which indexes are in it and that *)
(* they increase, so two picks are the same as soon as their indexes       *)
(* correspond.  FlattenSeq is recursive in the community modules: what it  *)
(* does to one sequence more follows from the least counterexample.        *)
(***************************************************************************)
EXTENDS Picks, Integers, SequencesExt, SequenceTheorems, WellFoundedInduction, TLAPS

\* Every set of naturals that is not empty has a least member.
LEMMA Least ==
    ASSUME NEW S \in SUBSET Nat, S /= {}
    PROVE  \E m \in S : \A k \in S : m <= k
<1> DEFINE R == OpToRel(<, Nat)
<1>1. IsWellFoundedOn(R, Nat)
  BY NatLessThanWellFounded
<1>2. \A x, y \in Nat : x < y => <<x, y>> \in R
  BY DEF OpToRel
<1> HIDE DEF R
<1>3. PICK m \in S : \A k \in S : ~(<<k, m>> \in R)
  BY <1>1, WFMin
<1>4. \A k \in S : m <= k
  <2> SUFFICES ASSUME NEW k \in S PROVE m <= k
    OBVIOUS
  <2>1. m \in Nat /\ k \in Nat /\ ~(k < m)
    BY <1>2, <1>3
  <2> QED BY <2>1
<1> QED BY <1>4

-----------------------------------------------------------------------------
(* Indexes. *)

\* The function Indexes computes with: the indexes up to m, for every m.
IndexesTo(n, P) ==
    CHOOSE f : f = [m \in 0 .. n |->
                      IF m = 0 THEN << >>
                      ELSE IF m \in P THEN Append(f[m - 1], m) ELSE f[m - 1]]

\* What Indexes makes of it.
LEMMA IndexesAre == ASSUME NEW n, NEW P PROVE Indexes(n, P) = IndexesTo(n, P)[n]
  BY Zenon DEF Indexes, IndexesTo

\* f lists the indexes up to m, for every m up to n.
IsIndexesTo(f, n, P) ==
    f = [m \in 0 .. n |->
           IF m = 0 THEN << >>
           ELSE IF m \in P THEN Append(f[m - 1], m) ELSE f[m - 1]]

\* There is such a function for every n.
LEMMA IndexesExist ==
    ASSUME NEW P, NEW n \in Nat
    PROVE  \E f : IsIndexesTo(f, n, P)
<1> DEFINE Bad == {k \in Nat : ~ \E f : IsIndexesTo(f, k, P)}
<1> SUFFICES ASSUME Bad /= {} PROVE FALSE
  OBVIOUS
<1>1. PICK m \in Bad : \A k \in Bad : m <= k
  BY Least
<1>2. m \in Nat /\ ~ \E f : IsIndexesTo(f, m, P)
  OBVIOUS
<1>3. m /= 0
  <2>1. IsIndexesTo([k \in 0 .. 0 |-> << >>], 0, P)
    BY DEF IsIndexesTo
  <2> QED BY <1>2, <2>1
<1>4. m - 1 \in Nat /\ m - 1 \notin Bad
  BY <1>1, <1>2, <1>3
<1>5. PICK g : IsIndexesTo(g, m - 1, P)
  BY <1>4
<1> DEFINE last == IF m \in P THEN Append(g[m - 1], m) ELSE g[m - 1]
           f == [k \in 0 .. m |-> IF k = m THEN last ELSE g[k]]
<1> HIDE DEF last
<1>6. \A k \in 0 .. m - 1 : f[k] = g[k]
  BY <1>2
<1>7. ASSUME NEW k \in 0 .. m
      PROVE  f[k] = IF k = 0 THEN << >> ELSE IF k \in P THEN Append(f[k - 1], k) ELSE f[k - 1]
  <2>1. CASE k = 0
    <3>1. 0 \in 0 .. m - 1
      BY <1>2, <1>3
    <3>2. g[0] = << >>
      BY <1>5, <3>1 DEF IsIndexesTo
    <3> QED BY <1>6, <2>1, <3>1, <3>2
  <2>2. CASE k = m
    <3>1. m - 1 \in 0 .. m - 1 /\ k - 1 = m - 1
      BY <1>2, <1>3, <2>2
    <3> QED BY <1>3, <1>6, <2>2, <3>1 DEF last
  <2>3. CASE k /= 0 /\ k /= m
    <3>1. k \in 0 .. m - 1 /\ k - 1 \in 0 .. m - 1
      BY <1>2, <2>3
    <3>2. g[k] = IF k \in P THEN Append(g[k - 1], k) ELSE g[k - 1]
      BY <1>5, <2>3, <3>1 DEF IsIndexesTo
    <3> QED BY <1>6, <2>3, <3>1, <3>2
  <2> QED BY <2>1, <2>2, <2>3
<1>8. IsIndexesTo(f, m, P)
  BY <1>7 DEF IsIndexesTo
<1> QED BY <1>2, <1>8

\* So the recursion holds of the chosen one.
LEMMA IndexesStep ==
    ASSUME NEW P, NEW n \in Nat
    PROVE  \A m \in 0 .. n : IndexesTo(n, P)[m] =
              IF m = 0 THEN << >>
              ELSE IF m \in P THEN Append(IndexesTo(n, P)[m - 1], m) ELSE IndexesTo(n, P)[m - 1]
<1>1. IndexesTo(n, P) = CHOOSE f : IsIndexesTo(f, n, P)
  BY DEF IsIndexesTo, IndexesTo
<1>2. IsIndexesTo(IndexesTo(n, P), n, P)
  BY <1>1, IndexesExist
<1> QED BY <1>2 DEF IsIndexesTo

\* o lists the members of P from 1 to n, and they increase.
Enumerates(o, n, P) ==
    /\ o \in Seq(1 .. n)
    /\ \A j, k \in DOMAIN o : j < k => o[j] < o[k]
    /\ \A p \in 1 .. n : p \in P <=> \E k \in DOMAIN o : o[k] = p

\* One more place that is in P, and one that is not.
LEMMA EnumerateMore ==
    ASSUME NEW P, NEW m \in Nat \ {0}, NEW o, Enumerates(o, m - 1, P)
    PROVE  Enumerates(IF m \in P THEN Append(o, m) ELSE o, m, P)
<1>1. /\ o \in Seq(1 .. m) /\ Len(o) \in Nat /\ DOMAIN o = 1 .. Len(o)
      /\ \A k \in 1 .. Len(o) : o[k] \in 1 .. m - 1
  BY DEF Enumerates
<1>2. \A p \in 1 .. m : p = m \/ p \in 1 .. m - 1
  OBVIOUS
<1>3. CASE m \in P
  <2> DEFINE a == Append(o, m)
  <2>1. /\ a \in Seq(1 .. m) /\ Len(a) = Len(o) + 1 /\ DOMAIN a = 1 .. Len(o) + 1
        /\ a[Len(o) + 1] = m /\ \A k \in 1 .. Len(o) : a[k] = o[k]
    BY <1>1
  <2> HIDE DEF a
  <2>2. ASSUME NEW j \in DOMAIN a, NEW k \in DOMAIN a, j < k PROVE a[j] < a[k]
    <3>1. j \in 1 .. Len(o) /\ a[j] = o[j] /\ o[j] \in 1 .. m - 1
      BY <1>1, <2>1, <2>2
    <3>2. CASE k = Len(o) + 1
      BY <2>1, <3>1, <3>2
    <3>3. CASE k /= Len(o) + 1
      <4>1. k \in 1 .. Len(o)
        BY <1>1, <2>1, <3>3
      <4> QED BY <1>1, <2>1, <2>2, <3>1, <4>1 DEF Enumerates
    <3> QED BY <3>2, <3>3
  <2>3. ASSUME NEW p \in 1 .. m PROVE p \in P <=> \E k \in DOMAIN a : a[k] = p
    <3>1. CASE p = m
      BY <1>1, <1>3, <2>1, <3>1
    <3>2. CASE p /= m
      <4>1. p \in 1 .. m - 1
        BY <3>2
      <4>2. p \in P <=> \E k \in 1 .. Len(o) : o[k] = p
        BY <1>1, <4>1 DEF Enumerates
      <4>3. \A k \in DOMAIN a : k = Len(o) + 1 \/ k \in 1 .. Len(o)
        BY <1>1, <2>1
      <4>4. 1 .. Len(o) \subseteq DOMAIN a
        BY <1>1, <2>1
      <4> QED BY <2>1, <3>2, <4>2, <4>3, <4>4
    <3> QED BY <3>1, <3>2
  <2> QED BY <1>3, <2>1, <2>2, <2>3 DEF Enumerates, a
<1>4. CASE m \notin P
  <2>1. ASSUME NEW p \in 1 .. m PROVE p \in P <=> \E k \in DOMAIN o : o[k] = p
    <3>1. CASE p = m
      BY <1>1, <1>4, <3>1
    <3>2. CASE p /= m
      BY <1>2, <3>2 DEF Enumerates
    <3> QED BY <3>1, <3>2
  <2> QED BY <1>1, <1>4, <2>1 DEF Enumerates
<1> QED BY <1>3, <1>4

\* Indexes enumerates.
LEMMA IndexesEnumerate ==
    ASSUME NEW P, NEW n \in Nat
    PROVE  Enumerates(Indexes(n, P), n, P)
<1> DEFINE Bad == {m \in 0 .. n : ~Enumerates(IndexesTo(n, P)[m], m, P)}
<1>1. Bad = {}
  <2> SUFFICES ASSUME Bad /= {} PROVE FALSE
    OBVIOUS
  <2>0. Bad \in SUBSET Nat
    OBVIOUS
  <2>1. PICK m \in Bad : \A k \in Bad : m <= k
    BY <2>0, Least
  <2>2. m \in 0 .. n /\ ~Enumerates(IndexesTo(n, P)[m], m, P)
    OBVIOUS
  <2>3. m /= 0
    <3>1. IndexesTo(n, P)[0] = << >>
      BY IndexesStep
    <3>2. Enumerates(<< >>, 0, P)
      BY DEF Enumerates
    <3> QED BY <2>2, <3>1, <3>2
  <2>4. m - 1 \in 0 .. n /\ m - 1 \notin Bad /\ m \in Nat \ {0}
    BY <2>1, <2>2, <2>3
  <2>5. Enumerates(IndexesTo(n, P)[m - 1], m - 1, P)
    BY <2>4
  <2>6. IndexesTo(n, P)[m]
          = IF m \in P THEN Append(IndexesTo(n, P)[m - 1], m) ELSE IndexesTo(n, P)[m - 1]
    BY <2>2, <2>3, IndexesStep
  <2> QED BY <2>2, <2>4, <2>5, <2>6, EnumerateMore
<1>2. n \in 0 .. n
  OBVIOUS
<1>3. Enumerates(IndexesTo(n, P)[n], n, P)
  BY <1>1, <1>2
<1> QED BY <1>3, IndexesAre

\* Where one enumeration is of no smaller indexes than the other, up to the k-th.
LEMMA NoneBefore ==
    ASSUME NEW P, NEW n \in Nat, NEW a, NEW b, Enumerates(a, n, P), Enumerates(b, n, P),
           NEW m \in DOMAIN a, m \in DOMAIN b,
           \A k \in 1 .. m - 1 : a[k] = b[k]
    PROVE  ~(a[m] < b[m])
<1> SUFFICES ASSUME a[m] < b[m] PROVE FALSE
  OBVIOUS
<1>1. /\ DOMAIN a = 1 .. Len(a) /\ DOMAIN b = 1 .. Len(b) /\ Len(a) \in Nat /\ Len(b) \in Nat
      /\ a[m] \in 1 .. n /\ b[m] \in 1 .. n
  BY DEF Enumerates
<1>2. a[m] \in P
  BY <1>1 DEF Enumerates
<1>3. PICK j \in DOMAIN b : b[j] = a[m]
  BY <1>1, <1>2 DEF Enumerates
<1>4. CASE j < m
  <2>1. j \in 1 .. m - 1 /\ j \in DOMAIN a
    BY <1>1, <1>4
  <2>2. a[j] < a[m] /\ a[j] = b[j]
    BY <1>4, <2>1 DEF Enumerates
  <2> QED BY <1>1, <1>3, <2>2
<1>5. CASE j = m
  BY <1>1, <1>3, <1>5
<1>6. CASE m < j
  <2>1. b[m] < b[j]
    BY <1>6 DEF Enumerates
  <2> QED BY <1>1, <1>3, <2>1
<1> QED BY <1>1, <1>4, <1>5, <1>6

\* Nor has it more of them.
LEMMA NoneBehind ==
    ASSUME NEW P, NEW n \in Nat, NEW a, NEW b, Enumerates(a, n, P), Enumerates(b, n, P),
           \A k \in DOMAIN a : k \in DOMAIN b => a[k] = b[k]
    PROVE  ~(Len(a) < Len(b))
<1> SUFFICES ASSUME Len(a) < Len(b) PROVE FALSE
  OBVIOUS
<1>1. /\ DOMAIN a = 1 .. Len(a) /\ DOMAIN b = 1 .. Len(b) /\ Len(a) \in Nat /\ Len(b) \in Nat
  BY DEF Enumerates
<1>2. Len(a) + 1 \in DOMAIN b
  BY <1>1
<1>3. b[Len(a) + 1] \in 1 .. n /\ b[Len(a) + 1] \in P
  BY <1>2 DEF Enumerates
<1>4. PICK j \in DOMAIN a : a[j] = b[Len(a) + 1]
  BY <1>3 DEF Enumerates
<1>5. j \in DOMAIN b /\ j < Len(a) + 1
  BY <1>1
<1>6. a[j] = b[j] /\ b[j] < b[Len(a) + 1]
  BY <1>2, <1>5 DEF Enumerates
<1>7. a[j] \in 1 .. n
  BY DEF Enumerates
<1> QED BY <1>4, <1>6, <1>7

\* There is only one enumeration.
LEMMA OneEnumeration ==
    ASSUME NEW P, NEW n \in Nat, NEW a, NEW b, Enumerates(a, n, P), Enumerates(b, n, P)
    PROVE  a = b
<1> DEFINE Bad == {k \in DOMAIN a : k \in DOMAIN b /\ a[k] /= b[k]}
<1>1. /\ a \in Seq(1 .. n) /\ b \in Seq(1 .. n)
      /\ DOMAIN a = 1 .. Len(a) /\ DOMAIN b = 1 .. Len(b) /\ Len(a) \in Nat /\ Len(b) \in Nat
  BY DEF Enumerates
<1>2. Bad = {}
  <2> SUFFICES ASSUME Bad /= {} PROVE FALSE
    OBVIOUS
  <2>0. Bad \in SUBSET Nat
    BY <1>1
  <2>1. PICK m \in Bad : \A k \in Bad : m <= k
    BY <2>0, Least
  <2>2. m \in DOMAIN a /\ m \in DOMAIN b /\ a[m] /= b[m] /\ m \in Nat
    BY <1>1
  <2>3. ASSUME NEW k \in 1 .. m - 1 PROVE a[k] = b[k]
    <3>1. k \in DOMAIN a /\ k \in DOMAIN b /\ k < m
      BY <1>1, <2>2
    <3>2. k \notin Bad
      BY <2>1, <2>2, <3>1
    <3> QED BY <3>1, <3>2
  <2>4. ~(a[m] < b[m])
    BY <2>2, <2>3, NoneBefore
  <2>5. ~(b[m] < a[m])
    BY <2>2, <2>3, NoneBefore
  <2>6. a[m] \in 1 .. n /\ b[m] \in 1 .. n
    BY <1>1, <2>2
  <2> QED BY <2>2, <2>4, <2>5, <2>6
<1>3. \A k \in DOMAIN a : k \in DOMAIN b => a[k] = b[k]
  BY <1>2
<1>4. ~(Len(a) < Len(b)) /\ ~(Len(b) < Len(a))
  <2>1. ~(Len(a) < Len(b))
    BY <1>3, NoneBehind
  <2>2. \A k \in DOMAIN b : k \in DOMAIN a => b[k] = a[k]
    BY <1>3
  <2>3. ~(Len(b) < Len(a))
    BY <2>2, NoneBehind
  <2> QED BY <2>1, <2>3
<1>5. Len(a) = Len(b)
  <2>1. \A x, y \in Nat : ~(x < y) /\ ~(y < x) => x = y
    OBVIOUS
  <2> QED BY ONLY <1>1, <1>4, <2>1
<1> QED BY <1>1, <1>3, <1>5, SeqEqual

-----------------------------------------------------------------------------
(* Picks. *)

\* A pick is as long as its indexes, and has the members at them.
LEMMA PickIs ==
    ASSUME NEW s, Len(s) \in Nat, NEW P
    PROVE  /\ Enumerates(Indexes(Len(s), P), Len(s), P)
           /\ DOMAIN Pick(s, P) = DOMAIN Indexes(Len(s), P)
           /\ DOMAIN Pick(s, P) = 1 .. Len(Pick(s, P)) /\ Len(Pick(s, P)) \in Nat
           /\ \A k \in DOMAIN Pick(s, P) :
                 /\ Pick(s, P)[k] = s[Indexes(Len(s), P)[k]]
                 /\ Indexes(Len(s), P)[k] \in 1 .. Len(s) /\ Indexes(Len(s), P)[k] \in P
<1> DEFINE n == Len(s)  o == Indexes(n, P)
<1>1. Enumerates(o, n, P)
  BY IndexesEnumerate
<1>2. o \in Seq(1 .. n) /\ DOMAIN o = 1 .. Len(o) /\ Len(o) \in Nat
  BY <1>1 DEF Enumerates
<1>3. Pick(s, P) = [k \in 1 .. Len(o) |-> s[o[k]]]
  BY <1>2 DEF Pick
<1>4. Len(Pick(s, P)) = Len(o)
  BY <1>2, <1>3
<1>5. \A k \in 1 .. Len(o) : o[k] \in 1 .. n /\ o[k] \in P
  BY <1>1, <1>2 DEF Enumerates
<1> HIDE DEF o
<1> QED BY <1>1, <1>2, <1>3, <1>4, <1>5 DEF o

\* A pick of members of a set is a sequence over it.
LEMMA PickType ==
    ASSUME NEW s, Len(s) \in Nat, NEW T, \A k \in 1 .. Len(s) : s[k] \in T, NEW P
    PROVE  Pick(s, P) \in Seq(T)
<1>1. PICK r : r = Pick(s, P)
  OBVIOUS
<1>2. /\ DOMAIN r = 1 .. Len(r) /\ Len(r) \in Nat
      /\ \A k \in DOMAIN r : r[k] \in T
  BY <1>1, PickIs
<1>3. r = [k \in 1 .. Len(r) |-> r[k]]
  <2>1. r = [k \in DOMAIN r |-> r[k]]
    BY <1>1 DEF Pick
  <2> QED BY <1>2, <2>1
<1> QED BY <1>1, <1>2, <1>3

\* The indexes of a sequence that go up, from 1 .. n to 1 .. m.
Rises(g, n, m) ==
    /\ \A k \in 1 .. n : g[k] \in 1 .. m
    /\ \A j, k \in 1 .. n : j < k => g[j] < g[k]

\* Two sequences of which one has the other's members, in their order: the same
\* is picked from both at indexes that correspond.
LEMMA PickThrough ==
    ASSUME NEW s, Len(s) \in Nat, NEW t, Len(t) \in Nat, NEW P, NEW Q,
           NEW g, Rises(g, Len(t), Len(s)),
           \A k \in 1 .. Len(t) : k \in Q => s[g[k]] = t[k] /\ g[k] \in P,
           \A p \in 1 .. Len(s) : p \in P => \E k \in 1 .. Len(t) : k \in Q /\ g[k] = p
    PROVE  Pick(s, P) = Pick(t, Q)
<1> DEFINE n == Len(s)  m == Len(t)  o == Indexes(m, Q)  w == [k \in DOMAIN o |-> g[o[k]]]
<1>1. Enumerates(o, m, Q)
  BY IndexesEnumerate
<1>2. /\ o \in Seq(1 .. m) /\ DOMAIN o = 1 .. Len(o) /\ Len(o) \in Nat
      /\ \A k \in 1 .. Len(o) : o[k] \in 1 .. m /\ o[k] \in Q
      /\ \A j, k \in 1 .. Len(o) : j < k => o[j] < o[k]
  BY <1>1 DEF Enumerates
<1>3. \A k \in 1 .. m : k \in Q => \E j \in 1 .. Len(o) : o[j] = k
  BY <1>1, <1>2 DEF Enumerates
<1> HIDE DEF o
<1>4. Enumerates(w, n, P)
  <2>1. \A k \in 1 .. Len(o) : w[k] \in 1 .. n /\ w[k] \in P
    BY <1>2 DEF Rises
  <2>2. w \in Seq(1 .. n) /\ DOMAIN w = 1 .. Len(o)
    BY <1>2, <2>1
  <2>3. \A j, k \in 1 .. Len(o) : j < k => w[j] < w[k]
    BY <1>2 DEF Rises
  <2>4. ASSUME NEW p \in 1 .. n, p \in P PROVE \E k \in 1 .. Len(o) : w[k] = p
    <3>1. PICK q \in 1 .. m : q \in Q /\ g[q] = p
      BY <2>4
    <3>2. PICK k \in 1 .. Len(o) : o[k] = q
      BY <1>3, <3>1
    <3> QED BY <1>2, <3>1, <3>2
  <2> HIDE DEF w
  <2> QED BY <2>1, <2>2, <2>3, <2>4 DEF Enumerates
<1>5. Indexes(n, P) = w
  <2>1. Enumerates(Indexes(n, P), n, P)
    BY IndexesEnumerate
  <2> QED BY <1>4, <2>1, OneEnumeration
<1>6. Pick(s, P) = [k \in 1 .. Len(o) |-> s[w[k]]]
  BY <1>2, <1>5 DEF Pick
<1>7. Pick(t, Q) = [k \in 1 .. Len(o) |-> t[o[k]]]
  BY <1>2 DEF Pick, o
<1>8. \A k \in 1 .. Len(o) : s[w[k]] = t[o[k]]
  BY <1>2
<1> HIDE DEF w
<1> QED BY <1>6, <1>7, <1>8

\* Nothing is picked exactly when no place is.
LEMMA PickNone ==
    ASSUME NEW s, Len(s) \in Nat, NEW P
    PROVE  Pick(s, P) = << >> <=> \A p \in 1 .. Len(s) : p \notin P
<1>1. PICK o : o = Indexes(Len(s), P)
  OBVIOUS
<1>2. Enumerates(o, Len(s), P) /\ DOMAIN o = 1 .. Len(o) /\ Len(o) \in Nat
  BY <1>1, IndexesEnumerate DEF Enumerates
<1>3. PICK r : r = Pick(s, P)
  OBVIOUS
<1>4. DOMAIN r = 1 .. Len(o) /\ r = [k \in DOMAIN o |-> s[o[k]]]
  BY <1>1, <1>2, <1>3 DEF Pick
<1>5. r = << >> <=> Len(o) = 0
  BY <1>2, <1>4
<1>6. Len(o) = 0 <=> \A p \in 1 .. Len(s) : p \notin P
  <2>1. ASSUME Len(o) = 0 PROVE \A p \in 1 .. Len(s) : p \notin P
    BY <1>2, <2>1 DEF Enumerates
  <2>2. ASSUME Len(o) /= 0 PROVE \E p \in 1 .. Len(s) : p \in P
    <3>1. 1 \in DOMAIN o
      BY <1>2, <2>2
    <3>2. o[1] \in 1 .. Len(s) /\ o[1] \in P
      BY <1>2, <3>1 DEF Enumerates
    <3> QED BY <3>2
  <2> QED BY <2>1, <2>2
<1> QED BY <1>3, <1>5, <1>6

\* The first pick is at the least place.
LEMMA PickFirst ==
    ASSUME NEW s, Len(s) \in Nat, NEW P, NEW p \in 1 .. Len(s), p \in P,
           \A q \in 1 .. p - 1 : q \notin P
    PROVE  Pick(s, P) /= << >> /\ Pick(s, P)[1] = s[p]
<1>1. PICK o : o = Indexes(Len(s), P)
  OBVIOUS
<1>2. Enumerates(o, Len(s), P) /\ DOMAIN o = 1 .. Len(o) /\ Len(o) \in Nat
  BY <1>1, IndexesEnumerate DEF Enumerates
<1>3. PICK k \in 1 .. Len(o) : o[k] = p
  BY <1>2 DEF Enumerates
<1>4. 1 \in 1 .. Len(o) /\ o[1] \in 1 .. Len(s) /\ o[1] \in P
  <2>1. 1 \in 1 .. Len(o)
    BY <1>2
  <2> QED BY <1>2, <2>1 DEF Enumerates
<1>5. o[1] = p
  <2>1. ~(1 < k)
    <3> SUFFICES ASSUME 1 < k PROVE FALSE
      OBVIOUS
    <3>1. o[1] < p
      BY <1>2, <1>3, <1>4 DEF Enumerates
    <3>2. o[1] \in 1 .. p - 1
      BY <1>4, <3>1
    <3> QED BY <1>4, <3>2
  <2> QED BY <1>2, <1>3, <2>1
<1>6. Pick(s, P)[1] = s[p]
  BY <1>1, <1>2, <1>4, <1>5 DEF Pick
<1>7. Pick(s, P) /= << >>
  BY PickNone
<1> QED BY <1>6, <1>7

\* A single place.
LEMMA PickOne ==
    ASSUME NEW s, Len(s) \in Nat, NEW P, NEW p \in 1 .. Len(s),
           \A q \in 1 .. Len(s) : q \in P <=> q = p
    PROVE  Pick(s, P) = <<s[p]>>
<1> DEFINE o == <<p>>
<1>1. o \in Seq(1 .. Len(s)) /\ DOMAIN o = {1} /\ o[1] = p
  OBVIOUS
<1>2. Enumerates(o, Len(s), P)
  <2>1. \A j, k \in DOMAIN o : j < k => o[j] < o[k]
    BY <1>1
  <2> HIDE DEF o
  <2> QED BY <1>1, <2>1 DEF Enumerates
<1>3. Indexes(Len(s), P) = o
  BY <1>2, IndexesEnumerate, OneEnumeration
<1> HIDE DEF o
<1>4. Pick(s, P) = [k \in {1} |-> s[p]]
  BY <1>1, <1>3 DEF Pick
<1>5. [k \in {1} |-> s[p]] = <<s[p]>>
  OBVIOUS
<1> QED BY <1>4, <1>5

\* Every place.
LEMMA PickAll ==
    ASSUME NEW T, NEW s \in Seq(T), NEW P, \A p \in 1 .. Len(s) : p \in P
    PROVE  Pick(s, P) = s
<1> DEFINE n == Len(s)  o == [k \in 1 .. n |-> k]
<1>1. n \in Nat /\ o \in Seq(1 .. n) /\ Len(o) = n /\ DOMAIN o = 1 .. n /\ \A k \in 1 .. n : o[k] = k
  OBVIOUS
<1> HIDE DEF o
<1>2. Enumerates(o, n, P)
  BY <1>1 DEF Enumerates
<1>3. Indexes(n, P) = o
  BY <1>1, <1>2, IndexesEnumerate, OneEnumeration
<1>4. Pick(s, P) = [k \in 1 .. n |-> s[k]]
  BY <1>1, <1>3 DEF Pick
<1> QED BY <1>4

\* The same indexes, and the same members at them.
LEMMA PickSame ==
    ASSUME NEW s, Len(s) \in Nat, NEW t, Len(t) = Len(s), NEW P, NEW Q,
           \A k \in 1 .. Len(s) : (k \in P <=> k \in Q) /\ (k \in P => s[k] = t[k])
    PROVE  Pick(s, P) = Pick(t, Q)
<1> DEFINE g == [k \in 1 .. Len(t) |-> k]
<1>1. \A k \in 1 .. Len(t) : g[k] = k
  OBVIOUS
<1> HIDE DEF g
<1>2. Rises(g, Len(t), Len(s))
  BY <1>1 DEF Rises
<1> QED BY <1>1, <1>2, PickThrough

\* The indexes of a sequence in the one it is without its p-th member.
Past(p, q) == IF q < p THEN q ELSE q + 1

\* r is s without its p-th member.
Lacks(r, s, p) ==
    /\ p \in 1 .. Len(s) /\ Len(s) \in Nat
    /\ Len(r) = Len(s) - 1
    /\ \A q \in 1 .. Len(r) : r[q] = s[Past(p, q)]

\* Every place but the p-th is one that Past comes to.
LEMMA Skips ==
    ASSUME NEW n \in Nat, NEW p \in 1 .. n
    PROVE  /\ \A q \in 1 .. n - 1 : Past(p, q) \in 1 .. n /\ Past(p, q) /= p
           /\ \A q, r \in 1 .. n - 1 : q < r <=> Past(p, q) < Past(p, r)
           /\ \A k \in 1 .. n : k /= p =>
                 \E q \in 1 .. n - 1 : Past(p, q) = k /\ q = IF k < p THEN k ELSE k - 1
<1>1. \A q \in 1 .. n - 1 : Past(p, q) \in 1 .. n /\ Past(p, q) /= p
  BY DEF Past
<1>2. \A q, r \in 1 .. n - 1 : q < r <=> Past(p, q) < Past(p, r)
  BY DEF Past
<1>3. ASSUME NEW k \in 1 .. n, k /= p
      PROVE  \E q \in 1 .. n - 1 : Past(p, q) = k /\ q = IF k < p THEN k ELSE k - 1
  <2>1. CASE k < p
    <3>1. k \in 1 .. n - 1 /\ Past(p, k) = k
      BY <2>1 DEF Past
    <3> QED BY <2>1, <3>1
  <2>2. CASE ~(k < p)
    <3>1. k - 1 \in 1 .. n - 1 /\ Past(p, k - 1) = k
      BY <1>3, <2>2 DEF Past
    <3> QED BY <2>2, <3>1
  <2> QED BY <2>1, <2>2
<1> QED BY <1>1, <1>2, <1>3

\* What is picked from s is picked from what is left of it, if it is not the
\* member that went.
LEMMA PickRemoved ==
    ASSUME NEW s, NEW r, NEW p, Lacks(r, s, p), NEW P, NEW Q, p \notin P,
           \A q \in 1 .. Len(r) : q \in Q <=> Past(p, q) \in P
    PROVE  Pick(s, P) = Pick(r, Q)
<1>1. /\ Len(s) \in Nat /\ p \in 1 .. Len(s) /\ Len(r) = Len(s) - 1 /\ Len(r) \in Nat
      /\ \A q \in 1 .. Len(r) : r[q] = s[Past(p, q)]
  BY DEF Lacks
<1> DEFINE g == [q \in 1 .. Len(r) |-> Past(p, q)]
<1>2. \A q \in 1 .. Len(r) : g[q] = Past(p, q)
  OBVIOUS
<1> HIDE DEF g
<1>3. Rises(g, Len(r), Len(s))
  <2>1. /\ \A q \in 1 .. Len(s) - 1 : Past(p, q) \in 1 .. Len(s)
        /\ \A q, k \in 1 .. Len(s) - 1 : q < k <=> Past(p, q) < Past(p, k)
    BY <1>1, Skips
  <2> QED BY <1>1, <1>2, <2>1 DEF Rises
<1>4. \A k \in 1 .. Len(r) : k \in Q => s[g[k]] = r[k] /\ g[k] \in P
  BY <1>1, <1>2
<1>5. ASSUME NEW k \in 1 .. Len(s), k \in P PROVE \E q \in 1 .. Len(r) : q \in Q /\ g[q] = k
  <2>1. k /= p
    BY <1>5
  <2>2. PICK q \in 1 .. Len(s) - 1 : Past(p, q) = k
    BY <1>1, <2>1, Skips
  <2> QED BY <1>1, <1>2, <1>5, <2>2
<1>6. Len(s) \in Nat /\ Len(r) \in Nat
  BY <1>1
<1> QED BY ONLY <1>3, <1>4, <1>5, <1>6, PickThrough

\* a is s with one more member.
OneMore(a, s) ==
    /\ Len(s) \in Nat
    /\ Len(a) = Len(s) + 1
    /\ \A q \in 1 .. Len(s) : a[q] = s[q]

\* A member is appended, and it is not picked.
LEMMA PickSkipped ==
    ASSUME NEW s, NEW a, OneMore(a, s), NEW P, NEW Q, Len(a) \notin Q,
           \A q \in 1 .. Len(s) : q \in P <=> q \in Q
    PROVE  Pick(a, Q) = Pick(s, P)
<1>1. /\ Len(s) \in Nat /\ Len(a) = Len(s) + 1 /\ Len(a) \in Nat
      /\ \A q \in 1 .. Len(s) : a[q] = s[q]
  BY DEF OneMore
<1> DEFINE g == [q \in 1 .. Len(s) |-> q]
<1>2. \A q \in 1 .. Len(s) : g[q] = q
  OBVIOUS
<1> HIDE DEF g
<1>3. Rises(g, Len(s), Len(a))
  BY <1>1, <1>2 DEF Rises
<1>4. ASSUME NEW k \in 1 .. Len(a), k \in Q PROVE \E q \in 1 .. Len(s) : q \in P /\ g[q] = k
  <2>1. k \in 1 .. Len(s)
    BY <1>1, <1>4
  <2> QED BY <1>2, <1>4, <2>1
<1> QED BY <1>1, <1>2, <1>3, <1>4, PickThrough

\* A member is appended, and it is picked.
LEMMA PickAppended ==
    ASSUME NEW T, NEW s \in Seq(T), NEW x \in T, NEW P, NEW Q, Len(s) + 1 \in Q,
           \A q \in 1 .. Len(s) : q \in P <=> q \in Q
    PROVE  Pick(Append(s, x), Q) = Append(Pick(s, P), x)
<1> DEFINE n == Len(s)  a == Append(s, x)  o == Indexes(n, P)  w == Append(o, n + 1)
<1>1. /\ n \in Nat /\ a \in Seq(T) /\ Len(a) = n + 1 /\ a[n + 1] = x
      /\ \A q \in 1 .. n : a[q] = s[q]
  BY AppendProperties
<1> HIDE DEF a
<1>2. Enumerates(o, n, P)
  BY <1>1, IndexesEnumerate
<1> HIDE DEF o
<1>3. Enumerates(o, n, Q)
  BY <1>1, <1>2 DEF Enumerates
<1>4. n + 1 \in Nat \ {0} /\ n + 1 - 1 = n
  BY <1>1
<1>5. Enumerates(w, n + 1, Q)
  BY <1>3, <1>4, EnumerateMore
<1>6. Indexes(n + 1, Q) = w
  <2>1. Enumerates(Indexes(n + 1, Q), n + 1, Q)
    BY <1>4, IndexesEnumerate
  <2> QED BY <1>4, <1>5, <2>1, OneEnumeration
<1>7. /\ o \in Seq(1 .. n) /\ Len(o) \in Nat /\ DOMAIN o = 1 .. Len(o)
      /\ \A k \in 1 .. Len(o) : o[k] \in 1 .. n
  BY <1>2 DEF Enumerates
<1>8. /\ DOMAIN w = 1 .. Len(o) + 1 /\ w[Len(o) + 1] = n + 1
      /\ \A k \in 1 .. Len(o) : w[k] = o[k]
  <2>1. o \in Seq(Nat) /\ n + 1 \in Nat
    BY <1>1, <1>7
  <2>2. w \in Seq(Nat) /\ Len(w) = Len(o) + 1 /\ w[Len(o) + 1] = n + 1
        /\ \A k \in 1 .. Len(o) : w[k] = o[k]
    BY <2>1, AppendProperties
  <2> HIDE DEF w
  <2> QED BY <2>2
<1> HIDE DEF w
<1>9. Pick(a, Q) = [k \in 1 .. Len(o) + 1 |-> a[w[k]]]
  BY <1>1, <1>6, <1>8 DEF Pick
<1> DEFINE b == Pick(s, P)
<1>10. b = [k \in 1 .. Len(o) |-> s[o[k]]]
  BY <1>7 DEF Pick, o
<1>11. b \in Seq(T) /\ Len(b) = Len(o) /\ \A k \in 1 .. Len(o) : b[k] = s[o[k]]
  BY <1>7, <1>10
<1> HIDE DEF b
<1>12. /\ Append(b, x) = [k \in 1 .. Len(o) + 1 |-> Append(b, x)[k]]
       /\ Append(b, x)[Len(o) + 1] = x
       /\ \A k \in 1 .. Len(o) : Append(b, x)[k] = b[k]
  <2>1. /\ Append(b, x) \in Seq(T) /\ Len(Append(b, x)) = Len(o) + 1
        /\ Append(b, x)[Len(o) + 1] = x
        /\ \A k \in 1 .. Len(o) : Append(b, x)[k] = b[k]
    BY <1>11, AppendProperties
  <2>2. PICK e \in Seq(T) : e = Append(b, x)
    BY <2>1
  <2>3. e = [k \in 1 .. Len(e) |-> e[k]]
    OBVIOUS
  <2> QED BY <2>1, <2>2, <2>3
<1>13. \A k \in 1 .. Len(o) + 1 : a[w[k]] = Append(b, x)[k]
  <2> SUFFICES ASSUME NEW k \in 1 .. Len(o) + 1 PROVE a[w[k]] = Append(b, x)[k]
    OBVIOUS
  <2>1. CASE k = Len(o) + 1
    BY <1>1, <1>8, <1>12, <2>1
  <2>2. CASE k /= Len(o) + 1
    <3>1. k \in 1 .. Len(o)
      BY <1>7, <2>2
    <3> QED BY <1>1, <1>7, <1>8, <1>11, <1>12, <3>1
  <2> QED BY <2>1, <2>2
<1>14. Pick(a, Q) = Append(b, x)
  BY <1>9, <1>12, <1>13
<1> QED BY <1>14 DEF a, b

-----------------------------------------------------------------------------
(* Sequences. *)

\* Where the members of two joined sequences are.
LEMMA Concat ==
    ASSUME NEW S, NEW s1 \in Seq(S), NEW s2 \in Seq(S)
    PROVE  /\ s1 \o s2 \in Seq(S)
           /\ Len(s1 \o s2) = Len(s1) + Len(s2)
           /\ \A i \in 1 .. Len(s1) : (s1 \o s2)[i] = s1[i]
           /\ \A i \in 1 .. Len(s2) : (s1 \o s2)[Len(s1) + i] = s2[i]
<1>1. Len(s1) \in Nat /\ Len(s2) \in Nat
  OBVIOUS
<1>2. /\ s1 \o s2 \in Seq(S)
      /\ Len(s1 \o s2) = Len(s1) + Len(s2)
      /\ \A i \in 1 .. Len(s1) + Len(s2) : (s1 \o s2)[i] =
             IF i <= Len(s1) THEN s1[i] ELSE s2[i - Len(s1)]
  BY ConcatProperties
<1>3. \A i \in 1 .. Len(s1) : (s1 \o s2)[i] = s1[i]
  BY <1>1, <1>2
<1>4. ASSUME NEW i \in 1 .. Len(s2) PROVE (s1 \o s2)[Len(s1) + i] = s2[i]
  <2>1. /\ Len(s1) + i \in 1 .. Len(s1) + Len(s2) /\ ~(Len(s1) + i <= Len(s1))
        /\ Len(s1) + i - Len(s1) = i
    BY <1>1
  <2>2. QED BY <1>2, <2>1
<1>5. QED BY <1>2, <1>3, <1>4

\* r has mid between the members of q before position k and those after it.
IsAround(r, S, q, k, mid) ==
    /\ r \in Seq(S) /\ Len(r) = Len(q) - 1 + Len(mid)
    /\ \A j \in 1 .. k - 1 : r[j] = q[j]
    /\ \A j \in 1 .. Len(mid) : r[k - 1 + j] = mid[j]
    /\ \A j \in k + 1 .. Len(q) : r[j - 1 + Len(mid)] = q[j]

\* What SubSeq and \o make of it.
LEMMA Around ==
    ASSUME NEW S, NEW q \in Seq(S), NEW k \in 1 .. Len(q), NEW mid \in Seq(S),
           NEW r, r = SubSeq(q, 1, k - 1) \o mid \o SubSeq(q, k + 1, Len(q))
    PROVE  IsAround(r, S, q, k, mid)
<1> DEFINE a == SubSeq(q, 1, k - 1)
           c == SubSeq(q, k + 1, Len(q))
           d == a \o mid
<1>1. /\ Len(q) \in Nat /\ k \in Nat /\ k >= 1 /\ k <= Len(q) /\ Len(mid) \in Nat
  OBVIOUS
<1>2. /\ a \in Seq(S) /\ Len(a) = k - 1 /\ \A j \in 1 .. k - 1 : a[j] = q[j]
  <2>1. \A j \in 1 .. k - 1 : q[j] \in S
    BY <1>1
  <2>2. QED BY <1>1, <2>1, SubSeqProperties
<1>3. /\ c \in Seq(S) /\ Len(c) = Len(q) - k /\ \A j \in 1 .. Len(q) - k : c[j] = q[k + j]
  BY <1>1
<1> HIDE DEF a, c
<1>4. /\ d \in Seq(S) /\ Len(d) = Len(a) + Len(mid)
      /\ \A j \in 1 .. Len(a) : d[j] = a[j]
      /\ \A j \in 1 .. Len(mid) : d[Len(a) + j] = mid[j]
  <2>1. a \in Seq(S) /\ mid \in Seq(S)
    BY <1>2
  <2> QED BY ONLY <2>1, Concat
<1> HIDE DEF d
<1>5. r = d \o c
  BY DEF a, c, d
<1>6. /\ r \in Seq(S) /\ Len(r) = Len(d) + Len(c)
      /\ \A j \in 1 .. Len(d) : r[j] = d[j]
      /\ \A j \in 1 .. Len(c) : r[Len(d) + j] = c[j]
  <2>1. c \in Seq(S) /\ d \in Seq(S)
    BY <1>3, <1>4
  <2> QED BY ONLY <1>5, <2>1, Concat
<1>7. ASSUME NEW j \in k + 1 .. Len(q) PROVE r[j - 1 + Len(mid)] = q[j]
  <2>1. /\ j - k \in 1 .. Len(c) /\ j - k \in 1 .. Len(q) - k /\ k + (j - k) = j
        /\ Len(d) + (j - k) = j - 1 + Len(mid)
    BY <1>1, <1>2, <1>3, <1>4
  <2>2. c[j - k] = q[j]
    <3>1. c[j - k] = q[k + (j - k)]
      BY <1>3, <2>1
    <3>2. QED BY <2>1, <3>1
  <2>3. r[Len(d) + (j - k)] = c[j - k]
    BY ONLY <2>1, <1>6
  <2>4. QED BY <2>1, <2>2, <2>3
<1>8. ASSUME NEW j \in 1 .. k - 1 PROVE r[j] = q[j]
  <2>1. j \in 1 .. Len(a) /\ j \in 1 .. Len(d)
    BY <1>1, <1>2, <1>4
  <2>2. QED BY <2>1, <1>2, <1>4, <1>6
<1>9. ASSUME NEW j \in 1 .. Len(mid) PROVE r[k - 1 + j] = mid[j]
  <2>1. /\ Len(a) + j \in 1 .. Len(d)
        /\ Len(a) + j = k - 1 + j
    BY <1>1, <1>2, <1>4
  <2>2. d[Len(a) + j] = mid[j]
    BY <1>4
  <2>3. r[Len(a) + j] = d[Len(a) + j]
    BY ONLY <1>6, <2>1
  <2>4. QED BY <2>1, <2>2, <2>3
<1>10. Len(r) = Len(q) - 1 + Len(mid)
  <2>1. Len(r) = (k - 1) + Len(mid) + (Len(q) - k)
    BY ONLY <1>2, <1>3, <1>4, <1>6
  <2>2. QED BY ONLY <1>1, <2>1
<1>11. QED BY <1>6, <1>7, <1>8, <1>9, <1>10 DEF IsAround

\* r has the members of q before position k and those after it.
IsWithout(r, S, q, k) ==
    /\ r \in Seq(S) /\ Len(r) = Len(q) - 1
    /\ \A j \in 1 .. k - 1 : r[j] = q[j]
    /\ \A j \in k + 1 .. Len(q) : r[j - 1] = q[j]

\* Leaving out the member at position k.
LEMMA LeftOut ==
    ASSUME NEW S, NEW q \in Seq(S), NEW k \in 1 .. Len(q),
           NEW r, r = SubSeq(q, 1, k - 1) \o SubSeq(q, k + 1, Len(q))
    PROVE  IsWithout(r, S, q, k)
<1> DEFINE a == SubSeq(q, 1, k - 1)
           c == SubSeq(q, k + 1, Len(q))
<1>1. /\ Len(q) \in Nat /\ k \in Nat /\ k >= 1 /\ k <= Len(q)
  OBVIOUS
<1>2. /\ a \in Seq(S) /\ Len(a) = k - 1 /\ \A j \in 1 .. k - 1 : a[j] = q[j]
  <2>1. \A j \in 1 .. k - 1 : q[j] \in S
    BY <1>1
  <2>2. QED BY <1>1, <2>1, SubSeqProperties
<1>3. /\ c \in Seq(S) /\ Len(c) = Len(q) - k /\ \A j \in 1 .. Len(q) - k : c[j] = q[k + j]
  BY <1>1
<1>4. r = a \o c
  OBVIOUS
<1> HIDE DEF a, c
<1>5. /\ r \in Seq(S) /\ Len(r) = Len(a) + Len(c)
      /\ \A j \in 1 .. Len(a) : r[j] = a[j]
      /\ \A j \in 1 .. Len(c) : r[Len(a) + j] = c[j]
  <2>1. a \in Seq(S) /\ c \in Seq(S)
    BY <1>2, <1>3
  <2>2. QED BY ONLY <1>4, <2>1, Concat
<1>6. ASSUME NEW j \in k + 1 .. Len(q) PROVE r[j - 1] = q[j]
  <2>1. /\ j - k \in 1 .. Len(c) /\ j - k \in 1 .. Len(q) - k /\ k + (j - k) = j
        /\ Len(a) + (j - k) = j - 1
    BY <1>1, <1>2, <1>3
  <2>2. c[j - k] = q[j]
    <3>1. c[j - k] = q[k + (j - k)]
      BY <1>3, <2>1
    <3>2. QED BY <2>1, <3>1
  <2>3. r[Len(a) + (j - k)] = c[j - k]
    BY ONLY <2>1, <1>5
  <2>4. QED BY <2>1, <2>2, <2>3
<1>7. Len(r) = Len(q) - 1
  BY ONLY <1>1, <1>2, <1>3, <1>5
<1>8. QED BY <1>2, <1>5, <1>6, <1>7 DEF IsWithout

-----------------------------------------------------------------------------
(* FlattenSeq. *)

\* The function FlattenSeq computes with: the concatenation of the first i members.
Flats(S) == CHOOSE f : f = [i \in 1 .. Len(S) |-> IF i = 1 THEN S[i] ELSE f[i - 1] \o S[i]]

\* What FlattenSeq makes of it.
LEMMA FlattenIs ==
    ASSUME NEW S, Len(S) /= 0
    PROVE FlattenSeq(S) = Flats(S)[Len(S)]
  BY Zenon DEF FlattenSeq, Flats

\* f concatenates the first members of S, up to the n-th.
IsFlats(f, S, n) == f = [i \in 1 .. n |-> IF i = 1 THEN S[i] ELSE f[i - 1] \o S[i]]

\* There is such a function for every n.
LEMMA FlatsTo ==
    ASSUME NEW S, NEW n \in Nat
    PROVE  \E f : IsFlats(f, S, n)
<1> DEFINE Bad == {k \in Nat : ~ \E f : IsFlats(f, S, k)}
<1> SUFFICES ASSUME Bad /= {} PROVE FALSE
  OBVIOUS
<1>1. PICK m \in Bad : \A k \in Bad : m <= k
  BY Least
<1>2. m \in Nat /\ ~ \E f : IsFlats(f, S, m)
  OBVIOUS
<1>3. m /= 0
  <2>1. IsFlats([i \in 1 .. 0 |-> S], S, 0)
    BY DEF IsFlats
  <2> QED BY <1>2, <2>1
<1>4. m - 1 \in Nat /\ m - 1 \notin Bad
  BY <1>1, <1>2, <1>3
<1>5. PICK g : IsFlats(g, S, m - 1)
  BY <1>4
<1> DEFINE h == [i \in 1 .. m |-> IF i = 1 THEN S[1] ELSE IF i = m THEN g[m - 1] \o S[m] ELSE g[i]]
<1>6. \A i \in 1 .. m - 1 : h[i] = g[i]
  BY <1>5 DEF IsFlats
<1>7. \A i \in 1 .. m : h[i] = IF i = 1 THEN S[i] ELSE h[i - 1] \o S[i]
  <2> SUFFICES ASSUME NEW i \in 1 .. m, i /= 1 PROVE h[i] = h[i - 1] \o S[i]
    OBVIOUS
  <2>0. i - 1 \in 1 .. m - 1
    BY <1>2
  <2>1. i - 1 \in 1 .. m - 1 /\ h[i - 1] = g[i - 1]
    BY <1>6, <2>0
  <2>2. CASE i = m
    BY <2>1, <2>2
  <2>3. CASE i /= m
    <3>1. i \in 1 .. m - 1 /\ h[i] = g[i]
      BY <1>2, <1>6, <2>3
    <3>2. g[i] = g[i - 1] \o S[i]
      BY <1>5, <3>1 DEF IsFlats
    <3> QED BY <2>1, <3>1, <3>2
  <2> QED BY <2>2, <2>3
<1>8. IsFlats(h, S, m)
  BY <1>7 DEF IsFlats
<1> QED BY <1>2, <1>8

\* So the recursion holds of the chosen one.
LEMMA FlatsAre ==
    ASSUME NEW S, Len(S) \in Nat
    PROVE  \A i \in 1 .. Len(S) :
              Flats(S)[i] = IF i = 1 THEN S[i] ELSE Flats(S)[i - 1] \o S[i]
<1>1. \E f : IsFlats(f, S, Len(S))
  BY FlatsTo
<1>2. Flats(S) = CHOOSE f : IsFlats(f, S, Len(S))
  BY DEF IsFlats, Flats
<1>3. IsFlats(Flats(S), S, Len(S))
  BY <1>1, <1>2
<1> QED BY <1>3 DEF IsFlats

\* Its values are sequences.
LEMMA FlatsType ==
    ASSUME NEW T, NEW S \in Seq(Seq(T))
    PROVE  \A i \in 1 .. Len(S) : Flats(S)[i] \in Seq(T)
<1> DEFINE Bad == {i \in 1 .. Len(S) : Flats(S)[i] \notin Seq(T)}
<1> SUFFICES ASSUME Bad /= {} PROVE FALSE
  OBVIOUS
<1>0. Len(S) \in Nat /\ Bad \in SUBSET Nat
  OBVIOUS
<1>1. PICK m \in Bad : \A k \in Bad : m <= k
  BY <1>0, Least
<1>2. m \in 1 .. Len(S) /\ S[m] \in Seq(T)
  OBVIOUS
<1>3. m /= 1
  BY <1>0, <1>1, <1>2, FlatsAre
<1>4. m - 1 \in 1 .. Len(S) /\ m - 1 \notin Bad
  BY <1>0, <1>1, <1>2, <1>3
<1>5. Flats(S)[m - 1] \in Seq(T)
  BY <1>4
<1>6. Flats(S)[m] = Flats(S)[m - 1] \o S[m]
  BY <1>0, <1>2, <1>3, FlatsAre
<1>7. Flats(S)[m] \in Seq(T)
  BY <1>2, <1>5, <1>6, ConcatProperties
<1> QED BY <1>1, <1>7

\* It depends on the members it concatenates only.
LEMMA FlatsAgree ==
    ASSUME NEW A, NEW B, Len(A) \in Nat, Len(B) \in Nat, NEW n \in Nat,
           n <= Len(A), n <= Len(B), \A i \in 1 .. n : A[i] = B[i]
    PROVE  \A i \in 1 .. n : Flats(A)[i] = Flats(B)[i]
<1> DEFINE Bad == {i \in 1 .. n : Flats(A)[i] /= Flats(B)[i]}
<1> SUFFICES ASSUME Bad /= {} PROVE FALSE
  OBVIOUS
<1>0. Bad \in SUBSET Nat
  OBVIOUS
<1>1. PICK m \in Bad : \A k \in Bad : m <= k
  BY <1>0, Least
<1>2. m \in 1 .. n /\ m \in 1 .. Len(A) /\ m \in 1 .. Len(B) /\ A[m] = B[m]
  OBVIOUS
<1>3. /\ Flats(A)[m] = IF m = 1 THEN A[m] ELSE Flats(A)[m - 1] \o A[m]
      /\ Flats(B)[m] = IF m = 1 THEN B[m] ELSE Flats(B)[m - 1] \o B[m]
  BY <1>2, FlatsAre
<1>4. m /= 1
  BY <1>2, <1>3
<1>5. m - 1 \in 1 .. n /\ m - 1 \notin Bad
  BY <1>1, <1>2, <1>4
<1>6. Flats(A)[m - 1] = Flats(B)[m - 1]
  BY <1>5
<1> QED BY <1>2, <1>3, <1>4, <1>6

\* Nothing concatenated.
LEMMA FlattenNone == FlattenSeq(<< >>) = << >>
  BY DEF FlattenSeq

\* The members of the concatenation are the sequences' members.
LEMMA FlattenType ==
    ASSUME NEW T, NEW S \in Seq(Seq(T))
    PROVE  FlattenSeq(S) \in Seq(T)
<1>0. Len(S) \in Nat
  OBVIOUS
<1>1. CASE S = << >>
  <2>1. << >> \in Seq(T)
    OBVIOUS
  <2> QED BY <1>1, <2>1, FlattenNone
<1>2. CASE S /= << >>
  <2>1. Len(S) /= 0 /\ Len(S) \in 1 .. Len(S)
    BY <1>0, <1>2
  <2> QED BY <2>1, FlattenIs, FlatsType
<1> QED BY <1>1, <1>2

\* One more sequence at the end.
LEMMA FlattenAppend ==
    ASSUME NEW T, NEW S \in Seq(Seq(T)), NEW x \in Seq(T)
    PROVE  FlattenSeq(Append(S, x)) = FlattenSeq(S) \o x
<1> DEFINE n == Len(S)  A == Append(S, x)
<1>1. /\ n \in Nat /\ A \in Seq(Seq(T)) /\ Len(A) = n + 1 /\ A[n + 1] = x
      /\ \A i \in 1 .. n : A[i] = S[i]
  BY AppendProperties
<1> HIDE DEF A
<1>2. FlattenSeq(A) = Flats(A)[n + 1]
  <2>1. Len(A) /= 0
    BY <1>1
  <2> QED BY <1>1, <2>1, FlattenIs
<1>3. Flats(A)[n + 1] = IF n + 1 = 1 THEN x ELSE Flats(A)[n + 1 - 1] \o x
  <2>1. n + 1 \in 1 .. Len(A) /\ Len(A) \in Nat
    BY <1>1
  <2> QED BY <1>1, <2>1, FlatsAre
<1>4. CASE S = << >>
  <2>1. n = 0 /\ FlattenSeq(S) = << >>
    BY <1>4, FlattenNone
  <2>2. FlattenSeq(A) = x
    BY <1>2, <1>3, <2>1
  <2>3. << >> \o x = x
    BY ConcatEmptySeq
  <2> QED BY <2>1, <2>2, <2>3 DEF A
<1>5. CASE S /= << >>
  <2>1. n /= 0
    BY <1>5
  <2>2. FlattenSeq(S) = Flats(S)[n]
    BY <2>1, FlattenIs
  <2>3. n + 1 - 1 = n /\ n + 1 /= 1 /\ n \in 1 .. n /\ n <= Len(A) /\ n <= Len(S) /\ Len(A) \in Nat
    BY <1>1, <2>1
  <2>4. Flats(A)[n] = Flats(S)[n]
    BY <1>1, <2>3, FlatsAgree
  <2> QED BY <1>2, <1>3, <2>2, <2>3, <2>4 DEF A
<1> QED BY <1>4, <1>5

\* A single sequence.
LEMMA FlattenOne ==
    ASSUME NEW T, NEW x \in Seq(T) PROVE FlattenSeq(<<x>>) = x
<1>1. << >> \in Seq(Seq(T)) /\ Append(<< >>, x) = <<x>>
  OBVIOUS
<1>2. FlattenSeq(Append(<< >>, x)) = FlattenSeq(<< >>) \o x
  BY <1>1, FlattenAppend
<1> QED BY <1>1, <1>2, FlattenNone, ConcatEmptySeq

\* Concatenation is associative.
LEMMA ThreeJoined ==
    ASSUME NEW T, NEW a \in Seq(T), NEW b \in Seq(T), NEW c \in Seq(T)
    PROVE  (a \o b) \o c = a \o (b \o c)
  BY ConcatAssociative

\* Concatenation, opaque to the provers.
Cat(a, b) == a \o b

\* Its associativity and type.
LEMMA CatFacts ==
    ASSUME NEW T, NEW a \in Seq(T), NEW b \in Seq(T), NEW c \in Seq(T)
    PROVE  Cat(Cat(a, b), c) = Cat(a, Cat(b, c)) /\ Cat(a, b) \in Seq(T)
<1>1. Cat(Cat(a, b), c) = Cat(a, Cat(b, c))
  BY ThreeJoined DEF Cat
<1>2. Cat(a, b) \in Seq(T)
  BY ConcatProperties DEF Cat
<1> QED BY <1>1, <1>2

\* Two sequences of sequences.
LEMMA FlattenConcat ==
    ASSUME NEW T, NEW A \in Seq(Seq(T)), NEW B \in Seq(Seq(T))
    PROVE  FlattenSeq(A \o B) = FlattenSeq(A) \o FlattenSeq(B)
<1> DEFINE C(n) == SubSeq(B, 1, n)
           Good(n) == FlattenSeq(A \o C(n)) = FlattenSeq(A) \o FlattenSeq(C(n))
           Bad == {n \in 0 .. Len(B) : ~Good(n)}
<1>0. Len(B) \in Nat /\ Bad \in SUBSET Nat /\ C(Len(B)) = B
  BY SubSeqFull
<1>a. SUFFICES ASSUME Bad /= {} PROVE FALSE
  <2>1. Len(B) \notin Bad => Good(Len(B))
    BY <1>0
  <2> QED BY <1>0, <2>1
<1>1. PICK m \in Bad : \A k \in Bad : m <= k
  BY <1>0, <1>a, Least
<1>2. m \in 0 .. Len(B) /\ ~Good(m)
  OBVIOUS
<1>3. FlattenSeq(A) \in Seq(T)
  BY FlattenType
<1>4. Good(0)
  <2>1. C(0) = << >>
    BY SubSeqEmpty
  <2>2. A \o << >> = A /\ FlattenSeq(A) \o << >> = FlattenSeq(A)
    BY <1>3, ConcatEmptySeq
  <2> QED BY <2>1, <2>2, FlattenNone
<1>5. m - 1 \in 0 .. Len(B) /\ m \in 1 .. Len(B) /\ m - 1 \notin Bad
  <2>1. m /= 0
    BY <1>2, <1>4
  <2>2. m - 1 \in 0 .. Len(B) /\ m \in 1 .. Len(B)
    BY <1>0, <1>2, <2>1
  <2>3. m - 1 \notin Bad
    <3> HIDE DEF Bad
    <3> QED BY <1>0, <1>1, <1>2
  <2> QED BY <2>2, <2>3
<1>6. Good(m - 1)
  BY <1>5
<1> HIDE DEF Bad
<1>7. /\ C(m - 1) \in Seq(Seq(T)) /\ B[m] \in Seq(T)
      /\ C(m) = Append(C(m - 1), B[m])
  <2>1. B[m] \in Seq(T)
    BY <1>5
  <2>2. C(m - 1) \in Seq(Seq(T))
    <3>1. \A i \in 1 .. m - 1 : B[i] \in Seq(T)
      BY <1>0, <1>5
    <3>2. 1 \in Int /\ m - 1 \in Int
      BY <1>5
    <3> QED BY ONLY <3>1, <3>2, SubSeqProperties
  <2>3. 1 \in 1 .. Len(B) /\ m \in 1 .. Len(B)
    BY <1>0, <1>5
  <2>4. C(m) = C(m - 1) \o <<B[m]>>
    BY <2>3, SubSeqRecursiveSecond
  <2>5. Append(C(m - 1), B[m]) = C(m - 1) \o <<B[m]>>
    BY <2>1, <2>2, AppendIsConcat
  <2> QED BY <2>1, <2>2, <2>4, <2>5
<1> DEFINE P == C(m - 1)  x == B[m]
<1>8. P \in Seq(Seq(T)) /\ x \in Seq(T) /\ <<x>> \in Seq(Seq(T))
  BY <1>7
<1> HIDE DEF P, x
<1>9. A \o Append(P, x) = Append(A \o P, x)
  <2>1. (A \o P) \o <<x>> = A \o (P \o <<x>>)
    <3>1. PICK y \in Seq(Seq(T)) : y = <<x>>
      BY <1>8
    <3>2. Cat(Cat(A, P), y) = Cat(A, Cat(P, y))
      BY <1>8, CatFacts
    <3> QED BY <3>1, <3>2 DEF Cat
  <2>2. A \o P \in Seq(Seq(T))
    BY <1>8, ConcatProperties
  <2>3. Append(A \o P, x) = (A \o P) \o <<x>> /\ Append(P, x) = P \o <<x>>
    BY <1>8, <2>2, AppendIsConcat
  <2> QED BY <2>1, <2>3
<1>10. FlattenSeq(Append(A \o P, x)) = FlattenSeq(A \o P) \o x
  <2>1. A \o P \in Seq(Seq(T))
    BY <1>8, ConcatProperties
  <2> QED BY <1>8, <2>1, FlattenAppend
<1>11. FlattenSeq(Append(P, x)) = FlattenSeq(P) \o x /\ FlattenSeq(P) \in Seq(T)
  BY <1>8, FlattenAppend, FlattenType
<1>12. (FlattenSeq(A) \o FlattenSeq(P)) \o x = FlattenSeq(A) \o (FlattenSeq(P) \o x)
  BY ONLY <1>3, <1>8, <1>11, ConcatAssociative
<1>13. Good(m)
  BY <1>6, <1>7, <1>9, <1>10, <1>11, <1>12 DEF P, x
<1> QED BY <1>2, <1>13

-----------------------------------------------------------------------------
(* RemoveAt, and runs of numbers joined, of which one number goes. *)

\* RemoveAt leaves what is in front of a position and what is behind it.
LEMMA RemoveIs ==
    ASSUME NEW s, NEW i
    PROVE  RemoveAt(s, i) = SubSeq(s, 1, i - 1) \o SubSeq(s, i + 1, Len(s))
  BY DEF RemoveAt

\* What a removal at position p leaves is the sequence without its p-th member.
LEMMA RemovedLacks ==
    ASSUME NEW T, NEW s \in Seq(T), NEW p \in DOMAIN s, NEW r, r = RemoveAt(s, p)
    PROVE  Lacks(r, s, p) /\ r \in Seq(T)
<1>1. p \in 1 .. Len(s) /\ Len(s) \in Nat
  OBVIOUS
<1>2. IsWithout(r, T, s, p)
  BY <1>1, RemoveIs, LeftOut
<1>3. ASSUME NEW q \in 1 .. Len(r) PROVE r[q] = s[Past(p, q)]
  <2>1. Len(r) = Len(s) - 1
    BY <1>2 DEF IsWithout
  <2>2. CASE q < p
    <3>1. q \in 1 .. p - 1
      BY <1>1, <2>1, <2>2
    <3> QED BY <1>2, <2>2, <3>1 DEF IsWithout, Past
  <2>3. CASE ~(q < p)
    <3>1. q + 1 \in p + 1 .. Len(s) /\ q + 1 - 1 = q
      BY <1>1, <2>1, <2>3
    <3>2. r[q + 1 - 1] = s[q + 1]
      BY <1>2, <3>1 DEF IsWithout
    <3> QED BY <2>3, <3>1, <3>2 DEF Past
  <2> QED BY <2>2, <2>3
<1> QED BY <1>1, <1>2, <1>3 DEF IsWithout, Lacks

\* Removing the member between two sequences joins them.
LEMMA RemoveOne ==
    ASSUME NEW T, NEW u \in Seq(T), NEW v \in Seq(T), NEW x \in T
    PROVE  /\ Len(u) + 1 \in DOMAIN ((u \o <<x>>) \o v)
           /\ RemoveAt((u \o <<x>>) \o v, Len(u) + 1) = u \o v
<1> DEFINE w == u \o <<x>>  s == w \o v
<1>1. <<x>> \in Seq(T) /\ Len(<<x>>) = 1 /\ Len(u) \in Nat /\ Len(v) \in Nat
  OBVIOUS
<1>2. w \in Seq(T) /\ Len(w) = Len(u) + 1
  BY <1>1, ConcatProperties
<1> HIDE DEF w
<1>3. s \in Seq(T) /\ Len(s) = Len(u) + 1 + Len(v) /\ DOMAIN s = 1 .. Len(s)
  <2>1. s \in Seq(T) /\ Len(s) = Len(w) + Len(v)
    BY <1>2, ConcatProperties
  <2>2. DOMAIN s = 1 .. Len(s)
    BY <2>1, LenProperties
  <2> QED BY <1>2, <2>1, <2>2
<1>4. SubSeq(s, 1, Len(u)) = u
  <2>1. CASE u = << >>
    BY <1>1, <2>1, SubSeqEmpty
  <2>2. CASE u /= << >>
    <3>1. Len(u) \in 1 .. Len(u) /\ 1 \in 1 .. Len(u) /\ 1 \in 1 .. Len(w) /\ Len(u) \in 1 .. Len(w)
      BY <1>1, <1>2, <2>2
    <3>2. SubSeq(s, 1, Len(u)) = SubSeq(w, 1, Len(u))
      BY <1>2, <3>1, SubSeqOfConcat1
    <3>3. SubSeq(w, 1, Len(u)) = SubSeq(u, 1, Len(u))
      BY <1>1, <3>1, SubSeqOfConcat1 DEF w
    <3> QED BY <3>2, <3>3, SubSeqFull
  <2> QED BY <2>1, <2>2
<1>5. SubSeq(s, Len(u) + 2, Len(s)) = v
  <2>1. CASE v = << >>
    <3>1. Len(v) = 0
      BY <2>1
    <3>2. Len(s) < Len(u) + 2 /\ Len(s) \in Int /\ Len(u) + 2 \in Int
      BY <1>1, <1>3, <3>1
    <3> QED BY <2>1, <3>2, SubSeqEmpty
  <2>2. CASE v /= << >>
    <3>1. /\ Len(u) + 2 \in Len(w) + 1 .. Len(w) + Len(v)
          /\ Len(s) \in Len(w) + 1 .. Len(w) + Len(v)
          /\ Len(u) + 2 - Len(w) = 1 /\ Len(s) - Len(w) = Len(v)
      BY <1>1, <1>2, <1>3, <2>2
    <3>2. SubSeq(s, Len(u) + 2, Len(s)) = SubSeq(v, Len(u) + 2 - Len(w), Len(s) - Len(w))
      BY <1>2, <3>1, SubSeqOfConcat2
    <3> QED BY <3>1, <3>2, SubSeqFull
  <2> QED BY <2>1, <2>2
<1>6. Len(u) + 1 - 1 = Len(u) /\ Len(u) + 1 + 1 = Len(u) + 2 /\ Len(u) + 1 \in 1 .. Len(s)
  BY <1>1, <1>3
<1> HIDE DEF s
<1>7. RemoveAt(s, Len(u) + 1) = u \o v
  <2> DEFINE pos == Len(u) + 1
  <2>1. SubSeq(s, 1, pos - 1) = u /\ SubSeq(s, pos + 1, Len(s)) = v
    BY <1>4, <1>5, <1>6
  <2> HIDE DEF pos
  <2>2. RemoveAt(s, pos) = SubSeq(s, 1, pos - 1) \o SubSeq(s, pos + 1, Len(s))
    BY RemoveIs
  <2> QED BY <2>1, <2>2 DEF pos
<1> QED BY <1>3, <1>6, <1>7 DEF s, w

\* The slots of n headers from the slot e on.
Run(e, n) == [j \in 1 .. n |-> e + j - 1]

\* A run is a sequence of slots.
LEMMA RunType ==
    ASSUME NEW e \in Nat, NEW n \in Nat
    PROVE  Run(e, n) \in Seq(Nat) /\ Len(Run(e, n)) = n
<1>1. \A j \in 1 .. n : e + j - 1 \in Nat
  OBVIOUS
<1> QED BY <1>1 DEF Run

\* A part without headers.
LEMMA RunNone == ASSUME NEW e \in Nat PROVE Run(e, 0) = << >>
  BY DEF Run

\* Adjacent runs make one.
LEMMA RunJoin ==
    ASSUME NEW e \in Nat, NEW n \in Nat, NEW m \in Nat
    PROVE  Run(e, n) \o Run(e + n, m) = Run(e, n + m)
<1> DEFINE a == Run(e, n)  b == Run(e + n, m)  c == Run(e, n + m)
<1>1. /\ a \in Seq(Nat) /\ Len(a) = n /\ \A j \in 1 .. n : a[j] = e + j - 1
      /\ b \in Seq(Nat) /\ Len(b) = m /\ \A j \in 1 .. m : b[j] = e + n + j - 1
      /\ c \in Seq(Nat) /\ Len(c) = n + m /\ \A j \in 1 .. n + m : c[j] = e + j - 1
  <2>1. e + n \in Nat /\ n + m \in Nat
    OBVIOUS
  <2> QED BY <2>1, RunType DEF Run
<1> HIDE DEF a, b, c
<1>2. /\ a \o b \in Seq(Nat) /\ Len(a \o b) = n + m
      /\ \A j \in 1 .. n + m : (a \o b)[j] = IF j <= n THEN a[j] ELSE b[j - n]
  BY <1>1, ConcatProperties
<1>3. ASSUME NEW j \in 1 .. n + m PROVE (a \o b)[j] = c[j]
  <2>1. c[j] = e + j - 1
    BY <1>1
  <2>2. CASE j <= n
    BY <1>1, <1>2, <2>1, <2>2
  <2>3. CASE ~(j <= n)
    <3>1. j - n \in 1 .. m /\ (a \o b)[j] = b[j - n]
      BY <1>2, <2>3
    <3>2. b[j - n] = e + n + (j - n) - 1
      BY <1>1, <3>1
    <3> QED BY <2>1, <3>1, <3>2
  <2> QED BY <2>2, <2>3
<1>4. a \o b = c
  BY <1>1, <1>2, <1>3, SeqEqual
<1> QED BY <1>4 DEF a, b, c

\* A part with one header.
LEMMA RunOne == ASSUME NEW e \in Nat PROVE Run(e, 1) = <<e>>
  BY DEF Run

\* A run around its element i, counted from 0.
LEMMA RunAround ==
    ASSUME NEW e \in Nat, NEW n \in Nat, NEW i \in 0 .. n - 1
    PROVE  Run(e, n) = (Run(e, i) \o <<e + i>>) \o Run(e + i + 1, n - i - 1)
<1>1. /\ i \in Nat /\ n - i - 1 \in Nat /\ e + i \in Nat /\ i + 1 \in Nat /\ 1 \in Nat
      /\ e + (i + 1) = e + i + 1 /\ (i + 1) + (n - i - 1) = n
  OBVIOUS
<1>2. Run(e, i) \o Run(e + i, 1) = Run(e, i + 1)
  BY <1>1, RunJoin
<1>3. Run(e, i + 1) \o Run(e + (i + 1), n - i - 1) = Run(e, (i + 1) + (n - i - 1))
  BY ONLY e \in Nat, <1>1, RunJoin
<1>4. Run(e + i, 1) = <<e + i>>
  BY <1>1, RunOne
<1> QED BY <1>1, <1>2, <1>3, <1>4

\* The runs r are those of q with mid in place of the k-th.
Replaced(r, q, k, mid) ==
    r = (SubSeq(q, 1, k - 1) \o mid) \o SubSeq(q, k + 1, Len(q))

\* A member taken out of the middle of a concatenation.
LEMMA Regroup ==
    ASSUME NEW T, NEW a \in Seq(T), NEW u \in Seq(T), NEW v \in Seq(T), NEW c \in Seq(T),
           NEW y \in Seq(T)
    PROVE  /\ Cat(Cat(a, Cat(u, v)), c) = Cat(Cat(a, u), Cat(v, c))
           /\ Cat(Cat(a, Cat(Cat(u, y), v)), c) = Cat(Cat(Cat(a, u), y), Cat(v, c))
<1>1. Cat(Cat(a, Cat(u, v)), c) = Cat(Cat(a, u), Cat(v, c))
  BY CatFacts
<1>2. Cat(Cat(a, Cat(Cat(u, y), v)), c) = Cat(Cat(Cat(a, u), y), Cat(v, c))
  BY CatFacts
<1> QED BY <1>1, <1>2

\* r is s without its p-th member.
GoneAt(s, p, r) == p \in DOMAIN s /\ r = RemoveAt(s, p)

\* The header in the slot x goes from the contents.
Gone(before, after, x) == \E p : GoneAt(before, p, after) /\ before[p] = x

\* What RemoveOne says, in these terms.
LEMMA RemoveOneGone ==
    ASSUME NEW T, NEW u \in Seq(T), NEW v \in Seq(T), NEW x \in T, NEW y, y = <<x>>
    PROVE  Gone(Cat(Cat(u, y), v), Cat(u, v), x)
<1>1. /\ Len(u) + 1 \in DOMAIN ((u \o <<x>>) \o v)
      /\ RemoveAt((u \o <<x>>) \o v, Len(u) + 1) = u \o v
  BY RemoveOne
<1>2. ((u \o <<x>>) \o v)[Len(u) + 1] = x
  <2>0. <<x>> \in Seq(T) /\ Len(<<x>>) = 1 /\ <<x>>[1] = x
    OBVIOUS
  <2>1. PICK w \in Seq(T) : w = u \o <<x>>
    BY <2>0, Concat
  <2>2. Len(w) = Len(u) + 1 /\ w[Len(u) + 1] = x /\ Len(u) + 1 \in 1 .. Len(w)
    BY <2>0, <2>1, Concat
  <2>3. (w \o v)[Len(u) + 1] = w[Len(u) + 1]
    BY <2>2, Concat
  <2> QED BY <2>1, <2>2, <2>3
<1>3. /\ Len(u) + 1 \in DOMAIN Cat(Cat(u, y), v)
      /\ RemoveAt(Cat(Cat(u, y), v), Len(u) + 1) = Cat(u, v)
      /\ Cat(Cat(u, y), v)[Len(u) + 1] = x
  BY <1>1, <1>2 DEF Cat
<1> QED BY <1>3 DEF GoneAt, Gone

\* The sequence after is before without one element, x.
Shorter(before, after, x) ==
    \E u \in Seq(Nat), v \in Seq(Nat) :
        before = (u \o <<x>>) \o v /\ after = u \o v

\* Where mid has the k-th run's slots without one, a header is gone.
LEMMA OneGone ==
    ASSUME NEW q \in Seq(Seq(Nat)), NEW k \in 1 .. Len(q), NEW mid \in Seq(Seq(Nat)),
           NEW r, Replaced(r, q, k, mid),
           NEW x \in Nat, Shorter(q[k], FlattenSeq(mid), x)
    PROVE  Gone(FlattenSeq(q), FlattenSeq(r), x)
<1> DEFINE a == SubSeq(q, 1, k - 1)  c == SubSeq(q, k + 1, Len(q))
           fa == FlattenSeq(a)  fc == FlattenSeq(c)
<1>0. PICK u \in Seq(Nat), v \in Seq(Nat) :
         q[k] = (u \o <<x>>) \o v /\ FlattenSeq(mid) = u \o v
  BY DEF Shorter
<1>1. a \in Seq(Seq(Nat)) /\ c \in Seq(Seq(Nat)) /\ q[k] \in Seq(Nat) /\ <<q[k]>> \in Seq(Seq(Nat))
  <2>1. Len(q) \in Nat /\ k \in Nat /\ 1 <= k /\ k <= Len(q)
    OBVIOUS
  <2>2. \A i \in 1 .. k - 1 : q[i] \in Seq(Nat)
    BY <2>1
  <2>3. \A i \in k + 1 .. Len(q) : q[i] \in Seq(Nat)
    BY <2>1
  <2>4. 1 \in Int /\ k - 1 \in Int /\ k + 1 \in Int /\ Len(q) \in Int
    BY <2>1
  <2>5. a \in Seq(Seq(Nat))
    BY ONLY <2>2, <2>4, SubSeqProperties
  <2>6. c \in Seq(Seq(Nat))
    BY ONLY <2>3, <2>4, SubSeqProperties
  <2> QED BY <2>5, <2>6
<1>2. q = (a \o <<q[k]>>) \o c
  <2>0. Len(q) \in Nat
    OBVIOUS
  <2>1. 1 \in 1 .. Len(q) /\ k \in 1 .. Len(q) /\ k \in 0 .. Len(q) /\ Len(q) \in k .. Len(q)
        /\ 1 \in 1 .. Len(q) + 1
    BY <2>0
  <2>2. SubSeq(q, 1, k) = a \o <<q[k]>>
    BY <2>1, SubSeqRecursiveSecond
  <2>3. SubSeq(q, 1, k) \o c = SubSeq(q, 1, Len(q))
    BY <2>1, ConcatAdjacentSubSeq
  <2> QED BY <2>2, <2>3, SubSeqFull
<1>3. r = (a \o mid) \o c
  BY DEF Replaced
<1> HIDE DEF a, c
<1>4. fa \in Seq(Nat) /\ fc \in Seq(Nat)
  BY <1>1, FlattenType
<1>5. ASSUME NEW m \in Seq(Seq(Nat))
      PROVE  FlattenSeq((a \o m) \o c) = (fa \o FlattenSeq(m)) \o fc
  <2>1. a \o m \in Seq(Seq(Nat))
    BY <1>1, ConcatProperties
  <2>2. FlattenSeq((a \o m) \o c) = FlattenSeq(a \o m) \o fc
    BY <1>1, <2>1, FlattenConcat
  <2>3. FlattenSeq(a \o m) = fa \o FlattenSeq(m)
    BY <1>1, FlattenConcat
  <2> QED BY <2>2, <2>3
<1>6. FlattenSeq(q) = (fa \o ((u \o <<x>>) \o v)) \o fc
  <2>1. FlattenSeq(<<q[k]>>) = q[k]
    BY <1>1, FlattenOne
  <2> QED BY <1>0, <1>1, <1>2, <1>5, <2>1
<1>7. FlattenSeq(r) = (fa \o (u \o v)) \o fc
  BY <1>0, <1>3, <1>5
<1>8. PICK y \in Seq(Nat) : y = <<x>>
  <2>1. <<x>> \in Seq(Nat)
    OBVIOUS
  <2> QED BY <2>1
<1>9. PICK uu \in Seq(Nat), vv \in Seq(Nat) : uu = Cat(fa, u) /\ vv = Cat(v, fc)
  BY <1>4, CatFacts
<1>10. /\ Cat(Cat(fa, Cat(u, v)), fc) = Cat(uu, vv)
       /\ Cat(Cat(fa, Cat(Cat(u, y), v)), fc) = Cat(Cat(uu, y), vv)
  <2>1. /\ Cat(Cat(fa, Cat(u, v)), fc) = Cat(Cat(fa, u), Cat(v, fc))
        /\ Cat(Cat(fa, Cat(Cat(u, y), v)), fc) = Cat(Cat(Cat(fa, u), y), Cat(v, fc))
    BY <1>4, Regroup
  <2> QED BY <1>9, <2>1
<1>11. FlattenSeq(r) = Cat(uu, vv) /\ FlattenSeq(q) = Cat(Cat(uu, y), vv)
  BY <1>6, <1>7, <1>8, <1>10 DEF Cat
<1>12. Gone(Cat(Cat(uu, y), vv), Cat(uu, vv), x)
  BY <1>8, RemoveOneGone
<1> QED BY <1>11, <1>12

\* A sequence with mid in place of its k-th member is the one made with SubSeq.
LEMMA ReplacedIf ==
    ASSUME NEW q \in Seq(Seq(Nat)), NEW k \in 1 .. Len(q), NEW mid \in Seq(Seq(Nat)),
           NEW r, IsAround(r, Seq(Nat), q, k, mid)
    PROVE  Replaced(r, q, k, mid)
<1> DEFINE s == (SubSeq(q, 1, k - 1) \o mid) \o SubSeq(q, k + 1, Len(q))
<1>1. IsAround(s, Seq(Nat), q, k, mid)
  BY Around
<1> HIDE DEF s
<1>2. /\ r \in Seq(Seq(Nat)) /\ s \in Seq(Seq(Nat)) /\ Len(r) = Len(s)
      /\ Len(r) = Len(q) - 1 + Len(mid)
      /\ Len(q) \in Nat /\ Len(mid) \in Nat /\ k \in Nat /\ k >= 1 /\ k <= Len(q)
  BY <1>1 DEF IsAround
<1>3. ASSUME NEW j \in 1 .. Len(r) PROVE r[j] = s[j]
  <2>1. CASE j < k
    <3>1. j \in 1 .. k - 1
      BY <1>2, <2>1
    <3> QED BY <1>1, <3>1 DEF IsAround
  <2>2. CASE k <= j /\ j <= k - 1 + Len(mid)
    <3>1. j - k + 1 \in 1 .. Len(mid) /\ k - 1 + (j - k + 1) = j
      BY <1>2, <2>2
    <3>2. r[k - 1 + (j - k + 1)] = mid[j - k + 1] /\ s[k - 1 + (j - k + 1)] = mid[j - k + 1]
      BY <1>1, <3>1 DEF IsAround
    <3> QED BY <3>1, <3>2
  <2>3. CASE k - 1 + Len(mid) < j
    <3> DEFINE h == j + 1 - Len(mid)
    <3>1. h \in k + 1 .. Len(q) /\ h - 1 + Len(mid) = j
      BY <1>2, <2>3
    <3> HIDE DEF h
    <3>2. r[h - 1 + Len(mid)] = q[h] /\ s[h - 1 + Len(mid)] = q[h]
      BY <1>1, <3>1 DEF IsAround
    <3> QED BY <3>1, <3>2
  <2> QED BY <1>2, <2>1, <2>2, <2>3
<1>4. r = s
  BY <1>2, <1>3, SeqEqual
<1> QED BY <1>4 DEF s, Replaced

=============================================================================
