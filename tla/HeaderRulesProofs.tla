--------------------------- MODULE HeaderRulesProofs ---------------------------
(***************************************************************************)
(* From the directives to what a request runs, for every tree of blocks,   *)
(* every set of lines, every number of rules and every word size.          *)
(*                                                                         *)
(* What runs. Merging leaves rules out; those it leaves are where anything *)
(* runs in the list of all the rules (Embeds), so both lists run the same. *)
(*                                                                         *)
(* Merging. The inductive invariant says who may point at an array: the    *)
(* block it was created for, and, once that block is merged, merged blocks *)
(* within; and that each merged block's array embeds in the whole list.    *)
(*                                                                         *)
(* Parsing. parse_directive walks over the line with indexes, the grammar  *)
(* cuts it into five parts of which three are optional. Places brings the  *)
(* two together once: the line is the five parts joined exactly when each  *)
(* token is at the index that the parts in front of it leave. The tokens   *)
(* are of any set S: no prover here knows a literal for a member of        *)
(* STRING.                                                                 *)
(*                                                                         *)
(* Requests. The loop's invariant, on the list and the count that merging  *)
(* left, and what it says of the rules that ran.                           *)
(***************************************************************************)
EXTENDS HeaderRules, SeqProofs

\* x is a sequence, whatever its elements.
IsSeq(x) == \E S : x \in Seq(S)

-----------------------------------------------------------------------------
(* Which rules of a list run. *)

\* The condition of rule r, if it has one, is met.
Met(r, hit) == r.h.cond => r.from \in hit

\* No rule of the list breaks the chain of rule r.
Open(list, r, hit) ==
    \/ r.h.wildcard
    \/ \A p \in 1 .. Len(list) :
          (~list[p].h.wildcard /\ list[p].h.key = r.h.key /\ Met(list[p], hit))
              => list[p].h.next

\* The test in Ran.
RunsIn(list, q, hit) ==
    /\ Met(list[q], hit)
    /\ list[q].h.wildcard \/ \A p \in 1 .. q - 1 :
          (~list[p].h.wildcard /\ list[p].h.key = list[q].h.key /\ Met(list[p], hit))
              => list[p].h.next

\* What Ran picks.
LEMMA RanIs ==
    ASSUME NEW list, NEW hit
    PROVE  Ran(list, hit) = Pick([q \in DOMAIN list |-> list[q].from],
                                 {q \in DOMAIN list : RunsIn(list, q, hit)})
  BY DEF Ran, RunsIn, Met

\* The rules of A are among those of list Z, in their order, at g, and where they
\* are is where anything runs in Z.
EmbedsBy(g, A, Z) ==
    /\ Rises(g, Len(A), Len(Z))
    /\ \A k \in 1 .. Len(A) : Z[g[k]].h = A[k].h /\ Z[g[k]].from = A[k].from
    /\ \A hit : \A k \in 1 .. Len(A) : RunsIn(Z, g[k], hit) <=> RunsIn(A, k, hit)
    /\ \A hit : \A q \in 1 .. Len(Z) :
          RunsIn(Z, q, hit) => \E k \in 1 .. Len(A) : g[k] = q

\* There is such a g.
Embeds(A, Z) == \E g : EmbedsBy(g, A, Z)

\* Every list is as it is.
LEMMA EmbedsItself ==
    ASSUME NEW A, Len(A) \in Nat
    PROVE  Embeds(A, A)
  <1> DEFINE n == Len(A)
             g == [k \in 1 .. n |-> k]
  <1>1. Rises(g, n, n)
    BY DEF Rises
  <1>2. EmbedsBy(g, A, A)
    BY <1>1 DEF EmbedsBy
  <1> QED
    BY <1>2 DEF Embeds

\* The same rules of both run, whatever conditions are met.
LEMMA EmbedsRan ==
    ASSUME NEW A, NEW Z, IsSeq(A), IsSeq(Z), Embeds(A, Z), NEW hit
    PROVE  Ran(A, hit) = Ran(Z, hit)
  <1>1. PICK g : EmbedsBy(g, A, Z)
    BY DEF Embeds
  <1>2. /\ Len(A) \in Nat /\ DOMAIN A = 1 .. Len(A)
        /\ Len(Z) \in Nat /\ DOMAIN Z = 1 .. Len(Z)
    BY DEF IsSeq
  <1> DEFINE s == [q \in DOMAIN Z |-> Z[q].from]
             t == [q \in DOMAIN A |-> A[q].from]
             P == {q \in DOMAIN Z : RunsIn(Z, q, hit)}
             Q == {q \in DOMAIN A : RunsIn(A, q, hit)}
  <1>3. Len(s) = Len(Z) /\ Len(t) = Len(A)
    BY <1>2
  <1>4. Rises(g, Len(t), Len(s))
    BY <1>1, <1>3 DEF EmbedsBy
  <1>5. \A k \in 1 .. Len(t) : k \in Q => s[g[k]] = t[k] /\ g[k] \in P
    <2> SUFFICES ASSUME NEW k \in 1 .. Len(A), k \in Q PROVE s[g[k]] = t[k] /\ g[k] \in P
      BY <1>3
    <2>1. g[k] \in 1 .. Len(Z)
      BY <1>1 DEF EmbedsBy, Rises
    <2>2. Z[g[k]].from = A[k].from /\ RunsIn(Z, g[k], hit)
      BY <1>1 DEF EmbedsBy
    <2> QED
      BY <1>2, <2>1, <2>2
  <1>6. \A q \in 1 .. Len(s) : q \in P => \E k \in 1 .. Len(t) : k \in Q /\ g[k] = q
    <2> SUFFICES ASSUME NEW q \in 1 .. Len(Z), RunsIn(Z, q, hit)
                 PROVE  \E k \in 1 .. Len(A) : k \in Q /\ g[k] = q
      BY <1>3
    <2>1. PICK k \in 1 .. Len(A) : g[k] = q
      BY <1>1 DEF EmbedsBy
    <2>2. RunsIn(A, k, hit)
      BY <1>1, <2>1 DEF EmbedsBy
    <2> QED
      BY <1>2, <2>1, <2>2
  <1> HIDE DEF s, t, P, Q
  <1>7. Pick(s, P) = Pick(t, Q)
    BY <1>2, <1>3, <1>4, <1>5, <1>6, PickThrough
  <1> QED
    BY <1>7, RanIs DEF s, t, P, Q

\* What is behind a list runs if it runs by itself and the list lets it.
LEMMA RunsBehind ==
    ASSUME NEW A, NEW B, NEW L, Len(A) \in Nat, Len(B) \in Nat,
           \A k \in 1 .. Len(A) : L[k].h = A[k].h /\ L[k].from = A[k].from,
           \A k \in 1 .. Len(B) : L[Len(A) + k].h = B[k].h /\ L[Len(A) + k].from = B[k].from,
           NEW r \in 1 .. Len(B), NEW hit
    PROVE  RunsIn(L, Len(A) + r, hit) <=> RunsIn(B, r, hit) /\ Open(A, B[r], hit)
  <1> DEFINE n == Len(A)
             x == L[n + r]
             Bars(y) == ~y.h.wildcard /\ y.h.key = x.h.key /\ Met(y, hit) /\ ~y.h.next
  <1>1. x.h = B[r].h /\ x.from = B[r].from /\ n \in Nat /\ r \in Nat /\ r >= 1 /\ r <= Len(B)
    OBVIOUS
  <1>2. RunsIn(L, n + r, hit)
          <=> Met(x, hit) /\ (x.h.wildcard \/ \A p \in 1 .. n + r - 1 : ~Bars(L[p]))
    BY DEF RunsIn
  <1>3. RunsIn(B, r, hit)
          <=> Met(x, hit) /\ (x.h.wildcard \/ \A p \in 1 .. r - 1 : ~Bars(B[p]))
    BY <1>1 DEF RunsIn, Met
  <1>4. Open(A, B[r], hit) <=> (x.h.wildcard \/ \A p \in 1 .. n : ~Bars(A[p]))
    BY <1>1 DEF Open
  <1>5. \A p \in 1 .. n : Bars(L[p]) <=> Bars(A[p])
    BY DEF Met
  <1>6. \A p \in 1 .. r - 1 : Bars(L[n + p]) <=> Bars(B[p])
    <2> SUFFICES ASSUME NEW p \in 1 .. r - 1 PROVE Bars(L[n + p]) <=> Bars(B[p])
      OBVIOUS
    <2>1. p \in 1 .. Len(B)
      BY <1>1
    <2>2. L[n + p].h = B[p].h /\ L[n + p].from = B[p].from
      BY <2>1
    <2> QED
      BY <2>2 DEF Met
  <1> HIDE DEF Bars, x, n
  <1>7. (\A p \in 1 .. n + r - 1 : ~Bars(L[p]))
          <=> (\A p \in 1 .. n : ~Bars(L[p])) /\ (\A p \in 1 .. r - 1 : ~Bars(L[n + p]))
    <2>1. \A p \in 1 .. n : p \in 1 .. n + r - 1
      BY <1>1
    <2>2. \A p \in 1 .. r - 1 : n + p \in 1 .. n + r - 1
      BY <1>1
    <2>3. \A p \in 1 .. n + r - 1 : p \in 1 .. n \/ (p - n \in 1 .. r - 1 /\ n + (p - n) = p)
      BY <1>1
    <2> QED
      BY <2>1, <2>2, <2>3
  <1>8. RunsIn(L, n + r, hit) <=> RunsIn(B, r, hit) /\ Open(A, B[r], hit)
    BY <1>2, <1>3, <1>4, <1>5, <1>6, <1>7
  <1> QED
    BY <1>8 DEF n

\* A list runs as it does with others behind it.
LEMMA RunsAhead ==
    ASSUME NEW A, NEW L, Len(A) \in Nat,
           \A k \in 1 .. Len(A) : L[k].h = A[k].h /\ L[k].from = A[k].from,
           NEW r \in 1 .. Len(A), NEW hit
    PROVE  RunsIn(L, r, hit) <=> RunsIn(A, r, hit)
  <1>1. \A p \in 1 .. r - 1 : p \in 1 .. Len(A)
    OBVIOUS
  <1>2. \A p \in 1 .. r : L[p].h = A[p].h /\ L[p].from = A[p].from
    OBVIOUS
  <1>3. \A p \in 1 .. r : Met(L[p], hit) <=> Met(A[p], hit)
    BY <1>2 DEF Met
  <1>4. \A p \in 1 .. r - 1 : p \in 1 .. r
    OBVIOUS
  <1>5. r \in 1 .. r
    OBVIOUS
  <1> QED
    BY <1>2, <1>3, <1>4, <1>5 DEF RunsIn
\* A rule that a rule of the list disables is not let run by it.
LEMMA DisabledIsBarred ==
    ASSUME NEW C, NEW k \in 1 .. Len(C), NEW r, NEW d, r.h = d.h, Disables(C[k].h, d.h), NEW hit
    PROVE  ~Open(C, r, hit)
  BY DEF Disables, Open, Met

\* M is C and behind it those rules of A that are at K, and K misses none that C
\* does not disable.
MergedFrom(M, C, A, K) ==
    LET o == Indexes(Len(A), K) IN
    /\ Len(M) = Len(C) + Len(o)
    /\ \A k \in 1 .. Len(C) : M[k].h = C[k].h /\ M[k].from = C[k].from
    /\ \A k \in 1 .. Len(o) : /\ M[Len(C) + k].h = A[o[k]].h
                             /\ M[Len(C) + k].from = A[o[k]].from
    /\ \A j \in 1 .. Len(A) : j \in K \/ \E k \in 1 .. Len(C) : Disables(C[k].h, A[j].h)

\* What an enumeration says.
LEMMA EnumerationIs ==
    ASSUME NEW o, NEW n \in Nat, NEW K, Enumerates(o, n, K)
    PROVE  /\ Len(o) \in Nat /\ DOMAIN o = 1 .. Len(o)
           /\ \A k \in 1 .. Len(o) : o[k] \in 1 .. n
           /\ \A j, k \in 1 .. Len(o) : j < k => o[j] < o[k]
           /\ \A p \in 1 .. n : p \in K => \E k \in 1 .. Len(o) : o[k] = p
  BY DEF Enumerates

\* What runs of the rules that are kept, behind C, is what runs of A behind C.
LEMMA KeptRun ==
    ASSUME NEW C, Len(C) \in Nat, NEW A, Len(A) \in Nat, NEW K, NEW B, NEW o,
           Enumerates(o, Len(A), K), Len(B) = Len(o),
           \A k \in 1 .. Len(o) : B[k].h = A[o[k]].h /\ B[k].from = A[o[k]].from,
           \A j \in 1 .. Len(A) : j \in K \/ \E k \in 1 .. Len(C) : Disables(C[k].h, A[j].h),
           NEW hit, NEW m \in 1 .. Len(o), Open(C, B[m], hit)
    PROVE  RunsIn(B, m, hit) <=> RunsIn(A, o[m], hit)
  <1>1. /\ Len(o) \in Nat /\ DOMAIN o = 1 .. Len(o)
        /\ \A k \in 1 .. Len(o) : o[k] \in 1 .. Len(A)
        /\ \A j, k \in 1 .. Len(o) : j < k => o[j] < o[k]
        /\ \A p \in 1 .. Len(A) : p \in K => \E k \in 1 .. Len(o) : o[k] = p
    BY EnumerationIs
  <1> DEFINE x == B[m]
             Bars(y) == ~y.h.wildcard /\ y.h.key = x.h.key /\ Met(y, hit) /\ ~y.h.next
  <1>2. x.h = A[o[m]].h /\ x.from = A[o[m]].from
    OBVIOUS
  <1>3. RunsIn(B, m, hit) <=> Met(x, hit) /\ (x.h.wildcard \/ \A p \in 1 .. m - 1 : ~Bars(B[p]))
    BY DEF RunsIn
  <1>4. RunsIn(A, o[m], hit)
          <=> Met(x, hit) /\ (x.h.wildcard \/ \A p \in 1 .. o[m] - 1 : ~Bars(A[p]))
    BY <1>2 DEF RunsIn, Met
  <1>5. \A p \in 1 .. m - 1 : o[p] \in 1 .. o[m] - 1 /\ (Bars(B[p]) <=> Bars(A[o[p]]))
    <2> SUFFICES ASSUME NEW p \in 1 .. m - 1
                 PROVE  o[p] \in 1 .. o[m] - 1 /\ (Bars(B[p]) <=> Bars(A[o[p]]))
      OBVIOUS
    <2>1. p \in 1 .. Len(o) /\ p < m
      BY <1>1
    <2>2. o[p] < o[m] /\ o[p] \in 1 .. Len(A) /\ o[m] \in 1 .. Len(A)
      BY <1>1, <2>1
    <2>3. B[p].h = A[o[p]].h /\ B[p].from = A[o[p]].from
      BY <2>1
    <2> QED
      BY <2>2, <2>3 DEF Met
  <1>6. ASSUME ~x.h.wildcard, NEW p \in 1 .. o[m] - 1, Bars(A[p])
        PROVE  \E q \in 1 .. m - 1 : Bars(B[q])
    <2>1. p \in 1 .. Len(A) /\ o[m] \in Nat /\ p \in Nat /\ p < o[m]
      BY <1>1
    <2>2. p \in K
      <3> SUFFICES ASSUME NEW k \in 1 .. Len(C), Disables(C[k].h, A[p].h) PROVE FALSE
        BY <2>1
      <3>1. /\ ~C[k].h.cond /\ ~C[k].h.next /\ ~C[k].h.wildcard
            /\ C[k].h.key = A[p].h.key
        BY DEF Disables
      <3>2. C[k].h.key = x.h.key
        BY <1>6, <3>1
      <3>3. Met(C[k], hit)
        BY <3>1 DEF Met
      <3> QED
        BY <1>6, <3>1, <3>2, <3>3 DEF Open
    <2>3. PICK q \in 1 .. Len(o) : o[q] = p
      BY <1>1, <2>1, <2>2
    <2>4. q \in 1 .. m - 1
      <3>1. ~(m < q) /\ m /= q
        BY <1>1, <2>1, <2>3
      <3> QED
        BY <1>1, <3>1
    <2> QED
      BY <1>5, <1>6, <2>3, <2>4
  <1> HIDE DEF Bars, x
  <1>7. x.h.wildcard \/ ((\A p \in 1 .. m - 1 : ~Bars(B[p]))
                          <=> (\A p \in 1 .. o[m] - 1 : ~Bars(A[p])))
    BY <1>5, <1>6
  <1> QED
    BY <1>3, <1>4, <1>7

\* Merging keeps what runs: C before the rest of the list that A stands for.
LEMMA MergeEmbeds ==
    ASSUME NEW C, NEW A, NEW Z, NEW N, NEW M, NEW K,
           Len(C) \in Nat, Len(A) \in Nat, Len(Z) \in Nat,
           Embeds(A, Z), MergedFrom(M, C, A, K),
           Len(N) = Len(C) + Len(Z),
           \A k \in 1 .. Len(C) : N[k] = C[k],
           \A k \in 1 .. Len(Z) : N[Len(C) + k] = Z[k]
    PROVE  Embeds(M, N)
  <1> DEFINE o == Indexes(Len(A), K)
             c == Len(C)
  <1>1. Enumerates(o, Len(A), K)
    BY IndexesEnumerate
  <1>2. PICK g : EmbedsBy(g, A, Z)
    BY DEF Embeds
  <1>3. /\ Len(M) = c + Len(o)
        /\ \A k \in 1 .. c : M[k].h = C[k].h /\ M[k].from = C[k].from
        /\ \A k \in 1 .. Len(o) : M[c + k].h = A[o[k]].h /\ M[c + k].from = A[o[k]].from
        /\ \A j \in 1 .. Len(A) : j \in K \/ \E k \in 1 .. c : Disables(C[k].h, A[j].h)
    BY DEF MergedFrom
  <1> HIDE DEF o
  <1>4. /\ Len(o) \in Nat /\ DOMAIN o = 1 .. Len(o)
        /\ \A k \in 1 .. Len(o) : o[k] \in 1 .. Len(A)
        /\ \A j, k \in 1 .. Len(o) : j < k => o[j] < o[k]
        /\ \A p \in 1 .. Len(A) : p \in K => \E k \in 1 .. Len(o) : o[k] = p
    BY <1>1, EnumerationIs
  <1>5. /\ \A k \in 1 .. Len(A) : g[k] \in 1 .. Len(Z)
        /\ \A j, k \in 1 .. Len(A) : j < k => g[j] < g[k]
    BY <1>2 DEF EmbedsBy, Rises
  <1>6. \A k \in 1 .. Len(A) : Z[g[k]].h = A[k].h /\ Z[g[k]].from = A[k].from
    BY <1>2 DEF EmbedsBy
  <1> DEFINE f == [k \in 1 .. c + Len(o) |-> IF k <= c THEN k ELSE c + g[o[k - c]]]
             n == Len(o)
             w == Len(Z)
  <1>7. /\ \A k \in 1 .. c : f[k] = k
        /\ \A k \in 1 .. n : f[c + k] = c + g[o[k]] /\ g[o[k]] \in 1 .. w
    <2>1. \A k \in 1 .. c : k <= c /\ k \in 1 .. c + n
      BY <1>4
    <2>2. \A k \in 1 .. n : ~(c + k <= c) /\ c + k \in 1 .. c + n /\ (c + k) - c = k
      BY <1>4
    <2> QED
      BY <1>4, <1>5, <2>1, <2>2
  <1> HIDE DEF f
  <1>8. \A k \in 1 .. c + n : k \in 1 .. c \/ \E l \in 1 .. n : k = c + l
    <2> SUFFICES ASSUME NEW k \in 1 .. c + n, k \notin 1 .. c PROVE \E l \in 1 .. n : k = c + l
      OBVIOUS
    <2>1. k - c \in 1 .. n /\ k = c + (k - c)
      BY <1>4
    <2> QED
      BY <2>1
  <1>9. Rises(f, Len(M), Len(N))
    <2>1. \A k \in 1 .. c + n : f[k] \in 1 .. c + w
      <3> SUFFICES ASSUME NEW k \in 1 .. c + n PROVE f[k] \in 1 .. c + w
        OBVIOUS
      <3>1. CASE k \in 1 .. c
        BY <3>1, <1>7
      <3>2. ASSUME NEW l \in 1 .. n, k = c + l PROVE f[k] \in 1 .. c + w
        <4>1. f[k] = c + g[o[l]] /\ g[o[l]] \in 1 .. w
          BY <3>2, <1>7
        <4> QED
          BY <4>1
      <3> QED
        BY <3>1, <3>2, <1>8
    <2>2. \A j, k \in 1 .. c + n : j < k => f[j] < f[k]
      <3> SUFFICES ASSUME NEW j \in 1 .. c + n, NEW k \in 1 .. c + n, j < k PROVE f[j] < f[k]
        OBVIOUS
      <3>1. CASE k \in 1 .. c
        <4>1. j \in 1 .. c
          BY <3>1
        <4> QED
          BY <3>1, <4>1, <1>7
      <3>2. ASSUME NEW l \in 1 .. n, k = c + l PROVE f[j] < f[k]
        <4>1. f[k] = c + g[o[l]] /\ g[o[l]] \in 1 .. w
          BY <3>2, <1>7
        <4>2. CASE j \in 1 .. c
          <5>1. f[j] = j
            BY <4>2, <1>7
          <5> QED
            BY <4>1, <4>2, <5>1
        <4>3. ASSUME NEW q \in 1 .. n, j = c + q PROVE f[j] < f[k]
          <5>1. q < l
            BY <3>2, <4>3, <1>4
          <5>2. o[q] < o[l] /\ o[q] \in 1 .. Len(A) /\ o[l] \in 1 .. Len(A)
            BY <5>1, <1>4
          <5>3. g[o[q]] < g[o[l]]
            BY <5>2, <1>5
          <5>4. f[j] = c + g[o[q]] /\ g[o[q]] \in 1 .. w
            BY <4>3, <1>7
          <5> QED
            BY <4>1, <5>3, <5>4
        <4> QED
          BY <4>2, <4>3, <1>8
      <3> QED
        BY <3>1, <3>2, <1>8
    <2> QED
      BY <1>3, <2>1, <2>2 DEF Rises
  <1>10. \A k \in 1 .. c + n : N[f[k]].h = M[k].h /\ N[f[k]].from = M[k].from
    <2> SUFFICES ASSUME NEW k \in 1 .. c + n
                 PROVE  N[f[k]].h = M[k].h /\ N[f[k]].from = M[k].from
      OBVIOUS
    <2>1. CASE k \in 1 .. c
      BY <2>1, <1>3, <1>7
    <2>2. ASSUME NEW l \in 1 .. n, k = c + l
          PROVE  N[f[k]].h = M[k].h /\ N[f[k]].from = M[k].from
      <3>1. f[k] = c + g[o[l]] /\ g[o[l]] \in 1 .. w
        BY <2>2, <1>7
      <3>2. N[f[k]] = Z[g[o[l]]]
        BY <3>1
      <3>3. o[l] \in 1 .. Len(A)
        BY <1>4
      <3>4. Z[g[o[l]]].h = A[o[l]].h /\ Z[g[o[l]]].from = A[o[l]].from
        BY <3>3, <1>6
      <3>5. M[k].h = A[o[l]].h /\ M[k].from = A[o[l]].from
        BY <2>2, <1>3
      <3> QED
        BY <3>2, <3>4, <3>5
    <2> QED
      BY <2>1, <2>2, <1>8
  <1>11. \A k \in 1 .. c : N[k].h = C[k].h /\ N[k].from = C[k].from
    OBVIOUS
  <1>12. \A k \in 1 .. w : N[c + k].h = Z[k].h /\ N[c + k].from = Z[k].from
    OBVIOUS
  <1>13. ASSUME NEW hit, NEW k \in 1 .. c
         PROVE  RunsIn(N, k, hit) <=> RunsIn(M, k, hit)
    <2>1. RunsIn(N, k, hit) <=> RunsIn(C, k, hit)
      BY <1>11, RunsAhead
    <2>2. RunsIn(M, k, hit) <=> RunsIn(C, k, hit)
      BY <1>3, RunsAhead
    <2> QED
      BY <2>1, <2>2
  <1> DEFINE B == [k \in 1 .. n |-> A[o[k]]]
  <1>14. /\ Len(B) = n
         /\ \A k \in 1 .. n : B[k].h = A[o[k]].h /\ B[k].from = A[o[k]].from
         /\ \A k \in 1 .. n : M[c + k].h = B[k].h /\ M[c + k].from = B[k].from
    BY <1>3, <1>4
  <1> HIDE DEF B
  <1>15. ASSUME NEW hit, NEW l \in 1 .. n
         PROVE  RunsIn(N, c + g[o[l]], hit) <=> RunsIn(M, c + l, hit)
    <2>1. g[o[l]] \in 1 .. w /\ o[l] \in 1 .. Len(A) /\ n \in Nat
      BY <1>4, <1>7
    <2>2. RunsIn(N, c + g[o[l]], hit)
            <=> RunsIn(Z, g[o[l]], hit) /\ Open(C, Z[g[o[l]]], hit)
      BY <1>11, <1>12, <2>1, RunsBehind
    <2>3. RunsIn(M, c + l, hit) <=> RunsIn(B, l, hit) /\ Open(C, B[l], hit)
      BY <1>3, <1>14, <2>1, RunsBehind
    <2>4. Open(C, Z[g[o[l]]], hit) <=> Open(C, B[l], hit)
      <3>1. Z[g[o[l]]].h = B[l].h
        <4>1. Z[g[o[l]]].h = A[o[l]].h
          BY <1>6, <2>1
        <4>2. B[l].h = A[o[l]].h
          BY <1>14
        <4> QED
          BY <4>1, <4>2
      <3> QED
        BY <3>1 DEF Open
    <2>5. RunsIn(Z, g[o[l]], hit) <=> RunsIn(A, o[l], hit)
      BY <1>2, <2>1 DEF EmbedsBy
    <2>6. Open(C, B[l], hit) => (RunsIn(B, l, hit) <=> RunsIn(A, o[l], hit))
      BY <1>1, <1>3, <1>14, KeptRun
    <2> QED
      BY <2>2, <2>3, <2>4, <2>5, <2>6
  <1>16. \A hit : \A k \in 1 .. c + n : RunsIn(N, f[k], hit) <=> RunsIn(M, k, hit)
    <2> SUFFICES ASSUME NEW hit, NEW k \in 1 .. c + n
                 PROVE  RunsIn(N, f[k], hit) <=> RunsIn(M, k, hit)
      OBVIOUS
    <2>1. CASE k \in 1 .. c
      BY <1>7, <1>13, <2>1
    <2>2. ASSUME NEW l \in 1 .. n, k = c + l
          PROVE  RunsIn(N, f[k], hit) <=> RunsIn(M, k, hit)
      <3>1. f[k] = c + g[o[l]]
        BY <1>7, <2>2
      <3>2. RunsIn(N, c + g[o[l]], hit) <=> RunsIn(M, c + l, hit)
        BY <1>15
      <3> QED
        BY <2>2, <3>1, <3>2
    <2> QED
      BY <1>8, <2>1, <2>2
  <1>17. ASSUME NEW hit, NEW q \in 1 .. c + w, RunsIn(N, q, hit)
         PROVE  \E k \in 1 .. c + n : f[k] = q
    <2>1. CASE q \in 1 .. c
      <3>1. q \in 1 .. c + n
        BY <1>4, <2>1
      <3> QED
        BY <1>7, <2>1, <3>1
    <2>2. CASE q \notin 1 .. c
      <3> DEFINE r == q - c
      <3>1. r \in 1 .. w /\ q = c + r
        BY <2>2
      <3> HIDE DEF r
      <3>2. RunsIn(Z, r, hit) /\ Open(C, Z[r], hit)
        BY <1>11, <1>12, <1>17, <3>1, RunsBehind
      <3>3. PICK j \in 1 .. Len(A) : g[j] = r
        BY <1>2, <3>1, <3>2 DEF EmbedsBy
      <3>4. j \in K
        <4> SUFFICES ASSUME NEW k \in 1 .. c, Disables(C[k].h, A[j].h) PROVE FALSE
          BY <1>3
        <4>1. Z[r].h = A[j].h
          BY <1>6, <3>3
        <4> QED
          BY <3>2, <4>1, DisabledIsBarred
      <3>5. PICK l \in 1 .. n : o[l] = j
        BY <1>4, <3>4
      <3>6. f[c + l] = q /\ c + l \in 1 .. c + n
        BY <1>4, <1>7, <3>1, <3>3, <3>5
      <3> QED
        BY <3>6
    <2> QED
      BY <2>1, <2>2
  <1>18. EmbedsBy(f, M, N)
    BY <1>3, <1>9, <1>10, <1>16, <1>17 DEF EmbedsBy
  <1> QED
    BY <1>18 DEF Embeds

-----------------------------------------------------------------------------
(* The bitmap of the rules that are disabled. *)

\* A bit is found again from its word and its place in it.
LEMMA DivMod ==
    ASSUME NEW x \in Nat
    PROVE  /\ x \div W \in Nat /\ x % W \in 0 .. W - 1
           /\ x = W * (x \div W) + (x % W)
  BY WAssumption, SMT

\* No two bits share a place.
LEMMA PlaceUnique ==
    ASSUME NEW x \in Nat, NEW y \in Nat, Word(x) = Word(y), Offset(x) = Offset(y)
    PROVE  x = y
  BY DivMod, WAssumption DEF Word, Offset

\* Every bit below the size has a word.
LEMMA BitInWords ==
    ASSUME NEW x \in Nat, NEW size \in Nat, x < size
    PROVE  Word(x) \in 0 .. Words(size) - 1
  BY DivMod, WAssumption DEF Word, Words

\* A fresh bitmap has its words, and no bit set.
LEMMA FreshBitmap ==
    ASSUME NEW size \in Nat, NEW memory \in BOOLEAN
    PROVE  LET bm == bitmap_init(size, memory)
           IN  /\ bm.size \in Nat
               /\ bm \in bitmap_t(bm.size)
               /\ bm.null = ~memory
               /\ memory => bm.size = size
               /\ \A x \in Nat : ~bitmap_isset(bm, x)
  <1> DEFINE bm == bitmap_init(size, memory)
             sz == IF memory THEN size ELSE 0
  <1>1. /\ bm.size = sz /\ bm.null = ~memory
        /\ bm.bits = [w \in 0 .. Words(sz) - 1 |-> {}]
        /\ bm = [null |-> ~memory, size |-> sz, bits |-> bm.bits]
    BY DEF bitmap_init
  <1>2. sz \in Nat
    OBVIOUS
  <1>3. bm.bits \in [0 .. Words(sz) - 1 -> SUBSET (0 .. W - 1)]
    BY <1>1
  <1>4. bm \in bitmap_t(sz)
    BY <1>1, <1>3 DEF bitmap_t
  <1>5. ASSUME NEW x \in Nat PROVE ~bitmap_isset(bm, x)
    <2>1. SUFFICES ASSUME x < sz PROVE Offset(x) \notin bm.bits[Word(x)]
      BY <1>1 DEF bitmap_isset
    <2>2. Word(x) \in 0 .. Words(sz) - 1
      BY <1>2, <2>1, BitInWords
    <2>3. QED BY <1>1, <2>2
  <1>6. QED BY <1>1, <1>2, <1>4, <1>5

\* Writing a bit sets that bit and no other.
LEMMA WrittenBit ==
    ASSUME NEW bm, bm.size \in Nat, bm \in bitmap_t(bm.size),
           NEW x \in Nat, x < bm.size, ~bm.null
    PROVE  /\ InWords(bm, x)
           /\ SetBit(bm, x) \in bitmap_t(bm.size)
           /\ SetBit(bm, x).size = bm.size
           /\ SetBit(bm, x).null = bm.null
           /\ \A y \in Nat : bitmap_isset(SetBit(bm, x), y) <=> y = x \/ bitmap_isset(bm, y)
  <1> DEFINE D == 0 .. Words(bm.size) - 1
             new == SetBit(bm, x)
  <1>1. /\ bm.bits \in [D -> SUBSET (0 .. W - 1)]
        /\ bm.null \in BOOLEAN
        /\ bm = [null |-> bm.null, size |-> bm.size, bits |-> bm.bits]
    BY DEF bitmap_t
  <1>2. Word(x) \in D
    BY BitInWords
  <1>3. Offset(x) \in 0 .. W - 1
    BY DivMod DEF Offset
  <1>4. /\ new.size = bm.size /\ new.null = bm.null
        /\ new.bits = [bm.bits EXCEPT ![Word(x)] = @ \cup {Offset(x)}]
    BY <1>1 DEF SetBit
  <1>5. new.bits \in [D -> SUBSET (0 .. W - 1)]
    BY <1>1, <1>2, <1>3, <1>4
  <1>6. new \in bitmap_t(bm.size)
    <2>1. new = [bm EXCEPT !.bits = new.bits]
      BY <1>1, <1>4 DEF SetBit
    <2>2. QED BY <1>1, <1>5, <2>1 DEF bitmap_t
  <1>7. InWords(bm, x)
    BY <1>1, <1>2 DEF InWords
  <1>8. ASSUME NEW y \in Nat
        PROVE  bitmap_isset(new, y) <=> y = x \/ bitmap_isset(bm, y)
    <2>1. CASE y >= bm.size
      <3>1. y /= x /\ ~(y < bm.size)
        BY <2>1
      <3>2. QED BY <3>1, <1>4 DEF bitmap_isset
    <2>2. CASE y < bm.size
      <3>1. Word(y) \in D
        BY <2>2, BitInWords
      <3>2. Word(x) = Word(y) /\ Offset(x) = Offset(y) => x = y
        BY PlaceUnique
      <3>3. Offset(y) \in new.bits[Word(y)] <=> y = x \/ Offset(y) \in bm.bits[Word(y)]
        BY <1>1, <1>2, <1>4, <3>1, <3>2
      <3>4. QED BY <2>2, <3>3, <1>4 DEF bitmap_isset
    <2>3. QED BY <2>1, <2>2
  <1>9. QED BY <1>4, <1>6, <1>7, <1>8

\* The same with the check, whatever the size.
LEMMA SetBitmap ==
    ASSUME NEW bm, bm.size \in Nat, bm \in bitmap_t(bm.size), NEW x \in Nat
    PROVE  LET new == bitmap_set(bm, x)
           IN  /\ new.size \in Nat
               /\ new \in bitmap_t(new.size)
               /\ \A y \in Nat : bitmap_isset(new, y) => y = x \/ bitmap_isset(bm, y)
  <1>1. CASE ~bm.null /\ x < bm.size
    BY <1>1, WrittenBit DEF bitmap_set
  <1>2. CASE ~(~bm.null /\ x < bm.size)
    BY <1>2 DEF bitmap_set
  <1> QED
    BY <1>1, <1>2

\* The function DisableMap computes with.
DisableMapTo(curr, prev, prevcnt, memory) ==
    CHOOSE map : map = [j \in 0 .. Len(prev) |->
            IF j = 0 THEN bitmap_init(prevcnt, memory)
            ELSE IF \E k \in DOMAIN curr : Disables(curr[k].h, prev[j].h)
                 THEN bitmap_set(map[j - 1], prev[j].id) ELSE map[j - 1]]

\* What DisableMap makes of it.
LEMMA DisableMapIs ==
    ASSUME NEW curr, NEW prev, NEW prevcnt, NEW memory
    PROVE  DisableMap(curr, prev, prevcnt, memory)
              = DisableMapTo(curr, prev, prevcnt, memory)[Len(prev)]
  BY Zenon DEF DisableMap, DisableMapTo
\* map is the function for the first n rules of the parent.
IsDisableMapTo(map, curr, prev, prevcnt, memory, n) ==
    map = [j \in 0 .. n |->
            IF j = 0 THEN bitmap_init(prevcnt, memory)
            ELSE IF \E k \in DOMAIN curr : Disables(curr[k].h, prev[j].h)
                 THEN bitmap_set(map[j - 1], prev[j].id) ELSE map[j - 1]]

\* There is one for every n.
LEMMA DisableMapExists ==
    ASSUME NEW curr, NEW prev, NEW prevcnt, NEW memory, NEW n \in Nat
    PROVE  \E map : IsDisableMapTo(map, curr, prev, prevcnt, memory, n)
  <1> DEFINE Is(map, m) == IsDisableMapTo(map, curr, prev, prevcnt, memory, m)
             bad == {m \in Nat : ~ \E map : Is(map, m)}
  <1> SUFFICES bad = {}
    OBVIOUS
  <1>1. SUFFICES ASSUME bad /= {} PROVE FALSE
    OBVIOUS
  <1>2. PICK m \in bad : \A k \in bad : m <= k
    BY <1>1, Least
  <1>3. m /= 0
    <2>1. Is([j \in 0 .. 0 |-> bitmap_init(prevcnt, memory)], 0)
      BY DEF IsDisableMapTo
    <2> QED
      BY <2>1
  <1>4. m - 1 \in Nat /\ m - 1 \notin bad /\ m \in Nat
    BY <1>2, <1>3
  <1>5. PICK g : Is(g, m - 1)
    BY <1>4
  <1> DEFINE last == IF \E k \in DOMAIN curr : Disables(curr[k].h, prev[m].h)
                     THEN bitmap_set(g[m - 1], prev[m].id) ELSE g[m - 1]
             f == [j \in 0 .. m |-> IF j = m THEN last ELSE g[j]]
  <1>6. ASSUME NEW j \in 0 .. m
        PROVE  f[j] = IF j = 0 THEN bitmap_init(prevcnt, memory)
                      ELSE IF \E k \in DOMAIN curr : Disables(curr[k].h, prev[j].h)
                           THEN bitmap_set(f[j - 1], prev[j].id) ELSE f[j - 1]
    <2>1. CASE j = m
      <3>1. j - 1 \in 0 .. m /\ j - 1 /= m
        BY <1>4, <1>3, <2>1
      <3>2. f[j - 1] = g[m - 1] /\ f[j] = last
        BY <2>1, <3>1
      <3> QED
        BY <2>1, <3>2, <1>3
    <2>2. CASE j /= m
      <3>1. j \in 0 .. m - 1 /\ f[j] = g[j]
        BY <1>4, <2>2
      <3>2. j /= 0 => j - 1 \in 0 .. m /\ j - 1 /= m /\ f[j - 1] = g[j - 1]
        BY <1>4, <2>2
      <3> HIDE DEF f, last
      <3> QED
        BY <1>5, <3>1, <3>2 DEF IsDisableMapTo
    <2> QED
      BY <2>1, <2>2
  <1>7. f = [j \in 0 .. m |-> f[j]]
    OBVIOUS
  <1> HIDE DEF f
  <1>8. Is(f, m)
    BY <1>6, <1>7 DEF IsDisableMapTo
  <1> QED
    BY <1>2, <1>8

\* So the recursion holds of the chosen one.
LEMMA DisableMapStep ==
    ASSUME NEW curr, NEW prev, Len(prev) \in Nat, NEW prevcnt, NEW memory
    PROVE  LET map == DisableMapTo(curr, prev, prevcnt, memory)
           IN  \A j \in 0 .. Len(prev) : map[j] =
                  IF j = 0 THEN bitmap_init(prevcnt, memory)
                  ELSE IF \E k \in DOMAIN curr : Disables(curr[k].h, prev[j].h)
                       THEN bitmap_set(map[j - 1], prev[j].id) ELSE map[j - 1]
  <1> DEFINE map == DisableMapTo(curr, prev, prevcnt, memory)
  <1>1. (\E f : IsDisableMapTo(f, curr, prev, prevcnt, memory, Len(prev)))
          => IsDisableMapTo(map, curr, prev, prevcnt, memory, Len(prev))
    BY DEF IsDisableMapTo, DisableMapTo
  <1>2. IsDisableMapTo(map, curr, prev, prevcnt, memory, Len(prev))
    BY <1>1, DisableMapExists
  <1> HIDE DEF map
  <1>3. \A j \in 0 .. Len(prev) : map[j] =
          IF j = 0 THEN bitmap_init(prevcnt, memory)
          ELSE IF \E k \in DOMAIN curr : Disables(curr[k].h, prev[j].h)
               THEN bitmap_set(map[j - 1], prev[j].id) ELSE map[j - 1]
    BY <1>2 DEF IsDisableMapTo
  <1> QED
    BY <1>3 DEF map

\* bm is a bitmap in which only bits of disabled rules are set.
OnlyDisabled(bm, curr, prev) ==
    /\ bm.size \in Nat
    /\ bm \in bitmap_t(bm.size)
    /\ \A x \in Nat : bitmap_isset(bm, x) =>
          \E j \in 1 .. Len(prev) :
             x = j - 1 /\ \E k \in DOMAIN curr : Disables(curr[k].h, prev[j].h)

\* Only bits of disabled rules are set.
LEMMA DisableMapSound ==
    ASSUME NEW curr, NEW prev, Len(prev) \in Nat, NEW memory \in BOOLEAN,
           \A j \in 1 .. Len(prev) : prev[j].id = j - 1
    PROVE  OnlyDisabled(DisableMap(curr, prev, Len(prev), memory), curr, prev)
  <1> DEFINE n == Len(prev)
             map == DisableMapTo(curr, prev, n, memory)
             Good(j) == OnlyDisabled(map[j], curr, prev)
             bad == {j \in 0 .. n : ~Good(j)}
             Hit(j) == \E k \in DOMAIN curr : Disables(curr[k].h, prev[j].h)
  <1>1. \A j \in 0 .. n : map[j] = IF j = 0 THEN bitmap_init(n, memory)
                                   ELSE IF Hit(j) THEN bitmap_set(map[j - 1], prev[j].id)
                                   ELSE map[j - 1]
    BY DisableMapStep
  <1>2. OnlyDisabled(bitmap_init(n, memory), curr, prev)
    BY FreshBitmap DEF OnlyDisabled
  <1>3. ASSUME NEW j \in 1 .. n, NEW bm, OnlyDisabled(bm, curr, prev), Hit(j)
        PROVE  OnlyDisabled(bitmap_set(bm, prev[j].id), curr, prev)
    <2> DEFINE new == bitmap_set(bm, j - 1)
    <2>1. j - 1 \in Nat /\ prev[j].id = j - 1
      OBVIOUS
    <2>2. bm.size \in Nat /\ bm \in bitmap_t(bm.size)
      BY <1>3 DEF OnlyDisabled
    <2>3. /\ new.size \in Nat
          /\ new \in bitmap_t(new.size)
          /\ \A y \in Nat : bitmap_isset(new, y) => y = j - 1 \/ bitmap_isset(bm, y)
      BY <2>1, <2>2, SetBitmap
    <2> HIDE DEF new
    <2>4. OnlyDisabled(new, curr, prev)
      BY <1>3, <2>3 DEF OnlyDisabled
    <2> QED
      BY <2>1, <2>4 DEF new
  <1> HIDE DEF map, Hit
  <1>4. Good(n)
    <2> SUFFICES ASSUME bad /= {} PROVE FALSE
      OBVIOUS
    <2>1. bad \in SUBSET Nat
      OBVIOUS
    <2>2. PICK j \in bad : \A k \in bad : j <= k
      BY <2>1, Least
    <2>3. j /= 0
      BY <1>1, <1>2
    <2>4. j \in 1 .. n /\ j - 1 \in 0 .. n /\ j - 1 \notin bad
      BY <2>2, <2>3
    <2>5. Good(j - 1)
      BY <2>4
    <2>6. Good(j)
      BY <1>1, <1>3, <2>3, <2>4, <2>5
    <2> QED
      BY <2>2, <2>6
  <1> QED
    BY <1>4, DisableMapIs DEF map

\* What merging makes of the rules of a block and of its parent.
LEMMA MergedIs ==
    ASSUME NEW C, IsSeq(C), NEW A, IsSeq(A), NEW memory \in BOOLEAN,
           \A j \in 1 .. Len(A) : A[j].id = j - 1
    PROVE  LET M == merge_one_array(C, A, Len(A), memory)
           IN  /\ IsSeq(M)
               /\ \E K : MergedFrom(M, C, A, K)
  <1> DEFINE M == merge_one_array(C, A, Len(A), memory)
             map == DisableMap(C, A, Len(A), memory)
             K == {j \in DOMAIN A : ~bitmap_isset(map, A[j].id)}
             o == Indexes(Len(A), K)
             kept == Pick(A, K)
             L == C \o kept
  <1>1. /\ Len(A) \in Nat /\ DOMAIN A = 1 .. Len(A)
        /\ Len(C) \in Nat /\ DOMAIN C = 1 .. Len(C)
    BY DEF IsSeq
  <1>2. M = Reindex(L, Len(C))
    BY DEF merge_one_array, Kept
  <1>3. OnlyDisabled(map, C, A)
    BY <1>1, DisableMapSound
  <1> HIDE DEF map
  <1>4. \A j \in 1 .. Len(A) : j \in K \/ \E k \in 1 .. Len(C) : Disables(C[k].h, A[j].h)
    <2> SUFFICES ASSUME NEW j \in 1 .. Len(A), j \notin K
                 PROVE  \E k \in 1 .. Len(C) : Disables(C[k].h, A[j].h)
      OBVIOUS
    <2>1. bitmap_isset(map, j - 1) /\ j - 1 \in Nat
      BY <1>1
    <2>2. PICK l \in 1 .. Len(A) :
             j - 1 = l - 1 /\ \E k \in DOMAIN C : Disables(C[k].h, A[l].h)
      BY <1>3, <2>1 DEF OnlyDisabled
    <2>3. l = j
      BY <2>2
    <2> QED
      BY <1>1, <2>2, <2>3
  <1> HIDE DEF K
  <1>5. PICK S : C \in Seq(S)
    BY DEF IsSeq
  <1>6. PICK T : A \in Seq(T)
    BY DEF IsSeq
  <1> DEFINE U == S \cup T
  <1>7. C \in Seq(U) /\ \A k \in 1 .. Len(A) : A[k] \in U
    BY <1>5, <1>6, SeqMonotonic
  <1>8. /\ DOMAIN kept = DOMAIN o
        /\ DOMAIN kept = 1 .. Len(kept) /\ Len(kept) \in Nat
        /\ \A k \in DOMAIN kept : kept[k] = A[o[k]]
    BY <1>1, PickIs
  <1>9. kept \in Seq(U)
    BY <1>1, <1>7, PickType
  <1>10. o \in Seq(1 .. Len(A))
    BY <1>1, IndexesEnumerate DEF Enumerates
  <1>11. Len(o) = Len(kept)
    <2>1. DOMAIN o = 1 .. Len(o) /\ Len(o) \in Nat
      BY <1>10
    <2>2. \A x, y \in Nat : 1 .. x = 1 .. y => x = y
      <3> SUFFICES ASSUME NEW x \in Nat, NEW y \in Nat, x < y PROVE 1 .. x /= 1 .. y
        OBVIOUS
      <3>1. y \in 1 .. y /\ y \notin 1 .. x
        OBVIOUS
      <3> QED
        BY <3>1
    <2> QED
      BY <1>8, <2>1, <2>2
  <1> HIDE DEF o, kept, U
  <1>12. /\ L \in Seq(U) /\ Len(L) = Len(C) + Len(kept)
         /\ \A k \in 1 .. Len(C) : L[k] = C[k]
         /\ \A k \in 1 .. Len(kept) : L[Len(C) + k] = kept[k]
    <2>1. L \in Seq(U) /\ Len(L) = Len(C) + Len(kept)
      BY <1>7, <1>9, ConcatProperties
    <2>2. \A k \in 1 .. Len(C) + Len(kept) :
             L[k] = IF k <= Len(C) THEN C[k] ELSE kept[k - Len(C)]
      BY <1>7, <1>9, ConcatProperties
    <2> HIDE DEF L
    <2>3. \A k \in 1 .. Len(C) : L[k] = C[k]
      <3> SUFFICES ASSUME NEW k \in 1 .. Len(C) PROVE L[k] = C[k]
        OBVIOUS
      <3>1. k \in 1 .. Len(C) + Len(kept) /\ k <= Len(C)
        BY <1>1, <1>8
      <3> QED
        BY <2>2, <3>1
    <2>4. \A k \in 1 .. Len(kept) : L[Len(C) + k] = kept[k]
      <3> SUFFICES ASSUME NEW k \in 1 .. Len(kept) PROVE L[Len(C) + k] = kept[k]
        OBVIOUS
      <3>1. /\ Len(C) + k \in 1 .. Len(C) + Len(kept) /\ ~(Len(C) + k <= Len(C))
            /\ (Len(C) + k) - Len(C) = k
        BY <1>1, <1>8
      <3> QED
        BY <2>2, <3>1
    <2> QED
      BY <2>1, <2>3, <2>4
  <1> HIDE DEF L
  <1>13. /\ M = [k \in 1 .. Len(L) |-> WithId(L[k], k - 1)]
         /\ Len(L) \in Nat
    <2>1. DOMAIN L = 1 .. Len(L) /\ Len(L) \in Nat
      BY <1>12
    <2> QED
      BY <1>2, <2>1 DEF Reindex
  <1> HIDE DEF M
  <1>14. Len(M) = Len(C) + Len(o) /\ DOMAIN M = 1 .. Len(M)
    BY <1>11, <1>12, <1>13
  <1>15. \A k \in 1 .. Len(M) : M[k].h = L[k].h /\ M[k].from = L[k].from
    BY <1>11, <1>12, <1>13, <1>14 DEF WithId
  <1>16. IsSeq(M)
    <2>1. M \in Seq({M[k] : k \in 1 .. Len(L)})
      BY <1>13
    <2> QED
      BY <2>1 DEF IsSeq
  <1>17. MergedFrom(M, C, A, K)
    <2>1. \A k \in 1 .. Len(C) : M[k].h = C[k].h /\ M[k].from = C[k].from
      <3> SUFFICES ASSUME NEW k \in 1 .. Len(C) PROVE M[k].h = C[k].h /\ M[k].from = C[k].from
        OBVIOUS
      <3>1. k \in 1 .. Len(M)
        BY <1>1, <1>8, <1>11, <1>14
      <3> QED
        BY <1>12, <1>15, <3>1
    <2>2. \A k \in 1 .. Len(o) : /\ M[Len(C) + k].h = A[o[k]].h
                                 /\ M[Len(C) + k].from = A[o[k]].from
      <3> SUFFICES ASSUME NEW k \in 1 .. Len(o)
                   PROVE  M[Len(C) + k].h = A[o[k]].h /\ M[Len(C) + k].from = A[o[k]].from
        OBVIOUS
      <3>1. Len(C) + k \in 1 .. Len(M)
        BY <1>1, <1>8, <1>11, <1>14
      <3>2. L[Len(C) + k] = A[o[k]]
        BY <1>8, <1>11, <1>12
      <3> QED
        BY <1>15, <3>1, <3>2
    <2> QED
      BY <1>4, <1>14, <2>1, <2>2 DEF MergedFrom, o
  <1> QED
    BY <1>16, <1>17 DEF M
-----------------------------------------------------------------------------
(* The rules of a block and of all around it. *)

\* f is the recursion in Whole on the blocks D, which are closed upwards.
IsWholeOn(f, D, s) ==
    /\ D \subseteq Blocks
    /\ \A b \in D : b /= Root => Parent[b] \in D
    /\ f = [b \in D |-> IF b = Root THEN text[b][s] ELSE text[b][s] \o f[Parent[b]]]

\* Where two of these are defined they are the same.
LEMMA WholesAgree ==
    ASSUME NEW s, NEW f, NEW D, IsWholeOn(f, D, s), NEW g, NEW E, IsWholeOn(g, E, s),
           NEW b \in D \cap E
    PROVE  f[b] = g[b]
  <1> DEFINE some == {x \in D \cap E : f[x] /= g[x]}
  <1>1. \A x \in D : f[x] = IF x = Root THEN text[x][s] ELSE text[x][s] \o f[Parent[x]]
    BY DEF IsWholeOn
  <1>2. \A x \in E : g[x] = IF x = Root THEN text[x][s] ELSE text[x][s] \o g[Parent[x]]
    BY DEF IsWholeOn
  <1>3. some \in SUBSET (Blocks \ {Root})
    BY <1>1, <1>2 DEF IsWholeOn
  <1>4. some = {}
    <2> SUFFICES ASSUME some /= {} PROVE FALSE
      OBVIOUS
    <2>1. PICK x \in some : Parent[x] \notin some
      BY <1>3, TreeAssumption
    <2>2. x /= Root /\ Parent[x] \in D \cap E
      BY <1>3, <2>1 DEF IsWholeOn
    <2>3. f[Parent[x]] = g[Parent[x]]
      BY <2>1, <2>2
    <2> QED
      BY <1>1, <1>2, <2>1, <2>2, <2>3
  <1> QED
    BY <1>4

\* Every block is in one of them.
LEMMA WholesExist ==
    ASSUME NEW s, NEW b \in Blocks
    PROVE  \E D : \E f : IsWholeOn(f, D, s) /\ b \in D
  <1> DEFINE Has(x) == \E D : \E f : IsWholeOn(f, D, s) /\ x \in D
             some == {x \in Blocks : ~Has(x)}
  <1>1. Has(Root)
    <2> DEFINE f == [x \in {Root} |-> text[Root][s]]
    <2>1. IsWholeOn(f, {Root}, s)
      <3>1. f = [x \in {Root} |-> IF x = Root THEN text[x][s] ELSE text[x][s] \o f[Parent[x]]]
        OBVIOUS
      <3> QED
        BY <3>1, TreeAssumption DEF IsWholeOn
    <2> QED
      BY <2>1
  <1>2. some \in SUBSET (Blocks \ {Root})
    BY <1>1
  <1>3. some = {}
    <2> SUFFICES ASSUME some /= {} PROVE FALSE
      OBVIOUS
    <2>1. PICK x \in some : Parent[x] \notin some
      BY <1>2, TreeAssumption
    <2>2. x \in Blocks /\ x /= Root /\ Parent[x] \in Blocks
      BY <1>2, <2>1, TreeAssumption
    <2>3. PICK D, f : IsWholeOn(f, D, s) /\ Parent[x] \in D
      BY <2>1, <2>2
    <2>4. x \notin D
      BY <2>1, <2>3
    <2> DEFINE E == D \cup {x}
               g == [y \in E |-> IF y = x THEN text[x][s] \o f[Parent[x]] ELSE f[y]]
    <2>5. \A y \in E : y /= Root => Parent[y] \in D
      BY <2>3 DEF IsWholeOn
    <2>6. \A y \in E : y /= Root => g[Parent[y]] = f[Parent[y]]
      BY <2>4, <2>5
    <2>7. \A y \in D : f[y] = IF y = Root THEN text[y][s] ELSE text[y][s] \o f[Parent[y]]
      BY <2>3 DEF IsWholeOn
    <2>8. \A y \in E : g[y] = IF y = Root THEN text[y][s] ELSE text[y][s] \o g[Parent[y]]
      <3> SUFFICES ASSUME NEW y \in E
                   PROVE  g[y] = IF y = Root THEN text[y][s] ELSE text[y][s] \o g[Parent[y]]
        OBVIOUS
      <3>1. CASE y = x
        BY <2>2, <2>6, <3>1
      <3>2. CASE y /= x
        <4>1. g[y] = f[y] /\ y \in D
          BY <3>2
        <4> QED
          BY <2>6, <2>7, <4>1
      <3> QED
        BY <3>1, <3>2
    <2>9. g = [y \in E |-> g[y]]
      OBVIOUS
    <2> HIDE DEF g
    <2>10. IsWholeOn(g, E, s)
      BY <2>2, <2>3, <2>5, <2>8, <2>9 DEF IsWholeOn
    <2> QED
      BY <2>1, <2>10
  <1> QED
    BY <1>3

\* So Whole is what its recursion says.
LEMMA WholeIs ==
    ASSUME NEW s, NEW b \in Blocks
    PROVE  Whole(s)[b] = IF b = Root THEN text[b][s] ELSE text[b][s] \o Whole(s)[Parent[b]]
  <1> DEFINE Val(x, v) == \E D : \E f : IsWholeOn(f, D, s) /\ x \in D /\ v = f[x]
             whole == [x \in Blocks |-> CHOOSE v : Val(x, v)]
  <1>1. ASSUME NEW x \in Blocks, NEW D, NEW f, IsWholeOn(f, D, s), x \in D
        PROVE  whole[x] = f[x]
    <2>1. Val(x, f[x])
      BY <1>1
    <2>2. Val(x, whole[x])
      BY <2>1
    <2>3. PICK E, g : IsWholeOn(g, E, s) /\ x \in E /\ whole[x] = g[x]
      BY <2>2
    <2> QED
      BY <1>1, <2>3, WholesAgree
  <1>2. DOMAIN whole = Blocks /\ whole = [x \in Blocks |-> whole[x]]
    OBVIOUS
  <1> HIDE DEF whole
  <1>3. \A x \in Blocks :
           whole[x] = IF x = Root THEN text[x][s] ELSE text[x][s] \o whole[Parent[x]]
    <2> SUFFICES ASSUME NEW x \in Blocks
                 PROVE  whole[x] = IF x = Root THEN text[x][s]
                                   ELSE text[x][s] \o whole[Parent[x]]
      OBVIOUS
    <2>1. PICK D, f : IsWholeOn(f, D, s) /\ x \in D
      BY WholesExist
    <2>2. f[x] = IF x = Root THEN text[x][s] ELSE text[x][s] \o f[Parent[x]]
      BY <2>1 DEF IsWholeOn
    <2>3. whole[x] = f[x]
      BY <1>1, <2>1
    <2>4. x /= Root => Parent[x] \in D /\ Parent[x] \in Blocks
      BY <2>1 DEF IsWholeOn
    <2>5. x /= Root => whole[Parent[x]] = f[Parent[x]]
      BY <1>1, <2>1, <2>4
    <2> QED
      BY <2>2, <2>3, <2>5
  <1> DEFINE Is(f) == f = [x \in Blocks |-> IF x = Root THEN text[x][s]
                                          ELSE text[x][s] \o f[Parent[x]]]
  <1>4. Is(whole)
    BY <1>2, <1>3
  <1>5. Whole(s) = CHOOSE f : Is(f)
    BY Zenon DEF Whole
  <1>6. Is(Whole(s))
    BY <1>4, <1>5
  <1> QED
    BY <1>6

-----------------------------------------------------------------------------
(* Merging. *)

\* The pointer of block b.
Arr(b, s) == conf[b][s].arr

\* What has which domain.
Shaped ==
    /\ conf = [b \in Blocks |-> conf[b]]
    /\ \A b \in Blocks : conf[b] = [s \in Sides |-> conf[b][s]]
    /\ heap = [a \in Blocks \X Sides |-> heap[a]]
    /\ text = [b \in Blocks |-> text[b]]
    /\ \A b \in Blocks : text[b] = [s \in Sides |-> text[b][s]]

\* What the phase says of the blocks that are merged.
Phases ==
    /\ phase \in {"reading", "merging", "serving", "rejected"}
    /\ merged \subseteq Blocks
    /\ phase = "reading" => merged = {}
    /\ phase \in {"merging", "serving"} => Root \in merged
    /\ phase = "serving" => merged = Blocks

\* Whose array block b may point to.
OwnerOrAncestor(b, s) ==
    \/ Arr(b, s) = NULL
    \/ Arr(b, s) = <<b, s>>
    \/ b \in merged /\ \E a \in merged : Arr(b, s) = <<a, s>>

\* So for every block.
Owned == \A b \in Blocks, s \in Sides : OwnerOrAncestor(b, s)

\* While the file is read every array is a sequence, empty until its block has a
\* pointer on it.
ReadingPart(b, s) ==
    /\ IsSeq(heap[<<b, s>>])
    /\ Arr(b, s) = NULL => heap[<<b, s>>] = << >>

\* So for every block.
Reading == phase = "reading" => \A b \in Blocks, s \in Sides : ReadingPart(b, s)

\* A side with an array needs its filter or handler.
Required == \A b \in Blocks, s \in Sides : Arr(b, s) /= NULL => s \in requires

\* What is needed is installed.
Served == phase = "serving" => requires \subseteq installed

\* IdsArePositions, of one block.
IdsPart(b, s) ==
    /\ conf[b][s].cnt = Len(ArrayOf(b, s))
    /\ \A k \in DOMAIN ArrayOf(b, s) : ArrayOf(b, s)[k].id = k - 1

\* The rules of A were written within these blocks, no two at one place.
Origins(A, within) ==
    /\ \A j \in 1 .. Len(A) : A[j].from[1] \in within
    /\ \A j, k \in 1 .. Len(A) : A[j].from = A[k].from => j = k

\* A block that is not merged has the rules written there, and one that is has
\* enough of the rules written there and around it.
ListedPart(b, s) ==
    /\ IsSeq(text[b][s])
    /\ \A k \in 1 .. Len(text[b][s]) : text[b][s][k].from = <<b, s, k>>
    /\ IsSeq(ArrayOf(b, s))
    /\ b \notin merged => ArrayOf(b, s) = text[b][s]
    /\ b \in merged => /\ IsSeq(Whole(s)[b])
                       /\ Embeds(ArrayOf(b, s), Whole(s)[b])
                       /\ Origins(ArrayOf(b, s), merged)

\* So for every block.
AllListed == \A b \in Blocks, s \in Sides : ListedPart(b, s)

\* The inductive invariant of the configuration.
IInv ==
    /\ Shaped /\ Phases /\ Owned /\ Reading
    /\ Required /\ Served /\ IdsArePositions /\ AllListed

\* IdsArePositions block by block.
LEMMA IdsByPart ==
    IdsArePositions <=> \A b \in Blocks, s \in Sides : IdsPart(b, s)
  BY DEF IdsArePositions, IdsPart

\* Append, for a sequence of anything.
LEMMA Appended ==
    ASSUME NEW x, IsSeq(x), NEW e
    PROVE  /\ IsSeq(Append(x, e))
           /\ Len(x) \in Nat
           /\ DOMAIN x = 1 .. Len(x)
           /\ Len(Append(x, e)) = Len(x) + 1
           /\ DOMAIN Append(x, e) = 1 .. Len(x) + 1
           /\ \A k \in 1 .. Len(x) : Append(x, e)[k] = x[k]
           /\ Append(x, e)[Len(x) + 1] = e
  <1>1. PICK S : x \in Seq(S)
    BY DEF IsSeq
  <1> DEFINE T == S \cup {e}
  <1>2. x \in Seq(T) /\ e \in T
    BY <1>1, SeqMonotonic
  <1> HIDE DEF T
  <1>3. Append(x, e) \in Seq(T)
    BY <1>2
  <1>4. IsSeq(Append(x, e))
    BY <1>3 DEF IsSeq
  <1>5. /\ Len(x) \in Nat
        /\ DOMAIN x = 1 .. Len(x)
        /\ Len(Append(x, e)) = Len(x) + 1
        /\ DOMAIN Append(x, e) = 1 .. Len(x) + 1
    BY <1>2
  <1>6. \A k \in 1 .. Len(x) : Append(x, e)[k] = x[k]
    BY <1>2
  <1>7. Append(x, e)[Len(x) + 1] = e
    BY <1>2
  <1> QED
    BY <1>4, <1>5, <1>6, <1>7

\* The rules that are renumbered have their indexes for ids.
LEMMA Renumbered ==
    ASSUME NEW list, NEW own
    PROVE  /\ DOMAIN Reindex(list, own) = DOMAIN list
           /\ \A k \in DOMAIN list : Reindex(list, own)[k].id = k - 1
  BY DEF Reindex, WithId

\* It holds before the file is read.
LEMMA InitIInv == Init => IInv
  <1> SUFFICES ASSUME Init PROVE IInv
    OBVIOUS
  <1>1. \A b \in Blocks, s \in Sides :
           Arr(b, s) = NULL /\ conf[b][s].cnt = 0 /\ heap[<<b, s>>] = << >>
    BY DEF Init, Arr
  <1>2. Shaped
    <2>1. \A b \in Blocks : text[b] = [s \in Sides |-> << >>]
      BY DEF Init
    <2> QED
      BY <2>1 DEF Init, Shaped
  <1>3. Phases /\ Served
    BY DEF Init, Phases, Served
  <1>4. Owned /\ Required
    BY <1>1 DEF Owned, OwnerOrAncestor, Required
  <1>5. IsSeq(<< >>)
    <2>1. << >> \in Seq({})
      OBVIOUS
    <2> QED
      BY <2>1 DEF IsSeq
  <1>6. Reading
    BY <1>1, <1>5 DEF Reading, ReadingPart
  <1>7. \A b \in Blocks, s \in Sides : IdsPart(b, s)
    <2> SUFFICES ASSUME NEW b \in Blocks, NEW s \in Sides PROVE IdsPart(b, s)
      OBVIOUS
    <2>1. ArrayOf(b, s) = << >> /\ conf[b][s].cnt = 0
      BY <1>1 DEF ArrayOf, Arr
    <2> QED
      BY <2>1 DEF IdsPart
  <1>8. AllListed
    <2> SUFFICES ASSUME NEW b \in Blocks, NEW s \in Sides PROVE ListedPart(b, s)
      BY DEF AllListed
    <2>1. text[b][s] = << >> /\ ArrayOf(b, s) = << >> /\ merged = {}
      BY <1>1 DEF Init, ArrayOf, Arr
    <2> QED
      BY <1>5, <2>1 DEF ListedPart
  <1> QED
    BY <1>2, <1>3, <1>4, <1>6, <1>7, <1>8, IdsByPart DEF IInv

-----------------------------------------------------------------------------
(* A line is accepted. *)

\* A rule more for a block that is read.
LEMMA AcceptStep ==
    ASSUME IInv, phase = "reading",
           NEW b \in Blocks, NEW s \in Sides, NEW line, NEW when, NEW parsed,
           Accept(b, s, line, when, parsed)
    PROVE  IInv'
  <1> DEFINE rule == [h |-> parsed.rule, id |-> conf[b][s].cnt,
                      from |-> <<b, s, Len(text[b][s]) + 1>>,
                      line |-> line, when |-> when]
             old == heap[<<b, s>>]
  <1>1. rule.id = conf[b][s].cnt /\ rule.from = <<b, s, Len(text[b][s]) + 1>>
    OBVIOUS
  <1>2. /\ heap' = [heap EXCEPT ![<<b, s>>] = Append(@, rule)]
        /\ conf' = [conf EXCEPT ![b][s] = [arr |-> <<b, s>>, cnt |-> @.cnt + 1]]
        /\ requires' = requires \cup {s}
        /\ text' = [text EXCEPT ![b][s] = Append(@, rule)]
        /\ UNCHANGED <<phase, merged, installed>>
    BY DEF Accept, Requires
  <1> HIDE DEF rule
  <1>3. Shaped
    BY DEF IInv
  <1>4. /\ heap'[<<b, s>>] = Append(old, rule)
        /\ \A a \in Blocks \X Sides : a /= <<b, s>> => heap'[a] = heap[a]
    BY <1>2, <1>3 DEF Shaped
  <1>5. conf'[b][s] = [arr |-> <<b, s>>, cnt |-> conf[b][s].cnt + 1]
    BY <1>2, <1>3 DEF Shaped
  <1>6. \A x \in Blocks, t \in Sides : <<x, t>> /= <<b, s>> => conf'[x][t] = conf[x][t]
    BY <1>2, <1>3 DEF Shaped
  <1>7. Shaped'
    BY <1>2, <1>3 DEF Shaped
  <1>8. merged = {} /\ merged' = {} /\ phase' = "reading"
    BY <1>2 DEF IInv, Phases
  <1>9. Phases' /\ Served'
    BY <1>8 DEF Phases, Served
  <1>10. ReadingPart(b, s) /\ OwnerOrAncestor(b, s) /\ IdsPart(b, s)
    BY IdsByPart DEF IInv, Reading, Owned
  <1>11. Arr(b, s)' = <<b, s>> /\ <<b, s>> /= NULL
    BY <1>5, NullAssumption DEF Arr
  <1>12. OwnerOrAncestor(b, s)' /\ ReadingPart(b, s)'
    <2>1. IsSeq(heap[<<b, s>>]')
      BY <1>4, <1>10, Appended DEF ReadingPart
    <2> QED
      BY <2>1, <1>11 DEF OwnerOrAncestor, ReadingPart
  <1>13. IdsPart(b, s)'
    <2>1. ArrayOf(b, s) = old
      <3>1. CASE Arr(b, s) = NULL
        BY <3>1, <1>10 DEF ArrayOf, Arr, ReadingPart
      <3>2. CASE Arr(b, s) = <<b, s>>
        BY <3>2, <1>11 DEF ArrayOf, Arr
      <3> QED
        BY <3>1, <3>2, <1>8, <1>10 DEF OwnerOrAncestor
    <2>2. conf[b][s].cnt = Len(old) /\ \A k \in DOMAIN old : old[k].id = k - 1
      BY <1>10, <2>1 DEF IdsPart
    <2>3. ArrayOf(b, s)' = Append(old, rule)
      BY <1>4, <1>11 DEF ArrayOf, Arr
    <2>4. IsSeq(old)
      BY <1>10 DEF ReadingPart
    <2> DEFINE new == Append(old, rule)
    <2>5. /\ Len(old) \in Nat /\ DOMAIN old = 1 .. Len(old)
          /\ Len(new) = Len(old) + 1
          /\ DOMAIN new = 1 .. Len(old) + 1
          /\ \A k \in 1 .. Len(old) : new[k] = old[k]
          /\ new[Len(old) + 1] = rule
      BY <2>4, Appended
    <2> HIDE DEF new, old
    <2>6. \A k \in DOMAIN new : new[k].id = k - 1
      <3> SUFFICES ASSUME NEW k \in DOMAIN new PROVE new[k].id = k - 1
        OBVIOUS
      <3>1. CASE k \in 1 .. Len(old)
        BY <3>1, <2>2, <2>5
      <3>2. CASE k = Len(old) + 1
        BY <3>2, <2>2, <2>5, <1>1
      <3> QED
        BY <3>1, <3>2, <2>5
    <2>7. conf'[b][s].cnt = Len(new)
      BY <1>5, <2>2, <2>5
    <2>8. ArrayOf(b, s)' = new
      BY <2>3 DEF new
    <2> QED
      BY <2>6, <2>7, <2>8 DEF IdsPart
  <1>14. ASSUME NEW x \in Blocks, NEW t \in Sides, <<x, t>> /= <<b, s>>
         PROVE  /\ OwnerOrAncestor(x, t)' /\ ReadingPart(x, t)' /\ IdsPart(x, t)'
                /\ Arr(x, t)' = Arr(x, t)
    <2>1. conf'[x][t] = conf[x][t] /\ heap'[<<x, t>>] = heap[<<x, t>>]
      BY <1>4, <1>6, <1>14
    <2>2. OwnerOrAncestor(x, t) /\ ReadingPart(x, t) /\ IdsPart(x, t)
      BY IdsByPart DEF IInv, Owned, Reading
    <2>3. Arr(x, t) = NULL \/ Arr(x, t) = <<x, t>>
      BY <2>2, <1>8 DEF OwnerOrAncestor
    <2>4. Arr(x, t)' = Arr(x, t)
      BY <2>1 DEF Arr
    <2>5. ArrayOf(x, t)' = ArrayOf(x, t)
      BY <2>1, <2>3 DEF ArrayOf, Arr
    <2> QED
      BY <2>1, <2>2, <2>3, <2>4, <2>5 DEF OwnerOrAncestor, ReadingPart, IdsPart
  <1>15. Owned' /\ Reading' /\ Required'
    <2>1. Owned' /\ Reading'
      BY <1>12, <1>14 DEF Owned, Reading
    <2>2. ASSUME NEW x \in Blocks, NEW t \in Sides, Arr(x, t)' /= NULL
          PROVE  t \in requires'
      <3>1. CASE <<x, t>> = <<b, s>>
        BY <3>1, <1>2
      <3>2. CASE <<x, t>> /= <<b, s>>
        <4>1. Arr(x, t) /= NULL
          BY <1>14, <2>2, <3>2
        <4> QED
          BY <4>1, <1>2 DEF IInv, Required
      <3> QED
        BY <3>1, <3>2
    <2> QED
      BY <2>1, <2>2 DEF Required
  <1>16. \A x \in Blocks, t \in Sides : IdsPart(x, t)'
    BY <1>13, <1>14
  <1>17. IdsArePositions'
    BY <1>16 DEF IdsArePositions, IdsPart
  <1>18. /\ text'[b][s] = Append(text[b][s], rule)
         /\ \A x \in Blocks, t \in Sides : <<x, t>> /= <<b, s>> => text'[x][t] = text[x][t]
    BY <1>2, <1>3 DEF Shaped
  <1>19. \A x \in Blocks, t \in Sides : ListedPart(x, t)
    BY DEF IInv, AllListed
  <1>20. ListedPart(b, s)'
    <2> DEFINE was == text[b][s]
               new == Append(was, rule)
    <2>1. IsSeq(was) /\ ArrayOf(b, s) = was /\ \A k \in 1 .. Len(was) : was[k].from = <<b, s, k>>
      BY <1>8, <1>19 DEF ListedPart
    <2>2. /\ IsSeq(new) /\ Len(was) \in Nat /\ Len(new) = Len(was) + 1
          /\ \A k \in 1 .. Len(was) : new[k] = was[k]
          /\ new[Len(was) + 1] = rule
      BY <2>1, Appended
    <2>3. old = was
      <3>1. CASE Arr(b, s) = NULL
        BY <3>1, <1>10, <2>1 DEF ArrayOf, Arr, ReadingPart
      <3>2. CASE Arr(b, s) = <<b, s>>
        BY <3>2, <1>11, <2>1 DEF ArrayOf, Arr
      <3> QED
        BY <3>1, <3>2, <1>8, <1>10 DEF OwnerOrAncestor
    <2>4. ArrayOf(b, s)' = Append(old, rule)
      BY <1>4, <1>11 DEF ArrayOf, Arr
    <2>5. ArrayOf(b, s)' = new /\ text'[b][s] = new
      BY <1>18, <2>3, <2>4
    <2> HIDE DEF new, was
    <2>6. \A k \in 1 .. Len(new) : new[k].from = <<b, s, k>>
      <3> SUFFICES ASSUME NEW k \in 1 .. Len(new) PROVE new[k].from = <<b, s, k>>
        OBVIOUS
      <3>1. CASE k \in 1 .. Len(was)
        BY <2>1, <2>2, <3>1
      <3>2. CASE k = Len(was) + 1
        BY <1>1, <2>2, <3>2 DEF was
      <3> QED
        BY <2>2, <3>1, <3>2
    <2> QED
      BY <1>8, <2>2, <2>5, <2>6 DEF ListedPart
  <1>21. ASSUME NEW x \in Blocks, NEW t \in Sides, <<x, t>> /= <<b, s>>
         PROVE  ListedPart(x, t)'
    <2>1. conf'[x][t] = conf[x][t] /\ heap'[<<x, t>>] = heap[<<x, t>>]
      BY <1>4, <1>6, <1>21
    <2>2. OwnerOrAncestor(x, t)
      BY DEF IInv, Owned
    <2>3. ArrayOf(x, t)' = ArrayOf(x, t)
      BY <1>8, <2>1, <2>2 DEF ArrayOf, Arr, OwnerOrAncestor
    <2>4. text'[x][t] = text[x][t]
      BY <1>18, <1>21
    <2> QED
      BY <1>8, <1>19, <2>3, <2>4 DEF ListedPart
  <1>22. AllListed'
    BY <1>20, <1>21 DEF AllListed
  <1> QED
    BY <1>7, <1>9, <1>15, <1>17, <1>22 DEF IInv

-----------------------------------------------------------------------------
(* A block is merged. *)

\* Nothing but the block's own pointers and its own arrays changes.
LEMMA MergeFrame ==
    ASSUME IInv, NEW b \in Blocks \ merged, NEW memory, Merge(b, memory)
    PROVE  /\ Parent[b] \in merged /\ Parent[b] \in Blocks
           /\ \A x \in Blocks, t \in Sides : x /= b =>
                /\ conf'[x][t] = conf[x][t]
                /\ heap'[<<x, t>>] = heap[<<x, t>>]
                /\ OwnerOrAncestor(x, t)'
                /\ Arr(x, t)' = Arr(x, t)
                /\ ArrayOf(x, t)' = ArrayOf(x, t)
  <1>1. Parent[b] \in merged /\ Parent[b] \in Blocks
    BY DEF Merge, IInv, Phases
  <1> SUFFICES ASSUME NEW x \in Blocks, NEW t \in Sides, x /= b
               PROVE  /\ conf'[x][t] = conf[x][t]
                      /\ heap'[<<x, t>>] = heap[<<x, t>>]
                      /\ OwnerOrAncestor(x, t)'
                      /\ Arr(x, t)' = Arr(x, t)
                      /\ ArrayOf(x, t)' = ArrayOf(x, t)
    BY <1>1
  <1>2. \A y \in Blocks : y /= b => heap'[<<y, t>>] = heap[<<y, t>>]
    <2> SUFFICES ASSUME NEW y \in Blocks, y /= b PROVE heap'[<<y, t>>] = heap[<<y, t>>]
      OBVIOUS
    <2>1. heap'[<<y, t>>] = MergedHeap(b, y, t, t \in memory)
      BY DEF Merge
    <2> QED
      BY <2>1 DEF MergedHeap
  <1>3. conf'[x][t] = conf[x][t]
    BY DEF Merge, IInv, Shaped
  <1>4. Arr(x, t)' = Arr(x, t) /\ merged \subseteq merged'
    BY <1>3 DEF Arr, Merge
  <1>5. OwnerOrAncestor(x, t)
    BY DEF IInv, Owned
  <1>6. OwnerOrAncestor(x, t)'
    BY <1>4, <1>5 DEF OwnerOrAncestor
  <1>7. ArrayOf(x, t)' = ArrayOf(x, t)
    <2>1. CASE Arr(x, t) = NULL
      BY <2>1, <1>4 DEF ArrayOf, Arr
    <2>2. CASE Arr(x, t) = <<x, t>>
      BY <2>2, <1>2, <1>3 DEF ArrayOf, Arr
    <2>3. ASSUME NEW a \in merged, Arr(x, t) = <<a, t>>
          PROVE  ArrayOf(x, t)' = ArrayOf(x, t)
      <3>1. a \in Blocks /\ a /= b
        BY DEF IInv, Phases
      <3> QED
        BY <2>3, <3>1, <1>2, <1>3 DEF ArrayOf, Arr
    <2> QED
      BY <1>5, <2>1, <2>2, <2>3 DEF OwnerOrAncestor
  <1> QED
    BY <1>2, <1>3, <1>4, <1>6, <1>7

\* What the block itself is left with.
LEMMA MergedBlock ==
    ASSUME IInv, NEW b \in Blocks \ merged, NEW memory, Merge(b, memory), NEW t \in Sides
    PROVE  /\ OwnerOrAncestor(b, t)'
           /\ IdsPart(b, t)'
           /\ Arr(b, t)' /= NULL => t \in requires
  <1> DEFINE p == Parent[b]
             array == MergedHeap(b, b, t, t \in memory)
  <1>1. p \in merged /\ p \in Blocks /\ p /= b
    BY MergeFrame
  <1>2. OwnerOrAncestor(b, t) /\ OwnerOrAncestor(p, t) /\ IdsPart(b, t) /\ IdsPart(p, t)
    BY <1>1, IdsByPart DEF IInv, Owned
  <1>3. conf'[b][t] = MergedConf(b, t, t \in memory) /\ heap'[<<b, t>>] = array
    BY DEF Merge, IInv, Shaped
  <1>4. b \in merged' /\ merged \subseteq merged'
    BY DEF Merge
  <1>5. CASE Arr(b, t) = NULL
    <2>1. conf'[b][t] = conf[p][t]
      BY <1>3, <1>5 DEF MergedConf, Arr
    <2>2. conf'[p][t] = conf[p][t] /\ Arr(p, t)' = Arr(p, t) /\ ArrayOf(p, t)' = ArrayOf(p, t)
      BY <1>1, MergeFrame
    <2>3. Arr(b, t)' = Arr(p, t) /\ ArrayOf(b, t)' = ArrayOf(p, t)
      BY <2>1, <2>2 DEF Arr, ArrayOf
    <2>4. IdsPart(b, t)'
      BY <1>2, <2>1, <2>3 DEF IdsPart
    <2>5. OwnerOrAncestor(b, t)'
      BY <1>1, <1>2, <1>4, <2>3 DEF OwnerOrAncestor
    <2> QED
      BY <1>1, <2>3, <2>4, <2>5 DEF IInv, Required
  <1>6. CASE Arr(b, t) /= NULL
    <2>1. Arr(b, t) = <<b, t>>
      BY <1>2, <1>6 DEF OwnerOrAncestor
    <2>2. conf'[b][t] = [arr |-> <<b, t>>, cnt |-> Len(array)]
      BY <1>3, <1>6, <2>1 DEF MergedConf, Arr
    <2>3. Arr(b, t)' = <<b, t>> /\ <<b, t>> /= NULL
      BY <2>2, NullAssumption DEF Arr
    <2>4. ArrayOf(b, t)' = array
      BY <1>3, <2>3 DEF ArrayOf, Arr
    <2>5. \A k \in DOMAIN array : array[k].id = k - 1
      <3>1. CASE Arr(p, t) = NULL
        <4>1. array = ArrayOf(b, t)
          BY <3>1, <2>1, <2>3 DEF MergedHeap, ArrayOf, Arr
        <4> QED
          BY <1>2, <4>1 DEF IdsPart
      <3>2. CASE Arr(p, t) /= NULL
        <4>1. array = merge_one_array(heap[Arr(b, t)], heap[Arr(p, t)], conf[p][t].cnt, t \in memory)
          BY <1>6, <3>2 DEF MergedHeap, Arr
        <4>2. PICK list, own : array = Reindex(list, own)
          BY <4>1 DEF merge_one_array
        <4> HIDE DEF array
        <4> QED
          BY <4>2, Renumbered
      <3> QED
        BY <3>1, <3>2
    <2> HIDE DEF array
    <2>6. IdsPart(b, t)'
      BY <2>2, <2>4, <2>5 DEF IdsPart
    <2>7. OwnerOrAncestor(b, t)'
      BY <2>3 DEF OwnerOrAncestor
    <2>8. t \in requires
      BY <1>6 DEF IInv, Required
    <2> QED
      BY <2>6, <2>7, <2>8
  <1> QED
    BY <1>5, <1>6

\* With an empty list in front a list is the same.
LEMMA EmptyFirst ==
    ASSUME NEW x, IsSeq(x)
    PROVE  << >> \o x = x
  <1>1. PICK S : x \in Seq(S)
    BY DEF IsSeq
  <1> QED
    BY <1>1, ConcatEmptySeq

\* One list behind another.
LEMMA ListsJoined ==
    ASSUME NEW x, IsSeq(x), NEW y, IsSeq(y)
    PROVE  /\ IsSeq(x \o y)
           /\ Len(x) \in Nat /\ Len(y) \in Nat
           /\ Len(x \o y) = Len(x) + Len(y)
           /\ \A k \in 1 .. Len(x) : (x \o y)[k] = x[k]
           /\ \A k \in 1 .. Len(y) : (x \o y)[Len(x) + k] = y[k]
  <1>1. PICK S : x \in Seq(S)
    BY DEF IsSeq
  <1>2. PICK T : y \in Seq(T)
    BY DEF IsSeq
  <1> DEFINE U == S \cup T
  <1>3. x \in Seq(U) /\ y \in Seq(U)
    BY <1>1, <1>2, SeqMonotonic
  <1> HIDE DEF U
  <1>4. /\ x \o y \in Seq(U) /\ Len(x \o y) = Len(x) + Len(y)
        /\ \A k \in 1 .. Len(x) + Len(y) :
              (x \o y)[k] = IF k <= Len(x) THEN x[k] ELSE y[k - Len(x)]
    BY <1>3, ConcatProperties
  <1>5. Len(x) \in Nat /\ Len(y) \in Nat
    BY <1>3
  <1> DEFINE z == x \o y
  <1> HIDE DEF z
  <1>6. \A k \in 1 .. Len(x) + Len(y) : z[k] = IF k <= Len(x) THEN x[k] ELSE y[k - Len(x)]
    BY <1>4 DEF z
  <1>7. \A k \in 1 .. Len(x) : z[k] = x[k]
    <2> SUFFICES ASSUME NEW k \in 1 .. Len(x) PROVE z[k] = x[k]
      OBVIOUS
    <2>1. k \in 1 .. Len(x) + Len(y) /\ k <= Len(x)
      BY <1>5
    <2> QED
      BY <1>6, <2>1
  <1>8. \A k \in 1 .. Len(y) : z[Len(x) + k] = y[k]
    <2> SUFFICES ASSUME NEW k \in 1 .. Len(y) PROVE z[Len(x) + k] = y[k]
      OBVIOUS
    <2>1. /\ Len(x) + k \in 1 .. Len(x) + Len(y) /\ ~(Len(x) + k <= Len(x))
          /\ (Len(x) + k) - Len(x) = k
      BY <1>5
    <2> QED
      BY <1>6, <2>1
  <1>9. IsSeq(x \o y)
    BY <1>4 DEF IsSeq
  <1> QED
    BY <1>4, <1>5, <1>7, <1>8, <1>9 DEF z

\* The rules of a merged list were written where those of the two lists were.
LEMMA MergedOrigins ==
    ASSUME NEW C, NEW A, NEW M, NEW K, NEW b, NEW s, NEW within, b \notin within,
           Len(C) \in Nat, Len(A) \in Nat, MergedFrom(M, C, A, K),
           \A k \in 1 .. Len(C) : C[k].from = <<b, s, k>>,
           Origins(A, within)
    PROVE  Origins(M, within \cup {b})
  <1> DEFINE o == Indexes(Len(A), K)
             c == Len(C)
  <1>1. Enumerates(o, Len(A), K)
    BY IndexesEnumerate
  <1>2. /\ Len(M) = c + Len(o)
        /\ \A k \in 1 .. c : M[k].from = C[k].from
        /\ \A k \in 1 .. Len(o) : M[c + k].from = A[o[k]].from
    BY DEF MergedFrom
  <1> HIDE DEF o
  <1>3. /\ Len(o) \in Nat
        /\ \A k \in 1 .. Len(o) : o[k] \in 1 .. Len(A)
        /\ \A j, k \in 1 .. Len(o) : j < k => o[j] < o[k]
    BY <1>1, EnumerationIs
  <1>4. \A k \in 1 .. c + Len(o) : k \in 1 .. c \/ \E l \in 1 .. Len(o) : k = c + l
    <2> SUFFICES ASSUME NEW k \in 1 .. c + Len(o), k \notin 1 .. c
                 PROVE  \E l \in 1 .. Len(o) : k = c + l
      OBVIOUS
    <2>1. k - c \in 1 .. Len(o) /\ k = c + (k - c)
      BY <1>3
    <2> QED
      BY <2>1
  <1>5. \A k \in 1 .. c : M[k].from = <<b, s, k>> /\ M[k].from[1] = b
    BY <1>2
  <1>6. \A k \in 1 .. Len(o) : M[c + k].from = A[o[k]].from /\ M[c + k].from[1] \in within
    BY <1>2, <1>3 DEF Origins
  <1>7. ASSUME NEW j \in 1 .. Len(M), NEW k \in 1 .. Len(M), M[j].from = M[k].from
        PROVE  j = k
    <2>1. CASE j \in 1 .. c /\ k \in 1 .. c
      <3>1. <<b, s, j>> = <<b, s, k>>
        BY <1>5, <1>7, <2>1
      <3> QED
        BY <3>1
    <2>2. ASSUME NEW l \in 1 .. Len(o), j = c + l, NEW m \in 1 .. Len(o), k = c + m
          PROVE  j = k
      <3>1. A[o[l]].from = A[o[m]].from /\ o[l] \in 1 .. Len(A) /\ o[m] \in 1 .. Len(A)
        BY <1>3, <1>6, <1>7, <2>2
      <3>2. o[l] = o[m]
        BY <3>1 DEF Origins
      <3>3. ~(l < m) /\ ~(m < l)
        BY <1>3, <3>1, <3>2
      <3>4. l = m
        BY <1>3, <3>3
      <3> QED
        BY <2>2, <3>4
    <2>3. CASE j \in 1 .. c /\ k \notin 1 .. c
      <3>1. PICK l \in 1 .. Len(o) : k = c + l
        BY <1>2, <1>4, <2>3
      <3>2. M[k].from[1] \in within
        BY <1>6, <3>1
      <3>3. M[j].from[1] = b
        BY <1>5, <2>3
      <3> QED
        BY <1>7, <3>2, <3>3
    <2>4. CASE j \notin 1 .. c /\ k \in 1 .. c
      <3>1. PICK l \in 1 .. Len(o) : j = c + l
        BY <1>2, <1>4, <2>4
      <3>2. M[j].from[1] \in within
        BY <1>6, <3>1
      <3>3. M[k].from[1] = b
        BY <1>5, <2>4
      <3> QED
        BY <1>7, <3>2, <3>3
    <2> QED
      BY <1>2, <1>4, <2>1, <2>2, <2>3, <2>4
  <1>8. \A j \in 1 .. Len(M) : M[j].from[1] \in within \cup {b}
    BY <1>2, <1>4, <1>5, <1>6
  <1> QED
    BY <1>7, <1>8 DEF Origins

\* Nothing is kept of an empty list.
LEMMA NothingKept ==
    ASSUME NEW C, Len(C) \in Nat
    PROVE  MergedFrom(C, C, << >>, {})
  <1> DEFINE o == Indexes(0, {})
  <1>1. o \in Seq(1 .. 0)
    BY IndexesEnumerate DEF Enumerates
  <1>2. Len(o) = 0
    <2> HIDE DEF o
    <2>1. Len(o) \in Nat /\ \A k \in 1 .. Len(o) : o[k] \in 1 .. 0
      BY <1>1
    <2> SUFFICES ASSUME Len(o) /= 0 PROVE FALSE
      OBVIOUS
    <2>2. 1 \in 1 .. Len(o)
      BY <2>1
    <2> QED
      BY <2>1, <2>2
  <1>3. Len(<< >>) = 0
    OBVIOUS
  <1> QED
    BY <1>2, <1>3 DEF MergedFrom

\* What a block is left with after merging stands for its rules and all around it.
LEMMA MergedList ==
    ASSUME IInv, NEW b \in Blocks \ merged, NEW memory, Merge(b, memory), NEW t \in Sides
    PROVE  /\ IsSeq(ArrayOf(b, t)')
           /\ IsSeq(Whole(t)[b])
           /\ Embeds(ArrayOf(b, t)', Whole(t)[b])
           /\ Origins(ArrayOf(b, t)', merged \cup {b})
  <1> DEFINE p == Parent[b]
             array == MergedHeap(b, b, t, t \in memory)
             C == text[b][t]
             A == ArrayOf(p, t)
             Above == Whole(t)[p]
  <1>1. p \in merged /\ p \in Blocks /\ p /= b
    BY MergeFrame
  <1>2. OwnerOrAncestor(b, t) /\ OwnerOrAncestor(p, t) /\ IdsPart(p, t)
    BY <1>1, IdsByPart DEF IInv, Owned
  <1>3. conf'[b][t] = MergedConf(b, t, t \in memory) /\ heap'[<<b, t>>] = array
    BY DEF Merge, IInv, Shaped
  <1>4. /\ IsSeq(C) /\ ArrayOf(b, t) = C /\ \A k \in 1 .. Len(C) : C[k].from = <<b, t, k>>
    BY DEF IInv, AllListed, ListedPart
  <1>5. /\ IsSeq(A) /\ IsSeq(Above) /\ Embeds(A, Above) /\ Origins(A, merged)
    BY <1>1 DEF IInv, AllListed, ListedPart
  <1>6. b /= Root
    BY DEF Merge, IInv, Phases
  <1>7. Whole(t)[b] = C \o Above
    BY <1>6, WholeIs
  <1>8. ASSUME NEW M, NEW K, NEW B, IsSeq(M), IsSeq(B), B = A, MergedFrom(M, C, B, K),
               ArrayOf(b, t)' = M
        PROVE  /\ IsSeq(ArrayOf(b, t)')
               /\ IsSeq(Whole(t)[b])
               /\ Embeds(ArrayOf(b, t)', Whole(t)[b])
               /\ Origins(ArrayOf(b, t)', merged \cup {b})
    <2> DEFINE N == C \o Above
    <2> HIDE DEF A, Above, C
    <2>1. /\ IsSeq(N)
          /\ Len(C) \in Nat /\ Len(Above) \in Nat
          /\ Len(N) = Len(C) + Len(Above)
          /\ \A k \in 1 .. Len(C) : N[k] = C[k]
          /\ \A k \in 1 .. Len(Above) : N[Len(C) + k] = Above[k]
      BY <1>4, <1>5, ListsJoined
    <2> HIDE DEF N
    <2>2. Len(B) \in Nat
      BY <1>8 DEF IsSeq
    <2>3. Embeds(M, N)
      BY <1>5, <1>8, <2>1, <2>2, MergeEmbeds
    <2>4. Origins(M, merged \cup {b})
      BY <1>4, <1>5, <1>8, <2>1, <2>2, MergedOrigins
    <2> QED
      BY <1>7, <1>8, <2>1, <2>3, <2>4 DEF N
  <1>9. CASE Arr(b, t) = NULL
    <2>1. conf'[b][t] = conf[p][t]
      BY <1>3, <1>9 DEF MergedConf, Arr
    <2>2. conf'[p][t] = conf[p][t] /\ Arr(p, t)' = Arr(p, t) /\ ArrayOf(p, t)' = A
      BY <1>1, MergeFrame
    <2>3. ArrayOf(b, t)' = A
      BY <2>1, <2>2 DEF Arr, ArrayOf
    <2>4. C = << >>
      BY <1>4, <1>9 DEF ArrayOf, Arr
    <2>5. Whole(t)[b] = Above
      BY <1>5, <1>7, <2>4, EmptyFirst
    <2>6. Origins(A, merged \cup {b})
      BY <1>5 DEF Origins
    <2> QED
      BY <1>5, <2>3, <2>5, <2>6
  <1>10. CASE Arr(b, t) /= NULL
    <2>1. Arr(b, t) = <<b, t>>
      BY <1>2, <1>10 DEF OwnerOrAncestor
    <2>2. conf'[b][t] = [arr |-> <<b, t>>, cnt |-> Len(array)]
      BY <1>3, <1>10, <2>1 DEF MergedConf, Arr
    <2>3. Arr(b, t)' = <<b, t>> /\ <<b, t>> /= NULL
      BY <2>2, NullAssumption DEF Arr
    <2>4. ArrayOf(b, t)' = array
      BY <1>3, <2>3 DEF ArrayOf, Arr
    <2>5. heap[Arr(b, t)] = C
      BY <1>4, <1>10 DEF ArrayOf, Arr
    <2>6. Len(C) \in Nat
      BY <1>4 DEF IsSeq
    <2>7. CASE Arr(p, t) = NULL
      <3>1. array = C
        BY <2>1, <2>5, <2>7 DEF MergedHeap, Arr
      <3>2. A = << >>
        BY <2>7 DEF ArrayOf, Arr
      <3>3. MergedFrom(C, C, << >>, {})
        BY <2>6, NothingKept
      <3> HIDE DEF array, A, C, Above
      <3>4. IsSeq(C) /\ IsSeq(A)
        BY <1>4, <1>5
      <3> QED
        BY <1>8, <2>4, <3>1, <3>2, <3>3, <3>4
    <2>8. CASE Arr(p, t) /= NULL
      <3>1. array = merge_one_array(heap[Arr(b, t)], heap[Arr(p, t)], conf[p][t].cnt, t \in memory)
        BY <1>10, <2>8 DEF MergedHeap, Arr
      <3>2. heap[Arr(p, t)] = A
        BY <2>8 DEF ArrayOf, Arr
      <3>3. conf[p][t].cnt = Len(A) /\ DOMAIN A = 1 .. Len(A)
            /\ \A j \in 1 .. Len(A) : A[j].id = j - 1
        BY <1>2, <1>5 DEF IdsPart, IsSeq
      <3>4. array = merge_one_array(C, A, Len(A), t \in memory)
        BY <2>5, <3>1, <3>2, <3>3
      <3>5. (t \in memory) \in BOOLEAN
        OBVIOUS
      <3> HIDE DEF array, A, C, Above
      <3>6. IsSeq(array) /\ \E K : MergedFrom(array, C, A, K)
        BY <1>4, <1>5, <3>3, <3>4, <3>5, MergedIs
      <3> QED
        BY <1>5, <1>8, <2>4, <3>6
    <2> QED
      BY <2>7, <2>8
  <1> QED
    BY <1>9, <1>10

\* A merge keeps the invariant.
LEMMA MergeStep ==
    ASSUME IInv, NEW b \in Blocks \ merged, NEW memory, Merge(b, memory)
    PROVE  IInv'
  <1>1. /\ phase' = "merging" /\ requires' = requires
        /\ merged' = merged \cup {b}
        /\ heap' = [a \in Blocks \X Sides |-> MergedHeap(b, a[1], a[2], a[2] \in memory)]
        /\ conf' = [conf EXCEPT ![b] = [s \in Sides |-> MergedConf(b, s, s \in memory)]]
    BY DEF Merge
  <1>0. text' = text /\ phase = "merging"
    BY DEF Merge
  <1>2. Phases' /\ Served' /\ Reading'
    BY <1>0, <1>1 DEF IInv, Phases, Served, Reading
  <1>3. Shaped'
    <2>1. conf' = [x \in Blocks |-> conf'[x]]
      BY <1>1 DEF IInv, Shaped
    <2>2. \A x \in Blocks : conf'[x] = [s \in Sides |-> conf'[x][s]]
      <3> SUFFICES ASSUME NEW x \in Blocks PROVE conf'[x] = [s \in Sides |-> conf'[x][s]]
        OBVIOUS
      <3>1. CASE x = b
        <4>1. conf'[b] = [s \in Sides |-> MergedConf(b, s, s \in memory)]
          BY <1>1 DEF IInv, Shaped
        <4> QED
          BY <3>1, <4>1
      <3>2. CASE x /= b
        <4>1. conf'[x] = conf[x]
          BY <1>1, <3>2 DEF IInv, Shaped
        <4> QED
          BY <4>1 DEF IInv, Shaped
      <3> QED
        BY <3>1, <3>2
    <2>3. heap' = [a \in Blocks \X Sides |-> heap'[a]]
      BY <1>1
    <2> QED
      BY <1>0, <2>1, <2>2, <2>3 DEF IInv, Shaped
  <1>4. ASSUME NEW x \in Blocks, NEW t \in Sides
        PROVE  /\ OwnerOrAncestor(x, t)' /\ IdsPart(x, t)'
               /\ Arr(x, t)' /= NULL => t \in requires
    <2>1. CASE x = b
      BY <2>1, MergedBlock
    <2>2. CASE x /= b
      <3>1. /\ conf'[x][t] = conf[x][t] /\ OwnerOrAncestor(x, t)'
            /\ Arr(x, t)' = Arr(x, t) /\ ArrayOf(x, t)' = ArrayOf(x, t)
        BY <2>2, MergeFrame
      <3>2. IdsPart(x, t) /\ (Arr(x, t) /= NULL => t \in requires)
        BY IdsByPart DEF IInv, Required
      <3> QED
        BY <3>1, <3>2 DEF IdsPart
    <2> QED
      BY <2>1, <2>2
  <1>5. Owned' /\ Required'
    BY <1>1, <1>4 DEF Owned, Required
  <1>6. IdsArePositions'
    BY <1>4 DEF IdsArePositions, IdsPart
  <1>7. \A t : Whole(t)' = Whole(t)
    BY <1>0 DEF Whole
  <1>8. ASSUME NEW x \in Blocks, NEW t \in Sides
        PROVE  ListedPart(x, t)'
    <2>1. ListedPart(x, t)
      BY DEF IInv, AllListed
    <2>2. CASE x = b
      <3>1. /\ IsSeq(ArrayOf(b, t)')
            /\ IsSeq(Whole(t)[b])
            /\ Embeds(ArrayOf(b, t)', Whole(t)[b])
            /\ Origins(ArrayOf(b, t)', merged \cup {b})
        BY MergedList
      <3> QED
        BY <1>0, <1>1, <1>7, <2>1, <2>2, <3>1 DEF ListedPart
    <2>3. CASE x /= b
      <3>1. ArrayOf(x, t)' = ArrayOf(x, t)
        BY <2>3, MergeFrame
      <3>2. x \in merged <=> x \in merged'
        BY <1>1, <2>3
      <3>3. Origins(ArrayOf(x, t), merged) => Origins(ArrayOf(x, t), merged')
        BY <1>1 DEF Origins
      <3> QED
        BY <1>0, <1>7, <2>1, <3>1, <3>2, <3>3 DEF ListedPart
    <2> QED
      BY <2>2, <2>3
  <1>9. AllListed'
    BY <1>8 DEF AllListed
  <1> QED
    BY <1>2, <1>3, <1>5, <1>6, <1>9 DEF IInv

\* A step that leaves the pointers and the arrays alone, and merges no block
\* but perhaps the first.
LEMMA QuietStep ==
    ASSUME IInv, UNCHANGED <<heap, conf, text, requires>>, merged \subseteq merged',
           \A x \in merged' : x \in merged \/ x = Root,
           Phases', Served', phase' /= "reading" \/ phase = "reading"
    PROVE  IInv'
  <1>1. \A x \in Blocks, t \in Sides :
           Arr(x, t)' = Arr(x, t) /\ ArrayOf(x, t)' = ArrayOf(x, t)
    BY DEF Arr, ArrayOf
  <1>2. Shaped' /\ Required'
    BY <1>1 DEF IInv, Shaped, Required
  <1>3. Owned'
    BY <1>1 DEF IInv, Owned, OwnerOrAncestor
  <1>4. Reading'
    BY <1>1 DEF IInv, Reading, ReadingPart
  <1>5. IdsArePositions'
    BY <1>1 DEF IInv, IdsArePositions
  <1>6. \A t : Whole(t)' = Whole(t)
    BY DEF Whole
  <1>7. ASSUME NEW x \in Blocks, NEW t \in Sides
        PROVE  ListedPart(x, t)'
    <2>1. ListedPart(x, t)
      BY DEF IInv, AllListed
    <2>2. Origins(ArrayOf(x, t), merged) => Origins(ArrayOf(x, t), merged')
      BY DEF Origins
    <2>3. CASE x \in merged \/ x \notin merged'
      BY <1>1, <1>6, <2>1, <2>2, <2>3 DEF ListedPart
    <2>4. CASE x \notin merged /\ x \in merged'
      <3>1. x = Root /\ ArrayOf(x, t) = text[x][t]
        BY <2>1, <2>4 DEF ListedPart
      <3>2. Whole(t)[x] = text[x][t]
        BY <3>1, WholeIs
      <3>3. Len(text[x][t]) \in Nat
        BY <2>1 DEF ListedPart, IsSeq
      <3>4. Embeds(text[x][t], text[x][t])
        BY <3>3, EmbedsItself
      <3>5. \A k \in 1 .. Len(text[x][t]) : text[x][t][k].from = <<x, t, k>>
        BY <2>1 DEF ListedPart
      <3>6. Origins(text[x][t], merged')
        BY <2>4, <3>5 DEF Origins
      <3> QED
        BY <1>1, <1>6, <2>1, <2>4, <3>1, <3>2, <3>4, <3>6 DEF ListedPart
    <2> QED
      BY <2>3, <2>4
  <1>8. AllListed'
    BY <1>7 DEF AllListed
  <1> QED
    BY <1>2, <1>3, <1>4, <1>5, <1>8 DEF IInv

\* Every step keeps it.
LEMMA NextIInv ==
    ASSUME IInv, [Next]_vars PROVE IInv'
  <1>1. CASE Read
    <2>1. PICK b \in Blocks, s \in Sides, line \in Lines, when \in BOOLEAN :
             Directive(b, s, line, when)
      BY <1>1 DEF Read
    <2> DEFINE parsed == parse_directive(s, line, when)
    <2>2. phase = "reading"
      BY <1>1 DEF Read
    <2>3. Accept(b, s, line, when, parsed) \/ Reject(s, line, when)
      BY <2>1 DEF Directive
    <2> HIDE DEF parsed
    <2>4. CASE Reject(s, line, when)
      <3>1. Phases' /\ Served'
        BY <2>4 DEF Reject, IInv, Phases, Served
      <3> QED
        BY <2>2, <2>4, <3>1, QuietStep DEF Reject
    <2> QED
      BY <2>2, <2>3, <2>4, AcceptStep
  <1>2. CASE EndOfFile
    <2>1. Phases' /\ Served'
      BY <1>2, TreeAssumption DEF EndOfFile, Phases, Served
    <2>2. merged \subseteq merged'
      BY <1>2 DEF EndOfFile, IInv, Phases
    <2> QED
      BY <1>2, <2>1, <2>2, QuietStep DEF EndOfFile
  <1>3. ASSUME NEW b \in Blocks \ merged, NEW memory \in SUBSET Sides, Merge(b, memory)
        PROVE  IInv'
    BY <1>3, MergeStep
  <1>4. ASSUME NEW again \in BOOLEAN, PostConfig(again) PROVE IInv'
    <2>1. Phases' /\ Served'
      BY <1>4 DEF PostConfig, IInv, Phases, Served
    <2> QED
      BY <1>4, <2>1, QuietStep DEF PostConfig
  <1>5. CASE UNCHANGED vars
    <2>1. Phases' /\ Served'
      BY <1>5 DEF vars, IInv, Phases, Served
    <2> QED
      BY <1>5, <2>1, QuietStep DEF vars
  <1> QED
    BY <1>1, <1>2, <1>3, <1>4, <1>5 DEF Next

\* The invariant holds of every configuration, however far it is read or merged.
THEOREM Invariance == Spec => []IInv
  BY InitIInv, NextIInv, PTL DEF Spec

\* For every tree of blocks and every sequence of directives: the id of a rule is
\* its index in every list that requests may use, and the list's count is its
\* length, whether the list was read, inherited or merged.
THEOREM IdsCorrect == Spec => []IdsArePositions
  <1>1. IInv => IdsArePositions
    BY DEF IInv
  <1> QED
    BY <1>1, Invariance, PTL

\* No merge changes the rules of a block that is merged already, however many
\* blocks share its array.
THEOREM SharingIsSafe == Spec => MergedStays
  <1> DEFINE Stays == \A b \in merged, s \in Sides : ArrayOf(b, s)' = ArrayOf(b, s)
  <1>1. ASSUME IInv, [Next]_vars PROVE Stays
    <2> SUFFICES ASSUME NEW x \in merged, NEW t \in Sides
                 PROVE  ArrayOf(x, t)' = ArrayOf(x, t)
      OBVIOUS
    <2>1. CASE Read
      BY <1>1, <2>1 DEF Read, IInv, Phases
    <2>2. CASE EndOfFile
      BY <2>2 DEF EndOfFile, ArrayOf
    <2>3. ASSUME NEW b \in Blocks \ merged, NEW memory \in SUBSET Sides, Merge(b, memory)
          PROVE  ArrayOf(x, t)' = ArrayOf(x, t)
      <3>1. x \in Blocks /\ x /= b
        BY <1>1 DEF IInv, Phases
      <3> QED
        BY <1>1, <2>3, <3>1, MergeFrame
    <2>4. ASSUME NEW again \in BOOLEAN, PostConfig(again)
          PROVE  ArrayOf(x, t)' = ArrayOf(x, t)
      BY <2>4 DEF PostConfig, ArrayOf
    <2>5. CASE UNCHANGED vars
      BY <2>5 DEF vars, ArrayOf
    <2> QED
      BY <1>1, <2>1, <2>2, <2>3, <2>4, <2>5 DEF Next
  <1> HIDE DEF Stays
  <1>2. IInv /\ [Next]_vars => [Stays]_vars
    BY <1>1
  <1>3. Spec => [][Stays]_vars
    BY <1>2, Invariance, PTL DEF Spec
  <1> QED
    BY <1>3 DEF Stays, MergedStays

\* Where a location has rules, its own or inherited, the filter or the handler
\* that runs them is installed.
THEOREM RulesAreServed == Spec => []ServedWhereWritten
  <1>1. IInv => ServedWhereWritten
    <2> SUFFICES ASSUME IInv, phase = "serving", NEW b \in Blocks, NEW s \in Sides,
                        ArrayOf(b, s) /= << >>
                 PROVE  s \in installed
      BY DEF ServedWhereWritten
    <2>1. Arr(b, s) /= NULL
      BY DEF ArrayOf, Arr
    <2> QED
      BY <2>1 DEF IInv, Required, Served
  <1> QED
    BY <1>1, Invariance, PTL

\* Whatever the pool has memory for, a merged list runs the rules that the list of
\* all the rules of its block and of the blocks around it runs.
LEMMA ListedIsSound == IInv => MergeSound
  <1> SUFFICES ASSUME IInv, NEW b \in merged, NEW s \in Sides, NEW hit
               PROVE  Ran(ArrayOf(b, s), hit) = Ran(Whole(s)[b], hit)
    BY DEF MergeSound
  <1>1. b \in Blocks
    BY DEF IInv, Phases
  <1>2. ListedPart(b, s)
    BY <1>1 DEF IInv, AllListed
  <1> QED
    BY <1>2, EmbedsRan DEF ListedPart

\* Disabling rules while merging leaves no rule out that would run, and lets none
\* run that would not, for every tree of blocks and any conditions met.
THEOREM MergingIsSound == Spec => []MergeSound
  BY ListedIsSound, Invariance, PTL

-----------------------------------------------------------------------------
(* Sequences joined. *)

LEMMA Joined ==
    ASSUME NEW S, NEW s \in Seq(S), NEW t \in Seq(S)
    PROVE  /\ s \o t \in Seq(S)
           /\ Len(s \o t) = Len(s) + Len(t)
           /\ \A k \in 1 .. Len(s) : (s \o t)[k] = s[k]
           /\ \A k \in 1 .. Len(t) : (s \o t)[Len(s) + k] = t[k]
  OBVIOUS

LEMMA JoinedEnd ==
    ASSUME NEW S, NEW s \in Seq(S), NEW t \in Seq(S), NEW k \in 1 .. Len(t)
    PROVE  (s \o t)[Len(s) + k] = t[k]
  OBVIOUS

LEMMA OneBehind ==
    ASSUME NEW S, NEW s \in Seq(S), NEW t \in Seq(S), Len(t) = 1
    PROVE  (s \o t)[Len(s) + 1] = t[1]
<1>1. \A k \in 1 .. Len(t) : (s \o t)[Len(s) + k] = t[k]
  <2> TAKE k \in 1 .. Len(t)
  <2> QED BY JoinedEnd
<1>2. 1 \in 1 .. Len(t)
  OBVIOUS
<1> QED BY <1>1, <1>2, Zenon

LEMMA Same ==
    ASSUME NEW S, NEW s \in Seq(S), NEW t \in Seq(S), Len(t) = Len(s),
           \A k \in 1 .. Len(s) : s[k] = t[k]
    PROVE  s = t
  BY SeqEqual

\* The indexes of a line with the optional parts' lengths f, v and c.
LEMMA Cover ==
    ASSUME NEW f \in {0, 1}, NEW v \in {0, 1}, NEW c \in {0, 1},
           NEW k \in 1 .. 2 + f + v + c
    PROVE  \/ k = 1
           \/ k = 2 /\ f = 1
           \/ k = 2 + f
           \/ k = 3 + f /\ v = 1
           \/ k = 3 + f + v /\ c = 1
<1>1. f \in Nat /\ v \in Nat /\ c \in Nat /\ k \in Nat
  OBVIOUS
<1>2. /\ (f = 0 \/ f = 1) /\ (v = 0 \/ v = 1) /\ (c = 0 \/ c = 1)
      /\ 1 <= k /\ k <= 2 + f + v + c
  OBVIOUS
<1> QED BY <1>1, <1>2

-----------------------------------------------------------------------------
(* A line and its five parts. *)

\* The parts, as sequences of tokens.
Pieces(S, line, op, flag, name, value, cond) ==
    /\ line \in Seq(S) /\ line[1] = op[1]
    /\ op \in Seq(S) /\ Len(op) = 1
    /\ flag \in Seq(S) /\ Len(flag) \in {0, 1}
    /\ name \in Seq(S) /\ Len(name) = 1
    /\ value \in Seq(S) /\ Len(value) \in {0, 1}
    /\ cond \in Seq(S) /\ Len(cond) \in {0, 1}

InPlace(line, flag, name, value, cond) ==
    /\ Len(line) = 2 + Len(flag) + Len(value) + Len(cond)
    /\ Len(flag) = 1 => line[2] = flag[1]
    /\ line[2 + Len(flag)] = name[1]
    /\ Len(value) = 1 => line[3 + Len(flag)] = value[1]
    /\ Len(cond) = 1 => line[3 + Len(flag) + Len(value)] = cond[1]

\* A line is its parts joined exactly when their tokens are in place: from left to
\* right one part is joined to those in front of it.
LEMMA Five ==
    ASSUME NEW S, NEW op, NEW flag, NEW name, NEW value, NEW cond,
           NEW line, Pieces(S, line, op, flag, name, value, cond)
    PROVE  line = op \o flag \o name \o value \o cond <=>
              InPlace(line, flag, name, value, cond)
<1>0. /\ line \in Seq(S) /\ line[1] = op[1]
      /\ op \in Seq(S) /\ Len(op) = 1
      /\ flag \in Seq(S) /\ Len(flag) \in {0, 1}
      /\ name \in Seq(S) /\ Len(name) = 1
      /\ value \in Seq(S) /\ Len(value) \in {0, 1}
      /\ cond \in Seq(S) /\ Len(cond) \in {0, 1}
  BY DEF Pieces
<1>1. PICK a : a = op \o flag
  OBVIOUS
<1>2. PICK b : b = a \o name
  OBVIOUS
<1>3. PICK c : c = b \o value
  OBVIOUS
<1>4. PICK all : all = c \o cond
  OBVIOUS
<1>5. /\ a \in Seq(S)
      /\ Len(a) = Len(op) + Len(flag)
      /\ \A k \in 1 .. Len(op) : a[k] = op[k]
      /\ \A k \in 1 .. Len(flag) : a[Len(op) + k] = flag[k]
  <2>1. op \in Seq(S) /\ flag \in Seq(S)
    BY <1>0
  <2>2. a \in Seq(S)
    BY <1>1, <2>1, Joined
  <2>3. Len(a) = Len(op) + Len(flag)
    BY <1>1, <2>1, Joined
  <2>4. \A k \in 1 .. Len(op) : a[k] = op[k]
    BY <1>1, <2>1, Joined
  <2>5. \A k \in 1 .. Len(flag) : a[Len(op) + k] = flag[k]
    BY <1>1, <2>1, Joined
  <2> QED BY <2>2, <2>3, <2>4, <2>5
<1>6. /\ b \in Seq(S)
      /\ Len(b) = Len(a) + Len(name)
      /\ \A k \in 1 .. Len(a) : b[k] = a[k]
      /\ \A k \in 1 .. Len(name) : b[Len(a) + k] = name[k]
  <2>1. a \in Seq(S) /\ name \in Seq(S)
    BY <1>0, <1>5
  <2>2. b \in Seq(S)
    BY <1>2, <2>1, Joined
  <2>3. Len(b) = Len(a) + Len(name)
    BY <1>2, <2>1, Joined
  <2>4. \A k \in 1 .. Len(a) : b[k] = a[k]
    BY <1>2, <2>1, Joined
  <2>5. \A k \in 1 .. Len(name) : b[Len(a) + k] = name[k]
    <3>1. \A k \in 1 .. Len(name) : (a \o name)[Len(a) + k] = name[k]
      <4>1. (a \o name)[Len(a) + 1] = name[1]
        BY <1>0, <2>1, OneBehind, Zenon
      <4>2. \A k \in 1 .. Len(name) : k = 1
        BY <1>0
      <4> QED BY <4>1, <4>2
    <3> QED BY <1>2, <3>1, Zenon
  <2> QED BY <2>2, <2>3, <2>4, <2>5
<1>7. /\ c \in Seq(S)
      /\ Len(c) = Len(b) + Len(value)
      /\ \A k \in 1 .. Len(b) : c[k] = b[k]
      /\ \A k \in 1 .. Len(value) : c[Len(b) + k] = value[k]
  <2>1. b \in Seq(S) /\ value \in Seq(S)
    BY <1>0, <1>6
  <2>2. c \in Seq(S)
    BY <1>3, <2>1, Joined
  <2>3. Len(c) = Len(b) + Len(value)
    BY <1>3, <2>1, Joined
  <2>4. \A k \in 1 .. Len(b) : c[k] = b[k]
    BY <1>3, <2>1, Joined
  <2>5. \A k \in 1 .. Len(value) : c[Len(b) + k] = value[k]
    BY <1>3, <2>1, Joined
  <2> QED BY <2>2, <2>3, <2>4, <2>5
<1>8. /\ all \in Seq(S)
      /\ Len(all) = Len(c) + Len(cond)
      /\ \A k \in 1 .. Len(c) : all[k] = c[k]
      /\ \A k \in 1 .. Len(cond) : all[Len(c) + k] = cond[k]
  <2>1. c \in Seq(S) /\ cond \in Seq(S)
    BY <1>0, <1>7
  <2>2. all \in Seq(S)
    BY <1>4, <2>1, Joined
  <2>3. Len(all) = Len(c) + Len(cond)
    BY <1>4, <2>1, Joined
  <2>4. \A k \in 1 .. Len(c) : all[k] = c[k]
    BY <1>4, <2>1, Joined
  <2>5. \A k \in 1 .. Len(cond) : all[Len(c) + k] = cond[k]
    BY <1>4, <2>1, Joined
  <2> QED BY <2>2, <2>3, <2>4, <2>5
<1>9. /\ Len(all) = 2 + Len(flag) + Len(value) + Len(cond)
      /\ all[1] = line[1]
      /\ Len(flag) = 1 => all[2] = flag[1]
      /\ all[2 + Len(flag)] = name[1]
      /\ Len(value) = 1 => all[3 + Len(flag)] = value[1]
      /\ Len(cond) = 1 => all[3 + Len(flag) + Len(value)] = cond[1]
  <2>1. /\ Len(a) = 1 + Len(flag) /\ a[1] = line[1]
        /\ Len(flag) = 1 => a[2] = flag[1]
    BY <1>0, <1>5
  <2>2. /\ Len(b) = 2 + Len(flag) /\ b[1] = line[1]
        /\ Len(flag) = 1 => b[2] = flag[1]
        /\ b[2 + Len(flag)] = name[1]
    BY <1>0, <1>6, <2>1
  <2>3. /\ Len(c) = 2 + Len(flag) + Len(value) /\ c[1] = line[1]
        /\ Len(flag) = 1 => c[2] = flag[1]
        /\ c[2 + Len(flag)] = name[1]
        /\ Len(value) = 1 => c[3 + Len(flag)] = value[1]
    <3>1. Len(c) = 2 + Len(flag) + Len(value)
      BY <1>0, <1>7, <2>2
    <3>2. \A k \in 1 .. 2 + Len(flag) : c[k] = b[k]
      BY <1>7, <2>2
    <3>3. c[1] = line[1] /\ c[2 + Len(flag)] = name[1]
      BY <1>0, <2>2, <3>2
    <3>4. Len(flag) = 1 => c[2] = flag[1]
      BY <1>0, <2>2, <3>2
    <3>5. Len(value) = 1 => c[3 + Len(flag)] = value[1]
      BY <1>0, <1>7, <2>2
    <3> QED BY <3>1, <3>3, <3>4, <3>5
  <2>4. Len(all) = 2 + Len(flag) + Len(value) + Len(cond)
    BY <1>0, <1>8, <2>3
  <2>5. \A k \in 1 .. 2 + Len(flag) + Len(value) : all[k] = c[k]
    BY <1>8, <2>3
  <2>6. all[1] = line[1] /\ all[2 + Len(flag)] = name[1]
    BY <1>0, <2>3, <2>5
  <2>7. Len(flag) = 1 => all[2] = flag[1]
    BY <1>0, <2>3, <2>5
  <2>8. Len(value) = 1 => all[3 + Len(flag)] = value[1]
    BY <1>0, <2>3, <2>5
  <2>9. Len(cond) = 1 => all[3 + Len(flag) + Len(value)] = cond[1]
    BY <1>0, <1>8, <2>3
  <2> QED BY <2>4, <2>6, <2>7, <2>8, <2>9
<1>10. ASSUME Len(line) = 2 + Len(flag) + Len(value) + Len(cond),
              Len(flag) = 1 => line[2] = flag[1],
              line[2 + Len(flag)] = name[1],
              Len(value) = 1 => line[3 + Len(flag)] = value[1],
              Len(cond) = 1 => line[3 + Len(flag) + Len(value)] = cond[1]
       PROVE  line = all
  <2>1. \A k \in 1 .. Len(line) : line[k] = all[k]
    <3> TAKE k \in 1 .. Len(line)
    <3>1. \/ k = 1
          \/ k = 2 /\ Len(flag) = 1
          \/ k = 2 + Len(flag)
          \/ k = 3 + Len(flag) /\ Len(value) = 1
          \/ k = 3 + Len(flag) + Len(value) /\ Len(cond) = 1
      <4>1. PICK f, v, n : f = Len(flag) /\ v = Len(value) /\ n = Len(cond)
        OBVIOUS
      <4>2. f \in {0, 1} /\ v \in {0, 1} /\ n \in {0, 1}
        BY <1>0, <4>1, Zenon
      <4>3. k \in 1 .. 2 + f + v + n
        BY <1>10, <4>1, Zenon
      <4>4. \/ k = 1
            \/ k = 2 /\ f = 1
            \/ k = 2 + f
            \/ k = 3 + f /\ v = 1
            \/ k = 3 + f + v /\ n = 1
        BY <4>2, <4>3, Cover
      <4> QED BY <4>1, <4>4, Zenon
    <3> QED BY <1>0, <1>9, <1>10, <3>1
  <2>2. line \in Seq(S) /\ all \in Seq(S)
    BY <1>0, <1>8
  <2>3. Len(all) = Len(line)
    BY <1>9, <1>10, Zenon
  <2> QED BY <2>1, <2>2, <2>3, Same, Zenon
<1>11. InPlace(line, flag, name, value, cond) => line = all
  BY <1>10 DEF InPlace
<1>12. line = all => InPlace(line, flag, name, value, cond)
  BY <1>9 DEF InPlace
<1> QED BY <1>1, <1>2, <1>3, <1>4, <1>11, <1>12

\* An optional part: nothing, or one token.
Optional(S) == {<< >>} \cup {<<t>> : t \in S}

LEMMA OptionalFacts ==
    ASSUME NEW S, NEW t \in Optional(S)
    PROVE  /\ t \in Seq(S)
           /\ Len(t) \in {0, 1}
           /\ t = << >> <=> Len(t) = 0
           /\ t /= << >> <=> Len(t) = 1
<1>1. CASE t = << >>
  BY <1>1
<1>2. ASSUME NEW x \in S, t = <<x>>
      PROVE  t \in Seq(S) /\ t /= << >> /\ Len(t) = 1
  BY <1>2
<1>3. t = << >> \/ \E x \in S : t = <<x>>
  BY DEF Optional
<1> QED BY <1>1, <1>2, <1>3

FlagOrNot(n) == {<< >>, <<n>>}

Spelled(line, flag, name, value, cond) ==
    line = <<line[1]>> \o flag \o <<name>> \o value \o cond

\* The line's tokens are where the optional parts leave them.
Laid(n, line, flag, name, value, cond) ==
    /\ Len(line) = 2 + Len(flag) + Len(value) + Len(cond)
    /\ flag /= << >> => line[2] = n
    /\ line[2 + Len(flag)] = name
    /\ value /= << >> => line[3 + Len(flag)] = value[1]
    /\ cond /= << >> => line[3 + Len(flag) + Len(value)] = cond[1]

\* Five, for parts as the grammar has them.
LEMMA Places ==
    ASSUME NEW S, NEW line \in Seq(S), NEW n \in S, NEW flag \in FlagOrNot(n),
           NEW name \in S, NEW value \in Optional(S), NEW cond \in Optional(S)
    PROVE  Spelled(line, flag, name, value, cond) <=> Laid(n, line, flag, name, value, cond)
<1>1. PICK T : T = S \cup {line[1]}
  OBVIOUS
<1>2. PICK op : op = <<line[1]>>
  OBVIOUS
<1>3. op \in Seq(T) /\ Len(op) = 1 /\ op[1] = line[1]
  BY <1>1, <1>2
<1>4. \A t \in Seq(S) : t \in Seq(T)
  BY <1>1
<1>5. PICK nm : nm = <<name>>
  OBVIOUS
<1>6. nm \in Seq(S) /\ Len(nm) = 1 /\ nm[1] = name
  BY <1>5
<1>7. /\ flag \in Seq(S) /\ Len(flag) \in {0, 1}
      /\ flag /= << >> <=> Len(flag) = 1
      /\ Len(flag) = 1 => flag[1] = n
  <2>1. flag \in Optional(S)
    BY DEF Optional, FlagOrNot
  <2>2. flag /= << >> => flag[1] = n
    BY DEF FlagOrNot
  <2> QED BY <2>1, <2>2, OptionalFacts
<1>8. /\ value \in Seq(S) /\ Len(value) \in {0, 1} /\ (value /= << >> <=> Len(value) = 1)
      /\ cond \in Seq(S) /\ Len(cond) \in {0, 1} /\ (cond /= << >> <=> Len(cond) = 1)
  BY OptionalFacts
<1>9. /\ flag \in Seq(T) /\ nm \in Seq(T) /\ value \in Seq(T) /\ cond \in Seq(T)
      /\ line \in Seq(T)
  BY <1>4, <1>6, <1>7, <1>8
<1>10. line = op \o flag \o nm \o value \o cond <=> InPlace(line, flag, nm, value, cond)
  <2>1. Pieces(T, line, op, flag, nm, value, cond)
    BY <1>3, <1>6, <1>7, <1>8, <1>9 DEF Pieces
  <2> QED BY <2>1, Five
<1> QED BY <1>2, <1>5, <1>6, <1>7, <1>8, <1>10 DEF InPlace, Spelled, Laid

-----------------------------------------------------------------------------
(* What parse_directive looks at, by name. *)

NextFlag(line) == Len(line) >= 2 /\ line[2] = "-n"
NameAt(line) == IF NextFlag(line) THEN 3 ELSE 2
TakesValue(line) == line[1] \notin {"clear", "pass"}
CondAt(line) == NameAt(line) + (IF TakesValue(line) THEN 2 ELSE 1)

IsCondition(token) == ~expr /\ token \in (IfTokens \cup IfNotTokens) \ Uncompilable

Valid(which, line) ==
    /\ Len(line) >= 2
    /\ line[1] \in Opcodes
    /\ Len(line) >= CondAt(line) - 1
    /\ Len(line) >= CondAt(line) => IsCondition(line[CondAt(line)])
    /\ Len(line) <= CondAt(line)
    /\ line[NameAt(line)] \notin BadNames
    /\ TakesValue(line) => line[NameAt(line) + 1] \notin Uncompilable
    /\ ~(line[1] = "append" /\ line[NameAt(line)] \in Builtins[which])

Rule(line, when) ==
    [key |-> line[NameAt(line)], wildcard |-> line[NameAt(line)] \in Wildcards,
     next |-> NextFlag(line), cond |-> when \/ Len(line) >= CondAt(line),
     opcode |-> line[1]]

\* The definition, unfolded.
LEMMA Parsed ==
    ASSUME NEW which, NEW line, NEW when
    PROVE  /\ parse_directive(which, line, when).ok <=> Valid(which, line)
           /\ Valid(which, line) => parse_directive(which, line, when).rule = Rule(line, when)
  BY DEF parse_directive, Conditional, NoneLeft, Valid, Rule, NextFlag, NameAt, TakesValue,
         CondAt, IsCondition

-----------------------------------------------------------------------------
(* The ways to read a line. *)

\* The optional part is there.
Has(part) == part /= << >>

\* What the grammar asks of the parts.
Tests(which, line, flag, name, value, cond) ==
    /\ line[1] \in Opcodes
    /\ name \notin BadNames
    /\ ~Has(flag) => name /= "-n"
    /\ Has(value) <=> TakesValue(line)
    /\ Has(value) => value[1] \notin Uncompilable
    /\ line[1] = "append" => name \notin Builtins[which]
    /\ Has(cond) => IsCondition(cond[1])

\* The grammar: Reads of Meaning.
Reads(which, line, flag, name, value, cond) ==
    /\ line = <<line[1]>> \o flag \o <<name>> \o value \o cond
    /\ line[1] \in Opcodes
    /\ name \notin BadNames
    /\ flag = << >> => name /= "-n"
    /\ (value = << >>) = (line[1] \in {"clear", "pass"})
    /\ value /= << >> => value[1] \notin Uncompilable
    /\ line[1] = "append" => name \notin Builtins[which]
    /\ cond /= << >> =>
          ~expr /\ cond[1] \in (IfTokens \cup IfNotTokens) \ Uncompilable

LEMMA ReadsTests ==
    ASSUME NEW which, NEW line, NEW flag, NEW name, NEW value, NEW cond
    PROVE  Reads(which, line, flag, name, value, cond) <=>
              /\ line = <<line[1]>> \o flag \o <<name>> \o value \o cond
              /\ Tests(which, line, flag, name, value, cond)
<1>1. (value = << >>) \in BOOLEAN /\ (line[1] \in {"clear", "pass"}) \in BOOLEAN
  OBVIOUS
<1> QED BY <1>1, Zenon DEF Reads, Tests, TakesValue, IsCondition, Has

OneOf(line) == {line[k] : k \in 2 .. Len(line)}
AtMostOneOf(line) == {<< >>} \cup {<<line[k]>> : k \in 2 .. Len(line)}

\* The rule that a way to read the line means.
Means(line, when, flag, name, cond) ==
    [key |-> name, wildcard |-> name \in Wildcards, next |-> flag /= << >>,
     cond |-> when \/ cond /= << >>, opcode |-> line[1]]

\* A line means a rule exactly if one way to read it does.
LEMMA MeaningByWays ==
    ASSUME NEW which, NEW line, NEW when, NEW rule
    PROVE  rule \in Meaning(which, line, when) <=>
              \E flag \in {<< >>, <<"-n">>}, name \in OneOf(line),
                 value \in AtMostOneOf(line), cond \in AtMostOneOf(line) :
                 /\ Reads(which, line, flag, name, value, cond)
                 /\ rule = Means(line, when, flag, name, cond)
<1> DEFINE all == {<< >>, <<"-n">>} \X OneOf(line) \X AtMostOneOf(line) \X AtMostOneOf(line)
           ways == {way \in all : Reads(which, line, way[1], way[2], way[3], way[4])}
<1>1. Meaning(which, line, when) = {Means(line, when, way[1], way[2], way[4]) : way \in ways}
  BY DEF Meaning, Reads, OneOf, AtMostOneOf, Means
<1>2. ASSUME NEW way \in ways, rule = Means(line, when, way[1], way[2], way[4])
      PROVE  \E flag \in {<< >>, <<"-n">>}, name \in OneOf(line),
                 value \in AtMostOneOf(line), cond \in AtMostOneOf(line) :
                 /\ Reads(which, line, flag, name, value, cond)
                 /\ rule = Means(line, when, flag, name, cond)
  <2>1. /\ way[1] \in {<< >>, <<"-n">>} /\ way[2] \in OneOf(line)
        /\ way[3] \in AtMostOneOf(line) /\ way[4] \in AtMostOneOf(line)
    OBVIOUS
  <2> QED BY <1>2, <2>1
<1>3. ASSUME NEW flag \in {<< >>, <<"-n">>}, NEW name \in OneOf(line),
             NEW value \in AtMostOneOf(line), NEW cond \in AtMostOneOf(line),
             Reads(which, line, flag, name, value, cond),
             rule = Means(line, when, flag, name, cond)
      PROVE  \E way \in ways : rule = Means(line, when, way[1], way[2], way[4])
  <2>1. <<flag, name, value, cond>> \in ways
    BY <1>3
  <2> QED BY <1>3, <2>1
<1> HIDE DEF ways
<1> QED BY <1>1, <1>2, <1>3

-----------------------------------------------------------------------------
(* The code's indexes, and the grammar's parts. *)

LEMMA ReadsLaid ==
    ASSUME NEW S, "-n" \in S, NEW which, NEW line \in Seq(S),
           NEW flag \in FlagOrNot("-n"),
           NEW name \in S, NEW value \in Optional(S), NEW cond \in Optional(S)
    PROVE  Reads(which, line, flag, name, value, cond) <=>
              /\ Laid("-n", line, flag, name, value, cond)
              /\ Tests(which, line, flag, name, value, cond)
<1>1. Spelled(line, flag, name, value, cond) <=> Laid("-n", line, flag, name, value, cond)
  BY Places, Zenon
<1> QED BY <1>1, ReadsTests, Zenon DEF Spelled

\* An optional part has one token at most.
Sized(token) ==
    /\ Len(token) \in Nat
    /\ Len(token) < 2
    /\ Has(token) <=> Len(token) > 0

LEMMA FlagFacts ==
    ASSUME NEW flag \in FlagOrNot("-n")
    PROVE  Sized(flag) /\ Len(flag) \in Nat
<1>1. CASE flag = << >>
  BY <1>1 DEF Sized, Has
<1>2. CASE flag = <<"-n">>
  BY <1>2 DEF Sized, Has
<1> QED BY <1>1, <1>2 DEF FlagOrNot

LEMMA OptionalSized ==
    ASSUME NEW S, NEW part \in Optional(S)
    PROVE  Sized(part) /\ Len(part) \in Nat
<1>1. CASE part = << >>
  BY <1>1 DEF Sized, Has
<1>2. ASSUME NEW x \in S, part = <<x>>
      PROVE  Sized(part)
  BY <1>2 DEF Sized, Has
<1>3. Sized(part)
  BY <1>1, <1>2 DEF Optional
<1> QED BY <1>3 DEF Sized

\* Any way to read the line has its tokens where the code looks for them.
LEMMA IndexesFollow ==
    ASSUME NEW S, "-n" \in S, NEW which, NEW line \in Seq(S),
           NEW flag \in FlagOrNot("-n"),
           NEW name \in S, NEW value \in Optional(S), NEW cond \in Optional(S),
           Laid("-n", line, flag, name, value, cond),
           Tests(which, line, flag, name, value, cond)
    PROVE  /\ NextFlag(line) <=> Has(flag)
           /\ NameAt(line) = 2 + Len(flag)
           /\ CondAt(line) = 3 + Len(flag) + Len(value)
           /\ Len(line) >= CondAt(line) <=> Has(cond)
<1>1. /\ Len(flag) \in Nat /\ Len(value) \in Nat /\ Len(cond) \in Nat /\ Len(line) \in Nat
      /\ Sized(flag)
      /\ Sized(value)
      /\ Sized(cond)
  BY FlagFacts, OptionalSized
<1>2. NextFlag(line) <=> Has(flag)
  BY <1>1 DEF Laid, Has, Tests, NextFlag, Sized
<1>3. NameAt(line) = 2 + Len(flag)
  BY <1>1, <1>2 DEF NameAt, Sized
<1>4. CondAt(line) = 3 + Len(flag) + Len(value)
  BY <1>1, <1>3 DEF CondAt, Tests, Sized
<1>5. Len(line) >= CondAt(line) <=> Has(cond)
  BY <1>1, <1>4 DEF Laid, Has, Sized
<1> QED BY <1>2, <1>3, <1>4, <1>5

\* What can be read is accepted, as the rule it means.
LEMMA ReadsIsValid ==
    ASSUME NEW S, "-n" \in S, NEW which, NEW line \in Seq(S),
           NEW flag \in FlagOrNot("-n"),
           NEW name \in S, NEW value \in Optional(S), NEW cond \in Optional(S),
           Reads(which, line, flag, name, value, cond)
    PROVE  Valid(which, line)
<1>1. /\ Laid("-n", line, flag, name, value, cond)
      /\ Tests(which, line, flag, name, value, cond)
  BY ReadsLaid
<1>2. /\ NextFlag(line) <=> Has(flag)
      /\ NameAt(line) = 2 + Len(flag)
      /\ CondAt(line) = 3 + Len(flag) + Len(value)
      /\ Len(line) >= CondAt(line) <=> Has(cond)
  BY <1>1, IndexesFollow
<1>3. /\ Len(flag) \in Nat /\ Len(value) \in Nat /\ Len(cond) \in Nat
      /\ Sized(value)
      /\ Sized(cond)
  BY FlagFacts, OptionalSized
<1>4. line[NameAt(line)] = name
  BY <1>1, <1>2 DEF Laid, Has
<1>5. TakesValue(line) => line[NameAt(line) + 1] = value[1] /\ value[1] \notin Uncompilable
  BY <1>1, <1>2, <1>3 DEF Laid, Has, Tests, Sized
<1>6. Len(line) >= CondAt(line) => IsCondition(line[CondAt(line)])
  BY <1>1, <1>2 DEF Laid, Has, Tests
<1>7. /\ Len(line) >= 2
      /\ Len(line) >= CondAt(line) - 1
      /\ Len(line) <= CondAt(line)
  BY <1>1, <1>2, <1>3 DEF Laid, Has, Sized
<1>8. Valid(which, line)
  BY <1>1, <1>4, <1>5, <1>6, <1>7 DEF Valid, Tests
<1> QED BY <1>8

LEMMA ReadsIsRule ==
    ASSUME NEW S, "-n" \in S, NEW which, NEW line \in Seq(S),
           NEW flag \in FlagOrNot("-n"),
           NEW name \in S, NEW value \in Optional(S), NEW cond \in Optional(S),
           Reads(which, line, flag, name, value, cond), NEW when
    PROVE  Means(line, when, flag, name, cond) = Rule(line, when)
<1>1. /\ Laid("-n", line, flag, name, value, cond)
      /\ Tests(which, line, flag, name, value, cond)
  BY ReadsLaid
<1>2. /\ NextFlag(line) <=> Has(flag)
      /\ NameAt(line) = 2 + Len(flag)
      /\ Len(line) >= CondAt(line) <=> Has(cond)
  BY <1>1, IndexesFollow
<1>3. line[NameAt(line)] = name
  BY <1>1, <1>2 DEF Laid, Has
<1>4. Has(flag) = NextFlag(line)
  BY <1>2 DEF NextFlag, Has
<1>5. (when \/ Has(cond)) = (when \/ Len(line) >= CondAt(line))
  BY <1>2
<1> QED BY <1>3, <1>4, <1>5, Zenon DEF Means, Rule, Has

\* What is accepted can be read.
LEMMA ValidIsRead ==
    ASSUME NEW S, "-n" \in S, NEW which, NEW line \in Seq(S), Valid(which, line)
    PROVE  \E flag \in FlagOrNot("-n"), name \in OneOf(line),
              value \in AtMostOneOf(line), cond \in AtMostOneOf(line) :
              Reads(which, line, flag, name, value, cond)
<1>1. PICK flag \in FlagOrNot("-n") :
         /\ Has(flag) <=> NextFlag(line)
  BY DEF Has, FlagOrNot
<1>2. /\ NameAt(line) = 2 + Len(flag)
      /\ NameAt(line) \in 2 .. Len(line)
  <2>1. NameAt(line) = 2 + Len(flag)
    <3>1. Sized(flag)
      BY FlagFacts, Zenon
    <3> QED BY <1>1, <3>1 DEF NameAt, Sized
  <2>2. NameAt(line) \in {2, 3} /\ Len(line) \in Nat
    BY DEF NameAt
  <2>3. Len(line) >= NameAt(line)
    BY <2>2 DEF Valid, CondAt
  <2> QED BY <2>1, <2>2, <2>3
<1>3. PICK value \in AtMostOneOf(line) :
         /\ Has(value) <=> TakesValue(line)
         /\ TakesValue(line) => value[1] = line[NameAt(line) + 1]
  <2>1. CASE TakesValue(line)
    <3>1. NameAt(line) + 1 \in 2 .. Len(line)
      BY <2>1, <1>2 DEF Valid, CondAt
    <3>2. <<line[NameAt(line) + 1]>> \in AtMostOneOf(line)
      BY <3>1 DEF AtMostOneOf
    <3> QED BY <2>1, <3>2 DEF Has
  <2>2. CASE ~TakesValue(line)
    BY <2>2 DEF AtMostOneOf, Has
  <2> QED BY <2>1, <2>2
<1>4. PICK cond \in AtMostOneOf(line) :
         /\ Has(cond) <=> Len(line) >= CondAt(line)
         /\ Len(line) >= CondAt(line) => cond[1] = line[CondAt(line)]
  <2>1. CASE Len(line) >= CondAt(line)
    <3>1. CondAt(line) \in 2 .. Len(line)
      BY <2>1, <1>2 DEF CondAt
    <3>2. <<line[CondAt(line)]>> \in AtMostOneOf(line)
      BY <3>1 DEF AtMostOneOf
    <3> QED BY <2>1, <3>2 DEF Has
  <2>2. CASE ~(Len(line) >= CondAt(line))
    BY <2>2 DEF AtMostOneOf, Has
  <2> QED BY <2>1, <2>2
<1>5. PICK name \in OneOf(line) : name = line[NameAt(line)]
  BY <1>2 DEF OneOf
<1>6. /\ name \in S /\ value \in Optional(S) /\ cond \in Optional(S)
  BY DEF OneOf, AtMostOneOf, Optional
<1>7. /\ Sized(flag)
      /\ Sized(value)
      /\ Sized(cond)
  BY <1>6, FlagFacts, OptionalSized
<1>8. CondAt(line) = 3 + Len(flag) + Len(value)
  BY <1>2, <1>3, <1>7 DEF CondAt, Sized
<1>9. Laid("-n", line, flag, name, value, cond)
  <2>1. Len(line) = 2 + Len(flag) + Len(value) + Len(cond)
    <3>1. Len(line) \in Nat /\ CondAt(line) - 1 <= Len(line) /\ Len(line) <= CondAt(line)
      BY <1>2, <1>8 DEF Valid
    <3> QED BY <1>4, <1>7, <1>8, <3>1 DEF Sized
  <2>2. Has(flag) => line[2] = "-n"
    BY <1>1 DEF NextFlag
  <2>3. line[2 + Len(flag)] = name
    BY <1>2, <1>5
  <2>4. Has(value) => line[3 + Len(flag)] = value[1]
    <3>1. NameAt(line) + 1 = 3 + Len(flag)
      BY <1>2, <1>7 DEF Sized
    <3> QED BY <1>3, <3>1, Zenon
  <2>5. Has(cond) => line[3 + Len(flag) + Len(value)] = cond[1]
    BY <1>4, <1>8, Zenon
  <2> QED BY <2>1, <2>2, <2>3, <2>4, <2>5 DEF Laid, Has
<1>10. Tests(which, line, flag, name, value, cond)
  <2>1. ~Has(flag) => name /= "-n"
    BY <1>1, <1>2, <1>5, <1>7 DEF NextFlag, Sized, Valid
  <2>2. Has(value) <=> TakesValue(line)
    BY <1>3
  <2>3. Has(value) => value[1] \notin Uncompilable
    BY <1>3, Zenon DEF Valid
  <2>4. Has(cond) => IsCondition(cond[1])
    BY <1>4, Zenon DEF Valid
  <2> QED BY <2>1, <2>2, <2>3, <2>4, <1>5, Zenon DEF Tests, Valid
<1>11. Reads(which, line, flag, name, value, cond)
  BY <1>6, <1>9, <1>10, ReadsLaid
<1> QED BY <1>11

\* So a line means one rule, the code's, if the code accepts it, and none if not.
LEMMA MeaningOf ==
    ASSUME NEW S, "-n" \in S, NEW which, NEW line \in Seq(S), NEW when
    PROVE  Meaning(which, line, when) =
              IF Valid(which, line) THEN {Rule(line, when)} ELSE {}
<1>1. OneOf(line) \subseteq S /\ AtMostOneOf(line) \subseteq Optional(S)
  BY DEF OneOf, AtMostOneOf, Optional
<1>2. ASSUME NEW rule \in Meaning(which, line, when)
      PROVE  Valid(which, line) /\ rule = Rule(line, when)
  <2>1. PICK flag \in FlagOrNot("-n"), name \in OneOf(line),
             value \in AtMostOneOf(line), cond \in AtMostOneOf(line) :
             /\ Reads(which, line, flag, name, value, cond)
             /\ rule = Means(line, when, flag, name, cond)
    BY MeaningByWays DEF FlagOrNot
  <2>2. name \in S /\ value \in Optional(S) /\ cond \in Optional(S)
    BY <1>1
  <2> QED BY <2>1, <2>2, ReadsIsValid, ReadsIsRule, Zenon
<1>3. ASSUME Valid(which, line)
      PROVE  Rule(line, when) \in Meaning(which, line, when)
  <2>1. PICK flag \in FlagOrNot("-n"), name \in OneOf(line),
             value \in AtMostOneOf(line), cond \in AtMostOneOf(line) :
             Reads(which, line, flag, name, value, cond)
    BY <1>3, ValidIsRead
  <2>2. name \in S /\ value \in Optional(S) /\ cond \in Optional(S)
    BY <1>1
  <2>3. Means(line, when, flag, name, cond) = Rule(line, when)
    BY <2>1, <2>2, ReadsIsRule, Zenon
  <2> QED BY <2>1, <2>3, MeaningByWays DEF FlagOrNot
<1> QED BY <1>2, <1>3

-----------------------------------------------------------------------------
(* The lines that are read. *)

TextShaped ==
    /\ text = [b \in Blocks |-> text[b]]
    /\ \A b \in Blocks : text[b] = [s \in Sides |-> text[b][s]]
    /\ \A b \in Blocks, s \in Sides : IsSeq(text[b][s])

\* A rule is what its line means.
Meant(s, rule) == Meaning(s, rule.line, rule.when) = {rule.h}

AllMeant(b, s) == \A k \in DOMAIN text[b][s] : Meant(s, text[b][s][k])

RefusedMeansNothing ==
    phase = "rejected" => Meaning(refused.side, refused.line, refused.when) = {}

\* Once read, a line means what it was taken for.
GInv ==
    /\ TextShaped
    /\ \A b \in Blocks, s \in Sides : AllMeant(b, s)
    /\ RefusedMeansNothing

\* MeaningOf, for the lines of a configuration.
LEMMA Judged ==
    ASSUME NEW which, NEW line \in Lines, NEW when
    PROVE  IF parse_directive(which, line, when).ok
           THEN Meaning(which, line, when) = {parse_directive(which, line, when).rule}
           ELSE Meaning(which, line, when) = {}
<1>1. PICK R : R = STRING
  OBVIOUS
<1> DEFINE S == R \cup {"-n"}
<1>2. "-n" \in S /\ line \in Seq(S)
  <2>1. line \in Seq(R)
    BY <1>1, LinesAssumption, Zenon
  <2> QED BY <2>1, SeqMonotonic
<1> HIDE DEF S
<1>3. Meaning(which, line, when) = IF Valid(which, line) THEN {Rule(line, when)} ELSE {}
  BY <1>2, MeaningOf, Zenon
<1> QED BY <1>3, Parsed, Zenon

LEMMA SameMeaning ==
    ASSUME expr' = expr, NEW which, NEW line, NEW when
    PROVE  (Meaning(which, line, when))' = Meaning(which, line, when)
  BY DEF Meaning

\* A line that is accepted adds a rule to one text.
LEMMA AcceptGInv ==
    ASSUME GInv, NEW b \in Blocks, NEW s \in Sides, NEW line \in Lines, NEW when,
           parse_directive(s, line, when).ok,
           Accept(b, s, line, when, parse_directive(s, line, when))
    PROVE  GInv'
<1>1. PICK parsed : parsed = parse_directive(s, line, when)
  OBVIOUS
<1>2. Meaning(s, line, when) = {parsed.rule}
  BY <1>1, Judged, Zenon
<1>3. PICK rule : /\ rule.h = parsed.rule /\ rule.line = line /\ rule.when = when
                  /\ text' = [text EXCEPT ![b][s] = Append(@, rule)]
  <2> DEFINE written == [h |-> parsed.rule, id |-> conf[b][s].cnt,
                         from |-> <<b, s, Len(text[b][s]) + 1>>,
                         line |-> line, when |-> when]
  <2>1. Accept(b, s, line, when, parsed)
    BY <1>1, Zenon
  <2>2. text' = [text EXCEPT ![b][s] = Append(@, written)]
    BY <2>1 DEF Accept
  <2>3. written.h = parsed.rule /\ written.line = line /\ written.when = when
    OBVIOUS
  <2> QED BY <2>2, <2>3, Zenon
<1>4. /\ expr' = expr /\ phase' = phase /\ refused' = refused
  BY DEF Accept
<1>5. Meant(s, rule)
  BY <1>2, <1>3, Zenon DEF Meant
<1>6. ASSUME NEW x \in Blocks, NEW t \in Sides
      PROVE  text'[x][t] = IF x = b /\ t = s THEN Append(text[b][s], rule) ELSE text[x][t]
  BY <1>3 DEF GInv, TextShaped
<1>7. TextShaped'
  <2>1. text' = [x \in Blocks |-> text'[x]]
    BY <1>3 DEF GInv, TextShaped
  <2>2. ASSUME NEW x \in Blocks PROVE text'[x] = [t \in Sides |-> text'[x][t]]
    BY <1>3 DEF GInv, TextShaped
  <2>3. ASSUME NEW x \in Blocks, NEW t \in Sides PROVE IsSeq(text'[x][t])
    BY <1>6, Appended DEF GInv, TextShaped
  <2> QED BY <2>1, <2>2, <2>3 DEF TextShaped
<1>8. ASSUME NEW x \in Blocks, NEW t \in Sides, NEW k \in DOMAIN text'[x][t]
      PROVE  Meant(t, text'[x][t][k])
  <2>1. CASE x = b /\ t = s
    <3>1. IsSeq(text[b][s]) /\ AllMeant(b, s)
      BY DEF GInv, TextShaped
    <3>2. text'[x][t] = Append(text[b][s], rule)
      BY <1>6, <2>1
    <3>3. \/ k \in DOMAIN text[b][s] /\ text'[x][t][k] = text[b][s][k]
          \/ text'[x][t][k] = rule
      BY <3>1, <3>2, Appended
    <3> QED BY <1>5, <2>1, <3>1, <3>3 DEF AllMeant
  <2>2. CASE ~(x = b /\ t = s)
    BY <1>6, <2>2 DEF GInv, AllMeant
  <2> QED BY <2>1, <2>2
<1>9. \A x \in Blocks, t \in Sides : AllMeant(x, t)'
  <2> SUFFICES ASSUME NEW x \in Blocks, NEW t \in Sides, NEW k \in DOMAIN text'[x][t]
               PROVE  (Meant(t, text[x][t][k]))'
    BY DEF AllMeant
  <2>1. Meant(t, text'[x][t][k])
    BY <1>8
  <2> QED BY <1>4, <2>1, SameMeaning DEF Meant
<1>10. RefusedMeansNothing'
  BY <1>4, SameMeaning DEF GInv, RefusedMeansNothing
<1> QED BY <1>7, <1>9, <1>10 DEF GInv

\* A step that leaves the text, and rejects nothing.
LEMMA QuietGInv ==
    ASSUME GInv, expr' = expr, text' = text,
           phase' = "rejected" => phase = "rejected" /\ refused' = refused
    PROVE  GInv'
<1>1. TextShaped'
  BY DEF GInv, TextShaped
<1>2. \A x \in Blocks, t \in Sides : AllMeant(x, t)'
  BY SameMeaning DEF GInv, AllMeant, Meant
<1>3. RefusedMeansNothing'
  BY SameMeaning DEF GInv, RefusedMeansNothing
<1> QED BY <1>1, <1>2, <1>3 DEF GInv

\* A line that is rejected means nothing.
LEMMA RejectGInv ==
    ASSUME GInv, NEW s \in Sides, NEW line \in Lines, NEW when,
           ~parse_directive(s, line, when).ok, Reject(s, line, when)
    PROVE  GInv'
<1>1. expr' = expr /\ text' = text
  BY DEF Reject
<1>2. TextShaped'
  BY <1>1 DEF GInv, TextShaped
<1>3. \A x \in Blocks, t \in Sides : AllMeant(x, t)'
  BY <1>1, SameMeaning DEF GInv, AllMeant, Meant
<1>4. RefusedMeansNothing'
  <2>1. Meaning(s, line, when) = {}
    BY Judged, Zenon
  <2>2. refused'.side = s /\ refused'.line = line /\ refused'.when = when
    BY DEF Reject
  <2>3. Meaning(refused'.side, refused'.line, refused'.when) = {}
    BY <2>1, <2>2, Zenon
  <2> QED BY <1>1, <2>3, SameMeaning DEF RefusedMeansNothing
<1> QED BY <1>2, <1>3, <1>4 DEF GInv

LEMMA NextGInv ==
    ASSUME GInv, [Next]_vars PROVE GInv'
<1>1. CASE Read
  <2>1. PICK b \in Blocks, s \in Sides, line \in Lines, when \in BOOLEAN :
           Directive(b, s, line, when)
    BY <1>1 DEF Read
  <2>2. \/ /\ parse_directive(s, line, when).ok
           /\ Accept(b, s, line, when, parse_directive(s, line, when))
        \/ ~parse_directive(s, line, when).ok /\ Reject(s, line, when)
    BY <2>1, Zenon DEF Directive
  <2> QED BY <2>2, AcceptGInv, RejectGInv, Zenon
<1>2. CASE EndOfFile
  BY <1>2, QuietGInv DEF EndOfFile
<1>3. ASSUME NEW b \in Blocks \ merged, NEW memory \in SUBSET Sides, Merge(b, memory)
      PROVE  GInv'
  <2>1. expr' = expr /\ text' = text /\ phase' = phase /\ refused' = refused
    BY <1>3 DEF Merge
  <2> QED BY <2>1, QuietGInv
<1>4. ASSUME NEW again \in BOOLEAN, PostConfig(again) PROVE GInv'
  BY <1>4, QuietGInv DEF PostConfig
<1>5. CASE UNCHANGED vars
  BY <1>5, QuietGInv DEF vars
<1> QED BY <1>1, <1>2, <1>3, <1>4, <1>5 DEF Next

LEMMA InitGInv == Init => GInv
<1> SUFFICES ASSUME Init PROVE GInv
  OBVIOUS
<1>1. IsSeq(<< >>)
  <2>1. << >> \in Seq({})
    OBVIOUS
  <2> QED BY <2>1 DEF IsSeq
<1>2. TextShaped
  BY <1>1 DEF Init, TextShaped
<1>3. \A b \in Blocks, s \in Sides : AllMeant(b, s)
  BY DEF Init, AllMeant
<1>4. RefusedMeansNothing
  BY DEF Init, RefusedMeansNothing
<1> QED BY <1>2, <1>3, <1>4 DEF GInv

\* For lines of any length and any tokens: a line is accepted exactly when it is a
\* directive of the documented syntax, and its rule is the one thing it can mean.
THEOREM GrammarCorrect == Spec => []GrammarExact
<1>1. GInv => GrammarExact
  BY DEF GInv, AllMeant, Meant, RefusedMeansNothing, GrammarExact
<1> QED BY <1>1, InitGInv, NextGInv, PTL DEF Spec

-----------------------------------------------------------------------------
(* The configuration and the requests together. *)

\* The loop's bitmap is the one that merging uses.
LEMMA SameBitmap ==
    /\ \A bm, x : Chain!bitmap_isset(bm, x) <=> bitmap_isset(bm, x)
    /\ \A bm, x : Chain!SetBit(bm, x) = SetBit(bm, x)
    /\ \A bm, x : Chain!InWords(bm, x) <=> InWords(bm, x)
    /\ \A n, memory : Chain!bitmap_init(n, memory) = bitmap_init(n, memory)
  <1>1. \A bm, x : Chain!bitmap_isset(bm, x) <=> bitmap_isset(bm, x)
    BY DEF Chain!bitmap_isset, Chain!Offset, Chain!Word, bitmap_isset, Offset, Word
  <1>2. \A bm, x : Chain!SetBit(bm, x) = SetBit(bm, x)
    BY DEF Chain!SetBit, Chain!Offset, Chain!Word, SetBit, Offset, Word
  <1>3. \A bm, x : Chain!InWords(bm, x) <=> InWords(bm, x)
    BY DEF Chain!InWords, Chain!Word, InWords, Word
  <1>4. \A n, memory : Chain!bitmap_init(n, memory) = bitmap_init(n, memory)
    BY DEF Chain!bitmap_init, Chain!Words, bitmap_init, Words
  <1> QED
    BY <1>1, <1>2, <1>3, <1>4

\* What can become of a rule.
Verdicts == {"locked", "declined", "ran"}

\* Rule p of the loop has run and breaks its chain.
Broke(p) == /\ p \in DOMAIN verdict /\ verdict[p] = "ran"
            /\ ~rules[p].shape.wildcard /\ ~rules[p].shape.next

\* Rule p keeps rule q from running.
Bar(p, q) == Broke(p) /\ ~rules[q].shape.wildcard /\ rules[p].shape.key = rules[q].shape.key

\* The list of a request has indexes for ids, and the loop is within it.
LoopShaped ==
    /\ pc \in {"idle", "loop", "passed_on", "error", "fault"}
    /\ IsSeq(rules)
    /\ \A k \in 1 .. Len(rules) : rules[k].id = k - 1
    /\ i \in Nat \ {0} /\ i <= Len(rules) + 1
    /\ verdict \in Seq(Verdicts) /\ Len(verdict) = i - 1

\* The bitmap has the ids of the rules that broke their chain.
LoopBitmap ==
    /\ locked.size \in Nat
    /\ locked \in bitmap_t(locked.size)
    /\ ~locked.null => locked.size = Len(rules)
    /\ \A p \in 1 .. Len(rules) : bitmap_isset(locked, p - 1) <=> Broke(p)

\* Why a rule did not run.
LoopVerdicts ==
    \A q \in 1 .. Len(verdict) :
        /\ verdict[q] = "locked" <=> \E p \in 1 .. q - 1 : Bar(p, q)
        /\ verdict[q] = "declined" => rules[q].shape.cond

\* The invariant of the loop.
LoopInv == LoopShaped /\ LoopBitmap /\ LoopVerdicts /\ WritesFit

\* A request in the loop has its location's rules, and the configuration is read.
Here ==
    pc /= "idle" => /\ phase = "serving" /\ at \in Blocks /\ side \in Sides
                    /\ rules = ListOf(at, side)

\* The loop is about to look at rule i.
LEMMA AtRule ==
    ASSUME LoopInv, i <= Len(rules)
    PROVE  /\ i \in 1 .. Len(rules) /\ i \in Nat /\ Len(rules) \in Nat
           /\ DOMAIN rules = 1 .. Len(rules)
           /\ Len(verdict) = i - 1 /\ DOMAIN verdict = 1 .. i - 1
           /\ rules[i].id = i - 1
  <1>1. /\ Len(rules) \in Nat /\ DOMAIN rules = 1 .. Len(rules)
    BY DEF LoopInv, LoopShaped, IsSeq
  <1>2. i \in 1 .. Len(rules) /\ i \in Nat
    BY <1>1 DEF LoopInv, LoopShaped
  <1> QED
    BY <1>1, <1>2 DEF LoopInv, LoopShaped

\* A turn of the loop that leaves the right bits set.
LEMMA TurnKeeps ==
    ASSUME LoopInv, pc = "loop", i <= Len(rules),
           NEW what \in Verdicts, Chain!Turn(what),
           what = "locked" <=> \E p \in 1 .. i - 1 : Bar(p, i),
           what = "declined" => rules[i].shape.cond,
           rules' = rules, pc' = pc,
           locked'.size = locked.size, locked'.null = locked.null,
           locked' \in bitmap_t(locked.size),
           \A y \in Nat : bitmap_isset(locked', y)
              <=> (y = i - 1 /\ what = "ran" /\ ~rules[i].shape.wildcard /\ ~rules[i].shape.next)
                  \/ bitmap_isset(locked, y)
    PROVE  LoopInv'
  <1>1. /\ i \in 1 .. Len(rules) /\ i \in Nat /\ Len(rules) \in Nat
        /\ Len(verdict) = i - 1 /\ DOMAIN verdict = 1 .. i - 1
        /\ rules[i].id = i - 1 /\ verdict \in Seq(Verdicts)
    BY AtRule DEF LoopInv, LoopShaped
  <1>2. i' = i + 1 /\ verdict' = Append(verdict, what)
    BY DEF Chain!Turn
  <1>3. /\ verdict' \in Seq(Verdicts)
        /\ Len(verdict') = i /\ DOMAIN verdict' = 1 .. i
        /\ verdict'[i] = what
        /\ \A p \in 1 .. i - 1 : verdict'[p] = verdict[p]
    BY <1>1, <1>2
  <1>4. LoopShaped'
    BY <1>1, <1>2, <1>3 DEF LoopInv, LoopShaped
  <1>5. \A p \in 1 .. Len(rules) : p /= i => (Broke(p)' <=> Broke(p))
    <2> SUFFICES ASSUME NEW p \in 1 .. Len(rules), p /= i PROVE Broke(p)' <=> Broke(p)
      OBVIOUS
    <2>1. p \in 1 .. i <=> p \in 1 .. i - 1
      BY <1>1
    <2> QED
      BY <1>1, <1>3, <2>1 DEF Broke
  <1>6. ASSUME NEW p, p = i
        PROVE  /\ ~Broke(p)
               /\ Broke(p)' <=> what = "ran" /\ ~rules[i].shape.wildcard /\ ~rules[i].shape.next
    <2>1. p \notin DOMAIN verdict /\ p \in DOMAIN verdict' /\ verdict'[p] = what
      BY <1>1, <1>3, <1>6
    <2> QED
      BY <1>6, <2>1 DEF Broke
  <1>7. LoopBitmap'
    <2>1. \A p \in 1 .. Len(rules) : bitmap_isset(locked', p - 1) <=> Broke(p)'
      <3> SUFFICES ASSUME NEW p \in 1 .. Len(rules)
                   PROVE  bitmap_isset(locked', p - 1) <=> Broke(p)'
        OBVIOUS
      <3>1. p - 1 \in Nat /\ (p - 1 = i - 1 <=> p = i)
        BY <1>1
      <3>2. bitmap_isset(locked, p - 1) <=> Broke(p)
        BY DEF LoopInv, LoopBitmap
      <3> QED
        BY <1>5, <1>6, <3>1, <3>2
    <2> QED
      BY <2>1 DEF LoopInv, LoopBitmap
  <1>8. LoopVerdicts'
    <2> SUFFICES ASSUME NEW q \in 1 .. i
                 PROVE  /\ verdict'[q] = "locked" <=> \E p \in 1 .. q - 1 : Bar(p, q)'
                        /\ verdict'[q] = "declined" => rules[q].shape.cond
      BY <1>3 DEF LoopVerdicts
    <2>1. \A p \in 1 .. q - 1 : Bar(p, q)' <=> Bar(p, q)
      <3>1. \A p \in 1 .. q - 1 : p \in 1 .. Len(rules) /\ p /= i
        BY <1>1
      <3> QED
        BY <1>5, <3>1 DEF Bar
    <2>2. CASE q = i
      BY <1>3, <2>1, <2>2
    <2>3. CASE q /= i
      <3>1. q \in 1 .. i - 1
        BY <1>1, <2>3
      <3> QED
        BY <1>1, <1>3, <2>1, <3>1 DEF LoopInv, LoopVerdicts
    <2> QED
      BY <2>2, <2>3
  <1>9. WritesFit'
    BY DEF WritesFit
  <1> QED
    BY <1>4, <1>7, <1>8, <1>9 DEF LoopInv

\* The bit of a rule that breaks its chain is in the bitmap, if there is one.
LEMMA LockingWrite ==
    ASSUME LoopInv, i <= Len(rules)
    PROVE  /\ ~locked.null => InWords(locked, i - 1)
           /\ InWords(locked, i - 1) =>
                 /\ SetBit(locked, i - 1) \in bitmap_t(locked.size)
                 /\ SetBit(locked, i - 1).size = locked.size
                 /\ SetBit(locked, i - 1).null = locked.null
                 /\ \A y \in Nat : bitmap_isset(SetBit(locked, i - 1), y)
                                  <=> y = i - 1 \/ bitmap_isset(locked, y)
  <1>1. i - 1 \in Nat /\ i - 1 < Len(rules) /\ Len(rules) \in Nat
    BY AtRule
  <1>2. /\ locked.size \in Nat /\ locked \in bitmap_t(locked.size)
        /\ ~locked.null => locked.size = Len(rules)
    BY DEF LoopInv, LoopBitmap
  <1>3. InWords(locked, i - 1) => ~locked.null
    BY DEF InWords
  <1>4. ASSUME ~locked.null
        PROVE  /\ InWords(locked, i - 1)
               /\ SetBit(locked, i - 1) \in bitmap_t(locked.size)
               /\ SetBit(locked, i - 1).size = locked.size
               /\ SetBit(locked, i - 1).null = locked.null
               /\ \A y \in Nat : bitmap_isset(SetBit(locked, i - 1), y)
                                <=> y = i - 1 \/ bitmap_isset(locked, y)
    <2>1. i - 1 < locked.size
      BY <1>1, <1>2, <1>4
    <2> QED
      BY <1>1, <1>2, <1>4, <2>1, WrittenBit
  <1> QED
    BY <1>3, <1>4

\* The loop's inner loop asks the bitmap, and that is about the rules that ran.
LEMMA LockedMeansBarred ==
    ASSUME LoopInv, i <= Len(rules)
    PROVE  Chain!IsLocked(i) <=> \E p \in 1 .. i - 1 : Bar(p, i)
  <1>1. /\ i \in Nat /\ DOMAIN verdict = 1 .. i - 1
        /\ \A p \in 1 .. i - 1 : p \in 1 .. Len(rules)
    BY AtRule
  <1>2. \A p \in 1 .. i - 1 : bitmap_isset(locked, rules[p].id) <=> Broke(p)
    BY <1>1 DEF LoopInv, LoopBitmap, LoopShaped
  <1>3. Chain!IsLocked(i) <=>
          /\ ~rules[i].shape.wildcard
          /\ \E p \in 1 .. i - 1 :
                /\ ~rules[p].shape.wildcard
                /\ rules[p].shape.key = rules[i].shape.key
                /\ bitmap_isset(locked, rules[p].id)
    BY SameBitmap DEF Chain!IsLocked, Chain!Exact, Chain!SameKey
  <1> QED
    BY <1>2, <1>3 DEF Bar, Broke

\* Before a request, and after the previous one.
LEMMA IdleLoop == Chain!Idle => LoopInv /\ Here
  <1> SUFFICES ASSUME Chain!Idle PROVE LoopInv /\ Here
    OBVIOUS
  <1> DEFINE bm == bitmap_init(0, TRUE)
  <1>1. /\ rules = << >> /\ locked = bm /\ i = 1 /\ pc = "idle" /\ verdict = << >>
    BY SameBitmap DEF Chain!Idle
  <1>2. /\ bm \in bitmap_t(bm.size) /\ bm.size = 0 /\ ~bm.null
    BY FreshBitmap
  <1> HIDE DEF bm
  <1>3. Len(rules) = 0 /\ Len(verdict) = 0 /\ IsSeq(rules) /\ verdict \in Seq(Verdicts)
    <2>1. << >> \in Seq({}) /\ << >> \in Seq(Verdicts) /\ Len(<< >>) = 0
      OBVIOUS
    <2> QED
      BY <1>1, <2>1 DEF IsSeq
  <1>4. LoopShaped
    BY <1>1, <1>3 DEF LoopShaped
  <1>5. LoopBitmap /\ LoopVerdicts /\ WritesFit
    BY <1>1, <1>2, <1>3 DEF LoopBitmap, LoopVerdicts, WritesFit
  <1> QED
    BY <1>1, <1>4, <1>5 DEF LoopInv, Here

\* A request begins, with as many bits as its location has rules.
LEMMA RequestStarts ==
    ASSUME IInv, LoopInv, NEW b \in Blocks, NEW s \in Sides, NEW version10 \in BOOLEAN,
           NEW memory \in BOOLEAN, Request(b, s, version10, memory)
    PROVE  LoopInv' /\ Here'
  <1> DEFINE A == ArrayOf(b, s)
             list == ListOf(b, s)
             bm == bitmap_init(Len(A), memory)
  <1>1. ListedPart(b, s) /\ IdsPart(b, s)
    BY IdsByPart DEF IInv, AllListed
  <1>2. IsSeq(A) /\ conf[b][s].cnt = Len(A) /\ DOMAIN A = 1 .. Len(A) /\ Len(A) \in Nat
    BY <1>1 DEF ListedPart, IdsPart, IsSeq
  <1>3. \A k \in 1 .. Len(A) : A[k].id = k - 1
    BY <1>1, <1>2 DEF IdsPart
  <1>4. /\ side' = s /\ rules' = list /\ locked' = bm /\ i' = 1
        /\ pc' \in {"passed_on", "loop"} /\ verdict' = << >> /\ at' = b
        /\ phase = "serving" /\ UNCHANGED vars
    BY <1>2, SameBitmap DEF Request, Chain!Begin
  <1>5. list = [k \in 1 .. Len(A) |-> [shape |-> ShapeOf(A[k].h), id |-> A[k].id]]
    BY <1>2 DEF ListOf
  <1>6. ListOf(b, s)' = ListOf(b, s)
    BY <1>4 DEF vars, ListOf, ArrayOf
  <1>7. Here'
    BY <1>4, <1>6 DEF vars, Here
  <1>8. /\ bm.size \in Nat /\ bm \in bitmap_t(bm.size)
        /\ ~bm.null => bm.size = Len(A)
        /\ \A x \in Nat : ~bitmap_isset(bm, x)
    BY <1>2, FreshBitmap
  <1> HIDE DEF bm, A, list
  <1>9. /\ IsSeq(list) /\ Len(list) = Len(A)
        /\ \A k \in 1 .. Len(A) : list[k].id = k - 1
    <2>1. list \in Seq({list[k] : k \in 1 .. Len(A)})
      BY <1>2, <1>5
    <2>2. Len(list) = Len(A)
      BY <1>2, <1>5
    <2> QED
      BY <1>3, <1>5, <2>1, <2>2 DEF IsSeq
  <1>10. Len(verdict') = 0 /\ verdict' \in Seq(Verdicts) /\ DOMAIN verdict' = {}
    BY <1>4
  <1>11. LoopShaped'
    BY <1>2, <1>4, <1>9, <1>10 DEF LoopShaped
  <1>12. LoopBitmap'
    <2>1. \A p \in 1 .. Len(A) : ~bitmap_isset(bm, p - 1)
      BY <1>2, <1>8
    <2>2. \A p : ~Broke(p)'
      BY <1>10 DEF Broke
    <2>3. /\ locked'.size \in Nat
          /\ locked' \in bitmap_t(locked'.size)
          /\ ~locked'.null => locked'.size = Len(rules')
      BY <1>4, <1>8, <1>9
    <2>4. \A p \in 1 .. Len(rules') : ~bitmap_isset(locked', p - 1)
      BY <1>4, <1>9, <2>1
    <2> QED
      BY <2>2, <2>3, <2>4 DEF LoopBitmap
  <1>13. LoopVerdicts' /\ WritesFit'
    BY <1>4, <1>10 DEF LoopVerdicts, WritesFit
  <1> QED
    BY <1>7, <1>11, <1>12, <1>13 DEF LoopInv

\* A step of the loop.
LEMMA BodyKeeps ==
    ASSUME LoopInv, Chain!Body
    PROVE  LoopInv' /\ rules' = rules /\ side' = side /\ pc /= "idle"
  <1>1. locked.size \in Nat /\ locked \in bitmap_t(locked.size)
    BY DEF LoopInv, LoopBitmap
  <1>2. CASE Chain!Skip
    <2>1. /\ pc = "loop" /\ i <= Len(rules) /\ Chain!IsLocked(i) /\ Chain!Turn("locked")
          /\ UNCHANGED <<side, rules, locked, pc>>
      BY <1>2 DEF Chain!Skip
    <2>2. LoopInv'
      BY <1>1, <2>1, LockedMeansBarred, TurnKeeps DEF Verdicts
    <2> QED
      BY <2>1, <2>2
  <1>3. CASE Chain!NotMet
    <2>1. /\ pc = "loop" /\ i <= Len(rules) /\ ~Chain!IsLocked(i) /\ Chain!Turn("declined")
          /\ rules[i].shape.cond
          /\ UNCHANGED <<side, rules, locked, pc>>
      BY <1>3 DEF Chain!NotMet, Chain!Reached
    <2>2. LoopInv'
      BY <1>1, <2>1, LockedMeansBarred, TurnKeeps DEF Verdicts
    <2> QED
      BY <2>1, <2>2
  <1>4. CASE Chain!RunOn
    <2>1. /\ pc = "loop" /\ i <= Len(rules) /\ ~Chain!IsLocked(i) /\ Chain!Turn("ran")
          /\ ~(~rules[i].shape.wildcard /\ ~rules[i].shape.next)
          /\ UNCHANGED <<side, rules, locked, pc>>
      BY <1>4 DEF Chain!RunOn, Chain!Reached, Chain!BreaksChain, Chain!Exact
    <2>2. LoopInv'
      BY <1>1, <2>1, LockedMeansBarred, TurnKeeps DEF Verdicts
    <2> QED
      BY <2>1, <2>2
  <1>5. CASE Chain!RunAndLock
    <2>1. /\ pc = "loop" /\ i <= Len(rules) /\ ~Chain!IsLocked(i) /\ Chain!Turn("ran")
          /\ ~rules[i].shape.wildcard /\ ~rules[i].shape.next
          /\ InWords(locked, rules[i].id) /\ locked' = SetBit(locked, rules[i].id)
          /\ UNCHANGED <<side, rules, pc>>
      BY <1>5, SameBitmap DEF Chain!RunAndLock, Chain!Reached, Chain!BreaksChain, Chain!Exact
    <2>2. rules[i].id = i - 1
      BY <2>1, AtRule
    <2>3. /\ locked' \in bitmap_t(locked.size)
          /\ locked'.size = locked.size /\ locked'.null = locked.null
          /\ \A y \in Nat : bitmap_isset(locked', y) <=> y = i - 1 \/ bitmap_isset(locked, y)
      BY <2>1, <2>2, LockingWrite
    <2>4. LoopInv'
      BY <2>1, <2>3, LockedMeansBarred, TurnKeeps DEF Verdicts
    <2> QED
      BY <2>1, <2>4
  <1>6. ASSUME UNCHANGED <<side, rules, locked, i, verdict>>, pc /= "idle",
               pc' \in {"error", "passed_on", "fault"}, pc' = "fault" => locked.null
        PROVE  LoopInv' /\ rules' = rules /\ side' = side /\ pc /= "idle"
    <2>1. \A p : Broke(p)' <=> Broke(p)
      BY <1>6 DEF Broke
    <2>2. \A p, q : Bar(p, q)' <=> Bar(p, q)
      BY <1>6, <2>1 DEF Bar
    <2>3. LoopShaped' /\ LoopBitmap' /\ LoopVerdicts' /\ WritesFit'
      BY <1>6, <2>1, <2>2 DEF LoopInv, LoopShaped, LoopBitmap, LoopVerdicts, WritesFit
    <2> QED
      BY <1>6, <2>3 DEF LoopInv
  <1>7. CASE Chain!RunAndFault
    <2>1. /\ pc = "loop" /\ i <= Len(rules) /\ pc' = "fault" /\ ~InWords(locked, rules[i].id)
          /\ UNCHANGED <<side, rules, locked, i, verdict>>
      BY <1>7, SameBitmap DEF Chain!RunAndFault, Chain!Reached
    <2>2. locked.null
      BY <2>1, AtRule, LockingWrite
    <2> QED
      BY <1>6, <2>1, <2>2
  <1>8. CASE Chain!Fail \/ Chain!PassOn
    <2>1. /\ pc = "loop" /\ pc' \in {"error", "passed_on"}
          /\ UNCHANGED <<side, rules, locked, i, verdict>>
      BY <1>8 DEF Chain!Fail, Chain!PassOn, Chain!Reached
    <2> QED
      BY <1>6, <2>1
  <1> QED
    BY <1>2, <1>3, <1>4, <1>5, <1>7, <1>8 DEF Chain!Body

\* And of the requests.
RequestInv == LoopInv /\ Here

\* Every step keeps it, given what merging leaves.
LEMMA NextRequestInv ==
    ASSUME IInv, RequestInv, [HeaderRulesNext]_all_vars
    PROVE  RequestInv'
  <1>1. CASE Configure
    <2>1. /\ UNCHANGED <<side, rules, locked, i, pc, verdict>> /\ at' = at /\ Next
      BY <1>1 DEF Configure, chain_vars
    <2>2. \A p : Broke(p)' <=> Broke(p)
      BY <2>1 DEF Broke
    <2>3. \A p, q : Bar(p, q)' <=> Bar(p, q)
      BY <2>1, <2>2 DEF Bar
    <2>4. LoopInv'
      BY <2>1, <2>2, <2>3
         DEF RequestInv, LoopInv, LoopShaped, LoopBitmap, LoopVerdicts, WritesFit
    <2>5. pc = "idle"
      <3> SUFFICES ASSUME phase = "serving" PROVE FALSE
        BY DEF RequestInv, Here
      <3> QED
        BY <2>1 DEF Next, Read, EndOfFile, Merge, PostConfig
    <2> QED
      BY <2>1, <2>4, <2>5 DEF RequestInv, Here
  <1>2. ASSUME NEW b \in Blocks, NEW s \in Sides, NEW version10 \in BOOLEAN,
               NEW memory \in BOOLEAN, Request(b, s, version10, memory)
        PROVE  RequestInv'
    BY <1>2, RequestStarts DEF RequestInv
  <1>3. CASE RequestStep
    <2>1. Chain!Body /\ UNCHANGED vars /\ at' = at
      BY <1>3 DEF RequestStep
    <2>2. LoopInv' /\ rules' = rules /\ side' = side /\ pc /= "idle"
      BY <2>1, BodyKeeps DEF RequestInv
    <2>3. ListOf(at, side)' = ListOf(at, side)
      BY <2>1, <2>2 DEF ListOf, ArrayOf, vars
    <2>4. Here'
      BY <2>1, <2>2, <2>3 DEF RequestInv, Here, vars
    <2> QED
      BY <2>2, <2>4 DEF RequestInv
  <1>4. CASE RequestEnds
    <2>1. Chain!Idle'
      BY <1>4 DEF RequestEnds, Chain!EndRequest, Chain!Idle
    <2> QED
      BY <2>1, IdleLoop, PTL DEF RequestInv
  <1>5. CASE UNCHANGED all_vars
    <2>1. UNCHANGED <<side, rules, locked, i, pc, verdict>> /\ at' = at /\ UNCHANGED vars
      BY <1>5 DEF all_vars, chain_vars
    <2>2. \A p : Broke(p)' <=> Broke(p)
      BY <2>1 DEF Broke
    <2>3. \A p, q : Bar(p, q)' <=> Bar(p, q)
      BY <2>1, <2>2 DEF Bar
    <2>4. LoopInv'
      BY <2>1, <2>2, <2>3
         DEF RequestInv, LoopInv, LoopShaped, LoopBitmap, LoopVerdicts, WritesFit
    <2>5. ListOf(at, side)' = ListOf(at, side)
      BY <2>1 DEF ListOf, ArrayOf, vars
    <2> QED
      BY <2>1, <2>4, <2>5 DEF RequestInv, Here, vars
  <1> QED
    BY <1>1, <1>2, <1>3, <1>4, <1>5 DEF HeaderRulesNext

\* Requests leave the configuration alone: with them it goes through what it goes
\* through without.
THEOREM ConfiguresAsAlone == HeaderRulesSpec => Spec
  <1>1. HeaderRulesInit => Init
    BY DEF HeaderRulesInit
  <1>2. ASSUME [HeaderRulesNext]_all_vars PROVE [Next]_vars
    BY <1>2 DEF HeaderRulesNext, Configure, Request, RequestStep, RequestEnds, all_vars
  <1> QED
    BY <1>1, <1>2, PTL DEF HeaderRulesSpec, Spec

\* Both invariants hold together.
LEMMA RequestInvariance == HeaderRulesSpec => [](IInv /\ RequestInv)
  <1>1. HeaderRulesSpec => []IInv
    BY ConfiguresAsAlone, Invariance, PTL
  <1>2. HeaderRulesInit => RequestInv
    BY IdleLoop DEF HeaderRulesInit, RequestInv
  <1>3. IInv /\ RequestInv /\ [HeaderRulesNext]_all_vars => RequestInv'
    BY NextRequestInv
  <1> QED
    BY <1>1, <1>2, <1>3, PTL DEF HeaderRulesSpec

\* The writes of the two loops, which check nothing, miss the bitmap only where the
\* pool had no memory for it: the count that merging leaves is above every id.
THEOREM WritesFitTheBitmap == HeaderRulesSpec => []WritesFit
  <1>1. RequestInv => WritesFit
    BY DEF RequestInv, LoopInv
  <1> QED
    BY <1>1, RequestInvariance, PTL

-----------------------------------------------------------------------------
(* What a request runs. *)

\* The conditions that were met: those of the conditional rules that ran.
MetHere ==
    {From(k) : k \in {k \in DOMAIN verdict : verdict[k] = "ran" /\ rules[k].shape.cond}}

\* A rule ran exactly when the list of its location says it runs.
LEMMA RanIsRuns ==
    ASSUME IInv, RequestInv, pc = "passed_on", i > Len(rules), NEW k \in 1 .. Len(rules)
    PROVE  verdict[k] = "ran" <=> RunsIn(ArrayOf(at, side), k, MetHere)
  <1> DEFINE A == ArrayOf(at, side)
             n == Len(rules)
  <1>1. at \in Blocks /\ side \in Sides /\ rules = ListOf(at, side) /\ phase = "serving"
    BY DEF RequestInv, Here
  <1>2. ListedPart(at, side) /\ at \in merged
    BY <1>1 DEF IInv, AllListed, Phases
  <1>3. /\ Len(A) \in Nat /\ DOMAIN A = 1 .. Len(A)
        /\ \A p, q \in 1 .. Len(A) : A[p].from = A[q].from => p = q
    BY <1>2 DEF ListedPart, IsSeq, Origins
  <1>4. /\ n = Len(A)
        /\ \A p \in 1 .. n : rules[p].shape = ShapeOf(A[p].h)
    BY <1>1, <1>3 DEF ListOf
  <1>5. \A p \in 1 .. n : /\ rules[p].shape.wildcard = A[p].h.wildcard
                          /\ rules[p].shape.next = A[p].h.next
                          /\ rules[p].shape.cond = A[p].h.cond
                          /\ rules[p].shape.key = A[p].h.key
    <2>1. \A h : /\ ShapeOf(h).wildcard = h.wildcard /\ ShapeOf(h).next = h.next
                 /\ ShapeOf(h).cond = h.cond /\ ShapeOf(h).key = h.key
      BY DEF ShapeOf
    <2> QED
      BY <1>4, <2>1
  <1>6. /\ DOMAIN verdict = 1 .. n /\ Len(verdict) = n /\ n \in Nat
        /\ \A p \in 1 .. n : verdict[p] \in Verdicts
    <2>1. n \in Nat
      BY <1>3, <1>4
    <2>2. i \in Nat /\ i <= n + 1 /\ verdict \in Seq(Verdicts) /\ Len(verdict) = i - 1
      BY DEF RequestInv, LoopInv, LoopShaped
    <2>3. i = n + 1
      BY <2>1, <2>2
    <2>4. Len(verdict) = n
      BY <2>1, <2>2, <2>3
    <2> QED
      BY <2>1, <2>2, <2>4
  <1>7. \A q \in 1 .. n : /\ verdict[q] = "locked" <=> \E p \in 1 .. q - 1 : Bar(p, q)
                          /\ verdict[q] = "declined" => rules[q].shape.cond
    BY <1>6 DEF RequestInv, LoopInv, LoopVerdicts
  <1> HIDE DEF A, n
  <1>8. \A p, q \in 1 .. n :
           Bar(p, q) <=> /\ verdict[p] = "ran"
                         /\ ~A[p].h.wildcard /\ ~A[p].h.next
                         /\ ~A[q].h.wildcard /\ A[p].h.key = A[q].h.key
    BY <1>5, <1>6 DEF Bar, Broke
  <1>9. \A p \in 1 .. n : Met(A[p], MetHere) <=> (A[p].h.cond => verdict[p] = "ran")
    <2> SUFFICES ASSUME NEW p \in 1 .. n, A[p].h.cond
                 PROVE  A[p].from \in MetHere <=> verdict[p] = "ran"
      BY DEF Met
    <2>1. MetHere = {A[q].from : q \in {q \in 1 .. n : verdict[q] = "ran" /\ rules[q].shape.cond}}
      BY <1>6 DEF MetHere, From, A
    <2>2. rules[p].shape.cond
      BY <1>5
    <2> QED
      BY <1>3, <1>4, <2>1, <2>2
  <1>10. k \in 1 .. n /\ \A p \in 1 .. k - 1 : p \in 1 .. n
    BY <1>6 DEF n
  <1>11. RunsIn(A, k, MetHere) <=>
           /\ A[k].h.cond => verdict[k] = "ran"
           /\ A[k].h.wildcard \/ \A p \in 1 .. k - 1 :
                (~A[p].h.wildcard /\ A[p].h.key = A[k].h.key
                    /\ (A[p].h.cond => verdict[p] = "ran")) => A[p].h.next
    BY <1>9, <1>10 DEF RunsIn
  <1>12. ASSUME verdict[k] = "ran" PROVE RunsIn(A, k, MetHere)
    <2> SUFFICES ASSUME ~A[k].h.wildcard, NEW p \in 1 .. k - 1, ~A[p].h.wildcard,
                        A[p].h.key = A[k].h.key, A[p].h.cond => verdict[p] = "ran",
                        ~A[p].h.next
                 PROVE  FALSE
      BY <1>11, <1>12
    <2>1. p \in 1 .. n
      BY <1>10
    <2>2. verdict[p] /= "ran"
      <3> SUFFICES ASSUME verdict[p] = "ran" PROVE FALSE
        OBVIOUS
      <3>1. Bar(p, k)
        BY <1>8, <1>10, <2>1
      <3> QED
        BY <1>7, <1>10, <1>12, <3>1
    <2>3. verdict[p] /= "declined"
      BY <1>5, <1>7, <2>1, <2>2
    <2>4. verdict[p] = "locked"
      BY <1>6, <2>1, <2>2, <2>3 DEF Verdicts
    <2>5. PICK q \in 1 .. p - 1 : Bar(q, p)
      BY <1>7, <2>1, <2>4
    <2>6. q \in 1 .. n /\ q \in 1 .. k - 1
      BY <1>10, <2>1
    <2>7. Bar(q, k)
      BY <1>8, <1>10, <2>1, <2>5, <2>6
    <2> QED
      BY <1>7, <1>10, <1>12, <2>6, <2>7
  <1>13. ASSUME RunsIn(A, k, MetHere) PROVE verdict[k] = "ran"
    <2>1. verdict[k] /= "declined"
      BY <1>5, <1>7, <1>10, <1>11, <1>13
    <2>2. verdict[k] /= "locked"
      <3> SUFFICES ASSUME NEW p \in 1 .. k - 1, Bar(p, k) PROVE FALSE
        BY <1>7, <1>10
      <3> QED
        BY <1>8, <1>10, <1>11, <1>13
    <2> QED
      BY <1>6, <1>10, <2>1, <2>2 DEF Verdicts
  <1> QED
    BY <1>12, <1>13 DEF A

\* The conditions that were met are the hit that RunsAsWritten asks for.
LEMMA WrittenIsRun == IInv /\ RequestInv => RunsAsWritten
  <1> SUFFICES ASSUME IInv, RequestInv, pc = "passed_on", i > Len(rules)
               PROVE  LET whole == Whole(side)[at]
                          conditional == {whole[k].from : k \in {k \in DOMAIN whole : whole[k].h.cond}}
                      IN  \E hit \in SUBSET (conditional \ WithVerdict("declined")) :
                             Ran(whole, hit) = RanHere
    BY DEF RunsAsWritten
  <1> DEFINE A == ArrayOf(at, side)
             whole == Whole(side)[at]
             conditional == {whole[k].from : k \in {k \in DOMAIN whole : whole[k].h.cond}}
             n == Len(A)
  <1>1. at \in Blocks /\ side \in Sides /\ rules = ListOf(at, side) /\ phase = "serving"
    BY DEF RequestInv, Here
  <1>2. ListedPart(at, side) /\ at \in merged
    BY <1>1 DEF IInv, AllListed, Phases
  <1>3. /\ IsSeq(A) /\ IsSeq(whole) /\ Embeds(A, whole)
        /\ \A p, q \in 1 .. n : A[p].from = A[q].from => p = q
    BY <1>2 DEF ListedPart, Origins
  <1>4. n \in Nat /\ DOMAIN A = 1 .. n /\ DOMAIN whole = 1 .. Len(whole)
    BY <1>3 DEF IsSeq
  <1>5. Len(rules) = n /\ \A p \in 1 .. n : rules[p].shape.cond = A[p].h.cond
    BY <1>1, <1>4 DEF ListOf, ShapeOf
  <1>6. DOMAIN verdict = 1 .. n
    BY <1>4, <1>5 DEF RequestInv, LoopInv, LoopShaped
  <1>7. MetHere = {A[q].from : q \in {q \in 1 .. n : verdict[q] = "ran" /\ A[q].h.cond}}
    BY <1>5, <1>6 DEF MetHere, From
  <1>8. WithVerdict("declined") = {A[q].from : q \in {q \in 1 .. n : verdict[q] = "declined"}}
    BY <1>6 DEF WithVerdict, From
  <1>9. Ran(whole, MetHere) = Ran(A, MetHere)
    BY <1>3, EmbedsRan
  <1>10. Ran(A, MetHere) = RanHere
    <2>1. \A k \in 1 .. n : verdict[k] = "ran" <=> RunsIn(A, k, MetHere)
      BY <1>5, RanIsRuns
    <2>2. {k \in DOMAIN A : RunsIn(A, k, MetHere)} = {k \in DOMAIN verdict : verdict[k] = "ran"}
      BY <1>4, <1>6, <2>1
    <2>3. [k \in DOMAIN A |-> A[k].from] = [k \in DOMAIN verdict |-> From(k)]
      BY <1>4, <1>6 DEF From
    <2> QED
      BY <2>2, <2>3, RanIs DEF RanHere
  <1>11. PICK g : EmbedsBy(g, A, whole)
    BY <1>3 DEF Embeds
  <1> HIDE DEF A, whole
  <1>12. ASSUME NEW q \in 1 .. n, verdict[q] = "ran", A[q].h.cond
         PROVE  A[q].from \in conditional
    <2>1. /\ g[q] \in 1 .. Len(whole)
          /\ whole[g[q]].h = A[q].h /\ whole[g[q]].from = A[q].from
      BY <1>11 DEF EmbedsBy, Rises, n
    <2> QED
      BY <1>4, <1>12, <2>1
  <1>13. MetHere \in SUBSET (conditional \ WithVerdict("declined"))
    <2> SUFFICES ASSUME NEW x \in MetHere
                 PROVE  x \in conditional /\ x \notin WithVerdict("declined")
      OBVIOUS
    <2> HIDE DEF conditional
    <2>1. PICK q \in 1 .. n : x = A[q].from /\ verdict[q] = "ran" /\ A[q].h.cond
      BY <1>7
    <2>2. x \in conditional
      BY <1>12, <2>1
    <2>3. x \notin WithVerdict("declined")
      BY <1>3, <1>8, <2>1
    <2> QED
      BY <2>2, <2>3
  <1> QED
    BY <1>9, <1>10, <1>13 DEF A, whole

\* From the file to the headers: for every tree of blocks, every sequence of
\* directives and every outcome of their conditions, a request runs the rules of
\* its block and of those around it as if nothing had been merged, disabled or
\* kept in a bitmap.
THEOREM RequestsRunWhatIsWritten == HeaderRulesSpec => []RunsAsWritten
  BY WrittenIsRun, RequestInvariance, PTL
=============================================================================
