-------------------------- MODULE SubrequestsProofs -------------------------
(***************************************************************************)
(* Proofs about Subrequests, for every tree of subrequests and every bound.*)
(*                                                                         *)
(* SubInv is inductive: the pointers of all the lists in memory, taken     *)
(* together, make no circle, and no pointer is ahead of the pool.  So every*)
(* request has a list, the one chain of parts from its own to an end, and  *)
(* each action turns the chain of each request, its own or one that shares *)
(* parts with it, into one that can be told from the old.                  *)
(*                                                                         *)
(* From that the properties follow: what a created header is propagated to *)
(* (ParentsFollow), what a removal takes from which list (RemovesOne), and *)
(* that the main request's list is NgxList's as long as no subrequest      *)
(* changes its own (MainAlone).                                            *)
(***************************************************************************)
EXTENDS Subrequests, SeqProofs, FiniteSetTheorems, TLAPS

-----------------------------------------------------------------------------
(* Following the next pointers. *)

\* A part in memory.
Cell == [elts : Nat, nelts : Nat, next : 1 .. MaxAddr \cup {NULL}, end : Nat]

\* The pointers make no circle: from any parts, one leads out of them.
Ends(m) == \A some \in SUBSET Addresses : some /= {} => \E a \in some : m[a].next \notin some

\* So they lead from everywhere to an end.
Heap(m) == m \in [Addresses -> Cell] /\ Ends(m)

\* s follows them from r.
IsPath(m, r, s) ==
    /\ s \in Seq(Addresses) /\ Len(s) \in Nat /\ Len(s) >= 1
    /\ DOMAIN s = 1 .. Len(s)
    /\ s[1] = r
    /\ \A k \in 1 .. Len(s) - 1 : m[s[k]].next = s[k + 1]

\* It follows them to the end.
IsChain(m, r, s) == IsPath(m, r, s) /\ m[s[Len(s)]].next = NULL

\* What a part's fields are.
LEMMA CellTypes ==
    ASSUME NEW m, Heap(m), NEW a \in Addresses
    PROVE  /\ m[a] \in Cell
           /\ m[a].elts \in Nat /\ m[a].nelts \in Nat /\ m[a].end \in Nat
           /\ m[a].next \in 1 .. MaxAddr \/ m[a].next = NULL
  BY DEF Heap, Cell

\* NULL is no address.
LEMMA NoAddress == NULL \notin Addresses /\ 1 .. MaxAddr \subseteq Addresses
  BY AddressAssumption DEF Addresses

\* A request's part is not from the pool.
LEMMA Embedded == \A r \in Requests : r \in Addresses /\ r \notin 1 .. MaxAddr
  BY AddressAssumption DEF Addresses

\* No part is met twice.
LEMMA PathDistinct ==
    ASSUME NEW m, Heap(m), NEW r, NEW s, IsPath(m, r, s)
    PROVE  \A j, k \in 1 .. Len(s) : s[j] = s[k] => j = k
<1>1. /\ s \in Seq(Addresses) /\ Len(s) \in Nat
      /\ \A k \in 1 .. Len(s) : s[k] \in Addresses
      /\ \A k \in 1 .. Len(s) - 1 : m[s[k]].next = s[k + 1]
  BY DEF IsPath
<1>2. SUFFICES ASSUME NEW j \in 1 .. Len(s), NEW k \in 1 .. Len(s), s[j] = s[k], j < k
               PROVE  FALSE
  BY <1>1
<1> DEFINE some == {s[n] : n \in j .. k - 1}
<1>3. some \in SUBSET Addresses /\ s[j] \in some
  <2>1. \A n \in j .. k - 1 : n \in 1 .. Len(s)
    BY <1>1, <1>2
  <2>2. j \in j .. k - 1
    BY <1>1, <1>2
  <2> QED BY <1>1, <2>1, <2>2
<1>4. PICK a \in some : m[a].next \notin some
  BY <1>3 DEF Heap, Ends
<1>5. PICK n \in j .. k - 1 : a = s[n]
  OBVIOUS
<1>6. n \in 1 .. Len(s) - 1 /\ n + 1 \in j + 1 .. k
  BY <1>1, <1>2, <1>5
<1>7. m[a].next = s[n + 1]
  BY <1>1, <1>5, <1>6
<1>8. CASE n + 1 = k
  BY <1>2, <1>3, <1>4, <1>7, <1>8
<1>9. CASE n + 1 /= k
  <2>1. n + 1 \in j .. k - 1
    BY <1>1, <1>2, <1>6, <1>9
  <2> QED BY <1>4, <1>7, <2>1
<1> QED BY <1>8, <1>9

\* All but the first are parts from the pool.
LEMMA PathPooled ==
    ASSUME NEW m, Heap(m), NEW r, NEW s, IsPath(m, r, s), NEW k \in 2 .. Len(s)
    PROVE  s[k] \in 1 .. MaxAddr
<1>1. /\ Len(s) \in Nat /\ \A j \in 1 .. Len(s) : s[j] \in Addresses
      /\ \A j \in 1 .. Len(s) - 1 : m[s[j]].next = s[j + 1]
  BY DEF IsPath
<1>2. k - 1 \in 1 .. Len(s) - 1 /\ k - 1 \in 1 .. Len(s) /\ k \in 1 .. Len(s) /\ k - 1 + 1 = k
  BY <1>1
<1>3. m[s[k - 1]].next = s[k]
  BY <1>1, <1>2
<1>4. s[k] /= NULL
  BY <1>1, <1>2, NoAddress
<1> QED BY <1>1, <1>2, <1>3, <1>4, CellTypes

\* What does not meet a part twice has no more than there are, and one embedded.
LEMMA PathShort ==
    ASSUME NEW m, Heap(m), NEW r, NEW s, IsPath(m, r, s), NEW top \in Nat,
           \A k \in 2 .. Len(s) : s[k] \in 1 .. top
    PROVE  Len(s) <= top + 1
<1>0. Len(s) \in Nat /\ Len(s) >= 1
  BY DEF IsPath
<1> SUFFICES ASSUME Len(s) > top + 1 PROVE FALSE
  BY <1>0
<1> DEFINE n == Len(s) - 1
           f == [k \in 1 .. n |-> s[k + 1]]
<1>1. n \in Nat /\ n > top
  BY <1>0
<1>2. \A k \in 1 .. n : k + 1 \in 2 .. Len(s) /\ k + 1 \in 1 .. Len(s)
  BY <1>0
<1>3. f \in [1 .. n -> 1 .. top]
  BY <1>2
<1>4. \A k \in 1 .. n : f[k] = s[k + 1]
  OBVIOUS
<1> HIDE DEF f, n
<1>5. /\ IsFiniteSet(1 .. n) /\ Cardinality(1 .. n) = n
      /\ IsFiniteSet(1 .. top) /\ Cardinality(1 .. top) = top
  <2>1. 1 \in Int /\ n \in Int /\ top \in Int
    BY <1>1
  <2>2. IsFiniteSet(1 .. n) /\ Cardinality(1 .. n) = IF 1 > n THEN 0 ELSE n - 1 + 1
    BY <2>1, FS_Interval
  <2>3. IsFiniteSet(1 .. top) /\ Cardinality(1 .. top) = IF 1 > top THEN 0 ELSE top - 1 + 1
    BY <2>1, FS_Interval
  <2> QED BY <1>1, <2>2, <2>3
<1>6. \E x, y \in 1 .. n : x # y /\ f[x] = f[y]
  BY <1>1, <1>3, <1>5, FS_PigeonHole
<1>7. PICK x \in 1 .. n, y \in 1 .. n : x /= y /\ f[x] = f[y]
  BY <1>6
<1>8. x + 1 = y + 1
  BY <1>2, <1>4, <1>7, PathDistinct
<1> QED BY <1>7, <1>8

\* There is only one way to the end.
LEMMA OneChain ==
    ASSUME NEW m, Heap(m), NEW r, NEW s, NEW t, IsChain(m, r, s), IsChain(m, r, t)
    PROVE  s = t
<1>1. /\ s \in Seq(Addresses) /\ Len(s) \in Nat /\ Len(s) >= 1 /\ s[1] = r
      /\ \A k \in 1 .. Len(s) : s[k] \in Addresses
      /\ \A k \in 1 .. Len(s) - 1 : m[s[k]].next = s[k + 1]
      /\ m[s[Len(s)]].next = NULL
      /\ t \in Seq(Addresses) /\ Len(t) \in Nat /\ Len(t) >= 1 /\ t[1] = r
      /\ \A k \in 1 .. Len(t) : t[k] \in Addresses
      /\ \A k \in 1 .. Len(t) - 1 : m[t[k]].next = t[k + 1]
      /\ m[t[Len(t)]].next = NULL
  BY DEF IsChain, IsPath
<1> DEFINE Bad == {k \in 1 .. Len(s) : k \notin 1 .. Len(t) \/ s[k] /= t[k]}
<1>2. Bad = {}
  <2> SUFFICES ASSUME Bad /= {} PROVE FALSE
    OBVIOUS
  <2>1. Bad \in SUBSET Nat
    OBVIOUS
  <2>2. PICK k \in Bad : \A j \in Bad : k <= j
    BY <2>1, Least
  <2>3. k \in 1 .. Len(s) /\ (k \notin 1 .. Len(t) \/ s[k] /= t[k])
    OBVIOUS
  <2>4. k /= 1
    BY <1>1, <2>3
  <2>5. k - 1 \in 1 .. Len(s) /\ k - 1 \in 1 .. Len(s) - 1 /\ k - 1 \notin Bad /\ k - 1 + 1 = k
    BY <1>1, <2>2, <2>3, <2>4
  <2>6. k - 1 \in 1 .. Len(t) /\ s[k - 1] = t[k - 1]
    BY <2>5
  <2>7. m[t[k - 1]].next = s[k] /\ s[k] \in Addresses
    BY <1>1, <2>3, <2>5, <2>6
  <2>8. k - 1 /= Len(t)
    BY <1>1, <2>7, NoAddress
  <2>9. k - 1 \in 1 .. Len(t) - 1 /\ k \in 1 .. Len(t)
    BY <1>1, <2>3, <2>6, <2>8
  <2>10. s[k] = t[k]
    BY <1>1, <2>5, <2>7, <2>9
  <2> QED BY <2>3, <2>9, <2>10
<1>3. \A k \in 1 .. Len(s) : k \in 1 .. Len(t) /\ s[k] = t[k]
  BY <1>2
<1> HIDE DEF Bad
<1>4. Len(s) = Len(t)
  <2>1. Len(s) \in 1 .. Len(s) /\ Len(s) \in 1 .. Len(t) /\ s[Len(s)] = t[Len(s)]
    BY <1>1, <1>3
  <2>2. ASSUME Len(s) /= Len(t) PROVE FALSE
    <3>1. Len(s) \in 1 .. Len(t) - 1 /\ Len(s) + 1 \in 1 .. Len(t)
      BY <1>1, <2>1, <2>2
    <3>2. NULL = t[Len(s) + 1] /\ t[Len(s) + 1] \in Addresses
      BY <1>1, <2>1, <3>1
    <3> QED BY <3>2, NoAddress
  <2> QED BY <2>2
<1> QED BY <1>1, <1>3, <1>4, SeqEqual

\* A way, one part longer if there is a next one.
Grown(m, front) ==
    LET next == m[Last(front)].next
    IN  IF next = NULL THEN front ELSE Append(front, next)

\* The function Chain computes with: the way of n steps.
Ways(m, r) ==
    CHOOSE f : f = [n \in 0 .. MaxAddr |->
                      IF n = 0 THEN <<r>>
                      ELSE LET front == f[n - 1]
                               next == m[Last(front)].next
                           IN  IF next = NULL THEN front ELSE Append(front, next)]

\* Chain, in the memory m.
ChainOf(m, r) == Ways(m, r)[MaxAddr]

\* What Chain makes of it.
LEMMA ChainsAre ==
    ASSUME NEW r
    PROVE  Chain(r) = ChainOf(mem, r) /\ Chain(r)' = ChainOf(mem', r)
<1>1. Chain(r) = ChainOf(mem, r)
  BY Zenon DEF Chain, ChainOf, Ways
<1>2. Chain(r)' = ChainOf(mem', r)
  BY Zenon DEF Chain, ChainOf, Ways
<1> QED BY <1>1, <1>2

\* f has the ways of up to n steps.
IsWays(f, m, r, n) ==
    f = [k \in 0 .. n |-> IF k = 0 THEN <<r>> ELSE Grown(m, f[k - 1])]

\* There is such a function for every n.
LEMMA WaysExist ==
    ASSUME NEW m, NEW r, NEW n \in Nat
    PROVE  \E f : IsWays(f, m, r, n)
<1> DEFINE Bad == {k \in Nat : ~ \E f : IsWays(f, m, r, k)}
<1> SUFFICES ASSUME Bad /= {} PROVE FALSE
  OBVIOUS
<1>1. PICK b \in Bad : \A k \in Bad : b <= k
  BY Least
<1>2. b \in Nat /\ ~ \E f : IsWays(f, m, r, b)
  OBVIOUS
<1>3. b /= 0
  <2>1. IsWays([k \in 0 .. 0 |-> <<r>>], m, r, 0)
    BY DEF IsWays
  <2> QED BY <1>2, <2>1
<1>4. b - 1 \in Nat /\ b - 1 \notin Bad
  BY <1>1, <1>2, <1>3
<1>5. PICK g : IsWays(g, m, r, b - 1)
  BY <1>4
<1> DEFINE most == Grown(m, g[b - 1])
           f == [k \in 0 .. b |-> IF k = b THEN most ELSE g[k]]
<1> HIDE DEF most
<1>6. \A k \in 0 .. b - 1 : f[k] = g[k]
  BY <1>2
<1>7. ASSUME NEW k \in 0 .. b
      PROVE  f[k] = IF k = 0 THEN <<r>> ELSE Grown(m, f[k - 1])
  <2>1. CASE k = 0
    <3>1. 0 \in 0 .. b - 1
      BY <1>2, <1>3
    <3>2. g[0] = <<r>>
      BY <1>5, <3>1 DEF IsWays
    <3> QED BY <1>6, <2>1, <3>1, <3>2
  <2>2. CASE k = b
    <3>1. b - 1 \in 0 .. b - 1 /\ k - 1 = b - 1
      BY <1>2, <1>3, <2>2
    <3> QED BY <1>3, <1>6, <2>2, <3>1 DEF most
  <2>3. CASE k /= 0 /\ k /= b
    <3>1. k \in 0 .. b - 1 /\ k - 1 \in 0 .. b - 1
      BY <1>2, <2>3
    <3>2. g[k] = Grown(m, g[k - 1])
      BY <1>5, <2>3, <3>1 DEF IsWays
    <3> QED BY <1>6, <2>3, <3>1, <3>2
  <2> QED BY <2>1, <2>2, <2>3
<1>8. IsWays(f, m, r, b)
  BY <1>7 DEF IsWays
<1> QED BY <1>2, <1>8

\* So the recursion holds of the chosen one.
LEMMA WaysStep ==
    ASSUME NEW m, NEW r
    PROVE  \A k \in 0 .. MaxAddr : Ways(m, r)[k] =
              IF k = 0 THEN <<r>> ELSE Grown(m, Ways(m, r)[k - 1])
<1>0. MaxAddr \in Nat
  BY BoundAssumption
<1>1. Ways(m, r) = CHOOSE f : IsWays(f, m, r, MaxAddr)
  BY Zenon DEF IsWays, Ways, Grown
<1>2. IsWays(Ways(m, r), m, r, MaxAddr)
  BY <1>0, <1>1, WaysExist
<1> QED BY <1>2 DEF IsWays

\* A path of one part, and one that is one longer.
LEMMA PathBegins ==
    ASSUME NEW m, NEW r \in Addresses
    PROVE  IsPath(m, r, <<r>>)
  BY DEF IsPath

\* A path goes on to the next part.
LEMMA PathGrows ==
    ASSUME NEW m, Heap(m), NEW r, NEW s, IsPath(m, r, s), m[s[Len(s)]].next /= NULL
    PROVE  /\ IsPath(m, r, Append(s, m[s[Len(s)]].next))
           /\ Len(Append(s, m[s[Len(s)]].next)) = Len(s) + 1
<1> DEFINE next == m[s[Len(s)]].next
<1>1. /\ s \in Seq(Addresses) /\ Len(s) \in Nat /\ Len(s) >= 1 /\ s[1] = r
      /\ \A k \in 1 .. Len(s) : s[k] \in Addresses
      /\ \A k \in 1 .. Len(s) - 1 : m[s[k]].next = s[k + 1]
  BY DEF IsPath
<1>2. next \in Addresses
  <2>1. s[Len(s)] \in Addresses
    BY <1>1
  <2> QED BY <2>1, CellTypes, NoAddress
<1>3. PICK a \in Addresses : a = next
  BY <1>2
<1>4. PICK t \in Seq(Addresses) : t = Append(s, a)
  <2>1. Append(s, a) \in Seq(Addresses)
    BY <1>1, AppendProperties
  <2> QED BY <2>1
<1>5. Len(t) = Len(s) + 1 /\ t[Len(s) + 1] = a /\ \A k \in 1 .. Len(s) : t[k] = s[k]
  BY <1>1, <1>4, AppendProperties
<1>6. ASSUME NEW k \in 1 .. Len(s) PROVE m[t[k]].next = t[k + 1]
  <2>1. CASE k = Len(s)
    BY <1>3, <1>5, <2>1
  <2>2. CASE k /= Len(s)
    <3>1. k \in 1 .. Len(s) - 1 /\ k + 1 \in 1 .. Len(s)
      BY <1>1, <2>2
    <3> QED BY <1>1, <1>5, <3>1
  <2> QED BY <2>1, <2>2
<1>7. Len(t) \in Nat /\ Len(t) >= 1 /\ t[1] = r /\ DOMAIN t = 1 .. Len(t) /\ Len(t) - 1 = Len(s)
  BY <1>1, <1>5
<1>8. IsPath(m, r, t)
  BY <1>6, <1>7 DEF IsPath
<1> QED BY <1>3, <1>4, <1>5, <1>8

\* Chain follows the pointers to the end.
LEMMA ChainIs ==
    ASSUME NEW m, Heap(m), NEW r \in Addresses
    PROVE  IsChain(m, r, ChainOf(m, r))
<1> DEFINE w(n) == Ways(m, r)[n]
           Good(n) == /\ IsPath(m, r, w(n))
                      /\ Len(w(n)) = n + 1 \/ m[w(n)[Len(w(n))]].next = NULL
           Bad == {n \in 0 .. MaxAddr : ~Good(n)}
<1>0. MaxAddr \in Nat
  BY BoundAssumption
<1>1. Bad = {}
  <2> SUFFICES ASSUME Bad /= {} PROVE FALSE
    OBVIOUS
  <2>1. Bad \in SUBSET Nat
    OBVIOUS
  <2>2. PICK n \in Bad : \A k \in Bad : n <= k
    BY <2>1, Least
  <2>3. n \in 0 .. MaxAddr /\ ~Good(n)
    OBVIOUS
  <2>4. n /= 0
    <3>1. ASSUME n = 0 PROVE FALSE
      <4>1. w(0) = <<r>>
        <5>1. 0 \in 0 .. MaxAddr
          BY <1>0
        <5> QED BY <5>1, WaysStep
      <4>2. IsPath(m, r, w(0)) /\ Len(w(0)) = 0 + 1
        BY <4>1, PathBegins
      <4> QED BY <2>3, <3>1, <4>2
    <3> QED BY <3>1
  <2>5. n - 1 \in 0 .. MaxAddr /\ n - 1 \notin Bad /\ n - 1 + 1 = n
    BY <1>0, <2>2, <2>3, <2>4
  <2>6. Good(n - 1)
    BY <2>5
  <2>7. w(n) = Grown(m, w(n - 1))
    BY <2>3, <2>4, WaysStep
  <2> DEFINE s == w(n - 1)  next == m[s[Len(s)]].next
  <2>8. IsPath(m, r, s) /\ (Len(s) = n \/ next = NULL)
    BY <2>5, <2>6
  <2>9. w(n) = IF next = NULL THEN s ELSE Append(s, next)
    BY <2>7 DEF Grown, Last
  <2> HIDE DEF s, w
  <2>10. CASE next = NULL
    BY <2>3, <2>8, <2>9, <2>10
  <2>11. CASE next /= NULL
    BY <2>3, <2>8, <2>9, <2>11, PathGrows
  <2> QED BY <2>10, <2>11
<1>2. Good(MaxAddr)
  <2>1. MaxAddr \in 0 .. MaxAddr
    BY <1>0
  <2> QED BY <1>1, <2>1
<1> DEFINE s == w(MaxAddr)  next == m[s[Len(s)]].next
<1>3. IsPath(m, r, s) /\ (Len(s) = MaxAddr + 1 \/ next = NULL)
  BY <1>2
<1>4. s = ChainOf(m, r)
  BY DEF ChainOf
<1> HIDE DEF s
<1>5. next = NULL
  <2> SUFFICES ASSUME next /= NULL PROVE FALSE
    OBVIOUS
  <2> DEFINE t == Append(s, next)
  <2>1. IsPath(m, r, t) /\ Len(t) = MaxAddr + 1 + 1
    BY <1>3, PathGrows
  <2> HIDE DEF t
  <2>2. \A k \in 2 .. Len(t) : t[k] \in 1 .. MaxAddr
    BY <2>1, PathPooled
  <2>3. Len(t) <= MaxAddr + 1
    BY <1>0, <2>1, <2>2, PathShort
  <2> QED BY <1>0, <2>1, <2>3
<1> QED BY <1>3, <1>4, <1>5 DEF IsChain

\* So whatever follows them to the end is what Chain is.
LEMMA IsItsChain ==
    ASSUME NEW m, Heap(m), NEW r \in Addresses, NEW s, IsChain(m, r, s)
    PROVE  ChainOf(m, r) = s
  BY ChainIs, OneChain

-----------------------------------------------------------------------------
(* What changes of the pointers make no circle. *)

\* The memory n has its parts.
Memory(n) == n \in [Addresses -> Cell]

\* A part's next is not a request's.
LEMMA NextFacts ==
    ASSUME NEW m, Memory(m), NEW a \in Addresses
    PROVE  m[a].next = NULL \/ (m[a].next \in 1 .. MaxAddr /\ m[a].next \in Addresses)
  BY NoAddress DEF Memory, Cell

\* Nothing points to the embedded parts, so these can get any pointer.
LEMMA HeadsChanged ==
    ASSUME NEW m, Heap(m), NEW n, Memory(n),
           \A a \in 1 .. MaxAddr : n[a].next = m[a].next
    PROVE  Heap(n)
<1> SUFFICES ASSUME NEW some \in SUBSET Addresses, some /= {}
             PROVE  \E a \in some : n[a].next \notin some
  BY DEF Heap, Ends, Memory
<1> DEFINE pool == some \cap 1 .. MaxAddr
<1>1. CASE pool = {}
  <2>1. PICK a \in some : TRUE
    OBVIOUS
  <2>2. n[a].next \notin some
    BY <1>1, NextFacts, NoAddress
  <2> QED BY <2>2
<1>2. CASE pool /= {}
  <2>1. PICK a \in pool : m[a].next \notin pool
    BY <1>2 DEF Heap, Ends
  <2>2. a \in some /\ a \in 1 .. MaxAddr /\ n[a].next = m[a].next
    OBVIOUS
  <2>3. n[a].next \notin some
    BY <2>1, <2>2, NextFacts, NoAddress
  <2> QED BY <2>2, <2>3
<1> QED BY <1>1, <1>2

\* A part's pointer is dropped, or goes to the part behind the next one.
LEMMA PartPassed ==
    ASSUME NEW m, Heap(m), NEW n, Memory(n), NEW b \in Addresses,
           \A a \in Addresses : a /= b => n[a].next = m[a].next,
           n[b].next = NULL \/ (m[b].next \in Addresses /\ n[b].next = m[m[b].next].next)
    PROVE  Heap(n)
<1> SUFFICES ASSUME NEW some \in SUBSET Addresses, some /= {}
             PROVE  \E a \in some : n[a].next \notin some
  BY DEF Heap, Ends, Memory
<1>1. PICK a \in some : m[a].next \notin some
  BY DEF Heap, Ends
<1>2. CASE a /= b
  BY <1>1, <1>2
<1>3. CASE a = b /\ n[b].next \notin some
  BY <1>3
<1>4. CASE a = b /\ n[b].next \in some
  <2> DEFINE next == m[b].next
             more == some \cup {next}
  <2>1. n[b].next /= NULL
    BY <1>4, NoAddress
  <2>2. next \in Addresses /\ n[b].next = m[next].next /\ next \notin some
    BY <1>1, <1>4, <2>1
  <2>3. PICK c \in more : m[c].next \notin more
    BY <2>2 DEF Heap, Ends
  <2>4. c /= next
    BY <1>4, <2>2, <2>3
  <2>5. c /= b
    BY <2>3
  <2>6. c \in some /\ n[c].next = m[c].next
    BY <2>3, <2>4, <2>5
  <2> QED BY <2>3, <2>6
<1> QED BY <1>2, <1>3, <1>4

\* A part that nothing points to is put behind another, at the end or in between.
LEMMA PartInserted ==
    ASSUME NEW m, Heap(m), NEW n, Memory(n), NEW b \in Addresses, NEW f \in Addresses, b /= f,
           \A a \in Addresses : m[a].next /= f,
           \A a \in Addresses : a \notin {b, f} => n[a].next = m[a].next,
           n[b].next = f,
           n[f].next = NULL \/ n[f].next = m[b].next
    PROVE  Heap(n)
<1> SUFFICES ASSUME NEW some \in SUBSET Addresses, some /= {}
             PROVE  \E a \in some : n[a].next \notin some
  BY DEF Heap, Ends, Memory
<1>1. CASE f \notin some
  <2>1. PICK a \in some : m[a].next \notin some
    BY DEF Heap, Ends
  <2> QED BY <1>1, <2>1
<1>2. CASE f \in some /\ n[f].next \notin some
  BY <1>2
<1>3. CASE f \in some /\ n[f].next \in some
  <2> DEFINE less == some \ {f}
  <2>1. n[f].next /= NULL
    BY <1>3, NoAddress
  <2>2. m[b].next \in some /\ m[b].next /= f
    BY <1>3, <2>1
  <2>3. PICK c \in less : m[c].next \notin less
    BY <2>2 DEF Heap, Ends
  <2>4. m[c].next \notin some /\ c \in some /\ c /= f
    BY <2>3
  <2>5. c /= b
    BY <2>2, <2>4
  <2> QED BY <2>4, <2>5
<1> QED BY <1>1, <1>2, <1>3

-----------------------------------------------------------------------------
(* The invariant of the memory. *)

\* No pointer is ahead of the pool.
Pooled(m, f) == \A a \in Addresses : m[a].next = NULL \/ m[a].next < f

\* Nor is the last part of a request.
LastPooled(la, f) == \A r \in Requests : la[r] \in Requests \/ la[r] \in 1 .. f - 1

\* What is known of the memory.
SubInv ==
    /\ Heap(mem) /\ Pooled(mem, fresh)
    /\ fresh \in 1 .. MaxAddr + 1 /\ brk \in Nat
    /\ last \in [Requests -> Addresses] /\ LastPooled(last, fresh)
    /\ nalloc \in [Requests -> Int]
    /\ started \subseteq Requests /\ Main \in started
    /\ changes \in Nat

\* The parts a request's list has.
LEMMA ChainFacts ==
    ASSUME NEW m, Heap(m), NEW r \in Requests, NEW s, s = ChainOf(m, r)
    PROVE  /\ s \in Seq(Addresses) /\ Len(s) \in Nat /\ Len(s) >= 1 /\ DOMAIN s = 1 .. Len(s)
           /\ \A k \in 1 .. Len(s) : s[k] \in Addresses
           /\ s[1] = r
           /\ \A k \in 1 .. Len(s) - 1 : m[s[k]].next = s[k + 1]
           /\ m[s[Len(s)]].next = NULL
           /\ \A j, k \in 1 .. Len(s) : s[j] = s[k] => j = k
           /\ \A k \in 2 .. Len(s) : s[k] \in 1 .. MaxAddr
           /\ IsChain(m, r, s)
<1>1. IsChain(m, r, s)
  BY ChainIs, Embedded
<1>2. IsPath(m, r, s)
  BY <1>1 DEF IsChain
<1>3. \A j, k \in 1 .. Len(s) : s[j] = s[k] => j = k
  BY <1>2, PathDistinct
<1>4. \A k \in 2 .. Len(s) : s[k] \in 1 .. MaxAddr
  BY <1>2, PathPooled
<1>5. s \in Seq(Addresses) /\ Len(s) \in Nat
  BY <1>2 DEF IsPath
<1>6. \A k \in 1 .. Len(s) : s[k] \in Addresses
  BY <1>5
<1> QED BY <1>1, <1>2, <1>3, <1>4, <1>6 DEF IsChain, IsPath

\* A part that is not the first has another in front of it.
LEMMA BeforeIs ==
    ASSUME NEW r \in Requests, Heap(mem), NEW k \in 2 .. Len(Chain(r))
    PROVE  /\ k - 1 \in 1 .. Len(Chain(r)) /\ Chain(r)[k - 1] \in Addresses
           /\ Before(r, Chain(r)[k]) = Chain(r)[k - 1]
<1> DEFINE s == Chain(r)
<1>1. s = ChainOf(mem, r)
  BY ChainsAre
<1> HIDE DEF s
<1>2. /\ Len(s) \in Nat /\ DOMAIN s = 1 .. Len(s)
      /\ \A j \in 1 .. Len(s) : s[j] \in Addresses
      /\ \A j \in 1 .. Len(s) - 1 : mem[s[j]].next = s[j + 1]
      /\ mem[s[Len(s)]].next = NULL
      /\ \A i1, j1 \in 1 .. Len(s) : s[i1] = s[j1] => i1 = j1
  BY <1>1, ChainFacts
<1>3. k \in 2 .. Len(s)
  BY DEF s
<1>4. k - 1 \in 1 .. Len(s) /\ k - 1 \in 1 .. Len(s) - 1 /\ k \in 1 .. Len(s) /\ k - 1 + 1 = k
  BY <1>2, <1>3
<1>5. s[k - 1] \in ToSet(s) /\ mem[s[k - 1]].next = s[k]
  BY <1>2, <1>4 DEF ToSet
<1>6. ASSUME NEW a \in ToSet(s), mem[a].next = s[k] PROVE a = s[k - 1]
  <2>1. PICK j \in 1 .. Len(s) : a = s[j]
    BY <1>2 DEF ToSet
  <2>2. j /= Len(s)
    BY <1>2, <1>4, <1>6, <2>1, NoAddress
  <2>3. j \in 1 .. Len(s) - 1 /\ j + 1 \in 1 .. Len(s)
    <3>1. Len(s) \in Nat
      BY <1>2
    <3> QED BY ONLY <2>1, <2>2, <3>1
  <2>4. s[j + 1] = s[k]
    BY <1>2, <1>6, <2>1, <2>3
  <2>5. j + 1 = k
    BY <1>2, <1>4, <2>3, <2>4
  <2> QED BY <2>1, <2>5
<1>7. Before(r, s[k]) = s[k - 1]
  <2>1. Before(r, s[k]) = CHOOSE a \in ToSet(s) : mem[a].next = s[k]
    BY DEF Before, s
  <2> QED BY <1>5, <1>6, <2>1
<1> QED BY <1>2, <1>4, <1>7 DEF s

-----------------------------------------------------------------------------
(* The requests above one. *)

\* The function Ancestors computes with.
Above ==
    CHOOSE f : f = [q \in Requests |-> IF q = Main THEN {} ELSE {Parent[q]} \cup f[Parent[q]]]

\* What it is a solution of.
IsAbove(f) ==
    f = [q \in Requests |-> IF q = Main THEN {} ELSE {Parent[q]} \cup f[Parent[q]]]

\* A set with each request's parent.
UpClosed(X) == X \subseteq Requests /\ \A p \in X : p /= Main => Parent[p] \in X

\* What all of these have that a request is in.
Upwards(q) == {a \in Requests : \A X \in SUBSET Requests : UpClosed(X) /\ q \in X => a \in X}

\* A request, and what is upwards of its parent.
LEMMA UpwardsIs ==
    ASSUME NEW q \in Subs
    PROVE  Upwards(q) = {q} \cup Upwards(Parent[q])
<1>1. q \in Requests /\ q /= Main /\ Parent[q] \in Requests
  BY TreeAssumption DEF Requests
<1>2. {q} \cup Upwards(Parent[q]) \subseteq Upwards(q)
  BY <1>1 DEF Upwards, UpClosed
<1> DEFINE Y == {q} \cup Upwards(Parent[q])
<1>3. UpClosed(Y) /\ q \in Y
  <2>1. Y \subseteq Requests
    BY <1>1 DEF Upwards
  <2>2. Parent[q] \in Upwards(Parent[q])
    BY <1>1 DEF Upwards
  <2>3. ASSUME NEW p \in Upwards(Parent[q]), p /= Main PROVE Parent[p] \in Upwards(Parent[q])
    <3>1. p \in Requests /\ Parent[p] \in Requests
      BY <2>3, TreeAssumption DEF Upwards, Requests
    <3> QED BY <2>3, <3>1 DEF Upwards, UpClosed
  <2> QED BY <2>1, <2>2, <2>3 DEF UpClosed
<1>4. Upwards(q) \subseteq Y
  <2>1. Y \in SUBSET Requests
    BY <1>3 DEF UpClosed
  <2> HIDE DEF Y
  <2> QED BY <1>3, <2>1 DEF Upwards
<1> QED BY <1>2, <1>4

\* The recursion holds of Above.
LEMMA AboveIs == IsAbove(Above)
<1> DEFINE f == [q \in Requests |-> IF q = Main THEN {} ELSE Upwards(Parent[q])]
<1>0. Main \in Requests /\ Requests = {Main} \cup Subs
  BY DEF Requests
<1>1. Upwards(Main) = {Main}
  <2>1. UpClosed({Main})
    BY <1>0 DEF UpClosed
  <2> QED BY <1>0, <2>1 DEF Upwards
<1>2. ASSUME NEW q \in Subs PROVE f[q] = {Parent[q]} \cup f[Parent[q]]
  <2>1. q /= Main /\ q \in Requests /\ Parent[q] \in Requests
    BY TreeAssumption DEF Requests
  <2>2. f[q] = Upwards(Parent[q])
    BY <2>1
  <2>3. CASE Parent[q] = Main
    <3>1. f[Parent[q]] = {}
      BY <2>1, <2>3
    <3> QED BY <1>1, <2>2, <2>3, <3>1
  <2>4. CASE Parent[q] /= Main
    <3>1. Parent[q] \in Subs
      BY <1>0, <2>1, <2>4
    <3>2. f[Parent[q]] = Upwards(Parent[Parent[q]])
      BY <2>1, <2>4
    <3> QED BY <2>2, <3>1, <3>2, UpwardsIs
  <2> QED BY <2>3, <2>4
<1>3. f[Main] = {}
  BY <1>0
<1>4. f = [q \in Requests |-> f[q]]
  OBVIOUS
<1> HIDE DEF f
<1>5. \A q \in Requests : f[q] = IF q = Main THEN {} ELSE {Parent[q]} \cup f[Parent[q]]
  BY <1>0, <1>2, <1>3
<1>6. IsAbove(f)
  BY <1>4, <1>5 DEF IsAbove
<1>7. Above = CHOOSE g : IsAbove(g)
  BY DEF Above, IsAbove
<1> QED BY <1>6, <1>7

\* The main request has nothing above it, a subrequest its parent and the main one.
LEMMA AncestorsAre ==
    /\ \A r \in Requests : Ancestors(r) \subseteq Requests
    /\ Ancestors(Main) = {}
    /\ \A q \in Subs : Parent[q] \in Ancestors(q) /\ Main \in Ancestors(q)
<1>1. \A r : Ancestors(r) = Above[r]
  BY Zenon DEF Ancestors, Above
<1>2. \A r \in Requests : Above[r] = IF r = Main THEN {} ELSE {Parent[r]} \cup Above[Parent[r]]
  BY AboveIs DEF IsAbove
<1>3. Main \in Requests /\ Requests = {Main} \cup Subs /\ Main \notin Subs
      /\ \A q \in Subs : Parent[q] \in Requests
  BY TreeAssumption DEF Requests
<1> DEFINE odd == {q \in Subs : ~(Above[q] \subseteq Requests /\ Main \in Above[q])}
<1>4. odd = {}
  <2> SUFFICES ASSUME odd /= {} PROVE FALSE
    OBVIOUS
  <2>1. odd \in SUBSET Subs
    OBVIOUS
  <2>2. PICK q \in odd : Parent[q] \notin odd
    BY <2>1, TreeAssumption
  <2>3. Above[q] = {Parent[q]} \cup Above[Parent[q]]
    BY <1>2, <1>3
  <2>4. Parent[q] \in Requests
    BY <1>3
  <2>5. CASE Parent[q] = Main
    <3>1. Above[Main] = {}
      BY <1>2, <1>3
    <3> QED BY <1>3, <2>3, <2>5, <3>1
  <2>6. CASE Parent[q] /= Main
    <3>1. Parent[q] \in Subs
      BY <1>3, <2>4, <2>6
    <3>2. Above[Parent[q]] \subseteq Requests /\ Main \in Above[Parent[q]]
      BY <2>2, <3>1
    <3> QED BY <2>3, <2>4, <3>2
  <2> QED BY <2>5, <2>6
<1>5. \A q \in Subs : Above[q] \subseteq Requests /\ Main \in Above[q]
  BY <1>4
<1>6. Above[Main] = {}
  BY <1>2, <1>3
<1>7. \A q \in Subs : Parent[q] \in Above[q]
  BY <1>2, <1>3
<1> HIDE DEF odd
<1> QED BY <1>1, <1>3, <1>5, <1>6, <1>7

-----------------------------------------------------------------------------
(* Every step keeps it. *)

\* At first every part is empty.
LEMMA InitSubInv == SubInit => SubInv
<1> SUFFICES ASSUME SubInit PROVE SubInv
  OBVIOUS
<1>1. /\ mem = [a \in Addresses |-> EmptyPart] /\ last = [r \in Requests |-> r]
      /\ nalloc = [r \in Requests |-> NAlloc] /\ brk = NAlloc /\ fresh = 1
      /\ started = {Main} /\ changes = 0
  BY DEF SubInit
<1>2. NAlloc \in Nat /\ MaxAddr \in Nat
  BY BoundAssumption
<1>3. EmptyPart \in Cell /\ EmptyPart.next = NULL
  BY <1>2 DEF EmptyPart, Cell
<1>4. \A a \in Addresses : mem[a] \in Cell /\ mem[a].next = NULL
  BY <1>1, <1>3
<1>5. Heap(mem)
  <2>1. mem \in [Addresses -> Cell]
    BY <1>1, <1>3
  <2>2. ASSUME NEW some \in SUBSET Addresses, some /= {}
        PROVE  \E a \in some : mem[a].next \notin some
    BY <1>4, <2>2, NoAddress
  <2> QED BY <2>1, <2>2 DEF Heap, Ends
<1>6. Pooled(mem, fresh) /\ LastPooled(last, fresh) /\ last \in [Requests -> Addresses]
  BY <1>1, <1>4, Embedded DEF Pooled, LastPooled
<1>7. nalloc \in [Requests -> Int]
  BY <1>1, <1>2
<1>8. started \subseteq Requests /\ Main \in started
  BY <1>1 DEF Requests
<1>9. fresh \in 1 .. MaxAddr + 1 /\ brk \in Nat /\ changes \in Nat
  BY <1>1, <1>2
<1> QED BY <1>5, <1>6, <1>7, <1>8, <1>9 DEF SubInv

\* What the invariant says of one request.
LEMMA SubFacts ==
    ASSUME SubInv, NEW r \in Requests
    PROVE  /\ Heap(mem) /\ Memory(mem) /\ Pooled(mem, fresh) /\ LastPooled(last, fresh)
           /\ fresh \in Nat /\ fresh >= 1 /\ fresh <= MaxAddr + 1 /\ MaxAddr \in Nat
           /\ brk \in Nat /\ nalloc[r] \in Int
           /\ r \in Addresses /\ last[r] \in Addresses
           /\ last[r] \in Requests \/ last[r] \in 1 .. fresh - 1
           /\ last[r] /= fresh
<1>1. fresh \in 1 .. MaxAddr + 1 /\ MaxAddr \in Nat
  BY BoundAssumption DEF SubInv
<1>2. last[r] \in Requests \/ last[r] \in 1 .. fresh - 1
  BY DEF SubInv, LastPooled
<1>3. fresh \in Nat /\ fresh \notin Requests
  <2>1. fresh \in Nat
    BY <1>1
  <2>2. \A x \in Requests : x \notin Nat
    BY AddressAssumption
  <2> QED BY <1>1, <2>1, <2>2
<1>4. last[r] /= fresh
  BY <1>1, <1>2, <1>3
<1>5. fresh - 1 \in Nat /\ fresh >= 1 /\ fresh <= MaxAddr + 1
  BY <1>1
<1>6. Heap(mem) /\ Pooled(mem, fresh) /\ LastPooled(last, fresh) /\ brk \in Nat /\ nalloc[r] \in Int
      /\ last[r] \in Addresses
  BY DEF SubInv
<1>7. Memory(mem)
  BY <1>6 DEF Heap, Memory
<1> QED BY <1>1, <1>2, <1>3, <1>4, <1>5, <1>6, <1>7, Embedded

\* The next part of the pool is one that nothing points to.
LEMMA FreshFacts ==
    ASSUME SubInv, fresh <= MaxAddr
    PROVE  /\ fresh \in 1 .. MaxAddr /\ fresh \in Addresses
           /\ \A a \in Addresses : mem[a].next /= fresh
<1>1. fresh \in 1 .. MaxAddr + 1 /\ MaxAddr \in Nat
  BY BoundAssumption DEF SubInv
<1>2. fresh \in 1 .. MaxAddr
  BY <1>1
<1>3. fresh \in Addresses /\ fresh /= NULL
  BY <1>2, NoAddress
<1>4. ASSUME NEW a \in Addresses, mem[a].next = fresh PROVE FALSE
  <2>1. fresh = NULL \/ fresh < fresh
    BY <1>4 DEF SubInv, Pooled
  <2> QED BY <1>2, <1>3, <2>1
<1> QED BY <1>2, <1>3, <1>4

\* The fields of a new part.
LEMMA NewPartIs ==
    ASSUME SubInv, NEW r \in Requests, Full(r)
    PROVE  /\ NewPart(r) \in Cell /\ NewPart(r).next = NULL
           /\ NewPart(r).elts = brk /\ NewPart(r).nelts = 1
           /\ nalloc[r] \in Nat
<1>1. mem[last[r]].nelts \in Nat /\ brk \in Nat
  BY SubFacts, CellTypes
<1>2. nalloc[r] \in Nat
  BY <1>1 DEF Full
<1>3. brk + nalloc[r] \in Nat
  BY <1>1, <1>2
<1> QED BY <1>1, <1>2, <1>3 DEF NewPart, Cell

\* What a push makes of the memory.
PushedTo(n, r) ==
    /\ Memory(n)
    /\ Full(r) => /\ \A a \in Addresses \ {last[r], fresh} : n[a] = mem[a]
                  /\ n[last[r]].next = fresh
                  /\ n[last[r]].elts = mem[last[r]].elts
                  /\ n[last[r]].nelts = mem[last[r]].nelts
                  /\ n[last[r]].end = mem[last[r]].end
                  /\ n[fresh] = NewPart(r)
    /\ ~Full(r) => /\ \A a \in Addresses \ {last[r]} : n[a] = mem[a]
                   /\ n[last[r]].next = mem[last[r]].next
                   /\ n[last[r]].elts = mem[last[r]].elts
                   /\ n[last[r]].nelts = mem[last[r]].nelts + 1
                   /\ n[last[r]].end = mem[last[r]].end

\* PushedMem is that.
LEMMA PushedIs ==
    ASSUME SubInv, NEW r \in Requests, HasMemory(r)
    PROVE  PushedTo(PushedMem(r), r)
<1>1. last[r] \in Addresses /\ last[r] /= fresh /\ Heap(mem) /\ mem \in [Addresses -> Cell]
  BY SubFacts DEF Memory
<1>2. mem[last[r]] \in Cell
  BY <1>1
<1>3. CASE Full(r)
  <2>1. fresh \in 1 .. MaxAddr /\ fresh \in Addresses
    BY <1>3, FreshFacts DEF HasMemory
  <2> DEFINE n == PushedMem(r)
  <2>2. n = [mem EXCEPT ![last[r]].next = fresh, ![fresh] = NewPart(r)]
    BY <1>3 DEF PushedMem
  <2>3. n[last[r]] = [mem[last[r]] EXCEPT !.next = fresh] /\ n[fresh] = NewPart(r)
    BY <1>1, <2>1, <2>2
  <2>4. [mem[last[r]] EXCEPT !.next = fresh] \in Cell
    BY <1>2, <2>1 DEF Cell
  <2>5. \A a \in Addresses \ {last[r], fresh} : n[a] = mem[a]
    BY <1>1, <2>2
  <2>6. n = [a \in Addresses |-> n[a]]
    BY <1>1, <2>2
  <2> HIDE DEF n
  <2>7. \A a \in Addresses : n[a] \in Cell
    BY <1>1, <1>3, <2>3, <2>4, <2>5, NewPartIs
  <2>8. Memory(n)
    BY <2>6, <2>7 DEF Memory
  <2>9. PICK c \in Cell : c = mem[last[r]]
    BY <1>2
  <2>10. [c EXCEPT !.next = fresh].next = fresh /\ [c EXCEPT !.next = fresh].elts = c.elts
         /\ [c EXCEPT !.next = fresh].nelts = c.nelts /\ [c EXCEPT !.next = fresh].end = c.end
    BY DEF Cell
  <2>11. PushedTo(n, r)
    BY <1>3, <2>3, <2>5, <2>8, <2>9, <2>10 DEF PushedTo
  <2> QED BY <2>11 DEF n
<1>4. CASE ~Full(r)
  <2> DEFINE n == PushedMem(r)
  <2>2. n = [mem EXCEPT ![last[r]].nelts = @ + 1]
    BY <1>4 DEF PushedMem
  <2>3. n[last[r]] = [mem[last[r]] EXCEPT !.nelts = @ + 1]
    BY <1>1, <2>2
  <2>4. [mem[last[r]] EXCEPT !.nelts = @ + 1] \in Cell
    BY <1>2 DEF Cell
  <2>5. \A a \in Addresses \ {last[r]} : n[a] = mem[a]
    BY <1>1, <2>2
  <2>6. n = [a \in Addresses |-> n[a]]
    BY <1>1, <2>2
  <2> HIDE DEF n
  <2>7. \A a \in Addresses : n[a] \in Cell
    BY <1>1, <2>3, <2>4, <2>5
  <2>8. Memory(n)
    BY <2>6, <2>7 DEF Memory
  <2>9. PICK c \in Cell : c = mem[last[r]]
    BY <1>2
  <2>10. [c EXCEPT !.nelts = @ + 1].next = c.next /\ [c EXCEPT !.nelts = @ + 1].elts = c.elts
         /\ [c EXCEPT !.nelts = @ + 1].nelts = c.nelts + 1 /\ [c EXCEPT !.nelts = @ + 1].end = c.end
    BY DEF Cell
  <2>11. PushedTo(n, r)
    BY <1>4, <2>3, <2>5, <2>8, <2>9, <2>10 DEF PushedTo
  <2> QED BY <2>11 DEF n
<1> QED BY <1>3, <1>4

\* It makes no circle.
LEMMA PushedHeap ==
    ASSUME SubInv, NEW r \in Requests, HasMemory(r), NEW n, PushedTo(n, r)
    PROVE  /\ Heap(n)
           /\ Pooled(n, IF Full(r) THEN fresh + 1 ELSE fresh)
<1>1. /\ last[r] \in Addresses /\ last[r] /= fresh /\ Heap(mem) /\ Pooled(mem, fresh)
      /\ fresh \in Nat /\ Memory(mem)
  BY SubFacts
<1>2. CASE Full(r)
  <2>1. fresh \in Addresses /\ \A a \in Addresses : mem[a].next /= fresh
    BY <1>2, FreshFacts DEF HasMemory
  <2>2. /\ \A a \in Addresses : a \notin {last[r], fresh} => n[a].next = mem[a].next
        /\ n[last[r]].next = fresh /\ n[fresh].next = NULL /\ Memory(n)
    BY <1>2, NewPartIs DEF PushedTo
  <2>3. Heap(n)
    BY <1>1, <2>1, <2>2, PartInserted
  <2>4. Pooled(n, fresh + 1)
    <3> SUFFICES ASSUME NEW a \in Addresses PROVE n[a].next = NULL \/ n[a].next < fresh + 1
      BY DEF Pooled
    <3>1. CASE a \in {last[r], fresh}
      BY <1>1, <2>2, <3>1
    <3>2. CASE a \notin {last[r], fresh}
      <4>1. mem[a].next = NULL \/ (mem[a].next < fresh /\ mem[a].next \in Nat)
        BY <1>1, NextFacts DEF Pooled
      <4> QED BY <1>1, <2>2, <3>2, <4>1
    <3> QED BY <3>1, <3>2
  <2> QED BY <1>2, <2>3, <2>4
<1>3. CASE ~Full(r)
  <2>1. Memory(n) /\ \A a \in Addresses : n[a].next = mem[a].next
    BY <1>3 DEF PushedTo
  <2>2. Heap(n)
    BY <1>1, <2>1, NoAddress, HeadsChanged
  <2>3. Pooled(n, fresh)
    BY <1>1, <2>1 DEF Pooled
  <2> QED BY <1>3, <2>2, <2>3
<1> QED BY <1>2, <1>3

\* Nor does a copy of an embedded part.
LEMMA CopiedHeap ==
    ASSUME NEW n, Heap(n), NEW f, Pooled(n, f), NEW r \in Requests, NEW others \in SUBSET Requests,
           NEW w, w = [a \in Addresses |-> IF a \in others THEN n[r] ELSE n[a]]
    PROVE  Heap(w) /\ Pooled(w, f) /\ Memory(w)
<1>1. n \in [Addresses -> Cell] /\ r \in Addresses
  BY Embedded DEF Heap
<1>2. Memory(w)
  BY <1>1 DEF Memory
<1>3. \A a \in 1 .. MaxAddr : w[a].next = n[a].next
  BY Embedded, NoAddress
<1>4. Heap(w)
  BY <1>2, <1>3, HeadsChanged
<1>5. Pooled(w, f)
  BY <1>1 DEF Pooled
<1> QED BY <1>2, <1>4, <1>5

\* A header is created.
LEMMA CreateStep ==
    ASSUME SubInv, NEW r \in Requests, NEW others \in SUBSET Requests, Create(r, others)
    PROVE  SubInv'
<1> DEFINE n == PushedMem(r)
<1>1. HasMemory(r) /\ CopyHead(r, others, n, PushedLast(r)) /\ PushPool(r) /\ Counted(r)
      /\ started' = started
  BY DEF Create
<1>2. PushedTo(n, r)
  BY <1>1, PushedIs
<1>3. /\ mem' = [a \in Addresses |-> IF a \in others THEN n[r] ELSE n[a]]
      /\ last' = [q \in Requests |-> IF q \in others \cup {r} THEN PushedLast(r) ELSE last[q]]
      /\ nalloc' = [q \in Requests |-> IF q \in others THEN nalloc[r] ELSE nalloc[q]]
      /\ brk' = IF Full(r) THEN brk + nalloc[r] ELSE brk
      /\ fresh' = IF Full(r) THEN fresh + 1 ELSE fresh
  BY <1>1 DEF CopyHead, PushPool
<1> HIDE DEF n
<1>4. Heap(n) /\ Pooled(n, fresh')
  BY <1>1, <1>2, <1>3, PushedHeap
<1>5. Heap(mem') /\ Pooled(mem', fresh')
  BY <1>3, <1>4, CopiedHeap
<1>6. /\ fresh \in Nat /\ fresh >= 1 /\ fresh <= MaxAddr + 1 /\ MaxAddr \in Nat
      /\ brk \in Nat /\ last[r] \in Addresses /\ LastPooled(last, fresh)
      /\ last[r] \in Requests \/ last[r] \in 1 .. fresh - 1
  BY SubFacts
<1>7. Full(r) => fresh <= MaxAddr /\ fresh \in Addresses /\ nalloc[r] \in Nat
  BY <1>1, FreshFacts, NewPartIs DEF HasMemory
<1>8. fresh' \in 1 .. MaxAddr + 1 /\ brk' \in Nat /\ fresh <= fresh' /\ fresh' \in Nat
  BY <1>3, <1>6, <1>7
<1>9. /\ PushedLast(r) \in Addresses
      /\ PushedLast(r) \in Requests \/ PushedLast(r) \in 1 .. fresh' - 1
  <2>1. CASE Full(r)
    <3>1. PushedLast(r) = fresh /\ fresh' = fresh + 1
      BY <1>3, <2>1 DEF PushedLast
    <3> QED BY <1>6, <1>7, <2>1, <3>1
  <2>2. CASE ~Full(r)
    BY <1>3, <1>6, <2>2 DEF PushedLast
  <2> QED BY <2>1, <2>2
<1>10. last' \in [Requests -> Addresses]
  BY <1>3, <1>9 DEF SubInv
<1>11. LastPooled(last', fresh')
  <2> SUFFICES ASSUME NEW q \in Requests PROVE last'[q] \in Requests \/ last'[q] \in 1 .. fresh' - 1
    BY DEF LastPooled
  <2>1. last[q] \in Requests \/ last[q] \in 1 .. fresh - 1
    BY <1>6 DEF LastPooled
  <2>2. last[q] \in Requests \/ last[q] \in 1 .. fresh' - 1
    BY <1>6, <1>8, <2>1
  <2> QED BY <1>3, <1>9, <2>2
<1>12. nalloc' \in [Requests -> Int]
  BY <1>3 DEF SubInv
<1>13. changes' \in Nat
  BY <1>1 DEF Counted, SubInv
<1> QED BY <1>1, <1>5, <1>8, <1>10, <1>11, <1>12, <1>13 DEF SubInv

\* The parts of a request's list.
LEMMA ListFacts ==
    ASSUME NEW r \in Requests, Heap(mem)
    PROVE  /\ Chain(r) \in Seq(Addresses) /\ Len(Chain(r)) \in Nat /\ Len(Chain(r)) >= 1
           /\ DOMAIN Chain(r) = 1 .. Len(Chain(r))
           /\ \A k \in 1 .. Len(Chain(r)) : Chain(r)[k] \in Addresses
           /\ Chain(r)[1] = r
           /\ \A k \in 1 .. Len(Chain(r)) - 1 : mem[Chain(r)[k]].next = Chain(r)[k + 1]
           /\ mem[Chain(r)[Len(Chain(r))]].next = NULL
           /\ \A j, k \in 1 .. Len(Chain(r)) : Chain(r)[j] = Chain(r)[k] => j = k
           /\ \A k \in 2 .. Len(Chain(r)) : Chain(r)[k] \in 1 .. MaxAddr
           /\ IsChain(mem, r, Chain(r))
<1>1. PICK s : s = Chain(r)
  OBVIOUS
<1>2. s = ChainOf(mem, r)
  BY <1>1, ChainsAre
<1> QED BY <1>1, <1>2, ChainFacts

\* A subrequest starts.
LEMMA StartStep ==
    ASSUME SubInv, NEW q \in Subs, NEW repaired \in BOOLEAN, Start(q, repaired)
    PROVE  SubInv'
<1>1. /\ Parent[q] \in started /\ started' = started \cup {q}
      /\ mem' = [mem EXCEPT ![q] = mem[Parent[q]]]
      /\ last' = [last EXCEPT ![q] =
                     IF repaired /\ last[Parent[q]] = Parent[q] THEN q ELSE last[Parent[q]]]
      /\ nalloc' = [nalloc EXCEPT ![q] = nalloc[Parent[q]]]
      /\ brk' = brk /\ fresh' = fresh /\ changes' = changes
  BY DEF Start
<1>2. q \in Requests /\ Parent[q] \in Requests
  BY TreeAssumption DEF Requests
<1>3. mem \in [Addresses -> Cell] /\ Heap(mem) /\ Pooled(mem, fresh)
  BY DEF SubInv, Heap
<1> DEFINE w == [a \in Addresses |-> IF a \in {q} THEN mem[Parent[q]] ELSE mem[a]]
<1>4. mem' = w
  BY <1>1, <1>2, <1>3, Embedded
<1>5. Heap(mem') /\ Pooled(mem', fresh)
  <2>1. PICK p \in Requests, others \in SUBSET Requests : p = Parent[q] /\ others = {q}
    BY <1>2
  <2>2. w = [a \in Addresses |-> IF a \in others THEN mem[p] ELSE mem[a]]
    BY <2>1
  <2> HIDE DEF w
  <2>3. Heap(w) /\ Pooled(w, fresh)
    BY <1>3, <2>2, CopiedHeap
  <2> QED BY <1>4, <2>3
<1>6. last' \in [Requests -> Addresses] /\ nalloc' \in [Requests -> Int]
  BY <1>1, <1>2, Embedded DEF SubInv
<1>7. LastPooled(last', fresh)
  <2> SUFFICES ASSUME NEW r \in Requests PROVE last'[r] \in Requests \/ last'[r] \in 1 .. fresh - 1
    BY DEF LastPooled
  <2>1. /\ last[r] \in Requests \/ last[r] \in 1 .. fresh - 1
        /\ last[Parent[q]] \in Requests \/ last[Parent[q]] \in 1 .. fresh - 1
    BY <1>2 DEF SubInv, LastPooled
  <2>2. last'[r] \in {q, last[Parent[q]], last[r]}
    BY <1>1, <1>2 DEF SubInv
  <2> QED BY <1>2, <2>1, <2>2
<1> QED BY <1>1, <1>2, <1>5, <1>6, <1>7 DEF SubInv

\* Where a removal is done.
Spot(r, k, cur, at) ==
    /\ k \in 1 .. Len(Chain(r)) /\ cur = Chain(r)[k]
    /\ cur \in Addresses /\ at \in 0 .. mem[cur].nelts - 1

\* It is somewhere in the request's list.
LEMMA SpotIs ==
    ASSUME SubInv, NEW r \in Requests, NEW cur \in ToSet(Chain(r)),
           NEW at \in 0 .. mem[cur].nelts - 1
    PROVE  \E k : Spot(r, k, cur, at)
<1>1. /\ DOMAIN Chain(r) = 1 .. Len(Chain(r))
      /\ \A k \in 1 .. Len(Chain(r)) : Chain(r)[k] \in Addresses
  BY SubFacts, ListFacts
<1> QED BY <1>1 DEF Spot, ToSet

\* Of a removed header's part elts, nelts and next are what they say.
Became(n, a, elts, nelts, next) ==
    n[a] = [elts |-> elts, nelts |-> nelts, next |-> next, end |-> mem[a].end]

\* A header goes from an end of a part, or a part's only header goes and it stays.
Shrunk(n, cur, elts, nelts) ==
    /\ \A a \in Addresses \ {cur} : n[a] = mem[a]
    /\ Became(n, cur, elts, nelts, mem[cur].next)

\* A part goes with its only header; what pointed to it from b points to next.
Unlinked(n, b, cur, next) ==
    /\ \A a \in Addresses \ {b, cur} : n[a] = mem[a]
    /\ Became(n, cur, mem[cur].elts + 1, 0, mem[cur].next)
    /\ Became(n, b, mem[b].elts, mem[b].nelts, next)

\* A part is split.
Split(n, cur, at) ==
    /\ \A a \in Addresses \ {cur, fresh} : n[a] = mem[a]
    /\ Became(n, cur, mem[cur].elts, at, fresh)
    /\ n[fresh] = [elts |-> mem[cur].elts + at + 1, nelts |-> mem[cur].nelts - at - 1,
                   next |-> mem[cur].next, end |-> mem[cur].end]

\* The ways a removal changes memory, of the part that is the k-th in the list of r.
Removal(n, r, k, cur, at) ==
    LET e == mem[cur].elts  c == mem[cur].nelts  s == Chain(r) IN
    \/ at = 0 /\ c > 1 /\ Shrunk(n, cur, e + 1, c - 1)
    \/ at > 0 /\ at = c - 1 /\ Shrunk(n, cur, e, c - 1)
    \/ at = 0 /\ c = 1 /\ k = 1 /\ cur = last[r] /\ Shrunk(n, cur, e, 0)
    \/ at = 0 /\ c = 1 /\ k > 1 /\ cur = last[r] /\ Unlinked(n, s[k - 1], cur, NULL)
    \/ at = 0 /\ c = 1 /\ k > 1 /\ cur /= last[r] /\ Unlinked(n, s[k - 1], cur, mem[cur].next)
    \/ at = 0 /\ c = 1 /\ k = 1 /\ cur /= last[r] /\ mem[r].next \in Addresses
         /\ (\A a \in Addresses \ {r} : n[a] = mem[a]) /\ n[r] = mem[mem[r].next]
    \/ Splits(cur, at) /\ fresh <= MaxAddr /\ Split(n, cur, at)

\* A record with other fields.
LEMMA CellUpdates ==
    ASSUME NEW c \in Cell, NEW elts, NEW nelts, NEW next
    PROVE  /\ c = [elts |-> c.elts, nelts |-> c.nelts, next |-> c.next, end |-> c.end]
           /\ [[c EXCEPT !.elts = elts] EXCEPT !.nelts = nelts] =
                 [elts |-> elts, nelts |-> nelts, next |-> c.next, end |-> c.end]
           /\ [c EXCEPT !.nelts = nelts] =
                 [elts |-> c.elts, nelts |-> nelts, next |-> c.next, end |-> c.end]
           /\ [c EXCEPT !.next = next] =
                 [elts |-> c.elts, nelts |-> c.nelts, next |-> next, end |-> c.end]
           /\ [[c EXCEPT !.nelts = nelts] EXCEPT !.next = next] =
                 [elts |-> c.elts, nelts |-> nelts, next |-> next, end |-> c.end]
<1>1. c = [elts |-> c.elts, nelts |-> c.nelts, next |-> c.next, end |-> c.end]
  BY DEF Cell
<1>2. [[c EXCEPT !.elts = elts] EXCEPT !.nelts = nelts] =
         [elts |-> elts, nelts |-> nelts, next |-> c.next, end |-> c.end]
  <2>1. PICK d : d = [c EXCEPT !.elts = elts]
    OBVIOUS
  <2>2. d = [elts |-> elts, nelts |-> c.nelts, next |-> c.next, end |-> c.end]
    BY <1>1, <2>1
  <2>3. [d EXCEPT !.nelts = nelts] =
           [elts |-> elts, nelts |-> nelts, next |-> c.next, end |-> c.end]
    BY <2>2
  <2> QED BY <2>1, <2>3
<1>3. [c EXCEPT !.nelts = nelts] =
         [elts |-> c.elts, nelts |-> nelts, next |-> c.next, end |-> c.end]
  BY <1>1
<1>4. [c EXCEPT !.next = next] =
         [elts |-> c.elts, nelts |-> c.nelts, next |-> next, end |-> c.end]
  BY <1>1
<1>5. [[c EXCEPT !.nelts = nelts] EXCEPT !.next = next] =
         [elts |-> c.elts, nelts |-> nelts, next |-> next, end |-> c.end]
  <2>1. PICK d : d = [c EXCEPT !.nelts = nelts]
    OBVIOUS
  <2>2. d = [elts |-> c.elts, nelts |-> nelts, next |-> c.next, end |-> c.end]
    BY <1>3, <2>1
  <2>3. [d EXCEPT !.next = next] =
           [elts |-> c.elts, nelts |-> nelts, next |-> next, end |-> c.end]
    BY <2>2
  <2> QED BY <2>1, <2>3
<1> QED BY <1>1, <1>2, <1>3, <1>4, <1>5

\* Where the first part is, and what is in front of another.
LEMMA SpotFacts ==
    ASSUME SubInv, NEW r \in Requests, NEW k, NEW cur, NEW at, Spot(r, k, cur, at)
    PROVE  /\ k \in 1 .. Len(Chain(r)) /\ cur = Chain(r)[k] /\ cur \in Addresses
           /\ mem[cur] \in Cell /\ mem[cur].elts \in Nat /\ mem[cur].nelts \in Nat
           /\ mem[cur].end \in Nat /\ mem[cur].next \in 1 .. MaxAddr \cup {NULL}
           /\ at \in Nat /\ at < mem[cur].nelts
           /\ k = 1 <=> cur = r
           /\ k > 1 => /\ Before(r, cur) = Chain(r)[k - 1] /\ Chain(r)[k - 1] \in Addresses
                       /\ Chain(r)[k - 1] /= cur /\ mem[Chain(r)[k - 1]] \in Cell
                       /\ mem[Chain(r)[k - 1]].next = cur
<1> DEFINE s == Chain(r)
<1>1. /\ Len(s) \in Nat /\ Len(s) >= 1 /\ s[1] = r
      /\ \A j \in 1 .. Len(s) : s[j] \in Addresses
      /\ \A j \in 1 .. Len(s) - 1 : mem[s[j]].next = s[j + 1]
      /\ \A i1, j1 \in 1 .. Len(s) : s[i1] = s[j1] => i1 = j1
  BY SubFacts, ListFacts
<1>2. k \in 1 .. Len(s) /\ cur = s[k] /\ cur \in Addresses /\ at \in 0 .. mem[cur].nelts - 1
  BY DEF Spot
<1>3. /\ mem[cur] \in Cell /\ mem[cur].elts \in Nat /\ mem[cur].nelts \in Nat
      /\ mem[cur].end \in Nat /\ mem[cur].next \in 1 .. MaxAddr \cup {NULL}
  BY <1>2, SubFacts, CellTypes
<1> HIDE DEF s
<1>4. at \in Nat /\ at < mem[cur].nelts
  BY <1>2, <1>3
<1>5. k = 1 <=> cur = r
  BY <1>1, <1>2
<1>6. ASSUME k > 1
      PROVE  /\ Before(r, cur) = s[k - 1] /\ s[k - 1] \in Addresses
             /\ s[k - 1] /= cur /\ mem[s[k - 1]] \in Cell
             /\ mem[s[k - 1]].next = cur
  <2>1. k \in 2 .. Len(s) /\ k - 1 \in 1 .. Len(s) /\ k - 1 \in 1 .. Len(s) - 1 /\ k - 1 + 1 = k /\ k - 1 /= k
    BY <1>1, <1>2, <1>6
  <2>2. Before(r, s[k]) = s[k - 1]
    BY <2>1, SubFacts, BeforeIs DEF s
  <2>3. s[k - 1] \in Addresses /\ mem[s[k - 1]].next = s[k] /\ s[k - 1] /= s[k]
    BY <1>1, <1>2, <2>1
  <2>4. mem[s[k - 1]] \in Cell
    BY <2>3, SubFacts, CellTypes
  <2> QED BY <1>2, <2>2, <2>3, <2>4
<1> QED BY <1>2, <1>3, <1>4, <1>5, <1>6 DEF s

\* rm_header_helper does one of them.
LEMMA RemovalIs ==
    ASSUME SubInv, NEW r \in Requests, NEW k, NEW cur, NEW at, Spot(r, k, cur, at),
           ~AssertsNext(r, cur, at), Splits(cur, at) => fresh <= MaxAddr,
           rm_header_helper(r, cur, at)
    PROVE  Removal(mem', r, k, cur, at)
<1>0. /\ k \in 1 .. Len(Chain(r)) /\ cur = Chain(r)[k] /\ cur \in Addresses
      /\ mem[cur] \in Cell /\ mem[cur].elts \in Nat /\ mem[cur].nelts \in Nat
      /\ mem[cur].end \in Nat /\ mem[cur].next \in 1 .. MaxAddr \cup {NULL}
      /\ at \in Nat /\ at < mem[cur].nelts
      /\ k = 1 <=> cur = r
      /\ k > 1 => /\ Before(r, cur) = Chain(r)[k - 1] /\ Chain(r)[k - 1] \in Addresses
                  /\ Chain(r)[k - 1] /= cur /\ mem[Chain(r)[k - 1]] \in Cell
                  /\ mem[Chain(r)[k - 1]].next = cur
  BY SpotFacts
<1> DEFINE e == mem[cur].elts  c == mem[cur].nelts
<1>1. mem \in [Addresses -> Cell] /\ r \in Addresses
  BY SubFacts DEF Memory
<1>2. CASE at = 0 /\ ~Only(cur, at) /\ RmFirst(r, cur)
  <2>1. mem' = [mem EXCEPT ![cur].elts = @ + 1, ![cur].nelts = @ - 1]
    BY <1>2 DEF RmFirst, After
  <2>2. Became(mem', cur, e + 1, c - 1, mem[cur].next)
    <3>1. mem'[cur] = [[mem[cur] EXCEPT !.elts = @ + 1] EXCEPT !.nelts = @ - 1]
      BY <1>0, <1>1, <2>1
    <3>2. mem'[cur] = [[mem[cur] EXCEPT !.elts = e + 1] EXCEPT !.nelts = c - 1]
      BY <1>0, <3>1
    <3> QED BY <1>0, <3>2, CellUpdates DEF Became
  <2>3. Shrunk(mem', cur, e + 1, c - 1)
    BY <1>1, <2>1, <2>2 DEF Shrunk
  <2> QED BY <1>0, <1>2, <2>3 DEF Removal, Only
<1>3. CASE at > 0 /\ ~Splits(cur, at) /\ RmTail(r, cur)
  <2>1. mem' = [mem EXCEPT ![cur].nelts = @ - 1]
    BY <1>3 DEF RmTail, After
  <2>2. Became(mem', cur, e, c - 1, mem[cur].next)
    <3>1. mem'[cur] = [mem[cur] EXCEPT !.nelts = c - 1]
      BY <1>0, <1>1, <2>1
    <3> QED BY <1>0, <3>1, CellUpdates DEF Became
  <2>3. Shrunk(mem', cur, e, c - 1)
    BY <1>1, <2>1, <2>2 DEF Shrunk
  <2>4. at = c - 1
    BY <1>0, <1>3 DEF Splits
  <2> QED BY <1>0, <1>3, <2>3, <2>4 DEF Removal
<1>4. CASE Only(cur, at) /\ IsLast(r, cur) /\ cur = r /\ RmOnlyOfSoleLast(r)
  <2>1. mem' = [mem EXCEPT ![cur].nelts = 0]
    BY <1>4 DEF RmOnlyOfSoleLast, After
  <2>2. Became(mem', cur, e, 0, mem[cur].next)
    <3>1. mem'[cur] = [mem[cur] EXCEPT !.nelts = 0]
      BY <1>0, <1>1, <2>1
    <3> QED BY <1>0, <3>1, CellUpdates DEF Became
  <2>3. Shrunk(mem', cur, e, 0)
    BY <1>1, <2>1, <2>2 DEF Shrunk
  <2>4. at = 0 /\ c = 1 /\ k = 1 /\ cur = last[r]
    BY <1>0, <1>4 DEF Only, IsLast
  <2> QED BY <2>3, <2>4 DEF Removal
<1> DEFINE b == Chain(r)[k - 1]
<1>u. ASSUME NEW next, cur /= r,
             mem' = [mem EXCEPT ![cur].elts = @ + 1, ![cur].nelts = 0, ![b].next = next]
      PROVE  Unlinked(mem', b, cur, next)
  <2>1. k > 1
    <3>1. k /= 1
      BY <1>0, <1>u
    <3>2. k \in Nat /\ k >= 1
      BY <1>0
    <3> QED BY <3>1, <3>2
  <2>2. b \in Addresses /\ b /= cur /\ mem[b] \in Cell
    BY <1>0, <2>1
  <2> HIDE DEF b
  <2>3. Became(mem', cur, e + 1, 0, mem[cur].next)
    <3>1. mem'[cur] = [[mem[cur] EXCEPT !.elts = e + 1] EXCEPT !.nelts = 0]
      BY <1>0, <1>1, <1>u, <2>2
    <3> QED BY <1>0, <3>1, CellUpdates DEF Became
  <2>4. Became(mem', b, mem[b].elts, mem[b].nelts, next)
    <3>1. mem'[b] = [mem[b] EXCEPT !.next = next]
      BY <1>0, <1>1, <1>u, <2>2
    <3> QED BY <2>2, <3>1, CellUpdates DEF Became
  <2>5. \A a \in Addresses \ {b, cur} : mem'[a] = mem[a]
    BY <1>1, <1>u
  <2> QED BY <2>3, <2>4, <2>5 DEF Unlinked
<1>v. k \in Nat /\ k >= 1
  BY <1>0
<1>5. CASE Only(cur, at) /\ IsLast(r, cur) /\ cur /= r /\ RmOnlyOfLast(r, cur)
  <2>1. Before(r, cur) = b /\ k > 1
    BY <1>0, <1>5, <1>v
  <2>2. mem' = [mem EXCEPT ![cur].elts = @ + 1, ![cur].nelts = 0, ![b].next = NULL]
    BY <1>5, <2>1 DEF RmOnlyOfLast, After
  <2> HIDE DEF b
  <2>3. Unlinked(mem', b, cur, NULL)
    BY <1>5, <1>u, <2>2
  <2>4. at = 0 /\ c = 1 /\ cur = last[r]
    BY <1>5 DEF Only, IsLast
  <2> QED BY <2>1, <2>3, <2>4 DEF Removal, b
<1>6. CASE Only(cur, at) /\ ~IsLast(r, cur) /\ cur /= r /\ RmOnlyOfMiddle(r, cur)
  <2>1. Before(r, cur) = b /\ k > 1
    BY <1>0, <1>6, <1>v
  <2>2. mem' = [mem EXCEPT ![cur].elts = @ + 1, ![cur].nelts = 0, ![b].next = mem[cur].next]
    BY <1>6, <2>1 DEF RmOnlyOfMiddle, After
  <2> HIDE DEF b
  <2>3. Unlinked(mem', b, cur, mem[cur].next)
    BY <1>6, <1>u, <2>2
  <2>4. at = 0 /\ c = 1 /\ cur /= last[r]
    BY <1>6 DEF Only, IsLast
  <2> QED BY <2>1, <2>3, <2>4 DEF Removal, b
<1>7. CASE Only(cur, at) /\ ~IsLast(r, cur) /\ cur = r /\ RmOnlyOfEmbedded(r)
  <2>1. mem' = [mem EXCEPT ![r] = mem[mem[r].next]]
    BY <1>7 DEF RmOnlyOfEmbedded, After
  <2>2. at = 0 /\ c = 1 /\ k = 1 /\ cur /= last[r]
    BY <1>0, <1>7 DEF Only, IsLast
  <2>3. mem[r].next /= NULL
    BY <1>0, <1>7, <2>2 DEF AssertsNext
  <2>4. mem[r].next \in Addresses
    BY <1>0, <1>7, <2>3, NoAddress
  <2>5. (\A a \in Addresses \ {r} : mem'[a] = mem[a]) /\ mem'[r] = mem[mem[r].next]
    BY <1>1, <2>1
  <2> QED BY <2>2, <2>4, <2>5 DEF Removal
<1>8. CASE Splits(cur, at) /\ RmSplit(r, cur, at)
  <2> DEFINE right == [elts |-> e + at + 1, nelts |-> c - at - 1,
                       next |-> mem[cur].next, end |-> mem[cur].end]
  <2>1. mem' = [mem EXCEPT ![cur].nelts = at, ![cur].next = fresh, ![fresh] = right]
    BY <1>8 DEF RmSplit, After
  <2>2. fresh \in Addresses /\ fresh /= cur
    <3>1. fresh \in 1 .. MaxAddr /\ fresh \in Addresses /\ fresh <= MaxAddr
      BY <1>8, FreshFacts
    <3>2. ASSUME fresh = cur PROVE FALSE
      <4>1. k /= 1
        BY <1>0, <3>1, <3>2, Embedded
      <4>2. k > 1
        BY <1>v, <4>1
      <4>3. Chain(r)[k - 1] \in Addresses /\ mem[Chain(r)[k - 1]].next = fresh
        BY <1>0, <3>2, <4>2
      <4> QED BY <1>8, <3>1, <4>3, FreshFacts
    <3> QED BY <3>1, <3>2
  <2> HIDE DEF right
  <2>3. Became(mem', cur, e, at, fresh)
    <3>1. mem'[cur] = [[mem[cur] EXCEPT !.nelts = at] EXCEPT !.next = fresh]
      BY <1>0, <1>1, <2>1, <2>2
    <3> QED BY <1>0, <3>1, CellUpdates DEF Became
  <2>4. mem'[fresh] = right /\ \A a \in Addresses \ {cur, fresh} : mem'[a] = mem[a]
    BY <1>1, <2>1, <2>2
  <2>5. Split(mem', cur, at)
    BY <2>3, <2>4 DEF Split, right
  <2> QED BY <1>8, <2>5 DEF Removal
<1> QED BY <1>2, <1>3, <1>4, <1>5, <1>6, <1>7, <1>8 DEF rm_header_helper

\* Parts whose fields are what they say are parts.
LEMMA BecameCell ==
    ASSUME SubInv, NEW n, NEW a \in Addresses, NEW elts \in Nat, NEW nelts \in Nat,
           NEW next \in 1 .. MaxAddr \cup {NULL}, Became(n, a, elts, nelts, next)
    PROVE  n[a] \in Cell /\ n[a].next = next
<1>1. mem[a].end \in Nat
  BY CellTypes DEF SubInv
<1>2. n[a] = [elts |-> elts, nelts |-> nelts, next |-> next, end |-> mem[a].end]
  BY DEF Became
<1> QED BY <1>1, <1>2 DEF Cell

\* A removal makes no circle.
LEMMA RemovalHeap ==
    ASSUME SubInv, NEW r \in Requests, NEW k, NEW cur, NEW at, Spot(r, k, cur, at),
           NEW n, n = [a \in Addresses |-> n[a]], Removal(n, r, k, cur, at),
           NEW f, f = IF Splits(cur, at) THEN fresh + 1 ELSE fresh
    PROVE  Heap(n) /\ Pooled(n, f)
<1> DEFINE e == mem[cur].elts  c == mem[cur].nelts  b == Chain(r)[k - 1]
<1>0. /\ cur \in Addresses /\ mem[cur] \in Cell /\ e \in Nat /\ c \in Nat
      /\ mem[cur].end \in Nat /\ mem[cur].next \in 1 .. MaxAddr \cup {NULL}
      /\ at \in Nat /\ at < c
      /\ k > 1 => b \in Addresses /\ b /= cur /\ mem[b] \in Cell /\ mem[b].next = cur
  BY SpotFacts
<1>1. /\ Heap(mem) /\ Memory(mem) /\ Pooled(mem, fresh) /\ fresh \in Nat /\ r \in Addresses
      /\ \A a \in Addresses : mem[a] \in Cell
  BY SubFacts DEF Memory
<1>p. ASSUME NEW a \in Addresses PROVE mem[a].next = NULL \/ (mem[a].next \in Nat /\ mem[a].next < fresh)
  BY <1>1, NextFacts DEF Pooled
<1>f. f \in Nat /\ fresh <= f
  BY <1>1
<1>2. ASSUME NEW elts \in Nat, NEW nelts \in Nat, Shrunk(n, cur, elts, nelts)
      PROVE  Heap(n) /\ Pooled(n, f)
  <2>1. (\A a \in Addresses \ {cur} : n[a] = mem[a]) /\ Became(n, cur, elts, nelts, mem[cur].next)
    BY <1>2 DEF Shrunk
  <2>2. n[cur] \in Cell /\ n[cur].next = mem[cur].next
    BY <1>0, <2>1, BecameCell
  <2>3. Memory(n)
    <3>1. \A a \in Addresses : n[a] \in Cell
      BY <1>1, <2>1, <2>2
    <3> QED BY <3>1 DEF Memory
  <2>4. \A a \in Addresses : n[a].next = mem[a].next
    BY <2>1, <2>2
  <2>5. Heap(n)
    BY <1>1, <2>3, <2>4, NoAddress, HeadsChanged
  <2>6. Pooled(n, f)
    <3> SUFFICES ASSUME NEW a \in Addresses PROVE n[a].next = NULL \/ n[a].next < f
      BY DEF Pooled
    <3>1. n[a].next = NULL \/ (n[a].next \in Nat /\ n[a].next < fresh)
      BY <1>p, <2>4
    <3> QED BY <1>1, <1>f, <3>1
  <2> QED BY <2>5, <2>6
<1>3. ASSUME NEW next, next = NULL \/ next = mem[cur].next, k > 1, Unlinked(n, b, cur, next)
      PROVE  Heap(n) /\ Pooled(n, f)
  <2>1. /\ \A a \in Addresses \ {b, cur} : n[a] = mem[a]
        /\ Became(n, cur, e + 1, 0, mem[cur].next)
        /\ Became(n, b, mem[b].elts, mem[b].nelts, next)
    BY <1>3 DEF Unlinked
  <2>2. e + 1 \in Nat /\ 0 \in Nat /\ next \in 1 .. MaxAddr \cup {NULL}
    BY <1>0, <1>3
  <2>3. b \in Addresses /\ b /= cur /\ mem[b].elts \in Nat /\ mem[b].nelts \in Nat /\ mem[b].next = cur
    BY <1>0, <1>1, <1>3, CellTypes
  <2> HIDE DEF b, e
  <2>4. n[cur] \in Cell /\ n[cur].next = mem[cur].next
    <3>1. PICK x \in Nat, zero \in Nat : x = e + 1 /\ zero = 0
      BY <2>2
    <3>2. Became(n, cur, x, zero, mem[cur].next)
      BY <2>1, <3>1
    <3> QED BY <1>0, <3>2, BecameCell
  <2>5. n[b] \in Cell /\ n[b].next = next
    BY <2>1, <2>2, <2>3, BecameCell
  <2>6. Memory(n)
    <3>1. \A a \in Addresses : n[a] \in Cell
      BY <1>1, <2>1, <2>4, <2>5
    <3> QED BY <3>1 DEF Memory
  <2>7. \A a \in Addresses : a /= b => n[a].next = mem[a].next
    BY <2>1, <2>4
  <2>8. n[b].next = NULL \/ (mem[b].next \in Addresses /\ n[b].next = mem[mem[b].next].next)
    BY <1>0, <1>3, <2>3, <2>5
  <2>9. Heap(n)
    BY <1>1, <2>3, <2>6, <2>7, <2>8, PartPassed
  <2>10. Pooled(n, f)
    <3> SUFFICES ASSUME NEW a \in Addresses PROVE n[a].next = NULL \/ n[a].next < f
      BY DEF Pooled
    <3>1. n[a].next = NULL \/ (n[a].next \in Nat /\ n[a].next < fresh)
      BY <1>0, <1>3, <1>p, <2>5, <2>7
    <3> QED BY <1>1, <1>f, <3>1
  <2> QED BY <2>9, <2>10
<1>4. ASSUME mem[r].next \in Addresses, \A a \in Addresses \ {r} : n[a] = mem[a], n[r] = mem[mem[r].next]
      PROVE  Heap(n) /\ Pooled(n, f)
  <2>1. Memory(n)
    <3>1. \A a \in Addresses : n[a] \in Cell
      BY <1>1, <1>4
    <3> QED BY <3>1 DEF Memory
  <2>2. \A a \in 1 .. MaxAddr : n[a].next = mem[a].next
    BY <1>4, Embedded, NoAddress
  <2>3. Heap(n)
    BY <1>1, <2>1, <2>2, HeadsChanged
  <2>4. Pooled(n, f)
    <3> SUFFICES ASSUME NEW a \in Addresses PROVE n[a].next = NULL \/ n[a].next < f
      BY DEF Pooled
    <3>1. n[a].next = NULL \/ (n[a].next \in Nat /\ n[a].next < fresh)
      BY <1>1, <1>4, <1>p
    <3> QED BY <1>1, <1>f, <3>1
  <2> QED BY <2>3, <2>4
<1>5. ASSUME Splits(cur, at), fresh <= MaxAddr, Split(n, cur, at)
      PROVE  Heap(n) /\ Pooled(n, f)
  <2>1. /\ \A a \in Addresses \ {cur, fresh} : n[a] = mem[a]
        /\ Became(n, cur, e, at, fresh)
        /\ n[fresh] = [elts |-> e + at + 1, nelts |-> c - at - 1,
                       next |-> mem[cur].next, end |-> mem[cur].end]
    BY <1>5 DEF Split
  <2>2. /\ fresh \in 1 .. MaxAddr /\ fresh \in Addresses
        /\ \A a \in Addresses : mem[a].next /= fresh
    BY <1>5, FreshFacts
  <2>3. cur /= fresh
    <3>1. ASSUME cur = fresh PROVE FALSE
      <4>1. k /= 1
        BY <2>2, <3>1, SpotFacts, Embedded
      <4>2. k > 1
        <5>1. k \in 1 .. Len(Chain(r)) /\ Len(Chain(r)) \in Nat
          BY SpotFacts, SubFacts, ListFacts
        <5> QED BY <4>1, <5>1
      <4> QED BY <1>0, <2>2, <3>1, <4>2
    <3> QED BY <3>1
  <2>4. n[cur] \in Cell /\ n[cur].next = fresh
    BY <1>0, <2>1, <2>2, BecameCell
  <2>5. n[fresh] \in Cell /\ n[fresh].next = mem[cur].next
    <3>1. e + at + 1 \in Nat /\ c - at - 1 \in Nat
      BY <1>0
    <3> QED BY <1>0, <2>1, <3>1 DEF Cell
  <2>6. Memory(n)
    <3>1. \A a \in Addresses : n[a] \in Cell
      BY <1>1, <2>1, <2>4, <2>5
    <3> QED BY <3>1 DEF Memory
  <2>7. \A a \in Addresses : a \notin {cur, fresh} => n[a].next = mem[a].next
    BY <2>1
  <2>8. Heap(n)
    BY <1>0, <1>1, <2>2, <2>3, <2>4, <2>5, <2>6, <2>7, PartInserted
  <2>9. f = fresh + 1
    BY <1>5
  <2>10. Pooled(n, f)
    <3> SUFFICES ASSUME NEW a \in Addresses PROVE n[a].next = NULL \/ n[a].next < f
      BY DEF Pooled
    <3>1. n[a].next = NULL \/ (n[a].next \in Nat /\ n[a].next < fresh) \/ n[a].next = fresh
      BY <1>0, <1>p, <2>4, <2>5, <2>7
    <3> QED BY <1>1, <2>9, <3>1
  <2> QED BY <2>8, <2>10
<1>6. e + 1 \in Nat /\ c - 1 \in Nat /\ 0 \in Nat
  BY <1>0
<1> QED BY <1>0, <1>2, <1>3, <1>4, <1>5, <1>6 DEF Removal

\* No part of a list is ahead of the pool.
LEMMA ChainPooled ==
    ASSUME SubInv, NEW r \in Requests, NEW j \in 1 .. Len(Chain(r))
    PROVE  Chain(r)[j] \in Requests \/ Chain(r)[j] \in 1 .. fresh - 1
<1>1. PICK s : s = Chain(r)
  OBVIOUS
<1>2. /\ Len(s) \in Nat /\ s[1] = r
      /\ \A k \in 1 .. Len(s) : s[k] \in Addresses
      /\ \A k \in 1 .. Len(s) - 1 : mem[s[k]].next = s[k + 1]
      /\ \A k \in 2 .. Len(s) : s[k] \in 1 .. MaxAddr
  BY <1>1, SubFacts, ListFacts
<1>3. CASE j = 1
  BY <1>1, <1>2, <1>3
<1>4. CASE j /= 1
  <2>1. j \in 2 .. Len(s) /\ j - 1 \in 1 .. Len(s) - 1 /\ j - 1 \in 1 .. Len(s) /\ j - 1 + 1 = j
    BY <1>1, <1>2, <1>4
  <2>2. s[j] \in 1 .. MaxAddr /\ mem[s[j - 1]].next = s[j] /\ s[j - 1] \in Addresses
    BY <1>2, <2>1
  <2>3. s[j] /= NULL
    BY <2>2, NoAddress
  <2>4. s[j] < fresh /\ fresh \in Nat
    BY <2>2, <2>3, SubFacts DEF Pooled
  <2> QED BY <1>1, <2>2, <2>4
<1> QED BY <1>3, <1>4

\* What a removal makes of last and nalloc.
LEMMA RemovalEnds ==
    ASSUME SubInv, NEW r \in Requests, NEW k, NEW cur, NEW at, Spot(r, k, cur, at),
           ~AssertsNext(r, cur, at), Splits(cur, at) => fresh <= MaxAddr,
           rm_header_helper(r, cur, at)
    PROVE  \E la \in Addresses, na \in Int :
              /\ last' = [last EXCEPT ![r] = la] /\ nalloc' = [nalloc EXCEPT ![r] = na]
              /\ \/ la \in Requests \/ la \in 1 .. fresh - 1
                 \/ Splits(cur, at) /\ la = fresh
<1> DEFINE Sound(la, na) ==
              /\ la \in Addresses /\ na \in Int
              /\ last' = [last EXCEPT ![r] = la] /\ nalloc' = [nalloc EXCEPT ![r] = na]
              /\ \/ la \in Requests \/ la \in 1 .. fresh - 1
                 \/ Splits(cur, at) /\ la = fresh
<1> SUFFICES \E la, na : Sound(la, na)
  OBVIOUS
<1>0. /\ cur \in Addresses /\ mem[cur].nelts \in Nat /\ at \in Nat /\ k \in 1 .. Len(Chain(r))
      /\ (k = 1 <=> cur = r) /\ mem[cur].next \in 1 .. MaxAddr \cup {NULL}
      /\ k > 1 => /\ Before(r, cur) = Chain(r)[k - 1] /\ Chain(r)[k - 1] \in Addresses
                  /\ mem[Chain(r)[k - 1]] \in Cell
  BY SpotFacts
<1>1. /\ last[r] \in Addresses /\ (last[r] \in Requests \/ last[r] \in 1 .. fresh - 1)
      /\ nalloc[r] \in Int /\ r \in Addresses /\ \A a \in Addresses : mem[a].nelts \in Nat
  BY SubFacts, CellTypes
<1>2. CASE RmFirst(r, cur)
  <2>1. Sound(last[r], IF IsLast(r, cur) THEN nalloc[r] - 1 ELSE nalloc[r])
    BY <1>1, <1>2 DEF RmFirst, After
  <2> QED BY <2>1
<1>3. CASE RmTail(r, cur)
  <2>1. Sound(last[r], IF IsLast(r, cur) THEN mem[cur].nelts - 1 ELSE nalloc[r])
    BY <1>0, <1>1, <1>3 DEF RmTail, After
  <2> QED BY <2>1
<1>4. CASE RmOnlyOfSoleLast(r)
  <2>1. Sound(last[r], nalloc[r])
    BY <1>1, <1>4 DEF RmOnlyOfSoleLast, After
  <2> QED BY <2>1
<1>5. CASE cur /= r /\ RmOnlyOfLast(r, cur)
  <2> DEFINE b == Before(r, cur)
  <2>1. k > 1 /\ k - 1 \in 1 .. Len(Chain(r))
    <3>1. Len(Chain(r)) \in Nat
      BY SubFacts, ListFacts
    <3> QED BY <1>0, <1>5, <3>1
  <2>2. b \in Addresses /\ b = Chain(r)[k - 1]
    BY <1>0, <2>1
  <2>3. b \in Requests \/ b \in 1 .. fresh - 1
    BY <2>1, <2>2, ChainPooled
  <2>4. last' = [last EXCEPT ![r] = b] /\ nalloc' = [nalloc EXCEPT ![r] = mem[b].nelts]
    BY <1>5 DEF RmOnlyOfLast, After
  <2>5. Sound(b, mem[b].nelts)
    <3> HIDE DEF b
    <3> QED BY <1>1, <2>2, <2>3, <2>4
  <2> QED BY <2>5
<1>6. CASE cur /= r /\ RmOnlyOfMiddle(r, cur)
  <2>1. Sound(last[r], nalloc[r])
    BY <1>1, <1>6 DEF RmOnlyOfMiddle, After
  <2> QED BY <2>1
<1>7. CASE Only(cur, at) /\ ~IsLast(r, cur) /\ cur = r /\ RmOnlyOfEmbedded(r)
  <2> DEFINE next == mem[r].next
             la == IF IsLast(r, next) THEN r ELSE last[r]
             na == IF IsLast(r, next) THEN mem[next].nelts ELSE nalloc[r]
  <2>1. next \in Addresses
    <3>1. next /= NULL
      BY <1>0, <1>7 DEF AssertsNext, Only
    <3> QED BY <1>0, <1>7, <3>1, NoAddress
  <2>2. last' = [last EXCEPT ![r] = la] /\ nalloc' = [nalloc EXCEPT ![r] = na]
    BY <1>7 DEF RmOnlyOfEmbedded, After
  <2>3. la \in {r, last[r]} /\ na \in Int
    BY <1>1, <2>1
  <2> HIDE DEF la, na
  <2>4. Sound(la, na)
    BY <1>1, <2>2, <2>3
  <2> QED BY <2>4
<1>8. CASE Splits(cur, at) /\ RmSplit(r, cur, at)
  <2> DEFINE la == IF IsLast(r, cur) THEN fresh ELSE last[r]
             na == IF IsLast(r, cur) THEN mem[cur].nelts - at - 1 ELSE nalloc[r]
  <2>1. last' = [last EXCEPT ![r] = la] /\ nalloc' = [nalloc EXCEPT ![r] = na]
    BY <1>8 DEF RmSplit, After
  <2>2. na \in Int /\ la \in {fresh, last[r]} /\ fresh \in Addresses
    <3>1. mem[cur].nelts - at - 1 \in Int
      BY <1>0
    <3>2. fresh \in Addresses
      BY <1>8, FreshFacts
    <3> QED BY <1>1, <3>1, <3>2
  <2> HIDE DEF la, na
  <2>3. Sound(la, na)
    BY <1>1, <1>8, <2>1, <2>2
  <2> QED BY <2>3
<1> QED BY <1>2, <1>3, <1>4, <1>5, <1>6, <1>7, <1>8 DEF rm_header_helper

\* A header is removed.
LEMMA DeleteStep ==
    ASSUME SubInv, NEW r \in Requests, NEW cur \in ToSet(Chain(r)),
           NEW at \in 0 .. mem[cur].nelts - 1, Delete(r, cur, at)
    PROVE  SubInv'
<1>1. /\ ~AssertsNext(r, cur, at) /\ (Splits(cur, at) => fresh <= MaxAddr)
      /\ rm_header_helper(r, cur, at)
      /\ fresh' = (IF Splits(cur, at) THEN fresh + 1 ELSE fresh)
      /\ Counted(r) /\ brk' = brk /\ started' = started
  BY DEF Delete
<1>2. PICK k : Spot(r, k, cur, at)
  BY SpotIs
<1>3. Removal(mem', r, k, cur, at)
  BY <1>1, <1>2, RemovalIs
<1>4. mem' = [a \in Addresses |-> mem'[a]]
  <2>1. mem \in [Addresses -> Cell]
    BY SubFacts DEF Memory
  <2> QED BY <1>1, <2>1
        DEF rm_header_helper, RmOnlyOfSoleLast, RmOnlyOfLast, RmOnlyOfEmbedded, RmOnlyOfMiddle,
            RmFirst, RmTail, RmSplit, After
<1>5. Heap(mem') /\ Pooled(mem', fresh')
  BY <1>1, <1>2, <1>3, <1>4, RemovalHeap
<1>6. PICK la \in Addresses, na \in Int :
         /\ last' = [last EXCEPT ![r] = la] /\ nalloc' = [nalloc EXCEPT ![r] = na]
         /\ \/ la \in Requests \/ la \in 1 .. fresh - 1
            \/ Splits(cur, at) /\ la = fresh
  BY <1>1, <1>2, RemovalEnds
<1>7. /\ fresh \in Nat /\ fresh >= 1 /\ fresh <= MaxAddr + 1 /\ MaxAddr \in Nat
      /\ brk \in Nat /\ LastPooled(last, fresh)
  BY SubFacts
<1>8. fresh' \in 1 .. MaxAddr + 1 /\ fresh <= fresh' /\ fresh' \in Nat
  BY <1>1, <1>7
<1>9. la \in Requests \/ la \in 1 .. fresh' - 1
  BY <1>1, <1>6, <1>7, <1>8
<1>10. last' \in [Requests -> Addresses] /\ nalloc' \in [Requests -> Int]
  BY <1>6 DEF SubInv
<1>11. LastPooled(last', fresh')
  <2> SUFFICES ASSUME NEW q \in Requests PROVE last'[q] \in Requests \/ last'[q] \in 1 .. fresh' - 1
    BY DEF LastPooled
  <2>1. last[q] \in Requests \/ last[q] \in 1 .. fresh' - 1
    BY <1>7, <1>8 DEF LastPooled
  <2>2. last'[q] \in {la, last[q]}
    BY <1>6 DEF SubInv
  <2> QED BY <1>9, <2>1, <2>2
<1>12. changes' \in Nat
  BY <1>1 DEF Counted, SubInv
<1> QED BY <1>1, <1>5, <1>7, <1>8, <1>10, <1>11, <1>12 DEF SubInv

\* Every step keeps the invariant.
LEMMA NextSubInv == SubInv /\ [SubNext]_sub_vars => SubInv'
<1> SUFFICES ASSUME SubInv, [SubNext]_sub_vars PROVE SubInv'
  OBVIOUS
<1>0. started \subseteq Requests
  BY DEF SubInv
<1>1. ASSUME NEW q \in Subs, NEW repaired \in BOOLEAN, Start(q, repaired) PROVE SubInv'
  BY <1>1, StartStep
<1>2. ASSUME NEW r \in started, NEW others \in {{}, Ancestors(r)}, Create(r, others) PROVE SubInv'
  <2>1. r \in Requests /\ others \in SUBSET Requests
    BY <1>0, AncestorsAre
  <2> QED BY <1>2, <2>1, CreateStep
<1>3. ASSUME NEW r \in started, NEW cur \in ToSet(Chain(r)), NEW at \in 0 .. mem[cur].nelts - 1,
             Delete(r, cur, at)
      PROVE  SubInv'
  <2>1. r \in Requests
    BY <1>0
  <2> QED BY <1>3, <2>1, DeleteStep
<1>4. ASSUME NEW r \in started, DeleteAsserts(r) PROVE SubInv'
  BY <1>4 DEF DeleteAsserts, list_vars, SubInv
<1>5. CASE UNCHANGED sub_vars
  BY <1>5 DEF sub_vars, list_vars, SubInv
<1> QED BY <1>1, <1>2, <1>3, <1>4, <1>5 DEF SubNext

\* So it always holds: the pointers of all the lists together make no circle, and
\* none is ahead of the pool.
THEOREM SubInvariance == SubSpec => []SubInv
  BY InitSubInv, NextSubInv, PTL DEF SubSpec

-----------------------------------------------------------------------------
(* The headers of a list. *)

\* The slots of a part, and those of the parts s, in the memory m.
RunIn(m, a) == Run(m[a].elts, m[a].nelts)
RunsOf(m, s) == [k \in DOMAIN s |-> RunIn(m, s[k])]

\* Headers, in the memory m.
HeadersOf(m, r) == FlattenSeq(RunsOf(m, ChainOf(m, r)))

\* What Headers makes of it.
LEMMA HeadersAre ==
    ASSUME NEW r
    PROVE  Headers(r) = HeadersOf(mem, r) /\ Headers(r)' = HeadersOf(mem', r)
<1>1. Headers(r) = HeadersOf(mem, r)
  <2>1. PICK s : s = Chain(r) /\ s = ChainOf(mem, r)
    BY ChainsAre
  <2>2. Headers(r) = FlattenSeq([k \in DOMAIN s |-> SlotsOf(mem[s[k]])])
    BY <2>1 DEF Headers
  <2>3. [k \in DOMAIN s |-> SlotsOf(mem[s[k]])] = RunsOf(mem, s)
    BY DEF SlotsOf, RunsOf, RunIn, Run
  <2> QED BY <2>1, <2>2, <2>3 DEF HeadersOf
<1>2. Headers(r)' = HeadersOf(mem', r)
  <2>1. PICK s : s = Chain(r)' /\ s = ChainOf(mem', r)
    BY ChainsAre
  <2>2. Headers(r)' = FlattenSeq([k \in DOMAIN s |-> SlotsOf(mem'[s[k]])])
    BY <2>1 DEF Headers
  <2>3. [k \in DOMAIN s |-> SlotsOf(mem'[s[k]])] = RunsOf(mem', s)
    BY DEF SlotsOf, RunsOf, RunIn, Run
  <2> QED BY <2>1, <2>2, <2>3 DEF HeadersOf
<1> QED BY <1>1, <1>2

\* The slots of a list's parts.
LEMMA RunsAre ==
    ASSUME NEW m, Heap(m), NEW s \in Seq(Addresses)
    PROVE  /\ RunsOf(m, s) \in Seq(Seq(Nat)) /\ Len(RunsOf(m, s)) = Len(s)
           /\ \A k \in 1 .. Len(s) : /\ RunsOf(m, s)[k] = RunIn(m, s[k])
                                     /\ RunsOf(m, s)[k] \in Seq(Nat)
<1>0. Len(s) \in Nat /\ DOMAIN s = 1 .. Len(s) /\ \A k \in 1 .. Len(s) : s[k] \in Addresses
  OBVIOUS
<1>1. ASSUME NEW k \in 1 .. Len(s)
      PROVE  RunIn(m, s[k]) \in Seq(Nat)
  <2>1. m[s[k]].elts \in Nat /\ m[s[k]].nelts \in Nat
    BY <1>0, CellTypes
  <2> QED BY <2>1, RunType DEF RunIn
<1>2. PICK rs : rs = RunsOf(m, s)
  OBVIOUS
<1>3. rs = [k \in 1 .. Len(s) |-> RunIn(m, s[k])]
  BY <1>0, <1>2 DEF RunsOf
<1>4. rs \in Seq(Seq(Nat)) /\ Len(rs) = Len(s)
  BY <1>0, <1>1, <1>3
<1> QED BY <1>1, <1>2, <1>3, <1>4

\* They are a sequence of slots.
LEMMA HeadersType ==
    ASSUME NEW m, Heap(m), NEW r \in Requests
    PROVE  HeadersOf(m, r) \in Seq(Nat)
<1>1. PICK s \in Seq(Addresses) : s = ChainOf(m, r)
  BY ChainFacts
<1>2. RunsOf(m, s) \in Seq(Seq(Nat))
  BY RunsAre
<1> QED BY <1>1, <1>2, FlattenType DEF HeadersOf

-----------------------------------------------------------------------------
(* How a list's parts change. *)

\* No pointer on the way changes.
LEMMA ChainSame ==
    ASSUME NEW m, Heap(m), NEW n, Heap(n), NEW r \in Requests, NEW s, s = ChainOf(m, r),
           \A k \in 1 .. Len(s) : n[s[k]].next = m[s[k]].next
    PROVE  ChainOf(n, r) = s
<1>1. /\ s \in Seq(Addresses) /\ Len(s) \in Nat /\ Len(s) >= 1 /\ DOMAIN s = 1 .. Len(s)
      /\ s[1] = r
      /\ \A k \in 1 .. Len(s) - 1 : m[s[k]].next = s[k + 1]
      /\ m[s[Len(s)]].next = NULL
  BY ChainFacts
<1>2. \A k \in 1 .. Len(s) - 1 : k \in 1 .. Len(s)
  BY <1>1
<1>3. \A k \in 1 .. Len(s) - 1 : n[s[k]].next = s[k + 1]
  BY <1>1, <1>2
<1>4. Len(s) \in 1 .. Len(s)
  BY <1>1
<1>5. IsChain(n, r, s)
  BY <1>1, <1>3, <1>4 DEF IsChain, IsPath
<1> QED BY <1>5, Embedded, IsItsChain

\* t is s without its (j + 1)-th part.
IsCut(t, s, j) ==
    /\ Len(t) = Len(s) - 1
    /\ \A k \in 1 .. Len(s) - 1 : t[k] = IF k <= j THEN s[k] ELSE s[k + 1]

\* A part is passed: its place is j + 1.
LEMMA ChainCut ==
    ASSUME NEW m, Heap(m), NEW n, Heap(n), NEW r \in Requests, NEW s, s = ChainOf(m, r),
           NEW j \in 1 .. Len(s) - 1,
           \A k \in 1 .. Len(s) : k \notin {j, j + 1} => n[s[k]].next = m[s[k]].next,
           n[s[j]].next = m[s[j + 1]].next
    PROVE  IsCut(ChainOf(n, r), s, j)
<1>t. PICK t : t = [k \in 1 .. Len(s) - 1 |-> IF k <= j THEN s[k] ELSE s[k + 1]]
  OBVIOUS
<1>1. /\ s \in Seq(Addresses) /\ Len(s) \in Nat /\ Len(s) >= 1
      /\ \A k \in 1 .. Len(s) : s[k] \in Addresses
      /\ s[1] = r
      /\ \A k \in 1 .. Len(s) - 1 : m[s[k]].next = s[k + 1]
      /\ m[s[Len(s)]].next = NULL
  BY ChainFacts
<1>0. j \in Nat /\ 1 <= j /\ j < Len(s) /\ Len(s) - 1 \in Nat
  BY <1>1
<1>2. \A k \in 1 .. Len(s) - 1 : k \in 1 .. Len(s) /\ k + 1 \in 1 .. Len(s)
  BY <1>1
<1>3. \A k \in 1 .. Len(s) - 1 : t[k] \in Addresses /\ t[k] = IF k <= j THEN s[k] ELSE s[k + 1]
  BY <1>1, <1>2, <1>t
<1>4. t \in Seq(Addresses) /\ Len(t) = Len(s) - 1 /\ DOMAIN t = 1 .. Len(t)
  BY <1>0, <1>3, <1>t
<1>5. t[1] = r
  <2>1. 1 \in 1 .. Len(s) - 1
    BY <1>0
  <2> QED BY <1>0, <1>1, <1>3, <2>1
<1>6. ASSUME NEW k \in 1 .. Len(s) - 2 PROVE n[t[k]].next = t[k + 1]
  <2>0. k \in 1 .. Len(s) - 1 /\ k + 1 \in 1 .. Len(s) - 1 /\ k \in Nat
    BY <1>1
  <2>1. CASE k < j
    <3>1. k \in 1 .. Len(s) /\ k \notin {j, j + 1} /\ k + 1 <= j /\ k <= j
      BY <1>0, <2>0, <2>1
    <3>2. t[k] = s[k] /\ t[k + 1] = s[k + 1]
      BY <1>3, <2>0, <3>1
    <3> QED BY <1>1, <2>0, <3>1, <3>2
  <2>2. CASE k = j
    <3>1. t[k] = s[j] /\ t[k + 1] = s[k + 1 + 1]
      <4>1. ~(k + 1 <= j) /\ k <= j
        BY <1>0, <2>2
      <4> QED BY <1>3, <2>0, <2>2, <4>1
    <3>2. n[t[k]].next = m[s[k + 1]].next
      BY <2>2, <3>1
    <3> QED BY <1>1, <2>0, <3>1, <3>2
  <2>3. CASE k > j
    <3>1. k + 1 \in 1 .. Len(s) /\ k + 1 \notin {j, j + 1} /\ ~(k <= j) /\ ~(k + 1 <= j)
      BY <1>0, <2>0, <2>3
    <3>2. t[k] = s[k + 1] /\ t[k + 1] = s[k + 1 + 1]
      BY <1>3, <2>0, <3>1
    <3>3. n[s[k + 1]].next = m[s[k + 1]].next
      BY <3>1
    <3> QED BY <1>1, <2>0, <3>2, <3>3
  <2> QED BY <1>0, <2>0, <2>1, <2>2, <2>3
<1>7. n[t[Len(s) - 1]].next = NULL
  <2>0. Len(s) - 1 \in 1 .. Len(s) - 1 /\ Len(s) - 1 + 1 = Len(s) /\ Len(s) \in 1 .. Len(s)
    BY <1>0
  <2>1. CASE Len(s) - 1 = j
    <3>1. t[Len(s) - 1] = s[j]
      <4>1. Len(s) - 1 <= j
        BY <1>0, <2>1
      <4> QED BY <1>3, <2>0, <2>1, <4>1
    <3> QED BY <1>1, <2>0, <2>1, <3>1
  <2>2. CASE Len(s) - 1 /= j
    <3>1. ~(Len(s) - 1 <= j) /\ Len(s) \notin {j, j + 1}
      BY <1>0, <2>2
    <3>2. t[Len(s) - 1] = s[Len(s)]
      BY <1>3, <2>0, <3>1
    <3> QED BY <1>1, <2>0, <3>1, <3>2
  <2> QED BY <2>1, <2>2
<1>8. Len(t) >= 1 /\ Len(t) - 1 = Len(s) - 2
  BY <1>0, <1>4
<1> HIDE DEF Heap
<1>9. IsChain(n, r, t)
  BY <1>0, <1>4, <1>5, <1>6, <1>7, <1>8 DEF IsChain, IsPath
<1>10. ChainOf(n, r) = t
  BY <1>9, Embedded, IsItsChain
<1> QED BY <1>3, <1>4, <1>10 DEF IsCut

\* t is s with f behind its j-th part.
IsLonger(t, s, j, f) ==
    /\ Len(t) = Len(s) + 1
    /\ \A k \in 1 .. Len(s) + 1 :
          t[k] = IF k <= j THEN s[k] ELSE IF k = j + 1 THEN f ELSE s[k - 1]

\* A part f is put behind the j-th.
LEMMA ChainLonger ==
    ASSUME NEW m, Heap(m), NEW n, Heap(n), NEW r \in Requests, NEW s, s = ChainOf(m, r),
           NEW j \in 1 .. Len(s), NEW f \in Addresses,
           \A k \in 1 .. Len(s) : k /= j => n[s[k]].next = m[s[k]].next,
           n[s[j]].next = f, n[f].next = m[s[j]].next
    PROVE  IsLonger(ChainOf(n, r), s, j, f)
<1>t. PICK t : t = [k \in 1 .. Len(s) + 1 |->
                      IF k <= j THEN s[k] ELSE IF k = j + 1 THEN f ELSE s[k - 1]]
  OBVIOUS
<1>1. /\ s \in Seq(Addresses) /\ Len(s) \in Nat /\ Len(s) >= 1
      /\ \A k \in 1 .. Len(s) : s[k] \in Addresses
      /\ s[1] = r
      /\ \A k \in 1 .. Len(s) - 1 : m[s[k]].next = s[k + 1]
      /\ m[s[Len(s)]].next = NULL
  BY ChainFacts
<1>0. j \in Nat /\ 1 <= j /\ j <= Len(s) /\ Len(s) + 1 \in Nat
  BY <1>1
<1>3. \A k \in 1 .. Len(s) + 1 :
         t[k] \in Addresses /\ t[k] = IF k <= j THEN s[k] ELSE IF k = j + 1 THEN f ELSE s[k - 1]
  <2> SUFFICES ASSUME NEW k \in 1 .. Len(s) + 1
               PROVE  (IF k <= j THEN s[k] ELSE IF k = j + 1 THEN f ELSE s[k - 1]) \in Addresses
    BY <1>t
  <2>1. k <= j => k \in 1 .. Len(s)
    BY <1>0
  <2>2. ~(k <= j) => k - 1 \in 1 .. Len(s)
    BY <1>0
  <2> QED BY <1>1, <2>1, <2>2
<1>4. t \in Seq(Addresses) /\ Len(t) = Len(s) + 1 /\ DOMAIN t = 1 .. Len(t)
  BY <1>0, <1>3, <1>t
<1>5. t[1] = r
  <2>1. 1 \in 1 .. Len(s) + 1
    BY <1>0
  <2> QED BY <1>0, <1>1, <1>3, <2>1
<1>6. ASSUME NEW k \in 1 .. Len(s) PROVE n[t[k]].next = t[k + 1]
  <2>0. k \in 1 .. Len(s) + 1 /\ k + 1 \in 1 .. Len(s) + 1 /\ k \in Nat
    BY <1>1
  <2>1. CASE k < j
    <3>1. k \in 1 .. Len(s) - 1 /\ k /= j /\ k + 1 <= j /\ k <= j
      BY <1>0, <2>0, <2>1
    <3>2. t[k] = s[k] /\ t[k + 1] = s[k + 1]
      BY <1>3, <2>0, <3>1
    <3> QED BY <1>1, <2>0, <3>1, <3>2
  <2>2. CASE k = j
    <3>1. t[k] = s[j] /\ t[k + 1] = f
      <4>1. ~(k + 1 <= j) /\ k <= j
        BY <1>0, <2>2
      <4> QED BY <1>3, <2>0, <2>2, <4>1
    <3> QED BY <3>1
  <2>3. CASE k = j + 1
    <3>1. t[k] = f /\ t[k + 1] = s[k + 1 - 1]
      <4>1. ~(k + 1 <= j) /\ ~(k <= j) /\ k + 1 /= j + 1
        BY <1>0, <2>0, <2>3
      <4> QED BY <1>3, <2>0, <2>3, <4>1
    <3>2. j \in 1 .. Len(s) - 1 /\ k + 1 - 1 = j + 1
      BY <1>0, <2>0, <2>3
    <3>3. m[s[j]].next = s[j + 1]
      BY <1>1, <3>2
    <3> QED BY <3>1, <3>2, <3>3
  <2>4. CASE k > j + 1
    <3>1. /\ k - 1 \in 1 .. Len(s) - 1 /\ k - 1 \in 1 .. Len(s) /\ k - 1 /= j /\ ~(k <= j) /\ ~(k + 1 <= j)
          /\ k /= j + 1 /\ k + 1 /= j + 1 /\ k + 1 - 1 = k - 1 + 1
      BY <1>0, <2>0, <2>4
    <3>2. t[k] = s[k - 1] /\ t[k + 1] = s[k + 1 - 1]
      BY <1>3, <2>0, <3>1
    <3>3. n[s[k - 1]].next = m[s[k - 1]].next /\ m[s[k - 1]].next = s[k - 1 + 1]
      BY <1>1, <3>1
    <3> QED BY <3>1, <3>2, <3>3
  <2> QED BY <1>0, <2>0, <2>1, <2>2, <2>3, <2>4
<1>7. n[t[Len(s) + 1]].next = NULL
  <2>0. Len(s) + 1 \in 1 .. Len(s) + 1 /\ Len(s) + 1 - 1 = Len(s) /\ Len(s) \in 1 .. Len(s)
        /\ ~(Len(s) + 1 <= j)
    BY <1>0, <1>1
  <2>1. CASE Len(s) = j
    <3>1. t[Len(s) + 1] = f
      BY <1>3, <2>0, <2>1
    <3> QED BY <1>1, <2>1, <3>1
  <2>2. CASE Len(s) /= j
    <3>1. Len(s) + 1 /= j + 1
      BY <1>0, <1>1, <2>2
    <3>2. t[Len(s) + 1] = s[Len(s)]
      BY <1>3, <2>0, <3>1
    <3> QED BY <1>1, <2>0, <2>2, <3>2
  <2> QED BY <2>1, <2>2
<1>8. Len(t) >= 1 /\ Len(t) - 1 = Len(s)
  BY <1>1, <1>4
<1>9. IsChain(n, r, t)
  BY <1>0, <1>4, <1>5, <1>6, <1>7, <1>8 DEF IsChain, IsPath
<1>10. ChainOf(n, r) = t
  BY <1>9, Embedded, IsItsChain
<1> QED BY <1>3, <1>4, <1>10 DEF IsLonger

\* t is s up to the j-th part, and then f.
IsEnded(t, s, j, f) ==
    Len(t) = j + 1 /\ \A k \in 1 .. j + 1 : t[k] = IF k <= j THEN s[k] ELSE f

\* What is behind the j-th part is replaced by the part f.
LEMMA ChainEnded ==
    ASSUME NEW m, Heap(m), NEW n, Heap(n), NEW r \in Requests, NEW s, s = ChainOf(m, r),
           NEW j \in 1 .. Len(s), NEW f \in Addresses,
           \A k \in 1 .. Len(s) : k /= j => n[s[k]].next = m[s[k]].next,
           n[s[j]].next = f, n[f].next = NULL
    PROVE  IsEnded(ChainOf(n, r), s, j, f)
<1>t. PICK t : t = [k \in 1 .. j + 1 |-> IF k <= j THEN s[k] ELSE f]
  OBVIOUS
<1>1. /\ s \in Seq(Addresses) /\ Len(s) \in Nat /\ Len(s) >= 1
      /\ \A k \in 1 .. Len(s) : s[k] \in Addresses
      /\ s[1] = r
      /\ \A k \in 1 .. Len(s) - 1 : m[s[k]].next = s[k + 1]
  BY ChainFacts
<1>0. j \in Nat /\ 1 <= j /\ j <= Len(s) /\ j + 1 \in Nat
  BY <1>1
<1>3. \A k \in 1 .. j + 1 : t[k] \in Addresses /\ t[k] = IF k <= j THEN s[k] ELSE f
  <2>1. \A k \in 1 .. j + 1 : k <= j => k \in 1 .. Len(s)
    BY <1>0, <1>1
  <2> QED BY <1>1, <1>t, <2>1
<1>4. t \in Seq(Addresses) /\ Len(t) = j + 1 /\ DOMAIN t = 1 .. Len(t)
  BY <1>0, <1>3, <1>t
<1>5. t[1] = r
  <2>1. 1 \in 1 .. j + 1
    BY <1>0
  <2> QED BY <1>0, <1>1, <1>3, <2>1
<1>6. ASSUME NEW k \in 1 .. j PROVE n[t[k]].next = t[k + 1]
  <2>0. k \in 1 .. j + 1 /\ k + 1 \in 1 .. j + 1 /\ k \in Nat
    BY <1>0
  <2>1. CASE k < j
    <3>1. k \in 1 .. Len(s) - 1 /\ k \in 1 .. Len(s) /\ k /= j /\ k + 1 <= j /\ k <= j
      BY <1>0, <1>1, <2>0, <2>1
    <3>2. t[k] = s[k] /\ t[k + 1] = s[k + 1]
      BY <1>3, <2>0, <3>1
    <3> QED BY <1>1, <3>1, <3>2
  <2>2. CASE k = j
    <3>1. t[k] = s[j] /\ t[k + 1] = f
      <4>1. ~(k + 1 <= j) /\ k <= j
        BY <1>0, <2>2
      <4> QED BY <1>3, <2>0, <2>2, <4>1
    <3> QED BY <3>1
  <2> QED BY <1>0, <2>0, <2>1, <2>2
<1>7. n[t[j + 1]].next = NULL
  <2>1. j + 1 \in 1 .. j + 1 /\ ~(j + 1 <= j)
    BY <1>0
  <2> QED BY <1>3, <2>1
<1>8. Len(t) >= 1 /\ Len(t) - 1 = j
  BY <1>0, <1>4
<1>9. IsChain(n, r, t)
  BY <1>0, <1>4, <1>5, <1>6, <1>7, <1>8 DEF IsChain, IsPath
<1>10. ChainOf(n, r) = t
  BY <1>9, Embedded, IsItsChain
<1> QED BY <1>3, <1>4, <1>10 DEF IsEnded

\* A member of one of some sequences is one of their concatenation.
LEMMA InFlatten ==
    ASSUME NEW T, NEW S \in Seq(Seq(T)), NEW j \in 1 .. Len(S), NEW x \in ToSet(S[j])
    PROVE  x \in ToSet(FlattenSeq(S))
<1> DEFINE Bad == {k \in j .. Len(S) : x \notin ToSet(Flats(S)[k])}
<1>0. Len(S) \in Nat /\ \A k \in 1 .. Len(S) : S[k] \in Seq(T)
  OBVIOUS
<1>1. /\ \A k \in 1 .. Len(S) : Flats(S)[k] \in Seq(T)
      /\ \A k \in 1 .. Len(S) : Flats(S)[k] = IF k = 1 THEN S[k] ELSE Flats(S)[k - 1] \o S[k]
  BY <1>0, FlatsType, FlatsAre
<1>2. ASSUME NEW a \in Seq(T), NEW b \in Seq(T)
      PROVE  x \in ToSet(a) \/ x \in ToSet(b) => x \in ToSet(a \o b)
  <2>1. DOMAIN (a \o b) = 1 .. Len(a) + Len(b) /\ Len(a) \in Nat /\ Len(b) \in Nat
        /\ DOMAIN a = 1 .. Len(a) /\ DOMAIN b = 1 .. Len(b)
    BY Concat
  <2>2. ASSUME NEW p \in 1 .. Len(a), x = a[p] PROVE x \in ToSet(a \o b)
    <3>1. p \in 1 .. Len(a) + Len(b) /\ (a \o b)[p] = x
      BY <2>1, <2>2, Concat
    <3> QED BY <2>1, <3>1 DEF ToSet
  <2>3. ASSUME NEW p \in 1 .. Len(b), x = b[p] PROVE x \in ToSet(a \o b)
    <3>1. Len(a) + p \in 1 .. Len(a) + Len(b) /\ (a \o b)[Len(a) + p] = x
      BY <2>1, <2>3, Concat
    <3> QED BY <2>1, <3>1 DEF ToSet
  <2> QED BY <2>1, <2>2, <2>3 DEF ToSet
<1>3. Bad = {}
  <2> SUFFICES ASSUME Bad /= {} PROVE FALSE
    OBVIOUS
  <2>1. Bad \in SUBSET Nat
    BY <1>0
  <2>2. PICK k \in Bad : \A h \in Bad : k <= h
    BY <2>1, Least
  <2>3. k \in j .. Len(S) /\ x \notin ToSet(Flats(S)[k]) /\ k \in 1 .. Len(S)
    BY <1>0
  <2>4. Flats(S)[k] = IF k = 1 THEN S[k] ELSE Flats(S)[k - 1] \o S[k]
    BY <1>1, <2>3
  <2>5. CASE k = j /\ k = 1
    BY <2>3, <2>4, <2>5
  <2>6. CASE k /= 1
    <3>1. k - 1 \in 1 .. Len(S) /\ S[k] \in Seq(T) /\ Flats(S)[k - 1] \in Seq(T)
      BY <1>0, <1>1, <2>3, <2>6
    <3>2. x \notin ToSet(S[k]) /\ x \notin ToSet(Flats(S)[k - 1])
      BY <1>2, <2>3, <2>4, <2>6, <3>1
    <3>3. k /= j
      BY <3>2
    <3>4. k - 1 \in j .. Len(S) /\ ~(k <= k - 1)
      BY <1>0, <2>3, <3>3
    <3>5. k - 1 \in Bad
      BY <3>2, <3>4
    <3> QED BY <2>2, <3>4, <3>5
  <2>7. k = 1 => k = j
    BY <1>0, <2>3
  <2> QED BY <2>5, <2>6, <2>7
<1>4. Len(S) \in j .. Len(S) /\ Len(S) /= 0
  BY <1>0
<1>5. x \in ToSet(Flats(S)[Len(S)])
  BY <1>3, <1>4
<1> QED BY <1>4, <1>5, FlattenIs

\* Slots are in the headers if they are in one of the list's parts.
LEMMA InHeaders ==
    ASSUME NEW m, Heap(m), NEW r \in Requests, NEW s, s = ChainOf(m, r),
           NEW j \in 1 .. Len(s), NEW x \in Nat,
           m[s[j]].elts <= x, x < m[s[j]].elts + m[s[j]].nelts
    PROVE  x \in ToSet(HeadersOf(m, r))
<1>1. s \in Seq(Addresses) /\ s[j] \in Addresses
  BY ChainFacts
<1>2. m[s[j]].elts \in Nat /\ m[s[j]].nelts \in Nat
  BY <1>1, CellTypes
<1>3. PICK rs : rs = RunsOf(m, s)
  OBVIOUS
<1>4. rs \in Seq(Seq(Nat)) /\ j \in 1 .. Len(rs) /\ rs[j] = Run(m[s[j]].elts, m[s[j]].nelts)
  BY <1>1, <1>3, RunsAre DEF RunIn
<1>5. x - m[s[j]].elts + 1 \in 1 .. m[s[j]].nelts /\ m[s[j]].elts + (x - m[s[j]].elts + 1) - 1 = x
  BY <1>2
<1>6. x \in ToSet(Run(m[s[j]].elts, m[s[j]].nelts))
  <2>1. PICK e \in Nat, c \in Nat : e = m[s[j]].elts /\ c = m[s[j]].nelts
    BY <1>2
  <2>2. DOMAIN Run(e, c) = 1 .. c /\ Run(e, c)[x - e + 1] = x
    BY <1>5, <2>1 DEF Run
  <2>3. x - e + 1 \in DOMAIN Run(e, c)
    BY <1>5, <2>1, <2>2
  <2>4. x \in ToSet(Run(e, c))
    BY <2>2, <2>3 DEF ToSet
  <2> QED BY <2>1, <2>4
<1>7. x \in ToSet(FlattenSeq(rs))
  <2>1. x \in ToSet(rs[j])
    BY <1>4, <1>6
  <2> QED BY <1>4, <2>1, InFlatten
<1> QED BY <1>3, <1>7 DEF HeadersOf

\* Requests whose embedded parts are the same have the same headers.
LEMMA HeadCopied ==
    ASSUME NEW m, Heap(m), NEW p \in Requests, NEW q \in Requests, m[p] = m[q]
    PROVE  HeadersOf(m, p) = HeadersOf(m, q)
<1>1. PICK s : s = ChainOf(m, p)
  OBVIOUS
<1>2. /\ s \in Seq(Addresses) /\ Len(s) \in Nat /\ Len(s) >= 1 /\ DOMAIN s = 1 .. Len(s)
      /\ \A k \in 1 .. Len(s) : s[k] \in Addresses
      /\ s[1] = p
      /\ \A k \in 1 .. Len(s) - 1 : m[s[k]].next = s[k + 1]
      /\ m[s[Len(s)]].next = NULL
  BY <1>1, ChainFacts
<1> DEFINE t == [k \in 1 .. Len(s) |-> IF k = 1 THEN q ELSE s[k]]
<1>3. /\ t \in Seq(Addresses) /\ Len(t) = Len(s) /\ DOMAIN t = 1 .. Len(s)
      /\ \A k \in 1 .. Len(s) : t[k] = IF k = 1 THEN q ELSE s[k]
  BY <1>2, Embedded
<1> HIDE DEF t
<1>4. \A k \in 1 .. Len(s) : m[t[k]] = m[s[k]]
  BY <1>2, <1>3
<1>5. ASSUME NEW k \in 1 .. Len(t) - 1 PROVE m[t[k]].next = t[k + 1]
  <2>1. k \in 1 .. Len(s) - 1 /\ k \in 1 .. Len(s) /\ k + 1 \in 1 .. Len(s) /\ k + 1 /= 1
    BY <1>2, <1>3
  <2> QED BY <1>2, <1>3, <1>4, <2>1
<1>6. t[1] = q /\ m[t[Len(t)]].next = NULL
  <2>1. 1 \in 1 .. Len(s) /\ Len(s) \in 1 .. Len(s)
    BY <1>2
  <2> QED BY <1>2, <1>3, <1>4, <2>1
<1>7. IsChain(m, q, t)
  BY <1>2, <1>3, <1>5, <1>6 DEF IsChain, IsPath
<1>8. ChainOf(m, q) = t
  BY <1>7, Embedded, IsItsChain
<1>9. RunsOf(m, t) = RunsOf(m, s)
  BY <1>2, <1>3, <1>4 DEF RunsOf, RunIn
<1> QED BY <1>1, <1>8, <1>9 DEF HeadersOf

\* A created header is in the list of the subrequest if its last was.
LEMMA CreatedIsIn ==
    ASSUME SubInv, NEW r \in Requests, NEW others \in SUBSET Requests, Create(r, others),
           NEW j \in 1 .. Len(Chain(r)), last[r] = Chain(r)[j],
           \A q \in others : q \in Requests
    PROVE  PushSlot(r) \in ToSet(HeadersOf(mem', r))
<1> DEFINE n == PushedMem(r)
<1>1. HasMemory(r) /\ CopyHead(r, others, n, PushedLast(r))
  BY DEF Create
<1>2. PushedTo(n, r)
  BY <1>1, PushedIs
<1>3. mem' = [a \in Addresses |-> IF a \in others THEN n[r] ELSE n[a]]
  BY <1>1 DEF CopyHead
<1> HIDE DEF n
<1>4. Heap(mem) /\ Heap(n) /\ Heap(mem')
  <2>1. Heap(n) /\ Pooled(n, IF Full(r) THEN fresh + 1 ELSE fresh)
    BY <1>1, <1>2, PushedHeap
  <2> QED BY <1>3, <2>1, CopiedHeap, SubFacts
<1>5. PICK s : s = Chain(r) /\ s = ChainOf(mem, r)
  BY ChainsAre
<1>6. /\ Len(s) \in Nat /\ s[1] = r /\ j \in 1 .. Len(s) /\ last[r] = s[j]
      /\ \A k \in 1 .. Len(s) : s[k] \in Addresses
      /\ \A j1, k1 \in 1 .. Len(s) : s[j1] = s[k1] => j1 = k1
      /\ \A k \in 2 .. Len(s) : s[k] \in 1 .. MaxAddr
      /\ \A k \in 1 .. Len(s) : mem[s[k]].next /= NULL => mem[s[k]].next \in Addresses
  <2>1. /\ Len(s) \in Nat /\ s[1] = r /\ j \in 1 .. Len(s) /\ last[r] = s[j]
        /\ \A k \in 1 .. Len(s) : s[k] \in Addresses
        /\ \A j1, k1 \in 1 .. Len(s) : s[j1] = s[k1] => j1 = k1
        /\ \A k \in 2 .. Len(s) : s[k] \in 1 .. MaxAddr
    BY <1>4, <1>5, ChainFacts
  <2>2. \A a \in Addresses : mem[a].next /= NULL => mem[a].next \in Addresses
    BY SubFacts, NextFacts
  <2> QED BY <2>1, <2>2
<1>7. \A k \in 1 .. Len(s) : mem'[s[k]] = n[s[k]]
  <2> SUFFICES ASSUME NEW k \in 1 .. Len(s) PROVE mem'[s[k]] = n[s[k]]
    OBVIOUS
  <2>1. CASE k = 1
    BY <1>3, <1>6, <2>1
  <2>2. CASE k /= 1
    <3>1. k \in 2 .. Len(s)
      BY <1>6, <2>2
    <3>2. s[k] \notin others
      BY <1>6, <3>1, Embedded
    <3> QED BY <1>3, <1>6, <3>2
  <2> QED BY <2>1, <2>2
<1>8. CASE ~Full(r)
  <2>1. /\ \A a \in Addresses \ {last[r]} : n[a] = mem[a]
        /\ n[last[r]].next = mem[last[r]].next
        /\ n[last[r]].elts = mem[last[r]].elts
        /\ n[last[r]].nelts = mem[last[r]].nelts + 1
    BY <1>2, <1>8 DEF PushedTo
  <2>2. \A k \in 1 .. Len(s) : mem'[s[k]].next = mem[s[k]].next
    BY <1>6, <1>7, <2>1
  <2>3. ChainOf(mem', r) = s
    BY <1>4, <1>5, <2>2, ChainSame
  <2>4. PushSlot(r) = mem[s[j]].elts + mem[s[j]].nelts /\ mem[s[j]].elts \in Nat /\ mem[s[j]].nelts \in Nat
    BY <1>4, <1>6, <1>8, CellTypes DEF PushSlot
  <2>5. mem'[s[j]].elts = mem[s[j]].elts /\ mem'[s[j]].nelts = mem[s[j]].nelts + 1
    BY <1>6, <1>7, <2>1
  <2>6. PICK x \in Nat : x = PushSlot(r)
    BY <2>4
  <2>7. mem'[s[j]].elts <= x /\ x < mem'[s[j]].elts + mem'[s[j]].nelts
    BY <2>4, <2>5, <2>6
  <2>8. x \in ToSet(HeadersOf(mem', r))
    BY <1>4, <1>6, <2>3, <2>7, InHeaders
  <2> QED BY <2>6, <2>8
<1>9. CASE Full(r)
  <2>1. /\ \A a \in Addresses \ {last[r], fresh} : n[a] = mem[a]
        /\ n[last[r]].next = fresh
        /\ n[fresh] = NewPart(r)
    BY <1>2, <1>9 DEF PushedTo
  <2>2. fresh \in 1 .. MaxAddr /\ fresh \in Addresses /\ \A a \in Addresses : mem[a].next /= fresh
    BY <1>1, <1>9, FreshFacts DEF HasMemory
  <2>3. mem'[fresh] = NewPart(r)
    BY <1>3, <2>1, <2>2, Embedded
  <2>4. NewPart(r).next = NULL /\ NewPart(r).elts = brk /\ NewPart(r).nelts = 1 /\ brk \in Nat
    BY <1>9, NewPartIs, SubFacts
  <2>5. ASSUME NEW k \in 1 .. Len(s) PROVE s[k] /= fresh
    <3>1. Chain(r)[k] \in Requests \/ Chain(r)[k] \in 1 .. fresh - 1
      BY <1>5, ChainPooled
    <3>2. fresh \in Nat
      BY SubFacts
    <3> QED BY <1>5, <2>2, <3>1, <3>2, Embedded
  <2>6. \A k \in 1 .. Len(s) : k /= j => mem'[s[k]].next = mem[s[k]].next
    BY <1>6, <1>7, <2>1, <2>5
  <2>7. mem'[s[j]].next = fresh /\ mem'[fresh].next = NULL
    BY <1>6, <1>7, <2>1, <2>3, <2>4
  <2>8. PICK f \in Addresses : f = fresh
    BY <2>2
  <2>9. PICK t : t = ChainOf(mem', r)
    OBVIOUS
  <2>10. ChainOf(mem', r) = t /\ Len(t) = j + 1 /\ \A k \in 1 .. j + 1 : t[k] = IF k <= j THEN s[k] ELSE f
    <3>1. mem'[s[j]].next = f /\ mem'[f].next = NULL
      BY <2>7, <2>8
    <3>2. j \in 1 .. Len(s)
      BY <1>6
    <3>3. \A k \in 1 .. Len(s) : k /= j => mem'[s[k]].next = mem[s[k]].next
      BY <2>6
    <3>4. IsEnded(t, s, j, f)
      BY <1>4, <1>5, <2>9, <3>1, <3>2, <3>3, ChainEnded
    <3> QED BY <2>9, <3>4 DEF IsEnded
  <2>11. j + 1 \in 1 .. Len(t) /\ t[j + 1] = fresh
    <3>1. j \in Nat /\ j >= 1
      BY <1>6
    <3>2. j + 1 \in 1 .. j + 1 /\ ~(j + 1 <= j)
      BY <3>1
    <3> QED BY <2>8, <2>10, <3>2
  <2>12. PICK h \in 1 .. Len(t), x \in Nat : h = j + 1 /\ x = brk
    BY <2>4, <2>11
  <2>13. mem'[t[h]].elts <= x /\ x < mem'[t[h]].elts + mem'[t[h]].nelts
    BY <2>3, <2>4, <2>11, <2>12
  <2>14. x \in ToSet(HeadersOf(mem', r))
    BY <1>4, <2>10, <2>13, InHeaders
  <2> QED BY <1>9, <2>12, <2>14 DEF PushSlot
<1> QED BY <1>8, <1>9

\* ParentsFollow: the parents of a subrequest that creates a header nginx keeps a
\* pointer to see its headers then, and the new one among them if the subrequest's
\* last was part of its list.
THEOREM CreatedPropagates == SubSpec => ParentsFollow
<1> DEFINE Follow ==
        \A r \in started \cap Subs :
           Create(r, Ancestors(r)) =>
             /\ Headers(r)' = Headers(Parent[r])' /\ Headers(r)' = Headers(Main)'
             /\ last[r] \in ToSet(Chain(r)) => PushSlot(r) \in ToSet(Headers(Main)')
<1>1. SubInv => Follow
  <2> SUFFICES ASSUME SubInv, NEW r \in started \cap Subs, Create(r, Ancestors(r))
               PROVE  /\ Headers(r)' = Headers(Parent[r])' /\ Headers(r)' = Headers(Main)'
                      /\ last[r] \in ToSet(Chain(r)) => PushSlot(r) \in ToSet(Headers(Main)')
    BY Zenon
  <2>1. /\ r \in Requests /\ Parent[r] \in Requests /\ Main \in Requests
        /\ Ancestors(r) \in SUBSET Requests
        /\ Parent[r] \in Ancestors(r) /\ Main \in Ancestors(r)
    BY AncestorsAre, TreeAssumption DEF Requests
  <2>2. SubInv'
    BY <2>1, CreateStep
  <2>3. Heap(mem')
    BY <2>2 DEF SubInv
  <2>4. mem' = [a \in Addresses |-> IF a \in Ancestors(r) THEN PushedMem(r)[r] ELSE PushedMem(r)[a]]
    BY DEF Create, CopyHead
  <2>5. mem'[r] = mem'[Parent[r]] /\ mem'[r] = mem'[Main]
    BY <2>1, <2>4, Embedded
  <2>6. HeadersOf(mem', r) = HeadersOf(mem', Parent[r]) /\ HeadersOf(mem', r) = HeadersOf(mem', Main)
    BY <2>1, <2>3, <2>5, HeadCopied
  <2>7. ASSUME last[r] \in ToSet(Chain(r)) PROVE PushSlot(r) \in ToSet(HeadersOf(mem', r))
    <3>1. PICK j \in 1 .. Len(Chain(r)) : last[r] = Chain(r)[j]
      <4>1. DOMAIN Chain(r) = 1 .. Len(Chain(r))
        BY <2>1, ListFacts DEF SubInv
      <4> QED BY <2>7, <4>1 DEF ToSet
    <3> QED BY <2>1, <3>1, CreatedIsIn
  <2>8. /\ Headers(r)' = HeadersOf(mem', r) /\ Headers(Parent[r])' = HeadersOf(mem', Parent[r])
        /\ Headers(Main)' = HeadersOf(mem', Main)
    BY HeadersAre
  <2> QED BY <2>6, <2>7, <2>8
<1>2. SubInv /\ [SubNext]_sub_vars => [Follow]_sub_vars
  BY <1>1
<1> HIDE DEF Follow
<1>3. SubSpec => [][Follow]_sub_vars
  BY <1>2, SubInvariance, PTL DEF SubSpec
<1> QED BY <1>3 DEF ParentsFollow, Follow

-----------------------------------------------------------------------------
(* What a removal does to a list. *)

\* Sequences of one and of two members.
LEMMA Tuples ==
    ASSUME NEW T, NEW a \in T, NEW b \in T
    PROVE  <<a>> \in Seq(T) /\ <<a, b>> \in Seq(T)
  OBVIOUS

\* A run without one of its slots.
LEMMA RunLess ==
    ASSUME NEW e \in Nat, NEW c \in Nat, NEW at \in 0 .. c - 1
    PROVE  /\ Shorter(Run(e, c), Run(e, at) \o Run(e + at + 1, c - at - 1), e + at)
           /\ at = 0 => Shorter(Run(e, c), Run(e + 1, c - 1), e + at)
           /\ at = c - 1 => Shorter(Run(e, c), Run(e, c - 1), e + at)
           /\ c = 1 => Shorter(Run(e, c), << >>, e + at)
<1>1. /\ at \in Nat /\ e + at + 1 \in Nat /\ c - at - 1 \in Nat
      /\ at = 0 => e + at + 1 = e + 1 /\ c - at - 1 = c - 1
      /\ at = c - 1 => c - at - 1 = 0
      /\ c = 1 => at = 0 /\ at = c - 1 /\ c - 1 = 0
  OBVIOUS
<1>2. PICK u \in Seq(Nat), v \in Seq(Nat) : u = Run(e, at) /\ v = Run(e + at + 1, c - at - 1)
  BY <1>1, RunType
<1>3. Run(e, c) = (u \o <<e + at>>) \o v
  BY <1>2, RunAround
<1>4. Shorter(Run(e, c), u \o v, e + at)
  BY <1>3 DEF Shorter
<1>5. (u = << >> => u \o v = v) /\ (v = << >> => u \o v = u)
  BY ConcatEmptySeq
<1>6. at = 0 => u = << >> /\ v = Run(e + 1, c - 1)
  BY <1>1, <1>2, RunNone
<1>7. at = c - 1 => v = << >> /\ u = Run(e, c - 1)
  BY <1>1, <1>2, RunNone
<1>8. c = 1 => u = << >> /\ v = << >>
  BY <1>1, <1>6, <1>7, RunNone
<1> QED BY <1>2, <1>4, <1>5, <1>6, <1>7, <1>8

\* rs are the slots of the parts s.
AreRuns(rs, m, s) ==
    /\ rs \in Seq(Seq(Nat)) /\ Len(rs) = Len(s)
    /\ \A k \in 1 .. Len(s) : rs[k] = RunIn(m, s[k])

\* The slots of a list's parts.
LEMMA ListRuns ==
    ASSUME NEW m, Heap(m), NEW q \in Requests, NEW s, s = ChainOf(m, q),
           NEW rs, rs = RunsOf(m, s)
    PROVE  AreRuns(rs, m, s)
<1>1. s \in Seq(Addresses)
  BY ChainFacts
<1> QED BY <1>1, RunsAre DEF AreRuns

\* A list loses the slot x if the slots of its j-th part lose it.
LEMMA ListLoses ==
    ASSUME NEW m, Heap(m), NEW n, Heap(n), NEW q \in Requests,
           NEW s, s = ChainOf(m, q), NEW t, t = ChainOf(n, q),
           NEW j \in 1 .. Len(s), NEW mid \in Seq(Seq(Nat)),
           IsAround(RunsOf(n, t), Seq(Nat), RunsOf(m, s), j, mid),
           NEW x \in Nat, Shorter(RunIn(m, s[j]), FlattenSeq(mid), x)
    PROVE  Gone(HeadersOf(m, q), HeadersOf(n, q), x)
<1>1. s \in Seq(Addresses) /\ t \in Seq(Addresses)
  BY ChainFacts
<1>2. PICK rs, rt : rs = RunsOf(m, s) /\ rt = RunsOf(n, t)
  OBVIOUS
<1>3. rs \in Seq(Seq(Nat)) /\ j \in 1 .. Len(rs) /\ rs[j] = RunIn(m, s[j])
  BY <1>1, <1>2, RunsAre
<1>4. Replaced(rt, rs, j, mid)
  BY <1>2, <1>3, ReplacedIf
<1>5. Gone(FlattenSeq(rs), FlattenSeq(rt), x)
  <2>1. Shorter(rs[j], FlattenSeq(mid), x)
    BY <1>3
  <2> QED BY <1>3, <1>4, <2>1, OneGone
<1> QED BY <1>2, <1>5 DEF HeadersOf

\* Where no part of a list changes, nor do its headers.
LEMMA ListStays ==
    ASSUME NEW m, Heap(m), NEW n, Heap(n), NEW q \in Requests, NEW s, s = ChainOf(m, q),
           \A k \in 1 .. Len(s) : n[s[k]] = m[s[k]]
    PROVE  ChainOf(n, q) = s /\ HeadersOf(n, q) = HeadersOf(m, q)
<1>1. ChainOf(n, q) = s
  BY ChainSame
<1>2. s \in Seq(Addresses) /\ DOMAIN s = 1 .. Len(s)
  BY ChainFacts
<1>3. RunsOf(n, s) = RunsOf(m, s)
  BY <1>2 DEF RunsOf, RunIn
<1> QED BY <1>1, <1>3 DEF HeadersOf

\* A part of a list changes its slots, but not its place.
LEMMA PartLoses ==
    ASSUME NEW m, Heap(m), NEW n, Heap(n), NEW q \in Requests, NEW s, s = ChainOf(m, q),
           NEW j \in 1 .. Len(s), \A k \in 1 .. Len(s) : k /= j => n[s[k]] = m[s[k]],
           n[s[j]].next = m[s[j]].next, NEW x \in Nat,
           Shorter(RunIn(m, s[j]), RunIn(n, s[j]), x)
    PROVE  ChainOf(n, q) = s /\ Gone(HeadersOf(m, q), HeadersOf(n, q), x)
<1>1. ChainOf(n, q) = s
  <2>1. \A k \in 1 .. Len(s) : n[s[k]].next = m[s[k]].next
    OBVIOUS
  <2> QED BY <2>1, ChainSame
<1>2. s \in Seq(Addresses) /\ Len(s) \in Nat /\ s[j] \in Addresses
  BY ChainFacts
<1>3. PICK run \in Seq(Nat) : run = RunIn(n, s[j])
  BY <1>2, CellTypes, RunType DEF RunIn
<1>4. PICK rs, rt : rs = RunsOf(m, s) /\ rt = RunsOf(n, s)
  OBVIOUS
<1>5. /\ rs \in Seq(Seq(Nat)) /\ rt \in Seq(Seq(Nat)) /\ Len(rs) = Len(s) /\ Len(rt) = Len(s)
      /\ \A k \in 1 .. Len(s) : k /= j => rt[k] = rs[k]
      /\ rt[j] = run
  <2>1. /\ rs \in Seq(Seq(Nat)) /\ Len(rs) = Len(s)
        /\ \A k \in 1 .. Len(s) : rs[k] = RunIn(m, s[k])
    <3>1. AreRuns(rs, m, s)
      BY <1>4, ListRuns
    <3> QED BY <3>1 DEF AreRuns
  <2>2. /\ rt \in Seq(Seq(Nat)) /\ Len(rt) = Len(s)
        /\ \A k \in 1 .. Len(s) : rt[k] = RunIn(n, s[k])
    <3>1. AreRuns(rt, n, s)
      BY <1>1, <1>4, ListRuns
    <3> QED BY <3>1 DEF AreRuns
  <2>3. \A k \in 1 .. Len(s) : k /= j => RunIn(n, s[k]) = RunIn(m, s[k])
    BY DEF RunIn
  <2> QED BY <1>3, <2>1, <2>2, <2>3
<1>6. IsAround(rt, Seq(Nat), rs, j, <<run>>)
  <2>1. Len(<<run>>) = 1 /\ <<run>>[1] = run
    OBVIOUS
  <2>2. Len(rt) = Len(rs) - 1 + 1 /\ j - 1 + 1 = j
    BY <1>2, <1>5
  <2>3. \A k \in 1 .. j - 1 : rt[k] = rs[k]
    <3>1. \A k \in 1 .. j - 1 : k \in 1 .. Len(s) /\ k /= j
      BY <1>2
    <3> QED BY <1>5, <3>1
  <2>4. \A k \in j + 1 .. Len(rs) : rt[k - 1 + 1] = rs[k]
    <3>1. \A k \in j + 1 .. Len(s) : k \in 1 .. Len(s) /\ k /= j /\ k - 1 + 1 = k
      BY <1>2
    <3> QED BY <1>5, <3>1
  <2>5. \A k \in 1 .. 1 : rt[j - 1 + k] = <<run>>[k]
    <3>1. \A k \in 1 .. 1 : k = 1
      OBVIOUS
    <3> QED BY <1>5, <2>1, <2>2, <3>1
  <2> QED BY <1>5, <2>1, <2>2, <2>3, <2>4, <2>5 DEF IsAround
<1>7. <<run>> \in Seq(Seq(Nat)) /\ FlattenSeq(<<run>>) = run
  BY FlattenOne
<1>8. Gone(HeadersOf(m, q), HeadersOf(n, q), x)
  <2>1. PICK mid \in Seq(Seq(Nat)) : mid = <<run>>
    BY <1>7
  <2>2. IsAround(RunsOf(n, s), Seq(Nat), RunsOf(m, s), j, mid)
    BY <1>4, <1>6, <2>1
  <2>3. Shorter(RunIn(m, s[j]), FlattenSeq(mid), x)
    BY <1>3, <1>7, <2>1
  <2> QED BY <1>1, <2>2, <2>3, ListLoses
<1> QED BY <1>1, <1>8

\* A part goes out of a list: that at place p, of the places j and j + 1 between
\* which its pointer is passed.
LEMMA PartGoes ==
    ASSUME NEW m, Heap(m), NEW n, Heap(n), NEW q \in Requests, NEW s, s = ChainOf(m, q),
           NEW j \in 1 .. Len(s) - 1, NEW p \in {j, j + 1}, NEW o \in {j, j + 1}, o /= p,
           \A k \in 1 .. Len(s) : k \notin {j, j + 1} => n[s[k]] = m[s[k]],
           n[s[j]].next = m[s[j + 1]].next,
           n[s[j]].elts = m[s[o]].elts, n[s[j]].nelts = m[s[o]].nelts,
           NEW x \in Nat, Shorter(RunIn(m, s[p]), << >>, x)
    PROVE  Gone(HeadersOf(m, q), HeadersOf(n, q), x)
<1>1. PICK t : t = ChainOf(n, q)
  OBVIOUS
<1>2. s \in Seq(Addresses) /\ Len(s) \in Nat /\ \A j1, k1 \in 1 .. Len(s) : s[j1] = s[k1] => j1 = k1
  BY ChainFacts
<1>3. \A k \in 1 .. Len(s) : k \notin {j, j + 1} => n[s[k]].next = m[s[k]].next
  OBVIOUS
<1>4. /\ ChainOf(n, q) = t /\ t \in Seq(Addresses) /\ Len(t) = Len(s) - 1
      /\ \A k \in 1 .. Len(s) - 1 : t[k] = IF k <= j THEN s[k] ELSE s[k + 1]
  <2>1. IsCut(t, s, j)
    BY <1>1, <1>3, ChainCut
  <2>2. t \in Seq(Addresses)
    BY <1>1, ChainFacts
  <2> QED BY <1>1, <2>1, <2>2 DEF IsCut
<1>a. PICK rs : rs = RunsOf(m, s)
  OBVIOUS
<1>b. PICK rt : rt = RunsOf(n, t)
  OBVIOUS
<1>6. /\ rs \in Seq(Seq(Nat)) /\ rt \in Seq(Seq(Nat)) /\ Len(rs) = Len(s) /\ Len(rt) = Len(s) - 1
      /\ \A k \in 1 .. Len(s) : rs[k] = RunIn(m, s[k])
      /\ \A k \in 1 .. Len(s) - 1 : rt[k] = RunIn(n, t[k])
  <2>1. /\ rs \in Seq(Seq(Nat)) /\ Len(rs) = Len(s)
        /\ \A k \in 1 .. Len(s) : rs[k] = RunIn(m, s[k])
    <3>1. AreRuns(rs, m, s)
      BY <1>a, ListRuns
    <3> QED BY <3>1 DEF AreRuns
  <2>2. /\ rt \in Seq(Seq(Nat)) /\ Len(rt) = Len(t)
        /\ \A k \in 1 .. Len(t) : rt[k] = RunIn(n, t[k])
    <3>1. AreRuns(rt, n, t)
      BY <1>1, <1>b, ListRuns
    <3> QED BY <3>1 DEF AreRuns
  <2> QED BY <1>4, <2>1, <2>2
<1>7. /\ j \in Nat /\ j >= 1 /\ j < Len(s) /\ p \in 1 .. Len(s) /\ o \in 1 .. Len(s)
      /\ j \in 1 .. Len(s) - 1 /\ j <= j
      /\ (p = j /\ o = j + 1) \/ (p = j + 1 /\ o = j)
  BY <1>2
<1>8. rt[j] = rs[o]
  <2>1. t[j] = s[j]
    BY <1>4, <1>7
  <2>2. RunIn(n, s[j]) = RunIn(m, s[o])
    BY DEF RunIn
  <2> QED BY <1>6, <1>7, <2>1, <2>2
<1>9. ASSUME NEW k \in 1 .. Len(s) - 1, k < j PROVE rt[k] = rs[k]
  <2>1. k \in 1 .. Len(s) /\ k \notin {j, j + 1} /\ k <= j
    BY <1>2, <1>7, <1>9
  <2>2. RunIn(n, s[k]) = RunIn(m, s[k])
    BY <2>1 DEF RunIn
  <2> QED BY <1>4, <1>6, <2>1, <2>2
<1>10. ASSUME NEW k \in 1 .. Len(s) - 1, k > j PROVE rt[k] = rs[k + 1]
  <2>1. k + 1 \in 1 .. Len(s) /\ k + 1 \notin {j, j + 1} /\ ~(k <= j)
    BY <1>2, <1>7, <1>10
  <2>2. RunIn(n, s[k + 1]) = RunIn(m, s[k + 1])
    BY <2>1 DEF RunIn
  <2> QED BY <1>4, <1>6, <2>1, <2>2
<1>11. IsAround(rt, Seq(Nat), rs, p, << >>)
  <2>1. Len(<< >>) = 0 /\ Len(rt) = Len(rs) - 1 + 0
    BY <1>2, <1>6
  <2>2. ASSUME NEW k \in 1 .. p - 1 PROVE rt[k] = rs[k]
    <3>1. k \in 1 .. Len(s) - 1 /\ (k < j \/ (k = j /\ p = j + 1 /\ o = j))
      BY <1>2, <1>7
    <3> QED BY <1>8, <1>9, <3>1
  <2>3. ASSUME NEW k \in p + 1 .. Len(rs) PROVE rt[k - 1 + 0] = rs[k]
    <3>1. /\ k - 1 + 0 = k - 1 /\ k - 1 \in 1 .. Len(s) - 1 /\ k - 1 + 1 = k
          /\ k - 1 > j \/ (k - 1 = j /\ p = j /\ o = k)
      <4>1. k \in Nat /\ k >= p + 1 /\ k <= Len(s) /\ p \in Nat
        BY <1>2, <1>6, <1>7
      <4> QED BY ONLY <1>2, <1>7, <4>1
    <3> QED BY <1>8, <1>10, <3>1
  <2>4. \A k \in 1 .. 0 : rt[p - 1 + k] = << >>[k]
    OBVIOUS
  <2> QED BY <1>6, <2>1, <2>2, <2>3, <2>4 DEF IsAround
<1>12. << >> \in Seq(Seq(Nat)) /\ FlattenSeq(<< >>) = << >>
  BY FlattenNone
<1>13. PICK mid \in Seq(Seq(Nat)) : mid = << >>
  BY <1>12
<1>14. IsAround(RunsOf(n, t), Seq(Nat), RunsOf(m, s), p, mid)
  BY <1>a, <1>b, <1>11, <1>13
<1>15. Shorter(RunIn(m, s[p]), FlattenSeq(mid), x)
  BY <1>12, <1>13
<1> QED BY <1>4, <1>7, <1>14, <1>15, ListLoses

\* A part of a list is split in two.
LEMMA PartSplits ==
    ASSUME NEW m, Heap(m), NEW n, Heap(n), NEW q \in Requests, NEW s, s = ChainOf(m, q),
           NEW j \in 1 .. Len(s), NEW f \in Addresses,
           \A k \in 1 .. Len(s) : k /= j => n[s[k]] = m[s[k]],
           n[s[j]].next = f, n[f].next = m[s[j]].next, NEW x \in Nat,
           Shorter(RunIn(m, s[j]),
                   RunIn(n, s[j]) \o RunIn(n, f), x)
    PROVE  Gone(HeadersOf(m, q), HeadersOf(n, q), x)
<1>1. PICK t : t = ChainOf(n, q)
  OBVIOUS
<1>2. s \in Seq(Addresses) /\ Len(s) \in Nat /\ \A k \in 1 .. Len(s) : s[k] \in Addresses
  BY ChainFacts
<1>3. \A k \in 1 .. Len(s) : k /= j => n[s[k]].next = m[s[k]].next
  OBVIOUS
<1>4. /\ ChainOf(n, q) = t /\ t \in Seq(Addresses) /\ Len(t) = Len(s) + 1
      /\ \A k \in 1 .. Len(s) + 1 :
            t[k] = IF k <= j THEN s[k] ELSE IF k = j + 1 THEN f ELSE s[k - 1]
  <2>1. IsLonger(t, s, j, f)
    BY <1>1, <1>3, ChainLonger
  <2>2. t \in Seq(Addresses)
    BY <1>1, ChainFacts
  <2> QED BY <1>1, <2>1, <2>2 DEF IsLonger
<1>a. PICK rs : rs = RunsOf(m, s)
  OBVIOUS
<1>b. PICK rt : rt = RunsOf(n, t)
  OBVIOUS
<1>6. /\ rs \in Seq(Seq(Nat)) /\ rt \in Seq(Seq(Nat)) /\ Len(rs) = Len(s) /\ Len(rt) = Len(s) + 1
      /\ \A k \in 1 .. Len(s) : rs[k] = RunIn(m, s[k])
      /\ \A k \in 1 .. Len(s) + 1 : rt[k] = RunIn(n, t[k])
  <2>1. /\ rs \in Seq(Seq(Nat)) /\ Len(rs) = Len(s)
        /\ \A k \in 1 .. Len(s) : rs[k] = RunIn(m, s[k])
    <3>1. AreRuns(rs, m, s)
      BY <1>a, ListRuns
    <3> QED BY <3>1 DEF AreRuns
  <2>2. /\ rt \in Seq(Seq(Nat)) /\ Len(rt) = Len(t)
        /\ \A k \in 1 .. Len(t) : rt[k] = RunIn(n, t[k])
    <3>1. AreRuns(rt, n, t)
      BY <1>1, <1>b, ListRuns
    <3> QED BY <3>1 DEF AreRuns
  <2> QED BY <1>4, <2>1, <2>2
<1>7. PICK left \in Seq(Nat), right \in Seq(Nat) :
         left = RunIn(n, s[j]) /\ right = RunIn(n, f)
  BY <1>2, CellTypes, RunType DEF RunIn
<1>8. j \in Nat /\ j >= 1 /\ j <= Len(s) /\ j \in 1 .. Len(s) + 1 /\ j + 1 \in 1 .. Len(s) + 1
      /\ ~(j + 1 <= j) /\ j <= j
  BY <1>2
<1>9. rt[j] = left /\ rt[j + 1] = right
  <2>1. t[j] = s[j] /\ t[j + 1] = f
    BY <1>4, <1>8
  <2> QED BY <1>6, <1>7, <1>8, <2>1
<1>10. ASSUME NEW k \in 1 .. j - 1 PROVE rt[k] = rs[k]
  <2>1. k \in 1 .. Len(s) /\ k \in 1 .. Len(s) + 1 /\ k /= j /\ k <= j
    BY <1>2, <1>8
  <2>2. RunIn(n, s[k]) = RunIn(m, s[k])
    BY <2>1 DEF RunIn
  <2> QED BY <1>4, <1>6, <2>1, <2>2
<1>11. ASSUME NEW k \in j + 1 .. Len(s) PROVE rt[k + 1] = rs[k]
  <2>1. /\ k \in 1 .. Len(s) /\ k + 1 \in 1 .. Len(s) + 1 /\ k /= j /\ ~(k + 1 <= j) /\ k + 1 /= j + 1
        /\ k + 1 - 1 = k
    BY <1>2, <1>8
  <2>2. RunIn(n, s[k]) = RunIn(m, s[k])
    BY <2>1 DEF RunIn
  <2>3. t[k + 1] = s[k]
    <3>1. PICK h : h = k + 1 /\ h \in 1 .. Len(s) + 1 /\ ~(h <= j) /\ h /= j + 1 /\ h - 1 = k
      BY <2>1
    <3>2. t[h] = s[h - 1]
      BY <1>4, <3>1
    <3> QED BY <3>1, <3>2
  <2>4. rt[k + 1] = RunIn(n, t[k + 1])
    BY <1>6, <2>1
  <2> QED BY <1>6, <2>1, <2>2, <2>3, <2>4
<1>12. PICK mid \in Seq(Seq(Nat)) : mid = <<left, right>>
  BY Tuples
<1>13. IsAround(rt, Seq(Nat), rs, j, mid)
  <2>1. Len(mid) = 2 /\ mid[1] = left /\ mid[2] = right
    BY <1>12
  <2>2. Len(rt) = Len(rs) - 1 + 2 /\ j - 1 + 1 = j /\ j - 1 + 2 = j + 1
    BY <1>2, <1>6, <1>8
  <2>3. \A k \in 1 .. 2 : rt[j - 1 + k] = mid[k]
    <3>1. \A k \in 1 .. 2 : k = 1 \/ k = 2
      OBVIOUS
    <3> QED BY <1>9, <2>1, <2>2, <3>1
  <2>4. \A k \in j + 1 .. Len(rs) : rt[k - 1 + 2] = rs[k]
    <3>1. \A k \in j + 1 .. Len(s) : k - 1 + 2 = k + 1
      BY <1>2, <1>8
    <3> QED BY <1>6, <1>11, <3>1
  <2> QED BY <1>6, <1>10, <2>1, <2>2, <2>3, <2>4 DEF IsAround
<1>14. FlattenSeq(mid) = left \o right
  <2>1. PICK one \in Seq(Seq(Nat)) : one = <<left>>
    BY Tuples
  <2>2. mid = Append(one, right)
    BY <1>12, <2>1
  <2>3. FlattenSeq(one) = left
    BY <2>1, FlattenOne
  <2>4. FlattenSeq(Append(one, right)) = FlattenSeq(one) \o right
    BY FlattenAppend
  <2> QED BY <2>2, <2>3, <2>4
<1>15. Shorter(RunIn(m, s[j]), FlattenSeq(mid), x)
  BY <1>7, <1>14
<1> QED BY <1>4, <1>a, <1>b, <1>13, <1>15, ListLoses

\* The request q loses the slot x, or sees the same headers as before.
LosesOrStays(n, q, x) ==
    \/ Gone(HeadersOf(mem, q), HeadersOf(n, q), x)
    \/ HeadersOf(n, q) = HeadersOf(mem, q)

\* The part a is in the list s.
OnList(s, a) == \E j \in 1 .. Len(s) : s[j] = a

\* The facts of the list s of the request q.
ListOf(s, q) ==
    /\ s = ChainOf(mem, q) /\ s = Chain(q)
    /\ Len(s) \in Nat /\ Len(s) >= 1 /\ s[1] = q
    /\ \A k \in 1 .. Len(s) : s[k] \in Addresses /\ s[k] /= fresh
    /\ \A k \in 1 .. Len(s) - 1 : mem[s[k]].next = s[k + 1]
    /\ mem[s[Len(s)]].next = NULL
    /\ \A j, k \in 1 .. Len(s) : s[j] = s[k] => j = k
    /\ \A k \in 2 .. Len(s) : s[k] \in 1 .. MaxAddr

\* There is one.
LEMMA ListExists ==
    ASSUME SubInv, NEW q \in Requests
    PROVE  \E s : ListOf(s, q)
<1>1. PICK s : s = Chain(q) /\ s = ChainOf(mem, q)
  BY ChainsAre
<1>2. /\ Len(s) \in Nat /\ Len(s) >= 1 /\ s[1] = q
      /\ \A k \in 1 .. Len(s) : s[k] \in Addresses
      /\ \A k \in 1 .. Len(s) - 1 : mem[s[k]].next = s[k + 1]
      /\ mem[s[Len(s)]].next = NULL
      /\ \A j, k \in 1 .. Len(s) : s[j] = s[k] => j = k
      /\ \A k \in 2 .. Len(s) : s[k] \in 1 .. MaxAddr
  <2>1. Heap(mem)
    BY DEF SubInv
  <2> QED BY <1>1, <2>1, ChainFacts
<1>3. ASSUME NEW k \in 1 .. Len(s) PROVE s[k] /= fresh
  <2>1. Chain(q)[k] \in Requests \/ Chain(q)[k] \in 1 .. fresh - 1
    BY <1>1, ChainPooled
  <2>2. fresh \in Nat /\ fresh \notin 1 .. fresh - 1
    BY SubFacts
  <2>3. fresh \notin Requests
    BY <2>2, AddressAssumption
  <2> QED BY <1>1, <2>1, <2>2, <2>3
<1> QED BY <1>1, <1>2, <1>3 DEF ListOf

\* A header goes from an end of a part, or a part's only header goes and it stays.
LEMMA ShrunkList ==
    ASSUME SubInv, NEW q \in Requests, NEW n, Heap(n), NEW s, ListOf(s, q), NEW cur \in Addresses,
           NEW elts, NEW nelts, Shrunk(n, cur, elts, nelts), NEW x \in Nat,
           Shorter(RunIn(mem, cur), Run(elts, nelts), x)
    PROVE  LosesOrStays(n, q, x) /\ (OnList(s, cur) => Gone(HeadersOf(mem, q), HeadersOf(n, q), x))
<1>1. /\ \A a \in Addresses \ {cur} : n[a] = mem[a]
      /\ n[cur] = [elts |-> elts, nelts |-> nelts, next |-> mem[cur].next, end |-> mem[cur].end]
  BY DEF Shrunk, Became
<1>2. /\ s = ChainOf(mem, q) /\ \A k \in 1 .. Len(s) : s[k] \in Addresses
      /\ \A j, k \in 1 .. Len(s) : s[j] = s[k] => j = k
  BY DEF ListOf
<1>3. Heap(mem)
  BY DEF SubInv
<1>4. CASE ~OnList(s, cur)
  <2>1. \A k \in 1 .. Len(s) : n[s[k]] = mem[s[k]]
    BY <1>1, <1>2, <1>4 DEF OnList
  <2>2. HeadersOf(n, q) = HeadersOf(mem, q)
    BY <1>2, <1>3, <2>1, ListStays
  <2> QED BY <1>4, <2>2 DEF LosesOrStays
<1>5. CASE OnList(s, cur)
  <2>1. PICK j \in 1 .. Len(s) : s[j] = cur
    BY <1>5 DEF OnList
  <2>2. \A k \in 1 .. Len(s) : k /= j => n[s[k]] = mem[s[k]]
    BY <1>1, <1>2, <2>1
  <2>3. n[s[j]].next = mem[s[j]].next /\ RunIn(n, s[j]) = Run(elts, nelts)
    BY <1>1, <2>1 DEF RunIn
  <2>4. Shorter(RunIn(mem, s[j]), RunIn(n, s[j]), x)
    BY <2>1, <2>3
  <2>5. Gone(HeadersOf(mem, q), HeadersOf(n, q), x)
    BY <1>2, <1>3, <2>2, <2>3, <2>4, PartLoses
  <2> QED BY <2>5 DEF LosesOrStays
<1> QED BY <1>4, <1>5

\* A part goes with its only header.
LEMMA UnlinkedList ==
    ASSUME SubInv, NEW q \in Requests, NEW n, Heap(n), NEW s, ListOf(s, q),
           NEW b \in Addresses, NEW cur \in Addresses, b /= cur, mem[b].next = cur,
           Unlinked(n, b, cur, mem[cur].next), NEW x \in Nat,
           Shorter(RunIn(mem, cur), << >>, x)
    PROVE  LosesOrStays(n, q, x) /\ (OnList(s, b) => Gone(HeadersOf(mem, q), HeadersOf(n, q), x))
<1>1. /\ \A a \in Addresses \ {b, cur} : n[a] = mem[a]
      /\ n[cur] = [elts |-> mem[cur].elts + 1, nelts |-> 0, next |-> mem[cur].next,
                   end |-> mem[cur].end]
      /\ n[b] = [elts |-> mem[b].elts, nelts |-> mem[b].nelts, next |-> mem[cur].next,
                 end |-> mem[b].end]
  BY DEF Unlinked, Became
<1>2. /\ s = ChainOf(mem, q) /\ \A k \in 1 .. Len(s) : s[k] \in Addresses
      /\ \A j, k \in 1 .. Len(s) : s[j] = s[k] => j = k
      /\ \A k \in 1 .. Len(s) - 1 : mem[s[k]].next = s[k + 1]
      /\ mem[s[Len(s)]].next = NULL /\ Len(s) \in Nat
  BY DEF ListOf
<1>3. Heap(mem) /\ mem[cur].elts \in Nat
  BY CellTypes DEF SubInv
<1>4. CASE ~OnList(s, b) /\ ~OnList(s, cur)
  <2>1. \A k \in 1 .. Len(s) : n[s[k]] = mem[s[k]]
    BY <1>1, <1>2, <1>4 DEF OnList
  <2>2. HeadersOf(n, q) = HeadersOf(mem, q)
    BY <1>2, <1>3, <2>1, ListStays
  <2> QED BY <1>4, <2>2 DEF LosesOrStays
<1>5. CASE ~OnList(s, b) /\ OnList(s, cur)
  <2>1. PICK j \in 1 .. Len(s) : s[j] = cur
    BY <1>5 DEF OnList
  <2>2. \A k \in 1 .. Len(s) : k /= j => n[s[k]] = mem[s[k]]
    BY <1>1, <1>2, <1>5, <2>1 DEF OnList
  <2>3. n[s[j]].next = mem[s[j]].next
    BY <1>1, <2>1
  <2>4. RunIn(n, s[j]) = << >>
    <3>1. mem[cur].elts + 1 \in Nat
      BY <1>3
    <3>2. Run(mem[cur].elts + 1, 0) = << >>
      BY <3>1, RunNone
    <3> QED BY <1>1, <2>1, <3>2 DEF RunIn
  <2>5. Shorter(RunIn(mem, s[j]), RunIn(n, s[j]), x)
    BY <2>1, <2>4
  <2>6. Gone(HeadersOf(mem, q), HeadersOf(n, q), x)
    BY <1>2, <1>3, <2>2, <2>3, <2>5, PartLoses
  <2> QED BY <1>5, <2>6 DEF LosesOrStays
<1>6. CASE OnList(s, b)
  <2>1. PICK j \in 1 .. Len(s) : s[j] = b
    BY <1>6 DEF OnList
  <2>2. j /= Len(s)
    BY <1>2, <2>1, NoAddress
  <2>3. j \in 1 .. Len(s) - 1 /\ j + 1 \in 1 .. Len(s) /\ j \in 1 .. Len(s) /\ j /= j + 1
    BY <1>2, <2>2
  <2>4. s[j + 1] = cur
    BY <1>2, <2>1, <2>3
  <2>5. \A k \in 1 .. Len(s) : k \notin {j, j + 1} => n[s[k]] = mem[s[k]]
    BY <1>1, <1>2, <2>1, <2>3, <2>4
  <2>6. PICK p \in {j, j + 1} : p = j + 1
    OBVIOUS
  <2>7. /\ n[s[j]].next = mem[s[j + 1]].next
        /\ n[s[j]].elts = mem[s[j]].elts /\ n[s[j]].nelts = mem[s[j]].nelts
    BY <1>1, <2>1, <2>4
  <2>8. Shorter(RunIn(mem, s[p]), << >>, x)
    BY <2>4, <2>6
  <2>9. PICK o \in {j, j + 1} : o = j /\ o /= p
    BY <2>3, <2>6
  <2>10. n[s[j]].elts = mem[s[o]].elts /\ n[s[j]].nelts = mem[s[o]].nelts
    BY <2>7, <2>9
  <2>11. Gone(HeadersOf(mem, q), HeadersOf(n, q), x)
    BY <1>2, <1>3, <2>3, <2>5, <2>7, <2>8, <2>9, <2>10, PartGoes
  <2> QED BY <2>11 DEF LosesOrStays
<1> QED BY <1>4, <1>5, <1>6

\* The part behind the embedded one is copied over it.
LEMMA CopiedList ==
    ASSUME SubInv, NEW r \in Requests, NEW q \in Requests, NEW n, Heap(n), NEW s, ListOf(s, q),
           mem[r].next \in Addresses, \A a \in Addresses \ {r} : n[a] = mem[a],
           n[r] = mem[mem[r].next], NEW x \in Nat, Shorter(RunIn(mem, r), << >>, x)
    PROVE  LosesOrStays(n, q, x) /\ (q = r => Gone(HeadersOf(mem, q), HeadersOf(n, q), x))
<1>2. /\ s = ChainOf(mem, q) /\ \A k \in 1 .. Len(s) : s[k] \in Addresses
      /\ \A j, k \in 1 .. Len(s) : s[j] = s[k] => j = k
      /\ \A k \in 1 .. Len(s) - 1 : mem[s[k]].next = s[k + 1]
      /\ mem[s[Len(s)]].next = NULL /\ Len(s) \in Nat /\ Len(s) >= 1 /\ s[1] = q
      /\ \A k \in 2 .. Len(s) : s[k] \in 1 .. MaxAddr
  BY DEF ListOf
<1>3. Heap(mem)
  BY DEF SubInv
<1>4. ASSUME NEW k \in 1 .. Len(s), k /= 1 PROVE s[k] /= r /\ n[s[k]] = mem[s[k]]
  <2>1. k \in 2 .. Len(s)
    BY <1>2, <1>4
  <2> QED BY <1>2, <2>1, Embedded
<1>5. CASE q /= r
  <2>1. \A k \in 1 .. Len(s) : n[s[k]] = mem[s[k]]
    BY <1>2, <1>4, <1>5
  <2>2. HeadersOf(n, q) = HeadersOf(mem, q)
    BY <1>2, <1>3, <2>1, ListStays
  <2> QED BY <1>5, <2>2 DEF LosesOrStays
<1>6. CASE q = r
  <2>1. Len(s) /= 1
    BY <1>2, <1>6, NoAddress
  <2>2. 1 \in 1 .. Len(s) - 1 /\ 2 \in 1 .. Len(s) /\ 1 + 1 = 2 /\ 1 \in 1 .. Len(s)
    <3>1. PICK len \in Nat : len = Len(s) /\ len >= 1 /\ len /= 1
      BY <1>2, <2>1
    <3>2. 1 \in 1 .. len - 1 /\ 2 \in 1 .. len /\ 1 \in 1 .. len
      BY ONLY <3>1
    <3> QED BY <3>1, <3>2
  <2>3. PICK j \in 1 .. Len(s) - 1 : j = 1
    BY <2>2
  <2>4. j + 1 = 2 /\ s[j] = r /\ s[j + 1] = mem[r].next
    BY <1>2, <1>6, <2>2, <2>3
  <2>5. PICK p \in {j, j + 1} : p = j
    OBVIOUS
  <2>6. PICK o \in {j, j + 1} : o = j + 1 /\ o /= p
    BY <2>3, <2>5
  <2>7. \A k \in 1 .. Len(s) : k \notin {j, j + 1} => n[s[k]] = mem[s[k]]
    BY <1>4, <2>3
  <2>8. /\ n[s[j]].next = mem[s[j + 1]].next
        /\ n[s[j]].elts = mem[s[o]].elts /\ n[s[j]].nelts = mem[s[o]].nelts
    BY <2>4, <2>6
  <2>9. Shorter(RunIn(mem, s[p]), << >>, x)
    BY <2>4, <2>5
  <2>10. Gone(HeadersOf(mem, q), HeadersOf(n, q), x)
    BY <1>2, <1>3, <2>6, <2>7, <2>8, <2>9, PartGoes
  <2> QED BY <2>10 DEF LosesOrStays
<1> QED BY <1>5, <1>6

\* A part is split.
LEMMA SplitList ==
    ASSUME SubInv, NEW q \in Requests, NEW n, Heap(n), NEW s, ListOf(s, q), NEW cur \in Addresses,
           NEW at \in Nat, Split(n, cur, at), fresh \in Addresses, cur /= fresh, NEW x \in Nat,
           Shorter(RunIn(mem, cur),
                   Run(mem[cur].elts, at) \o Run(mem[cur].elts + at + 1, mem[cur].nelts - at - 1), x)
    PROVE  LosesOrStays(n, q, x) /\ (OnList(s, cur) => Gone(HeadersOf(mem, q), HeadersOf(n, q), x))
<1>1. /\ \A a \in Addresses \ {cur, fresh} : n[a] = mem[a]
      /\ n[cur] = [elts |-> mem[cur].elts, nelts |-> at, next |-> fresh, end |-> mem[cur].end]
      /\ n[fresh] = [elts |-> mem[cur].elts + at + 1, nelts |-> mem[cur].nelts - at - 1,
                     next |-> mem[cur].next, end |-> mem[cur].end]
  BY DEF Split, Became
<1>2. /\ s = ChainOf(mem, q) /\ \A k \in 1 .. Len(s) : s[k] \in Addresses /\ s[k] /= fresh
      /\ \A j, k \in 1 .. Len(s) : s[j] = s[k] => j = k
  BY DEF ListOf
<1>3. Heap(mem)
  BY DEF SubInv
<1>4. CASE ~OnList(s, cur)
  <2>1. \A k \in 1 .. Len(s) : n[s[k]] = mem[s[k]]
    BY <1>1, <1>2, <1>4 DEF OnList
  <2>2. HeadersOf(n, q) = HeadersOf(mem, q)
    BY <1>2, <1>3, <2>1, ListStays
  <2> QED BY <1>4, <2>2 DEF LosesOrStays
<1>5. CASE OnList(s, cur)
  <2>1. PICK j \in 1 .. Len(s) : s[j] = cur
    BY <1>5 DEF OnList
  <2>2. \A k \in 1 .. Len(s) : k /= j => n[s[k]] = mem[s[k]]
    BY <1>1, <1>2, <2>1
  <2>3. PICK f \in Addresses : f = fresh
    OBVIOUS
  <2>4. n[s[j]].next = f /\ n[f].next = mem[s[j]].next
    BY <1>1, <2>1, <2>3
  <2>5. RunIn(n, s[j]) = Run(mem[cur].elts, at)
        /\ RunIn(n, f) = Run(mem[cur].elts + at + 1, mem[cur].nelts - at - 1)
    BY <1>1, <2>1, <2>3 DEF RunIn
  <2>6. Shorter(RunIn(mem, s[j]), RunIn(n, s[j]) \o RunIn(n, f), x)
    BY <2>1, <2>5
  <2>7. Gone(HeadersOf(mem, q), HeadersOf(n, q), x)
    BY <1>2, <1>3, <2>2, <2>4, <2>6, PartSplits
  <2> QED BY <2>7 DEF LosesOrStays
<1> QED BY <1>4, <1>5

\* A removal takes its header from the list of its request, and from those of others
\* this one or none.
LEMMA ListsLose ==
    ASSUME SubInv, NEW r \in Requests, NEW q \in Requests, NEW k, NEW cur, NEW at,
           Spot(r, k, cur, at), NEW n, Heap(n), Removal(n, r, k, cur, at),
           cur = last[r] => mem[cur].next = NULL
    PROVE  /\ mem[cur].elts + at \in Nat
           /\ LosesOrStays(n, q, mem[cur].elts + at)
           /\ q = r => Gone(HeadersOf(mem, q), HeadersOf(n, q), mem[cur].elts + at)
<1> DEFINE e == mem[cur].elts  c == mem[cur].nelts  b == Chain(r)[k - 1]
<1>0. /\ k \in 1 .. Len(Chain(r)) /\ cur = Chain(r)[k] /\ cur \in Addresses
      /\ e \in Nat /\ c \in Nat /\ at \in Nat /\ at < c
      /\ k = 1 <=> cur = r
      /\ k > 1 => b \in Addresses /\ b /= cur /\ mem[b].next = cur
  BY SpotFacts
<1>1. PICK s : ListOf(s, q)
  BY ListExists
<1>2. PICK x \in Nat : x = e + at
  BY <1>0
<1>3. /\ Shorter(Run(e, c), Run(e, at) \o Run(e + at + 1, c - at - 1), x)
      /\ at = 0 => Shorter(Run(e, c), Run(e + 1, c - 1), x)
      /\ at = c - 1 => Shorter(Run(e, c), Run(e, c - 1), x)
      /\ c = 1 => Shorter(Run(e, c), << >>, x)
  <2>1. at \in 0 .. c - 1
    BY <1>0
  <2> QED BY <1>0, <1>2, <2>1, RunLess
<1>4. RunIn(mem, cur) = Run(e, c)
  BY DEF RunIn
<1>5. q = r => OnList(s, cur)
  BY <1>0, <1>1 DEF OnList, ListOf
<1>6. q = r /\ k > 1 => OnList(s, b)
  <2>1. ASSUME q = r, k > 1 PROVE OnList(s, b)
    <3>1. k - 1 \in 1 .. Len(Chain(r)) /\ s = Chain(r)
      <4>1. Len(Chain(r)) \in Nat
        BY SubFacts, ListFacts
      <4> QED BY <1>0, <1>1, <2>1, <4>1 DEF ListOf
    <3> QED BY <3>1 DEF OnList
  <2> QED BY <2>1
<1> DEFINE Lost == LosesOrStays(n, q, x) /\ (q = r => Gone(HeadersOf(mem, q), HeadersOf(n, q), x))
<1>7. ASSUME NEW elts, NEW nelts, Shrunk(n, cur, elts, nelts), Shorter(Run(e, c), Run(elts, nelts), x)
      PROVE  Lost
  <2>1. Shorter(RunIn(mem, cur), Run(elts, nelts), x)
    BY <1>4, <1>7
  <2>2. LosesOrStays(n, q, x) /\ (OnList(s, cur) => Gone(HeadersOf(mem, q), HeadersOf(n, q), x))
    BY <1>0, <1>1, <1>7, <2>1, ShrunkList
  <2> QED BY <1>5, <2>2
<1>8. ASSUME k > 1, c = 1, Unlinked(n, b, cur, mem[cur].next)
      PROVE  Lost
  <2>1. Shorter(RunIn(mem, cur), << >>, x)
    BY <1>3, <1>4, <1>8
  <2>2. PICK bb \in Addresses : bb = b
    BY <1>0, <1>8
  <2>3. bb /= cur /\ mem[bb].next = cur /\ Unlinked(n, bb, cur, mem[cur].next)
    BY <1>0, <1>8, <2>2
  <2>4. LosesOrStays(n, q, x) /\ (OnList(s, bb) => Gone(HeadersOf(mem, q), HeadersOf(n, q), x))
    BY <1>0, <1>1, <2>1, <2>3, UnlinkedList
  <2> QED BY <1>6, <1>8, <2>2, <2>4
<1>9. ASSUME k = 1, c = 1, mem[r].next \in Addresses, \A a \in Addresses \ {r} : n[a] = mem[a],
             n[r] = mem[mem[r].next]
      PROVE  Lost
  <2>1. Shorter(RunIn(mem, r), << >>, x)
    BY <1>0, <1>3, <1>4, <1>9
  <2>2. LosesOrStays(n, q, x) /\ (q = r => Gone(HeadersOf(mem, q), HeadersOf(n, q), x))
    BY <1>1, <1>9, <2>1, CopiedList
  <2> QED BY <2>2
<1>10. ASSUME Split(n, cur, at), fresh <= MaxAddr
       PROVE  Lost
  <2>1. Shorter(RunIn(mem, cur), Run(mem[cur].elts, at) \o
                Run(mem[cur].elts + at + 1, mem[cur].nelts - at - 1), x)
    BY <1>3, <1>4
  <2>2. fresh \in Addresses
    BY <1>10, FreshFacts
  <2>3. cur /= fresh
    <3>1. PICK w : ListOf(w, r)
      BY ListExists
    <3> QED BY <1>0, <3>1 DEF ListOf
  <2>4. LosesOrStays(n, q, x) /\ (OnList(s, cur) => Gone(HeadersOf(mem, q), HeadersOf(n, q), x))
    BY <1>0, <1>1, <1>10, <2>1, <2>2, <2>3, SplitList
  <2> QED BY <1>5, <2>4
<1>11. c = 1 => Shorter(Run(e, c), Run(e, 0), x)
  BY <1>0, <1>3, RunNone
<1> HIDE DEF Lost
<1>12. Lost
  <2>1. CASE at = 0 /\ c > 1 /\ Shrunk(n, cur, e + 1, c - 1)
    BY <1>3, <1>7, <2>1
  <2>2. CASE at > 0 /\ at = c - 1 /\ Shrunk(n, cur, e, c - 1)
    BY <1>3, <1>7, <2>2
  <2>3. CASE at = 0 /\ c = 1 /\ k = 1 /\ cur = last[r] /\ Shrunk(n, cur, e, 0)
    BY <1>7, <1>11, <2>3
  <2>4. CASE at = 0 /\ c = 1 /\ k > 1 /\ cur = last[r] /\ Unlinked(n, b, cur, NULL)
    BY <1>8, <2>4
  <2>5. CASE at = 0 /\ c = 1 /\ k > 1 /\ cur /= last[r] /\ Unlinked(n, b, cur, mem[cur].next)
    BY <1>8, <2>5
  <2>6. CASE at = 0 /\ c = 1 /\ k = 1 /\ cur /= last[r] /\ mem[r].next \in Addresses
                 /\ (\A a \in Addresses \ {r} : n[a] = mem[a]) /\ n[r] = mem[mem[r].next]
    BY <1>9, <2>6
  <2>7. CASE Splits(cur, at) /\ fresh <= MaxAddr /\ Split(n, cur, at)
    BY <1>10, <2>7
  <2> QED BY <2>1, <2>2, <2>3, <2>4, <2>5, <2>6, <2>7 DEF Removal
<1> QED BY <1>0, <1>2, <1>12 DEF Lost

\* Without is what is left when one header goes of a list that has none twice.
LEMMA GoneIsWithout ==
    ASSUME NEW before \in Seq(Nat), NEW after, NEW x, Gone(before, after, x), IsInjective(before)
    PROVE  after = Without(before, x)
<1>1. PICK p : p \in DOMAIN before /\ after = RemoveAt(before, p) /\ before[p] = x
  BY DEF Gone, GoneAt
<1>2. Lacks(after, before, p) /\ after \in Seq(Nat)
  BY <1>1, RemovedLacks
<1>3. /\ p \in 1 .. Len(before) /\ Len(before) \in Nat /\ DOMAIN before = 1 .. Len(before)
      /\ Len(after) = Len(before) - 1
      /\ \A q \in 1 .. Len(after) : after[q] = before[Past(p, q)]
  BY <1>2 DEF Lacks
<1>4. \A a, b \in DOMAIN before : before[a] = before[b] => a = b
  BY DEF IsInjective
<1> DEFINE P == {k \in DOMAIN before : before[k] /= x}
           Q == 1 .. Len(after)
<1>5. p \notin P
  BY <1>1
<1>6. ASSUME NEW q \in 1 .. Len(after) PROVE q \in Q <=> Past(p, q) \in P
  <2>1. Past(p, q) \in 1 .. Len(before) /\ Past(p, q) /= p
    BY <1>3, Skips
  <2> QED BY <1>1, <1>3, <1>4, <2>1
<1>7. Without(before, x) = Pick(before, P)
  BY DEF Without
<1>8. \A q \in 1 .. Len(after) : q \in Q
  OBVIOUS
<1> HIDE DEF P, Q
<1>9. Pick(before, P) = Pick(after, Q)
  BY <1>2, <1>5, <1>6, PickRemoved
<1>10. Pick(after, Q) = after
  BY <1>2, <1>8, PickAll
<1> QED BY <1>7, <1>9, <1>10

\* RemovesOne: a removal takes the header it found, and no other, from the list of its
\* request, if this owns the list's end; parents and subrequests lose this one or none.
THEOREM RemovalTakesOne == SubSpec => RemovesOne
<1> DEFINE One ==
        \A r \in started : \A cur \in ToSet(Chain(r)) : \A i \in 0 .. mem[cur].nelts - 1 :
          Delete(r, cur, i) /\ Own(r) /\ IsInjective(Headers(r)) =>
             \A q \in started :
                LET before == Headers(q)
                    after == Headers(q)'
                    lost == Without(before, mem[cur].elts + i)
                IN  IF q = r THEN after = lost
                    ELSE IsInjective(before) => after \in {before, lost}
<1>1. SubInv => One
  <2> SUFFICES ASSUME SubInv, NEW r \in started, NEW cur \in ToSet(Chain(r)),
                      NEW at \in 0 .. mem[cur].nelts - 1,
                      Delete(r, cur, at), Own(r), IsInjective(Headers(r)), NEW q \in started
               PROVE  LET before == Headers(q)
                          after == Headers(q)'
                          lost == Without(before, mem[cur].elts + at)
                      IN  IF q = r THEN after = lost
                          ELSE IsInjective(before) => after \in {before, lost}
    BY Zenon
  <2>1. r \in Requests /\ q \in Requests
    BY DEF SubInv
  <2>2. PICK k : Spot(r, k, cur, at)
    BY <2>1, SpotIs
  <2>3. /\ ~AssertsNext(r, cur, at) /\ (Splits(cur, at) => fresh <= MaxAddr)
        /\ rm_header_helper(r, cur, at)
    BY DEF Delete
  <2>4. Removal(mem', r, k, cur, at)
    BY <2>1, <2>2, <2>3, RemovalIs
  <2>5. Heap(mem')
    <3>1. SubInv'
      BY <2>1, DeleteStep
    <3> QED BY <3>1 DEF SubInv
  <2>6. cur = last[r] => mem[cur].next = NULL
    BY DEF Own
  <2> DEFINE x == mem[cur].elts + at
  <2>7. /\ x \in Nat /\ LosesOrStays(mem', q, x)
        /\ q = r => Gone(HeadersOf(mem, q), HeadersOf(mem', q), x)
    BY <2>1, <2>2, <2>4, <2>5, <2>6, ListsLose
  <2> HIDE DEF x
  <2>8. PICK before, after : /\ before = Headers(q) /\ before = HeadersOf(mem, q)
                             /\ after = Headers(q)' /\ after = HeadersOf(mem', q)
    BY HeadersAre
  <2>9. before \in Seq(Nat)
    BY <2>1, <2>8, HeadersType DEF SubInv
  <2>10. Gone(before, after, x) /\ IsInjective(before) => after = Without(before, x)
    BY <2>9, GoneIsWithout
  <2>11. q = r => after = Without(before, x)
    BY <2>7, <2>8, <2>10
  <2>12. IsInjective(before) => after \in {before, Without(before, x)}
    BY <2>7, <2>8, <2>10 DEF LosesOrStays
  <2> QED BY <2>8, <2>11, <2>12 DEF x
<1>2. SubInv /\ [SubNext]_sub_vars => [One]_sub_vars
  BY <1>1
<1> HIDE DEF One
<1>3. SubSpec => [][One]_sub_vars
  BY <1>2, SubInvariance, PTL DEF SubSpec
<1> QED BY <1>3 DEF RemovesOne, One

-----------------------------------------------------------------------------
(* The main request's list, as NgxList has it. *)

\* A part and its address.
AddressIn(a) == IF a = Main THEN 0 ELSE a
PartIn(m, a) ==
    [addr |-> AddressIn(a), elts |-> m[a].elts, nelts |-> m[a].nelts, end |-> m[a].end]
PartsOf(m, s) == [k \in DOMAIN s |-> PartIn(m, s[k])]

\* The list.
MainList(m, la, na) ==
    [parts |-> PartsOf(m, ChainOf(m, Main)), last |-> AddressIn(la[Main]), nalloc |-> na[Main]]

\* It ends in last.
MainEnds(m, la) == la[Main] = ChainOf(m, Main)[Len(ChainOf(m, Main))]

\* It does until a subrequest changes its own list.
AloneInv == changes = 0 => MainEnds(mem, last)

\* What the refinement mapping makes of it.
LEMMA MainListIs ==
    /\ [parts |-> AsParts, last |-> IF last[Main] = Main THEN 0 ELSE last[Main],
        nalloc |-> nalloc[Main]] = MainList(mem, last, nalloc)
    /\ [parts |-> AsParts, last |-> IF last[Main] = Main THEN 0 ELSE last[Main],
        nalloc |-> nalloc[Main]]' = MainList(mem', last', nalloc')
<1>1. AsParts = PartsOf(mem, ChainOf(mem, Main))
  <2>1. PICK s : s = Chain(Main) /\ s = ChainOf(mem, Main)
    BY ChainsAre
  <2> QED BY <2>1 DEF AsParts, PartsOf, PartIn, AddressIn
<1>2. AsParts' = PartsOf(mem', ChainOf(mem', Main))
  <2>1. PICK s : s = Chain(Main)' /\ s = ChainOf(mem', Main)
    BY ChainsAre
  <2> QED BY <2>1 DEF AsParts, PartsOf, PartIn, AddressIn
<1> QED BY <1>1, <1>2 DEF MainList, AddressIn

\* L is the list in the memory m, of the parts s.
IsMain(L, m, la, na, s) ==
    /\ L = MainList(m, la, na) /\ s = ChainOf(m, Main)
    /\ s \in Seq(Addresses) /\ Len(s) \in Nat /\ Len(s) >= 1 /\ DOMAIN s = 1 .. Len(s)
    /\ s[1] = Main /\ la[Main] = s[Len(s)]
    /\ \A k \in 1 .. Len(s) : s[k] \in Addresses
    /\ \A k \in 1 .. Len(s) - 1 : m[s[k]].next = s[k + 1]
    /\ m[s[Len(s)]].next = NULL
    /\ \A j, k \in 1 .. Len(s) : s[j] = s[k] => j = k
    /\ \A k \in 2 .. Len(s) : s[k] \in 1 .. MaxAddr
    /\ L.parts \in Seq(Parts!Part) /\ Len(L.parts) = Len(s) /\ DOMAIN L.parts = 1 .. Len(s)
    /\ \A k \in 1 .. Len(s) : L.parts[k] = PartIn(m, s[k])
    /\ L = [parts |-> L.parts, last |-> L.last, nalloc |-> L.nalloc]
    /\ L.last = AddressIn(s[Len(s)]) /\ L.nalloc = na[Main]

\* There is one.
LEMMA MainExists ==
    ASSUME NEW m, Heap(m), NEW la, NEW na, MainEnds(m, la)
    PROVE  \E L, s : IsMain(L, m, la, na, s)
<1>1. PICK s, L : s = ChainOf(m, Main) /\ L = MainList(m, la, na)
  OBVIOUS
<1>2. Main \in Requests
  BY DEF Requests
<1>3. /\ s \in Seq(Addresses) /\ Len(s) \in Nat /\ Len(s) >= 1 /\ DOMAIN s = 1 .. Len(s)
      /\ s[1] = Main
      /\ \A k \in 1 .. Len(s) : s[k] \in Addresses
      /\ \A k \in 1 .. Len(s) - 1 : m[s[k]].next = s[k + 1]
      /\ m[s[Len(s)]].next = NULL
      /\ \A j, k \in 1 .. Len(s) : s[j] = s[k] => j = k
      /\ \A k \in 2 .. Len(s) : s[k] \in 1 .. MaxAddr
  BY <1>1, <1>2, ChainFacts
<1>4. la[Main] = s[Len(s)]
  BY <1>1 DEF MainEnds
<1>5. L.parts = [k \in 1 .. Len(s) |-> PartIn(m, s[k])] /\ L.last = AddressIn(s[Len(s)])
      /\ L.nalloc = na[Main] /\ L = [parts |-> L.parts, last |-> L.last, nalloc |-> L.nalloc]
  BY <1>1, <1>3, <1>4 DEF MainList, PartsOf
<1>6. ASSUME NEW k \in 1 .. Len(s) PROVE PartIn(m, s[k]) \in Parts!Part
  <2>1. AddressIn(s[k]) \in Nat
    <3>1. CASE k = 1
      BY <1>3, <3>1 DEF AddressIn
    <3>2. CASE k /= 1
      <4>1. s[k] \in 1 .. MaxAddr
        BY <1>3, <3>2
      <4> QED BY <4>1 DEF AddressIn
    <3> QED BY <3>1, <3>2
  <2>2. m[s[k]].elts \in Nat /\ m[s[k]].nelts \in Nat /\ m[s[k]].end \in Nat
    BY <1>3, CellTypes
  <2> QED BY <2>1, <2>2 DEF PartIn, Parts!Part
<1>7. L.parts \in Seq(Parts!Part) /\ Len(L.parts) = Len(s) /\ DOMAIN L.parts = 1 .. Len(s)
      /\ \A k \in 1 .. Len(s) : L.parts[k] = PartIn(m, s[k])
  BY <1>3, <1>5, <1>6
<1>8. IsMain(L, m, la, na, s)
  BY <1>1, <1>3, <1>4, <1>5, <1>7 DEF IsMain
<1> QED BY <1>8

\* Its parts have their own addresses, and the last is its last.
LEMMA MainAddresses ==
    ASSUME NEW m, NEW la, NEW na, NEW L, NEW s, IsMain(L, m, la, na, s)
    PROVE  /\ \A k \in 1 .. Len(s) : /\ L.parts[k].addr = AddressIn(s[k])
                                     /\ L.parts[k].elts = m[s[k]].elts
                                     /\ L.parts[k].nelts = m[s[k]].nelts
                                     /\ L.parts[k].end = m[s[k]].end
           /\ \A j, k \in 1 .. Len(s) : AddressIn(s[j]) = AddressIn(s[k]) => j = k
           /\ \A k \in 1 .. Len(s) : /\ Parts!IsLast(L, k) <=> k = Len(s)
                                     /\ s[k] = la[Main] <=> k = Len(s)
           /\ Parts!LastIndex(L) = Len(s)
<1>1. /\ Len(s) \in Nat /\ Len(s) >= 1 /\ s[1] = Main /\ la[Main] = s[Len(s)]
      /\ \A j, k \in 1 .. Len(s) : s[j] = s[k] => j = k
      /\ \A k \in 2 .. Len(s) : s[k] \in 1 .. MaxAddr
      /\ DOMAIN L.parts = 1 .. Len(s)
      /\ \A k \in 1 .. Len(s) : L.parts[k] = PartIn(m, s[k])
      /\ L.last = AddressIn(s[Len(s)])
  BY DEF IsMain
<1>2. \A k \in 1 .. Len(s) : /\ L.parts[k].addr = AddressIn(s[k])
                             /\ L.parts[k].elts = m[s[k]].elts
                             /\ L.parts[k].nelts = m[s[k]].nelts
                             /\ L.parts[k].end = m[s[k]].end
  <2> SUFFICES ASSUME NEW k \in 1 .. Len(s), NEW part, part = L.parts[k]
               PROVE  /\ part.addr = AddressIn(s[k]) /\ part.elts = m[s[k]].elts
                      /\ part.nelts = m[s[k]].nelts /\ part.end = m[s[k]].end
    OBVIOUS
  <2>1. part = PartIn(m, s[k])
    BY <1>1
  <2> QED BY <2>1 DEF PartIn
<1>3. ASSUME NEW k \in 1 .. Len(s)
      PROVE  /\ k = 1 => AddressIn(s[k]) = 0
             /\ k /= 1 => AddressIn(s[k]) = s[k] /\ AddressIn(s[k]) /= 0
  <2>1. CASE k = 1
    BY <1>1, <2>1 DEF AddressIn
  <2>2. CASE k /= 1
    <3>1. s[k] \in 1 .. MaxAddr /\ s[k] /= Main
      BY <1>1, <2>2
    <3>2. s[k] /= 0
      BY <3>1
    <3> QED BY <2>2, <3>1, <3>2 DEF AddressIn
  <2> QED BY <2>1, <2>2
<1>4. \A j, k \in 1 .. Len(s) : AddressIn(s[j]) = AddressIn(s[k]) => j = k
  BY <1>1, <1>3
<1>5. Len(s) \in 1 .. Len(s)
  BY <1>1
<1>6. \A k \in 1 .. Len(s) : Parts!IsLast(L, k) <=> k = Len(s)
  BY <1>1, <1>2, <1>4, <1>5 DEF Parts!IsLast
<1>7. \A k \in 1 .. Len(s) : s[k] = la[Main] <=> k = Len(s)
  BY <1>1, <1>5
<1>8. Parts!LastIndex(L) = Len(s)
  <2>1. Parts!LastIndex(L) = CHOOSE k \in 1 .. Len(s) : L.parts[k].addr = L.last
    BY <1>1 DEF Parts!LastIndex
  <2>2. \A k \in 1 .. Len(s) : L.parts[k].addr = L.last <=> k = Len(s)
    BY <1>1, <1>2, <1>4, <1>5
  <2> QED BY <1>5, <2>1, <2>2
<1> QED BY <1>2, <1>4, <1>6, <1>7, <1>8

\* A list is another if its parts are the same.
LEMMA SameList ==
    ASSUME NEW m, NEW la, NEW na, NEW L, NEW s, IsMain(L, m, la, na, s),
           NEW M, NEW parts \in Seq(Parts!Part), Len(parts) = Len(s),
           \A k \in 1 .. Len(s) : parts[k] = PartIn(m, s[k]),
           M = [parts |-> parts, last |-> AddressIn(la[Main]), nalloc |-> na[Main]]
    PROVE  L = M
<1>1. /\ L.parts \in Seq(Parts!Part) /\ Len(L.parts) = Len(s) /\ DOMAIN L.parts = 1 .. Len(s)
      /\ \A k \in 1 .. Len(s) : L.parts[k] = PartIn(m, s[k])
      /\ L = [parts |-> L.parts, last |-> L.last, nalloc |-> L.nalloc]
      /\ L.last = AddressIn(la[Main]) /\ L.nalloc = na[Main]
  BY DEF IsMain
<1>2. parts = [k \in 1 .. Len(s) |-> parts[k]] /\ L.parts = [k \in 1 .. Len(s) |-> L.parts[k]]
  BY <1>1
<1>3. \A k \in 1 .. Len(s) : parts[k] = L.parts[k]
  BY <1>1
<1>4. parts = L.parts
  BY <1>2, <1>3
<1> QED BY <1>1, <1>4

\* The next part of the pool is not in the list.
LEMMA FreshBehind ==
    ASSUME SubInv, NEW L, NEW s, IsMain(L, mem, last, nalloc, s)
    PROVE  \A k \in 1 .. Len(s) : s[k] /= fresh
<1>1. Main \in Requests
  BY DEF Requests
<1>2. PICK w : ListOf(w, Main)
  BY <1>1, ListExists
<1>3. w = s
  BY <1>2 DEF ListOf, IsMain
<1> QED BY <1>2, <1>3 DEF ListOf

\* A header is pushed to the last part.
LEMMA MainPushedInLast ==
    ASSUME SubInv, NEW L, NEW s, IsMain(L, mem, last, nalloc, s), ~Full(Main),
           NEW n, Heap(n), PushedTo(n, Main),
           NEW la, la[Main] = last[Main], NEW na, na[Main] = nalloc[Main]
    PROVE  MainEnds(n, la) /\ MainList(n, la, na) = Parts!PushInLast(L)
<1>0. Main \in Requests /\ Heap(mem)
  BY DEF Requests, SubInv
<1>1. /\ s = ChainOf(mem, Main) /\ Len(s) \in Nat /\ Len(s) >= 1 /\ last[Main] = s[Len(s)]
      /\ \A k \in 1 .. Len(s) : s[k] \in Addresses
      /\ \A j, k \in 1 .. Len(s) : s[j] = s[k] => j = k
      /\ L.parts \in Seq(Parts!Part) /\ Len(L.parts) = Len(s) /\ DOMAIN L.parts = 1 .. Len(s)
      /\ \A k \in 1 .. Len(s) : L.parts[k] = PartIn(mem, s[k])
      /\ L = [parts |-> L.parts, last |-> L.last, nalloc |-> L.nalloc]
      /\ L.last = AddressIn(s[Len(s)]) /\ L.nalloc = nalloc[Main]
  BY DEF IsMain
<1>2. /\ \A a \in Addresses \ {last[Main]} : n[a] = mem[a]
      /\ n[last[Main]].next = mem[last[Main]].next
      /\ n[last[Main]].elts = mem[last[Main]].elts
      /\ n[last[Main]].nelts = mem[last[Main]].nelts + 1
      /\ n[last[Main]].end = mem[last[Main]].end
  BY DEF PushedTo
<1>3. ChainOf(n, Main) = s
  <2>1. \A k \in 1 .. Len(s) : n[s[k]].next = mem[s[k]].next
    BY <1>1, <1>2
  <2> QED BY <1>0, <1>1, <2>1, ChainSame
<1>4. MainEnds(n, la)
  BY <1>1, <1>3 DEF MainEnds
<1>5. PICK K, t : IsMain(K, n, la, na, t)
  BY <1>4, MainExists
<1>6. t = s /\ K = MainList(n, la, na)
  BY <1>3, <1>5 DEF IsMain
<1> DEFINE h == Len(s)
<1>7. h \in 1 .. Len(s)
  BY <1>1
<1>8. PICK p, x, y : /\ L = [parts |-> p, last |-> x, nalloc |-> y]
                     /\ p = L.parts /\ x = L.last /\ y = L.nalloc
  BY <1>1
<1>9. Parts!LastIndex(L) = h
  BY MainAddresses
<1> HIDE DEF h
<1>10. Parts!PushInLast(L) =
          [parts |-> [p EXCEPT ![h].nelts = @ + 1], last |-> x, nalloc |-> y]
  <2>1. Parts!PushInLast(L) = [L EXCEPT !.parts[h].nelts = @ + 1]
    BY <1>9 DEF Parts!PushInLast
  <2> QED BY <1>8, <2>1
<1>11. PICK w : w = [p EXCEPT ![h].nelts = @ + 1]
  OBVIOUS
<1>12. /\ p[h] \in Parts!Part /\ p[h] = PartIn(mem, s[h])
  BY <1>1, <1>7, <1>8
<1>13. w[h] = PartIn(n, s[h]) /\ w[h] \in Parts!Part
  <2>1. w[h] = [p[h] EXCEPT !.nelts = @ + 1]
    BY <1>1, <1>7, <1>8, <1>11
  <2>2. PICK q : q = p[h]
    OBVIOUS
  <2>3. /\ q = [addr |-> q.addr, elts |-> q.elts, nelts |-> q.nelts, end |-> q.end]
        /\ q \in Parts!Part
    BY <1>12, <2>2 DEF Parts!Part
  <2>4. w[h] = [addr |-> q.addr, elts |-> q.elts, nelts |-> q.nelts + 1, end |-> q.end]
    BY <2>1, <2>2, <2>3
  <2>5. /\ q.addr = AddressIn(s[h]) /\ q.elts = mem[s[h]].elts /\ q.nelts = mem[s[h]].nelts
        /\ q.end = mem[s[h]].end
    BY <1>12, <2>2 DEF PartIn
  <2>6. PartIn(n, s[h]) = [addr |-> q.addr, elts |-> q.elts, nelts |-> q.nelts + 1, end |-> q.end]
    BY <1>1, <1>2, <2>5 DEF PartIn, h
  <2>7. w[h] \in Parts!Part
    BY <2>3, <2>4 DEF Parts!Part
  <2> QED BY <2>4, <2>6, <2>7
<1>14. /\ w \in Seq(Parts!Part) /\ Len(w) = Len(s)
       /\ \A k \in 1 .. Len(s) : k /= h => w[k] = p[k]
  <2>1. w = [k \in 1 .. Len(s) |-> w[k]] /\ \A k \in 1 .. Len(s) : k /= h => w[k] = p[k]
    BY <1>1, <1>8, <1>11
  <2>2. \A k \in 1 .. Len(s) : w[k] \in Parts!Part
    BY <1>1, <1>8, <1>13, <2>1
  <2> QED BY <1>1, <2>1, <2>2
<1>15. \A k \in 1 .. Len(s) : w[k] = PartIn(n, s[k])
  <2> SUFFICES ASSUME NEW k \in 1 .. Len(s), k /= h PROVE w[k] = PartIn(n, s[k])
    BY <1>13
  <2>1. s[k] \in Addresses /\ s[k] /= last[Main]
    BY <1>1, <1>7 DEF h
  <2>2. n[s[k]] = mem[s[k]]
    BY <1>2, <2>1
  <2>3. p[k] = PartIn(mem, s[k])
    BY <1>1, <1>8
  <2> QED BY <1>14, <2>2, <2>3 DEF PartIn
<1>16. x = AddressIn(la[Main]) /\ y = na[Main]
  BY <1>1, <1>8
<1>17. K = [parts |-> w, last |-> x, nalloc |-> y]
  <2>1. PICK M : M = [parts |-> w, last |-> AddressIn(la[Main]), nalloc |-> na[Main]]
    OBVIOUS
  <2>2. IsMain(K, n, la, na, s)
    BY <1>5, <1>6
  <2>3. K = M
    BY <1>14, <1>15, <2>1, <2>2, SameList
  <2> QED BY <1>16, <2>1, <2>3
<1> QED BY <1>4, <1>6, <1>10, <1>11, <1>17

\* It gets a part of its own.
LEMMA MainPushedNewPart ==
    ASSUME SubInv, NEW L, NEW s, IsMain(L, mem, last, nalloc, s), Full(Main), fresh <= MaxAddr,
           NEW n, Heap(n), PushedTo(n, Main),
           NEW la, la[Main] = fresh, NEW na, na[Main] = nalloc[Main]
    PROVE  MainEnds(n, la) /\ MainList(n, la, na) = Parts!PushNewPart(L, brk, fresh)
<1>0. Main \in Requests /\ Heap(mem)
  BY DEF Requests, SubInv
<1>1. /\ s = ChainOf(mem, Main) /\ Len(s) \in Nat /\ Len(s) >= 1 /\ last[Main] = s[Len(s)]
      /\ \A k \in 1 .. Len(s) : s[k] \in Addresses
      /\ \A j, k \in 1 .. Len(s) : s[j] = s[k] => j = k
      /\ L.parts \in Seq(Parts!Part) /\ Len(L.parts) = Len(s) /\ DOMAIN L.parts = 1 .. Len(s)
      /\ \A k \in 1 .. Len(s) : L.parts[k] = PartIn(mem, s[k])
      /\ L = [parts |-> L.parts, last |-> L.last, nalloc |-> L.nalloc]
      /\ L.last = AddressIn(s[Len(s)]) /\ L.nalloc = nalloc[Main]
  BY DEF IsMain
<1>2. /\ \A a \in Addresses \ {last[Main], fresh} : n[a] = mem[a]
      /\ n[last[Main]].next = fresh
      /\ n[last[Main]].elts = mem[last[Main]].elts
      /\ n[last[Main]].nelts = mem[last[Main]].nelts
      /\ n[last[Main]].end = mem[last[Main]].end
      /\ n[fresh] = NewPart(Main)
  BY DEF PushedTo
<1>f. /\ fresh \in 1 .. MaxAddr /\ fresh \in Addresses
      /\ \A k \in 1 .. Len(s) : s[k] /= fresh
  BY FreshFacts, FreshBehind
<1>n. /\ NewPart(Main).next = NULL /\ NewPart(Main).elts = brk /\ NewPart(Main).nelts = 1
      /\ NewPart(Main).end = brk + nalloc[Main] /\ nalloc[Main] \in Nat /\ brk \in Nat
  BY <1>0, NewPartIs, SubFacts DEF NewPart
<1> DEFINE h == Len(s)
<1>7. h \in 1 .. Len(s) /\ h = Len(s)
  BY <1>1
<1>8. PICK f \in Addresses : f = fresh
  BY <1>f
<1> HIDE DEF h
<1>3. IsEnded(ChainOf(n, Main), s, h, f)
  <2>1. \A k \in 1 .. Len(s) : k /= h => n[s[k]].next = mem[s[k]].next
    BY <1>1, <1>2, <1>7, <1>f
  <2>2. n[s[h]].next = f /\ n[f].next = NULL
    BY <1>1, <1>2, <1>7, <1>8, <1>n
  <2> QED BY <1>0, <1>1, <1>7, <2>1, <2>2, ChainEnded
<1>4. MainEnds(n, la)
  <2>1. h + 1 \in 1 .. h + 1 /\ ~(h + 1 <= h)
    BY <1>1, <1>7
  <2> QED BY <1>3, <1>8, <2>1 DEF MainEnds, IsEnded
<1>5. PICK K, t : IsMain(K, n, la, na, t)
  BY <1>4, MainExists
<1>6. IsEnded(t, s, h, f) /\ K = MainList(n, la, na)
  BY <1>3, <1>5 DEF IsMain
<1>9. Parts!LastIndex(L) = h
  BY <1>7, MainAddresses
<1>10. PICK p, x, y : /\ L = [parts |-> p, last |-> x, nalloc |-> y]
                      /\ p = L.parts /\ x = L.last /\ y = L.nalloc
  BY <1>1
<1>11. PICK q : q = [addr |-> fresh, elts |-> brk, nelts |-> 1, end |-> brk + y]
  OBVIOUS
<1>12. Parts!PushNewPart(L, brk, fresh) =
          [parts |-> Append(SubSeq(p, 1, h), q), last |-> fresh, nalloc |-> y]
  <2>1. L.nalloc = y
    BY <1>10
  <2>2. Parts!PushNewPart(L, brk, fresh) =
           [L EXCEPT !.parts = Append(SubSeq(@, 1, h), q), !.last = fresh]
    BY <1>9, <1>11, <2>1 DEF Parts!PushNewPart
  <2>3. PICK M : M = [L EXCEPT !.parts = Append(SubSeq(@, 1, h), q)]
    OBVIOUS
  <2>4. M = [parts |-> Append(SubSeq(p, 1, h), q), last |-> x, nalloc |-> y]
    BY <1>10, <2>3
  <2>5. [M EXCEPT !.last = fresh] =
           [parts |-> Append(SubSeq(p, 1, h), q), last |-> fresh, nalloc |-> y]
    <3>1. PICK z, f2 : z = Append(SubSeq(p, 1, h), q) /\ f2 = fresh
      OBVIOUS
    <3>2. M = [parts |-> z, last |-> x, nalloc |-> y]
      BY <2>4, <3>1
    <3>3. [M EXCEPT !.last = f2] = [parts |-> z, last |-> f2, nalloc |-> y]
      BY ONLY <3>2
    <3> QED BY <3>1, <3>3
  <2> QED BY <2>2, <2>3, <2>5
<1>13. y = nalloc[Main] /\ p \in Seq(Parts!Part) /\ Len(p) = h
  BY <1>1, <1>7, <1>10
<1>14. q \in Parts!Part /\ q = PartIn(n, fresh)
  <2>1. brk + nalloc[Main] \in Nat /\ fresh \in Nat /\ fresh /= Main
    BY <1>0, <1>f, <1>n, Embedded
  <2>2. q \in Parts!Part
    BY <1>11, <1>13, <1>n, <2>1 DEF Parts!Part
  <2> QED BY <1>2, <1>11, <1>13, <1>n, <2>1, <2>2 DEF PartIn, AddressIn
<1>15. PICK w : w = Append(SubSeq(p, 1, h), q)
  OBVIOUS
<1>16. SubSeq(p, 1, h) = p
  BY <1>13
<1>17. /\ w \in Seq(Parts!Part) /\ Len(w) = h + 1 /\ w[h + 1] = q
       /\ \A k \in 1 .. h : w[k] = p[k]
  BY <1>13, <1>14, <1>15, <1>16
<1>18. Len(t) = h + 1 /\ \A k \in 1 .. Len(t) : t[k] = IF k <= h THEN s[k] ELSE f
  BY <1>6 DEF IsEnded
<1>19. ASSUME NEW k \in 1 .. Len(t) PROVE w[k] = PartIn(n, t[k])
  <2>1. CASE k <= h
    <3>1. k \in 1 .. h /\ k \in 1 .. Len(s)
      BY <1>7, <1>18, <2>1
    <3>2. t[k] = s[k] /\ w[k] = PartIn(mem, s[k])
      BY <1>1, <1>10, <1>17, <1>18, <2>1, <3>1
    <3>3. n[s[k]].elts = mem[s[k]].elts /\ n[s[k]].nelts = mem[s[k]].nelts
          /\ n[s[k]].end = mem[s[k]].end
      <4>1. s[k] \in Addresses /\ s[k] /= fresh
        BY <1>1, <1>f, <3>1
      <4> QED BY <1>2, <4>1
    <3> QED BY <3>2, <3>3 DEF PartIn
  <2>2. CASE ~(k <= h)
    <3>1. k = h + 1
      BY <1>1, <1>7, <1>18, <2>2
    <3> QED BY <1>8, <1>14, <1>17, <1>18, <2>2, <3>1
  <2> QED BY <2>1, <2>2
<1>20. fresh = AddressIn(la[Main]) /\ y = na[Main]
  <2>1. fresh /= Main
    BY <1>0, <1>f, Embedded
  <2> QED BY <1>13, <2>1 DEF AddressIn
<1>21. K = [parts |-> w, last |-> fresh, nalloc |-> y]
  <2>1. PICK M : M = [parts |-> w, last |-> AddressIn(la[Main]), nalloc |-> na[Main]]
    OBVIOUS
  <2>2. Len(w) = Len(t)
    BY <1>17, <1>18
  <2>3. K = M
    BY <1>5, <1>17, <1>19, <2>1, <2>2, SameList
  <2> QED BY <1>20, <2>1, <2>3
<1> QED BY <1>4, <1>6, <1>12, <1>15, <1>21

\* What a removal makes of last and nalloc, in each of its ways.
LEMMA RemovalEndsAre ==
    ASSUME SubInv, NEW r \in Requests, NEW k, NEW cur, NEW at, Spot(r, k, cur, at),
           rm_header_helper(r, cur, at), NEW c, c = mem[cur].nelts, NEW next, next = mem[r].next
    PROVE  /\ at = 0 /\ c > 1 =>
                 /\ last'[r] = last[r]
                 /\ nalloc'[r] = IF cur = last[r] THEN nalloc[r] - 1 ELSE nalloc[r]
           /\ at > 0 /\ at = c - 1 =>
                 /\ last'[r] = last[r]
                 /\ nalloc'[r] = IF cur = last[r] THEN c - 1 ELSE nalloc[r]
           /\ at = 0 /\ c = 1 /\ k = 1 /\ cur = last[r] =>
                 last'[r] = last[r] /\ nalloc'[r] = nalloc[r]
           /\ at = 0 /\ c = 1 /\ k > 1 /\ cur = last[r] =>
                 last'[r] = Chain(r)[k - 1] /\ nalloc'[r] = mem[Chain(r)[k - 1]].nelts
           /\ at = 0 /\ c = 1 /\ k > 1 /\ cur /= last[r] =>
                 last'[r] = last[r] /\ nalloc'[r] = nalloc[r]
           /\ at = 0 /\ c = 1 /\ k = 1 /\ cur /= last[r] =>
                 /\ last'[r] = IF next = last[r] THEN r ELSE last[r]
                 /\ nalloc'[r] = IF next = last[r] THEN mem[next].nelts ELSE nalloc[r]
           /\ Splits(cur, at) =>
                 /\ last'[r] = IF cur = last[r] THEN fresh ELSE last[r]
                 /\ nalloc'[r] = IF cur = last[r] THEN c - at - 1 ELSE nalloc[r]
<1>0. /\ cur \in Addresses /\ c \in Nat /\ at \in Nat /\ at < c /\ k \in Nat
      /\ (k = 1 <=> cur = r)
      /\ k > 1 => Before(r, cur) = Chain(r)[k - 1]
  <2>1. Len(Chain(r)) \in Nat
    BY SubFacts, ListFacts
  <2>2. \A x \in 1 .. Len(Chain(r)) : x \in Nat
    BY <2>1
  <2> QED BY <2>2, SpotFacts
<1>1. last \in [Requests -> Addresses] /\ nalloc \in [Requests -> Int]
  BY DEF SubInv
<1>a. ASSUME NEW m, NEW la, NEW na, After(r, m, la, na)
      PROVE  last'[r] = la /\ nalloc'[r] = na
  BY <1>1, <1>a DEF After
<1>2. at = 0 /\ c > 1 =>
         /\ last'[r] = last[r]
         /\ nalloc'[r] = IF cur = last[r] THEN nalloc[r] - 1 ELSE nalloc[r]
  <2> SUFFICES ASSUME at = 0 /\ c > 1
               PROVE  /\ last'[r] = last[r]
                      /\ nalloc'[r] = IF cur = last[r] THEN nalloc[r] - 1 ELSE nalloc[r]
    OBVIOUS
  <2>1. RmFirst(r, cur)
    BY <1>0 DEF rm_header_helper, Only, Splits
  <2> QED BY <1>a, <2>1 DEF RmFirst, IsLast
<1>3. at > 0 /\ at = c - 1 =>
         /\ last'[r] = last[r]
         /\ nalloc'[r] = IF cur = last[r] THEN c - 1 ELSE nalloc[r]
  <2> SUFFICES ASSUME at > 0 /\ at = c - 1
               PROVE  /\ last'[r] = last[r]
                      /\ nalloc'[r] = IF cur = last[r] THEN c - 1 ELSE nalloc[r]
    OBVIOUS
  <2>1. RmTail(r, cur)
    BY <1>0 DEF rm_header_helper, Only, Splits
  <2> QED BY <1>a, <2>1 DEF RmTail, IsLast
<1>4. at = 0 /\ c = 1 /\ k = 1 /\ cur = last[r] =>
         last'[r] = last[r] /\ nalloc'[r] = nalloc[r]
  <2> SUFFICES ASSUME at = 0 /\ c = 1 /\ k = 1 /\ cur = last[r]
               PROVE  last'[r] = last[r] /\ nalloc'[r] = nalloc[r]
    OBVIOUS
  <2>1. RmOnlyOfSoleLast(r)
    BY <1>0 DEF rm_header_helper, Only, Splits, IsLast
  <2> QED BY <1>a, <2>1 DEF RmOnlyOfSoleLast
<1>5. at = 0 /\ c = 1 /\ k > 1 /\ cur = last[r] =>
         last'[r] = Chain(r)[k - 1] /\ nalloc'[r] = mem[Chain(r)[k - 1]].nelts
  <2> SUFFICES ASSUME at = 0 /\ c = 1 /\ k > 1 /\ cur = last[r]
               PROVE  last'[r] = Chain(r)[k - 1] /\ nalloc'[r] = mem[Chain(r)[k - 1]].nelts
    OBVIOUS
  <2>1. RmOnlyOfLast(r, cur)
    BY <1>0 DEF rm_header_helper, Only, Splits, IsLast
  <2> QED BY <1>0, <1>a, <2>1 DEF RmOnlyOfLast
<1>6. at = 0 /\ c = 1 /\ k > 1 /\ cur /= last[r] =>
         last'[r] = last[r] /\ nalloc'[r] = nalloc[r]
  <2> SUFFICES ASSUME at = 0 /\ c = 1 /\ k > 1 /\ cur /= last[r]
               PROVE  last'[r] = last[r] /\ nalloc'[r] = nalloc[r]
    OBVIOUS
  <2>1. RmOnlyOfMiddle(r, cur)
    BY <1>0 DEF rm_header_helper, Only, Splits, IsLast
  <2> QED BY <1>a, <2>1 DEF RmOnlyOfMiddle
<1>7. at = 0 /\ c = 1 /\ k = 1 /\ cur /= last[r] =>
         /\ last'[r] = IF next = last[r] THEN r ELSE last[r]
         /\ nalloc'[r] = IF next = last[r] THEN mem[next].nelts ELSE nalloc[r]
  <2> SUFFICES ASSUME at = 0 /\ c = 1 /\ k = 1 /\ cur /= last[r]
               PROVE  /\ last'[r] = IF next = last[r] THEN r ELSE last[r]
                      /\ nalloc'[r] = IF next = last[r] THEN mem[next].nelts ELSE nalloc[r]
    OBVIOUS
  <2>1. RmOnlyOfEmbedded(r)
    BY <1>0 DEF rm_header_helper, Only, Splits, IsLast
  <2> QED BY <1>a, <2>1 DEF RmOnlyOfEmbedded, IsLast
<1>8. Splits(cur, at) =>
         /\ last'[r] = IF cur = last[r] THEN fresh ELSE last[r]
         /\ nalloc'[r] = IF cur = last[r] THEN c - at - 1 ELSE nalloc[r]
  <2> SUFFICES ASSUME Splits(cur, at)
               PROVE  /\ last'[r] = IF cur = last[r] THEN fresh ELSE last[r]
                      /\ nalloc'[r] = IF cur = last[r] THEN c - at - 1 ELSE nalloc[r]
    OBVIOUS
  <2>1. RmSplit(r, cur, at)
    BY <1>0 DEF rm_header_helper, Only, Splits
  <2> QED BY <1>a, <2>1 DEF RmSplit, IsLast
<1> QED BY <1>2, <1>3, <1>4, <1>5, <1>6, <1>7, <1>8

\* A header goes from an end of a part, or a part's only header goes and it stays.
LEMMA MainShrunk ==
    ASSUME SubInv, NEW L, NEW s, IsMain(L, mem, last, nalloc, s), NEW k \in 1 .. Len(s),
           NEW elts \in Nat, NEW nelts \in Nat, NEW n, Heap(n), Shrunk(n, s[k], elts, nelts),
           NEW la, la[Main] = last[Main], NEW na, NEW x, NEW y, x = L.last, y = na[Main],
           NEW q, q = [addr |-> L.parts[k].addr, elts |-> elts, nelts |-> nelts,
                       end |-> L.parts[k].end]
    PROVE  /\ MainEnds(n, la)
           /\ MainList(n, la, na) = [parts |-> [L.parts EXCEPT ![k] = q], last |-> x, nalloc |-> y]
<1>0. Main \in Requests /\ Heap(mem)
  BY DEF Requests, SubInv
<1>1. /\ s = ChainOf(mem, Main) /\ Len(s) \in Nat /\ Len(s) >= 1 /\ last[Main] = s[Len(s)]
      /\ \A j \in 1 .. Len(s) : s[j] \in Addresses
      /\ \A j, h \in 1 .. Len(s) : s[j] = s[h] => j = h
      /\ L.parts \in Seq(Parts!Part) /\ Len(L.parts) = Len(s) /\ DOMAIN L.parts = 1 .. Len(s)
      /\ \A j \in 1 .. Len(s) : L.parts[j] = PartIn(mem, s[j])
      /\ L.last = AddressIn(s[Len(s)])
  BY DEF IsMain
<1>2. PICK cur \in Addresses : cur = s[k]
  BY <1>1
<1>3. /\ \A a \in Addresses \ {cur} : n[a] = mem[a]
      /\ n[cur].elts = elts /\ n[cur].nelts = nelts /\ n[cur].next = mem[cur].next
      /\ n[cur].end = mem[cur].end
  BY <1>2 DEF Shrunk, Became
<1>4. ChainOf(n, Main) = s
  <2>1. \A j \in 1 .. Len(s) : n[s[j]].next = mem[s[j]].next
    BY <1>1, <1>3
  <2> QED BY <1>0, <1>1, <2>1, ChainSame
<1>5. MainEnds(n, la)
  BY <1>1, <1>4 DEF MainEnds
<1>6. PICK K, t : IsMain(K, n, la, na, t)
  BY <1>5, MainExists
<1>7. IsMain(K, n, la, na, s) /\ K = MainList(n, la, na)
  BY <1>4, <1>6 DEF IsMain
<1>8. PICK w : w = [L.parts EXCEPT ![k] = q]
  OBVIOUS
<1>9. q = PartIn(n, s[k]) /\ q \in Parts!Part
  <2>1. PICK p : p = L.parts[k]
    OBVIOUS
  <2>2. p \in Parts!Part /\ p = PartIn(mem, cur)
    BY <1>1, <1>2, <2>1
  <2>3. p.addr = AddressIn(cur) /\ p.end = mem[cur].end /\ p.addr \in Nat /\ p.end \in Nat
    BY <2>2 DEF PartIn, Parts!Part
  <2>4. q = [addr |-> p.addr, elts |-> elts, nelts |-> nelts, end |-> p.end]
    BY <2>1
  <2>5. q \in Parts!Part
    BY <2>3, <2>4 DEF Parts!Part
  <2>6. q = PartIn(n, cur)
    BY <1>3, <2>3, <2>4 DEF PartIn
  <2> QED BY <1>2, <2>5, <2>6
<1>10. /\ w \in Seq(Parts!Part) /\ Len(w) = Len(s) /\ w[k] = q
       /\ \A j \in 1 .. Len(s) : j /= k => w[j] = L.parts[j]
  <2>1. /\ w = [j \in 1 .. Len(s) |-> w[j]] /\ w[k] = q
        /\ \A j \in 1 .. Len(s) : j /= k => w[j] = L.parts[j]
    BY <1>1, <1>8
  <2>2. \A j \in 1 .. Len(s) : w[j] \in Parts!Part
    BY <1>1, <1>9, <2>1
  <2> QED BY <1>1, <2>1, <2>2
<1>11. \A j \in 1 .. Len(s) : w[j] = PartIn(n, s[j])
  <2> SUFFICES ASSUME NEW j \in 1 .. Len(s), j /= k PROVE w[j] = PartIn(n, s[j])
    BY <1>9, <1>10
  <2>1. s[j] \in Addresses /\ s[j] /= cur
    BY <1>1, <1>2
  <2>2. n[s[j]] = mem[s[j]]
    BY <1>3, <2>1
  <2> QED BY <1>1, <1>10, <2>2 DEF PartIn
<1>12. PICK M : M = [parts |-> w, last |-> AddressIn(la[Main]), nalloc |-> na[Main]]
  OBVIOUS
<1>13. K = M
  BY <1>7, <1>10, <1>11, <1>12, SameList
<1> QED BY <1>1, <1>5, <1>7, <1>8, <1>12, <1>13

\* NgxList's rm_header_helper in each of its ways.
LEMMA HelperIs ==
    ASSUME NEW m, Heap(m), NEW la, NEW na, NEW L, NEW s, IsMain(L, m, la, na, s),
           NEW k \in 1 .. Len(s), NEW c, c = m[s[k]].nelts, NEW at \in 0 .. c - 1, NEW f,
           NEW M, M = Parts!rm_header_helper(L, k, at, f)
    PROVE  /\ Parts!RmNeedsPart(L, k, at) <=> at > 0 /\ at < c - 1
           /\ at = 0 /\ c > 1 => M = Parts!RmFirst(L, k)
           /\ at > 0 /\ at = c - 1 => M = Parts!RmTail(L, k)
           /\ at = 0 /\ c = 1 /\ k = 1 /\ k = Len(s) => M = Parts!RmOnlyOfSoleLast(L)
           /\ at = 0 /\ c = 1 /\ k > 1 /\ k = Len(s) => M = Parts!RmOnlyOfLast(L, k)
           /\ at = 0 /\ c = 1 /\ k > 1 /\ k /= Len(s) => M = Parts!RmOnlyOfMiddle(L, k)
           /\ at = 0 /\ c = 1 /\ k = 1 /\ k /= Len(s) => M = Parts!RmOnlyOfEmbedded(L)
           /\ at > 0 /\ at < c - 1 => M = Parts!RmSplit(L, k, at, f)
<1>1. Len(s) \in Nat /\ s[k] \in Addresses
  BY DEF IsMain
<1>2. c \in Nat
  BY <1>1, CellTypes
<1>3. at \in Nat /\ at < c /\ k \in Nat /\ k >= 1
  BY <1>1, <1>2
<1>4. L.parts[k].nelts = c /\ (Parts!IsLast(L, k) <=> k = Len(s))
  BY MainAddresses
<1>5. Parts!RmNeedsPart(L, k, at) <=> at > 0 /\ at < c - 1
  BY <1>4 DEF Parts!RmNeedsPart
<1>6. at = 0 /\ c > 1 => M = Parts!RmFirst(L, k)
  BY <1>3, <1>4, <1>5 DEF Parts!rm_header_helper
<1>7. at > 0 /\ at = c - 1 => M = Parts!RmTail(L, k)
  BY <1>2, <1>3, <1>4, <1>5 DEF Parts!rm_header_helper
<1>8. at = 0 /\ c = 1 /\ k = 1 /\ k = Len(s) => M = Parts!RmOnlyOfSoleLast(L)
  BY <1>3, <1>4, <1>5 DEF Parts!rm_header_helper
<1>9. at = 0 /\ c = 1 /\ k > 1 /\ k = Len(s) => M = Parts!RmOnlyOfLast(L, k)
  BY <1>3, <1>4, <1>5 DEF Parts!rm_header_helper
<1>10. at = 0 /\ c = 1 /\ k > 1 /\ k /= Len(s) => M = Parts!RmOnlyOfMiddle(L, k)
  BY <1>3, <1>4, <1>5 DEF Parts!rm_header_helper
<1>11. at = 0 /\ c = 1 /\ k = 1 /\ k /= Len(s) => M = Parts!RmOnlyOfEmbedded(L)
  BY <1>3, <1>4, <1>5 DEF Parts!rm_header_helper
<1>12. at > 0 /\ at < c - 1 => M = Parts!RmSplit(L, k, at, f)
  BY <1>3, <1>4, <1>5 DEF Parts!rm_header_helper
<1> QED BY <1>5, <1>6, <1>7, <1>8, <1>9, <1>10, <1>11, <1>12

\* The ways that change one part only, and nalloc.
LEMMA OnePartIs ==
    ASSUME NEW m, Heap(m), NEW la, NEW na, NEW L, NEW s, IsMain(L, m, la, na, s),
           NEW k \in 1 .. Len(s), NEW x, x = L.last, NEW p, p = L.parts, NEW y, y = L.nalloc
    PROVE  /\ Parts!RmFirst(L, k) =
                 [parts |-> [p EXCEPT ![k] = [addr |-> p[k].addr, elts |-> p[k].elts + 1,
                                              nelts |-> p[k].nelts - 1, end |-> p[k].end]],
                  last |-> x, nalloc |-> IF k = Len(s) THEN y - 1 ELSE y]
           /\ Parts!RmTail(L, k) =
                 [parts |-> [p EXCEPT ![k] = [addr |-> p[k].addr, elts |-> p[k].elts,
                                              nelts |-> p[k].nelts - 1, end |-> p[k].end]],
                  last |-> x, nalloc |-> IF k = Len(s) THEN p[k].nelts - 1 ELSE y]
           /\ k = 1 =>
              Parts!RmOnlyOfSoleLast(L) =
                 [parts |-> [p EXCEPT ![k] = [addr |-> p[k].addr, elts |-> p[k].elts,
                                              nelts |-> 0, end |-> p[k].end]],
                  last |-> x, nalloc |-> y]
<1>1. /\ p \in Seq(Parts!Part) /\ DOMAIN p = 1 .. Len(s)
      /\ L = [parts |-> p, last |-> x, nalloc |-> y]
  BY DEF IsMain
<1>2. Parts!IsLast(L, k) <=> k = Len(s)
  BY MainAddresses
<1>3. PICK c : c = p[k]
  OBVIOUS
<1>4. c \in Parts!Part
  BY <1>1, <1>3
<1>5. c = [addr |-> c.addr, elts |-> c.elts, nelts |-> c.nelts, end |-> c.end]
  BY <1>4 DEF Parts!Part
<1>6. ASSUME NEW z PROVE [c EXCEPT !.nelts = z] =
                            [addr |-> c.addr, elts |-> c.elts, nelts |-> z, end |-> c.end]
  BY <1>5
<1>7. ASSUME NEW v, NEW z
      PROVE  [[c EXCEPT !.elts = v] EXCEPT !.nelts = z] =
                [addr |-> c.addr, elts |-> v, nelts |-> z, end |-> c.end]
  <2>1. PICK d : d = [c EXCEPT !.elts = v]
    OBVIOUS
  <2>2. d = [addr |-> c.addr, elts |-> v, nelts |-> c.nelts, end |-> c.end]
    BY <1>5, <2>1
  <2>3. [d EXCEPT !.nelts = z] = [addr |-> c.addr, elts |-> v, nelts |-> z, end |-> c.end]
    BY <2>2
  <2> QED BY <2>1, <2>3
<1>8. Parts!RmFirst(L, k) =
         [parts |-> [p EXCEPT ![k] = [addr |-> c.addr, elts |-> c.elts + 1,
                                      nelts |-> c.nelts - 1, end |-> c.end]],
          last |-> x, nalloc |-> IF k = Len(s) THEN y - 1 ELSE y]
  <2>1. PICK z : z = IF k = Len(s) THEN y - 1 ELSE y
    OBVIOUS
  <2>2. PICK M1 : M1 = [L EXCEPT !.parts[k].elts = @ + 1]
    OBVIOUS
  <2>3. PICK M2 : M2 = [M1 EXCEPT !.parts[k].nelts = @ - 1]
    OBVIOUS
  <2>4. PICK p1 : p1 = [p EXCEPT ![k].elts = @ + 1]
    OBVIOUS
  <2>5. M1 = [parts |-> p1, last |-> x, nalloc |-> y]
    BY <1>1, <2>2, <2>4
  <2>6. PICK p2 : p2 = [p1 EXCEPT ![k].nelts = @ - 1]
    OBVIOUS
  <2>7. M2 = [parts |-> p2, last |-> x, nalloc |-> y]
    BY <2>3, <2>5, <2>6
  <2>8. Parts!RmFirst(L, k) = [M2 EXCEPT !.nalloc = z]
    <3>1. L.nalloc = y
      OBVIOUS
    <3> QED BY <1>2, <2>1, <2>2, <2>3, <3>1 DEF Parts!RmFirst
  <2>9. Parts!RmFirst(L, k) = [parts |-> p2, last |-> x, nalloc |-> z]
    BY <2>7, <2>8
  <2>10. p2 = [p EXCEPT ![k] = [addr |-> c.addr, elts |-> c.elts + 1,
                                nelts |-> c.nelts - 1, end |-> c.end]]
    <3>1. PICK d, v, z2 : v = c.elts + 1 /\ z2 = c.nelts - 1
                          /\ d = [addr |-> c.addr, elts |-> v, nelts |-> z2, end |-> c.end]
      OBVIOUS
    <3>2. p1 = [p EXCEPT ![k] = [c EXCEPT !.elts = v]]
      BY <1>1, <1>3, <2>4, <3>1
    <3>3. PICK g : g = [c EXCEPT !.elts = v]
      OBVIOUS
    <3>4. g.nelts = c.nelts
      BY <1>5, <3>3
    <3>5. p1[k] = g /\ DOMAIN p1 = DOMAIN p
      BY <1>1, <3>2, <3>3
    <3>6. p2 = [p1 EXCEPT ![k] = [g EXCEPT !.nelts = z2]]
      BY <1>1, <2>6, <3>1, <3>4, <3>5
    <3>7. [g EXCEPT !.nelts = z2] = d
      BY <1>7, <3>1, <3>3
    <3>8. p2 = [p1 EXCEPT ![k] = d]
      BY <3>6, <3>7
    <3>9. p2 = [p EXCEPT ![k] = d]
      BY <1>1, <3>2, <3>8
    <3> QED BY <3>1, <3>9
  <2> QED BY <2>1, <2>9, <2>10
<1>9. Parts!RmTail(L, k) =
         [parts |-> [p EXCEPT ![k] = [addr |-> c.addr, elts |-> c.elts,
                                      nelts |-> c.nelts - 1, end |-> c.end]],
          last |-> x, nalloc |-> IF k = Len(s) THEN c.nelts - 1 ELSE y]
  <2>1. PICK z, v : z = (IF k = Len(s) THEN c.nelts - 1 ELSE y) /\ v = c.nelts - 1
    OBVIOUS
  <2>2. PICK M1 : M1 = [L EXCEPT !.parts[k].nelts = @ - 1]
    OBVIOUS
  <2>3. PICK p1 : p1 = [p EXCEPT ![k].nelts = @ - 1]
    OBVIOUS
  <2>4. M1 = [parts |-> p1, last |-> x, nalloc |-> y]
    BY <1>1, <2>2, <2>3
  <2>5. Parts!RmTail(L, k) = [M1 EXCEPT !.nalloc = z]
    <3>1. L.nalloc = y /\ L.parts[k].nelts = c.nelts
      BY <1>3
    <3>2. M1.nalloc = y
      BY <2>4
    <3> QED BY <1>2, <2>1, <2>2, <3>1, <3>2 DEF Parts!RmTail
  <2>6. Parts!RmTail(L, k) = [parts |-> p1, last |-> x, nalloc |-> z]
    BY <2>4, <2>5
  <2>7. p1 = [p EXCEPT ![k] = [c EXCEPT !.nelts = v]]
    BY <1>1, <1>3, <2>1, <2>3
  <2> QED BY <1>6, <2>1, <2>6, <2>7
<1>10. ASSUME k = 1
       PROVE  Parts!RmOnlyOfSoleLast(L) =
                 [parts |-> [p EXCEPT ![k] = [addr |-> c.addr, elts |-> c.elts,
                                              nelts |-> 0, end |-> c.end]],
                  last |-> x, nalloc |-> y]
  <2>1. PICK none : none = 0
    OBVIOUS
  <2>2. PICK p1 : p1 = [p EXCEPT ![k].nelts = none]
    OBVIOUS
  <2>3. PICK M1 : M1 = [L EXCEPT !.parts[k].nelts = none]
    OBVIOUS
  <2>4. Parts!RmOnlyOfSoleLast(L) = M1
    BY <1>10, <2>1, <2>3 DEF Parts!RmOnlyOfSoleLast
  <2>5. M1 = [parts |-> p1, last |-> x, nalloc |-> y]
    BY <1>1, <2>2, <2>3
  <2>6. p1 = [p EXCEPT ![k] = [c EXCEPT !.nelts = none]]
    BY <1>1, <1>3, <2>2
  <2> QED BY <1>6, <2>1, <2>4, <2>5, <2>6
<1> QED BY <1>3, <1>8, <1>9, <1>10

\* The parts in w are those of the list L without the one behind the j-th, which may
\* have changed.
KeptParts(n, L, s, j, w) ==
    /\ \A h \in 1 .. Len(s) : h \notin {j, j + 1} => PartIn(n, s[h]) = PartIn(mem, s[h])
    /\ w \in Seq(Parts!Part) /\ Len(w) = Len(s) - 1 /\ w[j] = PartIn(n, s[j])
    /\ \A h \in 1 .. j - 1 : w[h] = L.parts[h]
    /\ \A h \in j + 1 .. Len(s) - 1 : w[h] = L.parts[h + 1]

\* The end of the list is what it was, or j is the end now.
KeptEnd(la, s, j) == la[Main] = IF j + 1 = Len(s) THEN s[j] ELSE s[Len(s)]

\* A part goes: the one behind the j-th.
LEMMA MainCut ==
    ASSUME SubInv, NEW L, NEW s, IsMain(L, mem, last, nalloc, s), NEW j \in 1 .. Len(s) - 1,
           NEW n, Heap(n), IsCut(ChainOf(n, Main), s, j),
           NEW w, KeptParts(n, L, s, j, w), NEW la, KeptEnd(la, s, j), NEW na,
           NEW x, x = AddressIn(la[Main]), NEW y, y = na[Main]
    PROVE  /\ MainEnds(n, la)
           /\ MainList(n, la, na) = [parts |-> w, last |-> x, nalloc |-> y]
<1>1. /\ s = ChainOf(mem, Main) /\ Len(s) \in Nat /\ Len(s) >= 1 /\ last[Main] = s[Len(s)]
      /\ \A h \in 1 .. Len(s) : L.parts[h] = PartIn(mem, s[h])
  BY DEF IsMain
<1>k. /\ \A h \in 1 .. Len(s) : h \notin {j, j + 1} => PartIn(n, s[h]) = PartIn(mem, s[h])
      /\ w \in Seq(Parts!Part) /\ Len(w) = Len(s) - 1 /\ w[j] = PartIn(n, s[j])
      /\ \A h \in 1 .. j - 1 : w[h] = L.parts[h]
      /\ \A h \in j + 1 .. Len(s) - 1 : w[h] = L.parts[h + 1]
      /\ la[Main] = IF j + 1 = Len(s) THEN s[j] ELSE s[Len(s)]
  BY DEF KeptParts, KeptEnd
<1>2. PICK t : t = ChainOf(n, Main)
  OBVIOUS
<1>3. /\ Len(t) = Len(s) - 1
      /\ \A h \in 1 .. Len(s) - 1 : t[h] = IF h <= j THEN s[h] ELSE s[h + 1]
  BY <1>2 DEF IsCut
<1>4. PICK len \in Nat : len = Len(s) /\ j \in 1 .. len - 1 /\ len - 1 \in 1 .. len - 1
                         /\ j + 1 <= len /\ j \in Nat /\ j >= 1
  <2>1. PICK len \in Nat : len = Len(s)
    BY <1>1
  <2>2. j \in 1 .. len - 1
    BY <2>1
  <2>3. len - 1 \in 1 .. len - 1 /\ j + 1 <= len /\ j \in Nat /\ j >= 1
    BY ONLY <2>2
  <2> QED BY <2>1, <2>2, <2>3
<1>5. MainEnds(n, la)
  <2>1. t[len - 1] = IF len - 1 <= j THEN s[len - 1] ELSE s[len]
    BY <1>3, <1>4
  <2>2. CASE j + 1 = len
    BY <1>2, <1>3, <1>4, <1>k, <2>1, <2>2 DEF MainEnds
  <2>3. CASE j + 1 /= len
    <3>1. ~(len - 1 <= j)
      BY <1>4, <2>3
    <3> QED BY <1>2, <1>3, <1>4, <1>k, <2>1, <2>3, <3>1 DEF MainEnds
  <2> QED BY <2>2, <2>3
<1>6. PICK K, v : IsMain(K, n, la, na, v)
  BY <1>5, MainExists
<1>7. IsMain(K, n, la, na, t) /\ K = MainList(n, la, na)
  BY <1>2, <1>6 DEF IsMain
<1>8. ASSUME NEW h \in 1 .. Len(t) PROVE w[h] = PartIn(n, t[h])
  <2>0. h \in 1 .. len - 1 /\ h \in Nat
    BY <1>3, <1>4
  <2>1. CASE h < j
    <3>1. h \in 1 .. len /\ h \notin {j, j + 1} /\ h <= j /\ h \in 1 .. j - 1
      BY <1>4, <2>0, <2>1
    <3>2. t[h] = s[h]
      BY <1>3, <1>4, <2>0, <3>1
    <3> QED BY <1>1, <1>4, <1>k, <3>1, <3>2
  <2>2. CASE h = j
    <3>1. h <= j
      BY <2>0, <2>2
    <3> QED BY <1>3, <1>4, <1>k, <2>0, <2>2, <3>1
  <2>3. CASE h > j
    <3>1. h + 1 \in 1 .. len /\ h + 1 \notin {j, j + 1} /\ ~(h <= j) /\ h \in j + 1 .. len - 1
      BY <1>4, <2>0, <2>3
    <3>2. t[h] = s[h + 1]
      BY <1>3, <1>4, <2>0, <3>1
    <3>3. w[h] = L.parts[h + 1] /\ L.parts[h + 1] = PartIn(mem, s[h + 1])
      BY <1>1, <1>4, <1>k, <3>1
    <3>4. PartIn(n, s[h + 1]) = PartIn(mem, s[h + 1])
      BY <1>4, <1>k, <3>1
    <3> QED BY <3>2, <3>3, <3>4
  <2> QED BY <1>4, <2>0, <2>1, <2>2, <2>3
<1>9. PICK M : M = [parts |-> w, last |-> AddressIn(la[Main]), nalloc |-> na[Main]]
  OBVIOUS
<1>10. Len(w) = Len(t) /\ w \in Seq(Parts!Part)
  BY <1>3, <1>k
<1>11. K = M
  BY <1>7, <1>8, <1>9, <1>10, SameList
<1> QED BY <1>5, <1>7, <1>9, <1>11

\* The last part goes with its only header.
LEMMA MainLastGoes ==
    ASSUME SubInv, NEW L, NEW s, IsMain(L, mem, last, nalloc, s), NEW k \in 2 .. Len(s), k = Len(s),
           NEW n, Heap(n), NEW b, b = s[k - 1], Unlinked(n, b, s[k], NULL),
           NEW la, la[Main] = b, NEW na, na[Main] = mem[b].nelts
    PROVE  MainEnds(n, la) /\ MainList(n, la, na) = Parts!RmOnlyOfLast(L, k)
<1>0. Main \in Requests /\ Heap(mem)
  BY DEF Requests, SubInv
<1>1. /\ s = ChainOf(mem, Main) /\ Len(s) \in Nat /\ Len(s) >= 1 /\ mem[s[Len(s)]].next = NULL
      /\ \A h \in 1 .. Len(s) : s[h] \in Addresses
      /\ \A h, g \in 1 .. Len(s) : s[h] = s[g] => h = g
      /\ L.parts \in Seq(Parts!Part) /\ Len(L.parts) = Len(s)
      /\ \A h \in 1 .. Len(s) : L.parts[h] = PartIn(mem, s[h])
  BY DEF IsMain
<1>2. PICK j \in 1 .. Len(s) - 1 : j = k - 1
  <2>1. k - 1 \in 1 .. Len(s) - 1
    BY <1>1
  <2> QED BY <2>1
<1>3. /\ j + 1 = k /\ j \in 1 .. Len(s) /\ j /= k /\ k \in 1 .. Len(s) /\ b = s[j]
      /\ j + 1 = Len(s)
  BY <1>1, <1>2
<1>4. /\ \A a \in Addresses \ {b, s[k]} : n[a] = mem[a]
      /\ n[b].elts = mem[b].elts /\ n[b].nelts = mem[b].nelts /\ n[b].next = NULL
      /\ n[b].end = mem[b].end
  BY DEF Unlinked, Became
<1>5. \A h \in 1 .. Len(s) : h \notin {j, j + 1} => n[s[h]] = mem[s[h]]
  <2> SUFFICES ASSUME NEW h \in 1 .. Len(s), h \notin {j, j + 1} PROVE n[s[h]] = mem[s[h]]
    OBVIOUS
  <2>1. s[h] \in Addresses /\ s[h] /= b /\ s[h] /= s[k]
    BY <1>1, <1>3
  <2> QED BY <1>4, <2>1
<1>6. IsCut(ChainOf(n, Main), s, j)
  <2>1. n[s[j]].next = mem[s[j + 1]].next
    BY <1>1, <1>3, <1>4
  <2>2. \A h \in 1 .. Len(s) : h \notin {j, j + 1} => n[s[h]].next = mem[s[h]].next
    BY <1>5
  <2>3. s = ChainOf(mem, Main)
    BY <1>1
  <2> QED BY <1>0, <2>1, <2>2, <2>3, ChainCut
<1>7. PICK p : p = L.parts /\ p \in Seq(Parts!Part) /\ Len(p) = Len(s)
  BY <1>1
<1>8. PICK w : w = SubSeq(p, 1, k - 1)
  OBVIOUS
<1>9. w \in Seq(Parts!Part) /\ Len(w) = Len(s) - 1 /\ \A h \in 1 .. k - 1 : w[h] = p[h]
  <2>1. \A h \in 1 .. k - 1 : p[h] \in Parts!Part
    BY <1>1, <1>7
  <2>2. k - 1 \in Nat /\ 1 \in Nat
    BY <1>1
  <2> QED BY <1>1, <1>7, <1>8, <2>1, <2>2, SubSeqProperties
<1>10. PartIn(n, b) = PartIn(mem, b)
  BY <1>4 DEF PartIn
<1>11. /\ w[j] = PartIn(n, s[j]) /\ \A h \in 1 .. j - 1 : w[h] = p[h]
       /\ \A h \in j + 1 .. Len(s) - 1 : w[h] = p[h + 1]
  <2>1. j \in 1 .. k - 1 /\ \A h \in 1 .. j - 1 : h \in 1 .. k - 1
    BY <1>1, <1>2
  <2>2. ~\E h \in j + 1 .. Len(s) - 1 : TRUE
    BY <1>1, <1>2
  <2> QED BY <1>1, <1>3, <1>7, <1>9, <1>10, <2>1, <2>2
<1>12. PICK x, y : x = AddressIn(la[Main]) /\ y = na[Main]
  OBVIOUS
<1>13. MainEnds(n, la) /\ MainList(n, la, na) = [parts |-> w, last |-> x, nalloc |-> y]
  <2>1. la[Main] = (IF j + 1 = Len(s) THEN s[j] ELSE s[Len(s)])
    BY <1>3
  <2>2. \A h \in 1 .. Len(s) : h \notin {j, j + 1} => PartIn(n, s[h]) = PartIn(mem, s[h])
    BY <1>5 DEF PartIn
  <2>3. \A h \in 1 .. j - 1 : w[h] = L.parts[h]
    BY <1>7, <1>11
  <2>4. \A h \in j + 1 .. Len(s) - 1 : w[h] = L.parts[h + 1]
    BY <1>7, <1>11
  <2>5. KeptParts(n, L, s, j, w)
    BY <1>9, <1>11, <2>2, <2>3, <2>4 DEF KeptParts
  <2>6. KeptEnd(la, s, j)
    BY <2>1 DEF KeptEnd
  <2> QED BY <1>6, <1>12, <2>5, <2>6, MainCut
<1>14. Parts!RmOnlyOfLast(L, k) = [parts |-> w, last |-> x, nalloc |-> y]
  <2>1. PICK q : q = L.parts[k - 1] /\ q = PartIn(mem, b)
    BY <1>1, <1>2, <1>3
  <2>2. q.addr = x /\ q.nelts = y
    BY <1>12, <2>1 DEF PartIn
  <2> QED BY <1>7, <1>8, <2>1, <2>2 DEF Parts!RmOnlyOfLast
<1> QED BY <1>13, <1>14

\* A part in the middle does.
LEMMA MainMiddleGoes ==
    ASSUME SubInv, NEW L, NEW s, IsMain(L, mem, last, nalloc, s), NEW k \in 2 .. Len(s), k /= Len(s),
           NEW n, Heap(n), NEW b, b = s[k - 1], Unlinked(n, b, s[k], mem[s[k]].next),
           NEW la, la[Main] = last[Main], NEW na, na[Main] = nalloc[Main]
    PROVE  MainEnds(n, la) /\ MainList(n, la, na) = Parts!RmOnlyOfMiddle(L, k)
<1>0. Main \in Requests /\ Heap(mem)
  BY DEF Requests, SubInv
<1>1. /\ s = ChainOf(mem, Main) /\ Len(s) \in Nat /\ Len(s) >= 1 /\ last[Main] = s[Len(s)]
      /\ \A h \in 1 .. Len(s) : s[h] \in Addresses
      /\ \A h, g \in 1 .. Len(s) : s[h] = s[g] => h = g
      /\ L.parts \in Seq(Parts!Part) /\ Len(L.parts) = Len(s)
      /\ \A h \in 1 .. Len(s) : L.parts[h] = PartIn(mem, s[h])
      /\ L = [parts |-> L.parts, last |-> L.last, nalloc |-> L.nalloc]
      /\ L.last = AddressIn(s[Len(s)]) /\ L.nalloc = nalloc[Main]
  BY DEF IsMain
<1>2. PICK j \in 1 .. Len(s) - 1 : j = k - 1
  <2>1. k - 1 \in 1 .. Len(s) - 1
    BY <1>1
  <2> QED BY <2>1
<1>3. /\ j + 1 = k /\ j \in 1 .. Len(s) /\ j /= k /\ k \in 1 .. Len(s) /\ b = s[j]
      /\ j + 1 /= Len(s)
  BY <1>1, <1>2
<1>4. /\ \A a \in Addresses \ {b, s[k]} : n[a] = mem[a]
      /\ n[b].elts = mem[b].elts /\ n[b].nelts = mem[b].nelts /\ n[b].next = mem[s[k]].next
      /\ n[b].end = mem[b].end
  BY DEF Unlinked, Became
<1>5. \A h \in 1 .. Len(s) : h \notin {j, j + 1} => n[s[h]] = mem[s[h]]
  <2> SUFFICES ASSUME NEW h \in 1 .. Len(s), h \notin {j, j + 1} PROVE n[s[h]] = mem[s[h]]
    OBVIOUS
  <2>1. s[h] \in Addresses /\ s[h] /= b /\ s[h] /= s[k]
    BY <1>1, <1>3
  <2> QED BY <1>4, <2>1
<1>6. IsCut(ChainOf(n, Main), s, j)
  <2>1. n[s[j]].next = mem[s[j + 1]].next
    BY <1>1, <1>3, <1>4
  <2>2. \A h \in 1 .. Len(s) : h \notin {j, j + 1} => n[s[h]].next = mem[s[h]].next
    BY <1>5
  <2>3. s = ChainOf(mem, Main)
    BY <1>1
  <2> QED BY <1>0, <2>1, <2>2, <2>3, ChainCut
<1>7. PICK p : p = L.parts /\ p \in Seq(Parts!Part) /\ Len(p) = Len(s)
  BY <1>1
<1>8. PICK w : w = SubSeq(p, 1, k - 1) \o SubSeq(p, k + 1, Len(p))
  OBVIOUS
<1>9. IsWithout(w, Parts!Part, p, k)
  <2>1. k \in 1 .. Len(p)
    BY <1>3, <1>7
  <2> QED BY <1>7, <1>8, <2>1, LeftOut
<1>10. PartIn(n, b) = PartIn(mem, b)
  BY <1>4 DEF PartIn
<1>11. /\ w \in Seq(Parts!Part) /\ Len(w) = Len(s) - 1
       /\ w[j] = PartIn(n, s[j]) /\ \A h \in 1 .. j - 1 : w[h] = p[h]
       /\ \A h \in j + 1 .. Len(s) - 1 : w[h] = p[h + 1]
  <2>1. /\ w \in Seq(Parts!Part) /\ Len(w) = Len(s) - 1
        /\ \A h \in 1 .. k - 1 : w[h] = p[h]
        /\ \A h \in k + 1 .. Len(s) : w[h - 1] = p[h]
    BY <1>7, <1>9 DEF IsWithout
  <2>2. j \in 1 .. k - 1 /\ \A h \in 1 .. j - 1 : h \in 1 .. k - 1
    BY <1>1, <1>2
  <2>3. ASSUME NEW h \in j + 1 .. Len(s) - 1 PROVE w[h] = p[h + 1]
    <3>1. h + 1 \in k + 1 .. Len(s) /\ h + 1 - 1 = h
      BY <1>1, <1>2
    <3>2. w[h + 1 - 1] = p[h + 1]
      BY <2>1, <3>1
    <3> QED BY <3>1, <3>2
  <2> QED BY <1>1, <1>3, <1>7, <1>10, <2>1, <2>2, <2>3
<1>12. PICK x, y : x = AddressIn(la[Main]) /\ y = na[Main]
  OBVIOUS
<1>13. MainEnds(n, la) /\ MainList(n, la, na) = [parts |-> w, last |-> x, nalloc |-> y]
  <2>1. la[Main] = (IF j + 1 = Len(s) THEN s[j] ELSE s[Len(s)])
    BY <1>1, <1>3
  <2>2. \A h \in 1 .. Len(s) : h \notin {j, j + 1} => PartIn(n, s[h]) = PartIn(mem, s[h])
    BY <1>5 DEF PartIn
  <2>3. \A h \in 1 .. j - 1 : w[h] = L.parts[h]
    BY <1>7, <1>11
  <2>4. \A h \in j + 1 .. Len(s) - 1 : w[h] = L.parts[h + 1]
    BY <1>7, <1>11
  <2>5. KeptParts(n, L, s, j, w)
    BY <1>9, <1>11, <2>2, <2>3, <2>4 DEF KeptParts
  <2>6. KeptEnd(la, s, j)
    BY <2>1 DEF KeptEnd
  <2> QED BY <1>6, <1>12, <2>5, <2>6, MainCut
<1>14. Parts!RmOnlyOfMiddle(L, k) = [parts |-> w, last |-> x, nalloc |-> y]
  <2>1. L = [parts |-> p, last |-> x, nalloc |-> y]
    BY <1>1, <1>7, <1>12
  <2>2. Parts!RmOnlyOfMiddle(L, k) =
           [L EXCEPT !.parts = SubSeq(@, 1, k - 1) \o SubSeq(@, k + 1, Len(@))]
    BY DEF Parts!RmOnlyOfMiddle
  <2>3. [L EXCEPT !.parts = w] = [parts |-> w, last |-> x, nalloc |-> y]
    BY ONLY <2>1
  <2> QED BY <1>7, <1>8, <2>2, <2>3
<1> QED BY <1>13, <1>14

\* The part behind the embedded one is copied over it.
LEMMA MainCopied ==
    ASSUME SubInv, NEW L, NEW s, IsMain(L, mem, last, nalloc, s), Len(s) /= 1,
           NEW n, Heap(n), \A a \in Addresses \ {Main} : n[a] = mem[a],
           NEW next, next = mem[Main].next, n[Main] = mem[next],
           NEW la, la[Main] = (IF next = last[Main] THEN Main ELSE last[Main]),
           NEW na, na[Main] = (IF next = last[Main] THEN mem[next].nelts ELSE nalloc[Main])
    PROVE  MainEnds(n, la) /\ MainList(n, la, na) = Parts!RmOnlyOfEmbedded(L)
<1>0. Main \in Requests /\ Heap(mem)
  BY DEF Requests, SubInv
<1>1. /\ s = ChainOf(mem, Main) /\ Len(s) \in Nat /\ Len(s) >= 1 /\ last[Main] = s[Len(s)]
      /\ s[1] = Main
      /\ \A h \in 1 .. Len(s) - 1 : mem[s[h]].next = s[h + 1]
      /\ \A h \in 1 .. Len(s) : s[h] \in Addresses
      /\ \A h, g \in 1 .. Len(s) : s[h] = s[g] => h = g
      /\ L.parts \in Seq(Parts!Part) /\ Len(L.parts) = Len(s) /\ DOMAIN L.parts = 1 .. Len(s)
      /\ \A h \in 1 .. Len(s) : L.parts[h] = PartIn(mem, s[h])
      /\ L.last = AddressIn(s[Len(s)]) /\ L.nalloc = nalloc[Main]
  BY DEF IsMain
<1>2. PICK len \in Nat : len = Len(s) /\ len >= 2 /\ 1 \in 1 .. len - 1 /\ 2 \in 1 .. len
                         /\ 1 \in 1 .. len /\ 1 + 1 = 2 /\ len \in 1 .. len
  <2>1. PICK len \in Nat : len = Len(s) /\ len >= 1 /\ len /= 1
    BY <1>1
  <2>2. len >= 2 /\ 1 \in 1 .. len - 1 /\ 2 \in 1 .. len /\ 1 \in 1 .. len /\ len \in 1 .. len
    BY ONLY <2>1
  <2> QED BY <2>1, <2>2
<1>3. next = s[2] /\ next \in Addresses /\ Main \in Addresses
  BY <1>1, <1>2
<1>4. PICK j \in 1 .. Len(s) - 1 : j = 1 /\ j + 1 = 2
  BY <1>2
<1>5. \A h \in 1 .. Len(s) : h \notin {j, j + 1} => n[s[h]] = mem[s[h]]
  <2> SUFFICES ASSUME NEW h \in 1 .. Len(s), h \notin {j, j + 1} PROVE n[s[h]] = mem[s[h]]
    OBVIOUS
  <2>1. s[h] \in Addresses /\ s[h] /= Main
    BY <1>1, <1>2, <1>4
  <2> QED BY <2>1
<1>6. IsCut(ChainOf(n, Main), s, j)
  <2>1. n[s[j]].next = mem[s[j + 1]].next
    BY <1>1, <1>3, <1>4
  <2>2. \A h \in 1 .. Len(s) : h \notin {j, j + 1} => n[s[h]].next = mem[s[h]].next
    BY <1>5
  <2>3. s = ChainOf(mem, Main)
    BY <1>1
  <2> QED BY <1>0, <2>1, <2>2, <2>3, ChainCut
<1>7. PICK p : p = L.parts /\ p \in Seq(Parts!Part) /\ Len(p) = len
  BY <1>1, <1>2
<1>8. PICK q : q = p[2]
  OBVIOUS
<1>9. q \in Parts!Part /\ q = PartIn(mem, next) /\ p[1] = PartIn(mem, Main)
  BY <1>1, <1>2, <1>3, <1>7, <1>8
<1>10. /\ q = [addr |-> q.addr, elts |-> q.elts, nelts |-> q.nelts, end |-> q.end]
       /\ q.elts = mem[next].elts /\ q.nelts = mem[next].nelts /\ q.end = mem[next].end
       /\ q.addr = AddressIn(next) /\ p[1].addr = 0
  <2>1. q = [addr |-> q.addr, elts |-> q.elts, nelts |-> q.nelts, end |-> q.end]
    BY <1>9 DEF Parts!Part
  <2>2. PICK b : b = p[1]
    OBVIOUS
  <2>3. b.addr = 0
    BY <1>9, <2>2 DEF PartIn, AddressIn
  <2> QED BY <1>9, <2>1, <2>2, <2>3 DEF PartIn
<1>11. PICK c, zero : zero = 0 /\ c = [q EXCEPT !.addr = zero]
  OBVIOUS
<1>12. c \in Parts!Part /\ c = PartIn(n, s[j]) /\ c.addr = 0
  <2>1. c = [addr |-> zero, elts |-> q.elts, nelts |-> q.nelts, end |-> q.end]
    BY <1>10, <1>11
  <2>2. q.elts \in Nat /\ q.nelts \in Nat /\ q.end \in Nat /\ zero \in Nat
    BY <1>9, <1>11 DEF Parts!Part
  <2>3. c \in Parts!Part
    BY <2>1, <2>2 DEF Parts!Part
  <2>4. c = PartIn(n, Main)
    BY <1>10, <1>11, <2>1 DEF PartIn, AddressIn
  <2> QED BY <1>1, <1>4, <1>11, <2>1, <2>3, <2>4
<1>13. PICK w : w = <<c>> \o SubSeq(p, 3, Len(p))
  OBVIOUS
<1>14. /\ w \in Seq(Parts!Part) /\ Len(w) = len - 1 /\ w[1] = c
       /\ \A h \in 2 .. len - 1 : w[h] = p[h + 1]
  <2>1. PICK u, v : u = <<c>> /\ v = SubSeq(p, 3, len)
    OBVIOUS
  <2>2. u \in Seq(Parts!Part) /\ Len(u) = 1 /\ u[1] = c
    BY <1>12, <2>1
  <2>3. /\ v \in Seq(Parts!Part) /\ Len(v) = len - 2
        /\ \A h \in 1 .. len - 2 : v[h] = p[3 + h - 1]
    <3>1. \A h \in 3 .. len : p[h] \in Parts!Part
      <4>1. \A h \in 3 .. len : h \in 1 .. len
        OBVIOUS
      <4> QED BY <1>7, <4>1
    <3>2. /\ SubSeq(p, 3, len) \in Seq(Parts!Part)
          /\ Len(SubSeq(p, 3, len)) = IF 3 <= len THEN len - 3 + 1 ELSE 0
          /\ \A h \in 1 .. len - 3 + 1 : SubSeq(p, 3, len)[h] = p[3 + h - 1]
      BY <1>7, <3>1, SubSeqProperties
    <3>3. (IF 3 <= len THEN len - 3 + 1 ELSE 0) = len - 2 /\ len - 3 + 1 = len - 2
      BY ONLY <1>2
    <3> QED BY <2>1, <3>2, <3>3
  <2>4. /\ w \in Seq(Parts!Part) /\ Len(w) = Len(u) + Len(v)
        /\ \A h \in 1 .. Len(u) : w[h] = u[h]
        /\ \A h \in 1 .. Len(v) : w[Len(u) + h] = v[h]
    BY <1>7, <1>13, <2>1, <2>2, <2>3, Concat
  <2>5. ASSUME NEW h \in 2 .. len - 1 PROVE w[h] = p[h + 1]
    <3>1. h - 1 \in 1 .. len - 2 /\ 1 + (h - 1) = h /\ 3 + (h - 1) - 1 = h + 1
      BY <1>2
    <3>2. w[1 + (h - 1)] = v[h - 1] /\ v[h - 1] = p[3 + (h - 1) - 1]
      BY <2>2, <2>3, <2>4, <3>1
    <3> QED BY <3>1, <3>2
  <2> QED BY <1>2, <2>2, <2>3, <2>4, <2>5
<1>15. KeptParts(n, L, s, j, w)
  <2>1. \A h \in 1 .. Len(s) : h \notin {j, j + 1} => PartIn(n, s[h]) = PartIn(mem, s[h])
    BY <1>5 DEF PartIn
  <2>2. Len(w) = Len(s) - 1 /\ w[j] = PartIn(n, s[j])
    BY <1>2, <1>4, <1>12, <1>14
  <2>3. \A h \in 1 .. j - 1 : w[h] = L.parts[h]
    BY <1>4
  <2>4. \A h \in j + 1 .. Len(s) - 1 : w[h] = L.parts[h + 1]
    BY <1>2, <1>4, <1>7, <1>14
  <2> QED BY <1>14, <2>1, <2>2, <2>3, <2>4 DEF KeptParts
<1>16. next = last[Main] <=> len = 2
  BY <1>1, <1>2, <1>3
<1>17. KeptEnd(la, s, j)
  <2>1. j + 1 = Len(s) <=> next = last[Main]
    BY <1>2, <1>4, <1>16
  <2> QED BY <1>1, <1>4, <2>1 DEF KeptEnd
<1>18. PICK x, y : x = AddressIn(la[Main]) /\ y = na[Main]
  OBVIOUS
<1>19. MainEnds(n, la) /\ MainList(n, la, na) = [parts |-> w, last |-> x, nalloc |-> y]
  BY <1>6, <1>15, <1>17, <1>18, MainCut
<1>20. L.last = q.addr <=> next = last[Main]
  <2>1. Parts!IsLast(L, 2) <=> 2 = Len(s)
    BY <1>2, MainAddresses
  <2> QED BY <1>2, <1>7, <1>8, <1>16, <2>1 DEF Parts!IsLast
<1>21. x = (IF L.last = q.addr THEN c.addr ELSE L.last)
       /\ y = (IF L.last = q.addr THEN q.nelts ELSE L.nalloc)
  BY <1>1, <1>10, <1>12, <1>18, <1>20 DEF AddressIn
<1>22. Parts!RmOnlyOfEmbedded(L) = [parts |-> w, last |-> x, nalloc |-> y]
  <2>1. c = [L.parts[2] EXCEPT !.addr = L.parts[1].addr] /\ w = <<c>> \o SubSeq(L.parts, 3, Len(L.parts))
    BY <1>7, <1>8, <1>10, <1>11, <1>13
  <2>2. q = L.parts[2]
    BY <1>7, <1>8
  <2> QED BY <1>21, <2>1, <2>2 DEF Parts!RmOnlyOfEmbedded
<1> QED BY <1>19, <1>22

\* A part is split.
LEMMA MainSplit ==
    ASSUME SubInv, NEW L, NEW s, IsMain(L, mem, last, nalloc, s), NEW k \in 1 .. Len(s),
           NEW c, c = mem[s[k]].nelts, NEW at \in Nat, at < c - 1, fresh <= MaxAddr,
           NEW n, Heap(n), Split(n, s[k], at),
           NEW la, la[Main] = (IF s[k] = last[Main] THEN fresh ELSE last[Main]),
           NEW na, na[Main] = (IF s[k] = last[Main] THEN c - at - 1 ELSE nalloc[Main])
    PROVE  MainEnds(n, la) /\ MainList(n, la, na) = Parts!RmSplit(L, k, at, fresh)
<1>0. Main \in Requests /\ Heap(mem)
  BY DEF Requests, SubInv
<1>1. /\ s = ChainOf(mem, Main) /\ Len(s) \in Nat /\ Len(s) >= 1 /\ last[Main] = s[Len(s)]
      /\ \A h \in 1 .. Len(s) : s[h] \in Addresses
      /\ \A h, g \in 1 .. Len(s) : s[h] = s[g] => h = g
      /\ L.parts \in Seq(Parts!Part) /\ Len(L.parts) = Len(s) /\ DOMAIN L.parts = 1 .. Len(s)
      /\ \A h \in 1 .. Len(s) : L.parts[h] = PartIn(mem, s[h])
      /\ L.last = AddressIn(s[Len(s)]) /\ L.nalloc = nalloc[Main]
  BY DEF IsMain
<1>2. PICK len \in Nat : len = Len(s) /\ len >= 1 /\ k \in 1 .. len /\ len \in 1 .. len
  BY <1>1
<1>3. PICK cur \in Addresses : cur = s[k]
  BY <1>1
<1>4. PICK f \in Addresses : f = fresh /\ f \in 1 .. MaxAddr /\ \A h \in 1 .. Len(s) : s[h] /= f
  BY FreshFacts, FreshBehind
<1>c. c \in Nat /\ mem[cur].elts \in Nat /\ mem[cur].end \in Nat
  BY <1>0, <1>3, CellTypes
<1>5. /\ \A a \in Addresses \ {cur, f} : n[a] = mem[a]
      /\ n[cur] = [elts |-> mem[cur].elts, nelts |-> at, next |-> f, end |-> mem[cur].end]
      /\ n[f] = [elts |-> mem[cur].elts + at + 1, nelts |-> c - at - 1,
                 next |-> mem[cur].next, end |-> mem[cur].end]
  BY <1>3, <1>4 DEF Split, Became
<1>6. \A h \in 1 .. Len(s) : h /= k => n[s[h]] = mem[s[h]]
  <2> SUFFICES ASSUME NEW h \in 1 .. Len(s), h /= k PROVE n[s[h]] = mem[s[h]]
    OBVIOUS
  <2>1. s[h] \in Addresses /\ s[h] /= cur /\ s[h] /= f
    BY <1>1, <1>3, <1>4
  <2> QED BY <1>5, <2>1
<1>7. PICK t : t = ChainOf(n, Main)
  OBVIOUS
<1>8. IsLonger(t, s, k, f)
  <2>1. n[s[k]].next = f /\ n[f].next = mem[s[k]].next
    BY <1>3, <1>5
  <2>2. \A h \in 1 .. Len(s) : h /= k => n[s[h]].next = mem[s[h]].next
    BY <1>6
  <2>3. s = ChainOf(mem, Main)
    BY <1>1
  <2> QED BY <1>0, <1>7, <2>1, <2>2, <2>3, ChainLonger
<1>9. /\ Len(t) = len + 1
      /\ \A h \in 1 .. len + 1 : t[h] = IF h <= k THEN s[h] ELSE IF h = k + 1 THEN f ELSE s[h - 1]
  BY <1>2, <1>8 DEF IsLonger
<1>10. s[k] = last[Main] <=> k = len
  BY <1>1, <1>2
<1>11. MainEnds(n, la)
  <2>1. /\ len + 1 \in 1 .. len + 1 /\ ~(len + 1 <= k) /\ len + 1 - 1 = len
        /\ (k = len <=> len + 1 = k + 1)
    BY <1>2
  <2>2. t[len + 1] = IF k = len THEN f ELSE s[len]
    BY <1>9, <2>1
  <2> QED BY <1>1, <1>2, <1>4, <1>7, <1>9, <1>10, <2>2 DEF MainEnds
<1>12. PICK K, v : IsMain(K, n, la, na, v)
  BY <1>11, MainExists
<1>13. IsMain(K, n, la, na, t) /\ K = MainList(n, la, na)
  BY <1>7, <1>12 DEF IsMain
<1>14. PICK p : p = L.parts /\ p \in Seq(Parts!Part) /\ Len(p) = len
  BY <1>1, <1>2
<1>15. PICK q : q = p[k] /\ q \in Parts!Part /\ q = PartIn(mem, cur)
  BY <1>1, <1>2, <1>3, <1>14
<1>16. /\ q = [addr |-> q.addr, elts |-> q.elts, nelts |-> q.nelts, end |-> q.end]
       /\ q.elts = mem[cur].elts /\ q.nelts = c /\ q.end = mem[cur].end
       /\ q.addr = AddressIn(cur) /\ q.addr \in Nat
  <2>1. q = [addr |-> q.addr, elts |-> q.elts, nelts |-> q.nelts, end |-> q.end] /\ q.addr \in Nat
    BY <1>15 DEF Parts!Part
  <2> QED BY <1>3, <1>15, <2>1 DEF PartIn
<1>17. PICK left, right : /\ left = [q EXCEPT !.nelts = at]
                          /\ right = [addr |-> f, elts |-> q.elts + at + 1,
                                      nelts |-> q.nelts - at - 1, end |-> q.end]
  OBVIOUS
<1>18. left \in Parts!Part /\ left = PartIn(n, s[k])
  <2>1. left = [addr |-> q.addr, elts |-> q.elts, nelts |-> at, end |-> q.end]
    BY <1>16, <1>17
  <2>2. left \in Parts!Part
    BY <1>16, <1>c, <2>1 DEF Parts!Part
  <2>3. PICK m1 : m1 = n[cur]
    OBVIOUS
  <2>4. m1.elts = q.elts /\ m1.nelts = at /\ m1.end = q.end
    BY <1>5, <1>16, <2>3
  <2> QED BY <1>3, <1>16, <2>1, <2>2, <2>3, <2>4 DEF PartIn
<1>19. right \in Parts!Part /\ right = PartIn(n, f) /\ right.nelts = c - at - 1
  <2>1. PICK x1, x2 : x1 = q.elts + at + 1 /\ x2 = c - at - 1
    OBVIOUS
  <2>2. right = [addr |-> f, elts |-> x1, nelts |-> x2, end |-> q.end]
    BY <1>16, <1>17, <2>1
  <2>a. PICK e \in Nat : e = q.elts
    BY <1>16, <1>c
  <2>b. PICK d \in Nat : d = c
    BY <1>c
  <2>c. d - at - 1 \in Nat /\ e + at + 1 \in Nat
    <3>1. d \in Nat /\ e \in Nat /\ at \in Nat /\ at < d - 1
      BY <2>a, <2>b
    <3> QED BY ONLY <3>1
  <2>d. f \in Nat
    BY <1>4
  <2>e. q.end \in Nat
    BY <1>16, <1>c
  <2>3. x1 \in Nat /\ x2 \in Nat /\ f \in Nat /\ q.end \in Nat
    BY <2>1, <2>a, <2>b, <2>c, <2>d, <2>e
  <2>4. right \in Parts!Part
    BY <2>2, <2>3 DEF Parts!Part
  <2>5. PICK m1 : m1 = n[f]
    OBVIOUS
  <2>6. m1.elts = x1 /\ m1.nelts = x2 /\ m1.end = q.end
    BY <1>5, <1>16, <2>1, <2>5
  <2>7. AddressIn(f) = f
    BY <1>0, <1>4, Embedded DEF AddressIn
  <2> QED BY <2>1, <2>2, <2>4, <2>5, <2>6, <2>7 DEF PartIn
<1>20. PICK mid \in Seq(Parts!Part) : mid = <<left, right>> /\ Len(mid) = 2
                                      /\ mid[1] = left /\ mid[2] = right
  <2>1. PICK T : T = Parts!Part
    OBVIOUS
  <2>2. left \in T /\ right \in T
    BY <1>18, <1>19, <2>1
  <2>3. <<left, right>> \in Seq(T) /\ Len(<<left, right>>) = 2
        /\ <<left, right>>[1] = left /\ <<left, right>>[2] = right
    BY ONLY <2>2
  <2> QED BY <2>1, <2>3
<1>21. PICK w : w = SubSeq(p, 1, k - 1) \o mid \o SubSeq(p, k + 1, Len(p))
  OBVIOUS
<1>22. IsAround(w, Parts!Part, p, k, mid)
  BY <1>2, <1>14, <1>20, <1>21, Around
<1>23. /\ w \in Seq(Parts!Part) /\ Len(w) = len + 1
       /\ \A h \in 1 .. k - 1 : w[h] = p[h]
       /\ w[k] = left /\ w[k + 1] = right
       /\ \A h \in k + 1 .. len : w[h + 1] = p[h]
  <2>1. /\ w \in Seq(Parts!Part) /\ Len(w) = len - 1 + 2
        /\ \A h \in 1 .. k - 1 : w[h] = p[h]
        /\ \A h \in 1 .. 2 : w[k - 1 + h] = mid[h]
        /\ \A h \in k + 1 .. len : w[h - 1 + 2] = p[h]
    BY <1>14, <1>20, <1>22 DEF IsAround
  <2>2. k - 1 + 1 = k /\ k - 1 + 2 = k + 1 /\ len - 1 + 2 = len + 1 /\ 1 \in 1 .. 2 /\ 2 \in 1 .. 2
    BY <1>2
  <2>3. w[k] = left /\ w[k + 1] = right
    BY <1>20, <2>1, <2>2
  <2>4. ASSUME NEW h \in k + 1 .. len PROVE w[h + 1] = p[h]
    <3>1. h - 1 + 2 = h + 1
      BY <1>2
    <3>2. w[h - 1 + 2] = p[h]
      BY <2>1
    <3> QED BY <3>1, <3>2
  <2> QED BY <2>1, <2>2, <2>3, <2>4
<1>24. ASSUME NEW h \in 1 .. Len(t) PROVE w[h] = PartIn(n, t[h])
  <2>0. h \in 1 .. len + 1 /\ h \in Nat
    BY <1>9
  <2>1. CASE h < k
    <3>1. h \in 1 .. len /\ h <= k /\ h /= k /\ h \in 1 .. k - 1
      BY <1>2, <2>0, <2>1
    <3>2. t[h] = s[h] /\ w[h] = p[h] /\ p[h] = PartIn(mem, s[h]) /\ n[s[h]] = mem[s[h]]
      BY <1>1, <1>2, <1>6, <1>9, <1>14, <1>23, <2>0, <3>1
    <3> QED BY <3>2 DEF PartIn
  <2>2. CASE h = k
    <3>1. h <= k
      BY <2>0, <2>2
    <3> QED BY <1>9, <1>18, <1>23, <2>0, <2>2, <3>1
  <2>3. CASE h = k + 1
    <3>1. ~(h <= k)
      BY <1>2, <2>0, <2>3
    <3> QED BY <1>9, <1>19, <1>23, <2>0, <2>3, <3>1
  <2>4. CASE h > k + 1
    <3>1. h - 1 \in 1 .. len /\ h - 1 \in k + 1 .. len /\ h - 1 /= k /\ ~(h <= k) /\ h /= k + 1
          /\ h - 1 + 1 = h
      BY <1>2, <2>0, <2>4
    <3>2. t[h] = s[h - 1]
      BY <1>9, <2>0, <3>1
    <3>3. w[h - 1 + 1] = p[h - 1]
      BY <1>23, <3>1
    <3>4. p[h - 1] = PartIn(mem, s[h - 1]) /\ n[s[h - 1]] = mem[s[h - 1]]
      BY <1>1, <1>2, <1>6, <1>14, <3>1
    <3> QED BY <3>1, <3>2, <3>3, <3>4 DEF PartIn
  <2> QED BY <1>2, <2>0, <2>1, <2>2, <2>3, <2>4
<1>25. PICK M : M = [parts |-> w, last |-> AddressIn(la[Main]), nalloc |-> na[Main]]
  OBVIOUS
<1>26. Len(w) = Len(t) /\ w \in Seq(Parts!Part)
  BY <1>9, <1>23
<1>27. K = M
  BY <1>13, <1>24, <1>25, <1>26, SameList
<1>28. /\ AddressIn(la[Main]) = (IF k = len THEN f ELSE L.last)
       /\ na[Main] = (IF k = len THEN right.nelts ELSE L.nalloc)
  <2>1. AddressIn(f) = f
    BY <1>0, <1>4, Embedded DEF AddressIn
  <2> QED BY <1>1, <1>4, <1>10, <1>19, <2>1
<1>29. Parts!IsLast(L, k) <=> k = len
  BY <1>2, MainAddresses
<1>30. Parts!RmSplit(L, k, at, fresh) =
          [parts |-> w, last |-> (IF k = len THEN f ELSE L.last),
           nalloc |-> (IF k = len THEN right.nelts ELSE L.nalloc)]
  <2>1. q = L.parts[k]
    BY <1>14, <1>15
  <2>2. w = SubSeq(L.parts, 1, k - 1) \o <<left, right>> \o SubSeq(L.parts, k + 1, Len(L.parts))
    BY <1>14, <1>20, <1>21
  <2> QED BY <1>4, <1>17, <1>29, <2>1, <2>2 DEF Parts!RmSplit
<1> QED BY <1>11, <1>13, <1>25, <1>27, <1>28, <1>30

-----------------------------------------------------------------------------
(* So the main request's list is NgxList's. *)

\* What M has to be for it to be a step of NgxList from L, or none.
IsStep(L, M, b1, f1, b2, f2) ==
    \/ M = L /\ b2 = b1 /\ f2 = f1
    \/ ~Parts!LastFull(L) /\ M = Parts!PushInLast(L) /\ b2 = b1 /\ f2 = f1
    \/ /\ Parts!LastFull(L) /\ b1 + L.nalloc <= MaxSlot /\ f1 <= MaxAddr
       /\ M = Parts!PushNewPart(L, b1, f1) /\ b2 = b1 + L.nalloc /\ f2 = f1 + 1
    \/ \E k \in DOMAIN L.parts : \E at \in 0 .. L.parts[k].nelts - 1 :
          /\ M = Parts!rm_header_helper(L, k, at, f1) /\ b2 = b1
          /\ IF Parts!RmNeedsPart(L, k, at) THEN f1 <= MaxAddr /\ f2 = f1 + 1 ELSE f2 = f1

\* Then the refinement mapping makes one of it.
LEMMA MapsToStep ==
    ASSUME NEW L, L = MainList(mem, last, nalloc), NEW M, M = MainList(mem', last', nalloc'),
           IsStep(L, M, brk, fresh, brk', fresh')
    PROVE  [Parts!Next]_(Parts!vars)
<1> DEFINE mapped == [parts |-> AsParts, last |-> IF last[Main] = Main THEN 0 ELSE last[Main],
                      nalloc |-> nalloc[Main]]
<1>1. mapped = L /\ mapped' = M
  BY MainListIs
<1> HIDE DEF mapped
<1>2. CASE M = L /\ brk' = brk /\ fresh' = fresh
  BY <1>1, <1>2 DEF Parts!vars, mapped
<1>3. CASE ~Parts!LastFull(L) /\ M = Parts!PushInLast(L) /\ brk' = brk /\ fresh' = fresh
  BY <1>1, <1>3 DEF Parts!Next, Parts!Push, mapped
<1>4. CASE /\ Parts!LastFull(L) /\ brk + L.nalloc <= MaxSlot /\ fresh <= MaxAddr
           /\ M = Parts!PushNewPart(L, brk, fresh) /\ brk' = brk + L.nalloc /\ fresh' = fresh + 1
  BY <1>1, <1>4 DEF Parts!Next, Parts!PushGrow, mapped
<1>5. ASSUME NEW k \in DOMAIN L.parts, NEW at \in 0 .. L.parts[k].nelts - 1,
             M = Parts!rm_header_helper(L, k, at, fresh), brk' = brk,
             IF Parts!RmNeedsPart(L, k, at) THEN fresh <= MaxAddr /\ fresh' = fresh + 1
                                            ELSE fresh' = fresh
      PROVE  [Parts!Next]_(Parts!vars)
  <2>1. Parts!Rm(k, at) \/ Parts!RmGrow(k, at)
    BY <1>1, <1>5 DEF Parts!Rm, Parts!RmGrow, mapped
  <2>2. k \in DOMAIN mapped.parts /\ at \in 0 .. mapped.parts[k].nelts - 1
    BY <1>1, <1>5
  <2>3. Parts!RmAny
    BY <2>1, <2>2 DEF Parts!RmAny, mapped
  <2> QED BY <2>3 DEF Parts!Next
<1> QED BY <1>2, <1>3, <1>4, <1>5 DEF IsStep

\* The main request creates a header.
LEMMA MainCreates ==
    ASSUME SubInv, MainEnds(mem, last), NEW others \in {{}, Ancestors(Main)}, Create(Main, others)
    PROVE  /\ MainEnds(mem', last')
           /\ IsStep(MainList(mem, last, nalloc), MainList(mem', last', nalloc'),
                     brk, fresh, brk', fresh')
<1>0. Main \in Requests /\ Main \in Addresses /\ others = {} /\ Heap(mem)
  BY AncestorsAre, Embedded DEF Requests, SubInv
<1>1. PICK n : n = PushedMem(Main)
  OBVIOUS
<1>2. /\ HasMemory(Main) /\ CopyHead(Main, {}, n, PushedLast(Main)) /\ PushPool(Main)
  BY <1>0, <1>1 DEF Create
<1>3. PushedTo(n, Main) /\ Heap(n)
  BY <1>0, <1>1, <1>2, PushedIs, PushedHeap
<1>4. /\ mem' = [a \in Addresses |-> n[a]]
      /\ last'[Main] = PushedLast(Main) /\ nalloc'[Main] = nalloc[Main]
      /\ brk' = (IF Full(Main) THEN brk + nalloc[Main] ELSE brk)
      /\ fresh' = (IF Full(Main) THEN fresh + 1 ELSE fresh)
  BY <1>0, <1>2 DEF CopyHead, PushPool
<1>5. mem' = n
  BY <1>3, <1>4 DEF Heap
<1>6. PICK L, s : IsMain(L, mem, last, nalloc, s)
  BY <1>0, MainExists
<1>7. PICK M : M = MainList(mem', last', nalloc')
  OBVIOUS
<1>8. L = MainList(mem, last, nalloc)
  BY <1>6 DEF IsMain
<1>9. /\ Parts!LastFull(L) <=> Full(Main)
      /\ L.nalloc = nalloc[Main]
  <2>1. /\ Len(s) \in 1 .. Len(s) /\ last[Main] = s[Len(s)] /\ L.nalloc = nalloc[Main]
    BY <1>6 DEF IsMain
  <2>2. Parts!LastIndex(L) = Len(s) /\ L.parts[Len(s)].nelts = mem[s[Len(s)]].nelts
    BY <1>6, <2>1, MainAddresses
  <2> QED BY <2>1, <2>2 DEF Parts!LastFull, Full
<1>10. CASE Full(Main)
  <2>1. fresh <= MaxAddr /\ brk + nalloc[Main] <= MaxSlot /\ last'[Main] = fresh
    BY <1>2, <1>4, <1>10 DEF HasMemory, PushedLast
  <2>2. PICK la, na : la = last' /\ na = nalloc'
    OBVIOUS
  <2>3. la[Main] = fresh /\ na[Main] = nalloc[Main]
    BY <1>4, <2>1, <2>2
  <2>4. MainEnds(n, la) /\ MainList(n, la, na) = Parts!PushNewPart(L, brk, fresh)
    BY <1>3, <1>6, <1>10, <2>1, <2>3, MainPushedNewPart
  <2>5. MainEnds(mem', last') /\ M = Parts!PushNewPart(L, brk, fresh)
    BY <1>5, <1>7, <2>2, <2>4
  <2>6. IsStep(L, M, brk, fresh, brk', fresh')
    BY <1>4, <1>9, <1>10, <2>1, <2>5 DEF IsStep
  <2> QED BY <1>7, <1>8, <2>5, <2>6
<1>11. CASE ~Full(Main)
  <2>2. PICK la, na : la = last' /\ na = nalloc'
    OBVIOUS
  <2>3. la[Main] = last[Main] /\ na[Main] = nalloc[Main]
    BY <1>4, <1>11, <2>2 DEF PushedLast
  <2>4. MainEnds(n, la) /\ MainList(n, la, na) = Parts!PushInLast(L)
    BY <1>3, <1>6, <1>11, <2>3, MainPushedInLast
  <2>5. MainEnds(mem', last') /\ M = Parts!PushInLast(L)
    BY <1>5, <1>7, <2>2, <2>4
  <2>6. IsStep(L, M, brk, fresh, brk', fresh')
    BY <1>4, <1>9, <1>11, <2>5 DEF IsStep
  <2> QED BY <1>7, <1>8, <2>5, <2>6
<1> QED BY <1>10, <1>11

\* A step that leaves the main request's list alone.
LEMMA MainLeft ==
    ASSUME SubInv, MainEnds(mem, last), NEW n, Heap(n), NEW la, NEW na,
           \A a \in Addresses : a \notin Subs => n[a] = mem[a],
           la[Main] = last[Main], na[Main] = nalloc[Main]
    PROVE  MainEnds(n, la) /\ MainList(n, la, na) = MainList(mem, last, nalloc)
<1>0. Main \in Requests /\ Main \in Addresses /\ Heap(mem)
  BY Embedded DEF Requests, SubInv
<1>1. PICK L, s : IsMain(L, mem, last, nalloc, s)
  BY <1>0, MainExists
<1>2. /\ s = ChainOf(mem, Main) /\ Len(s) \in Nat /\ Len(s) >= 1 /\ last[Main] = s[Len(s)]
      /\ s[1] = Main
      /\ \A k \in 1 .. Len(s) : s[k] \in Addresses
      /\ \A k \in 2 .. Len(s) : s[k] \in 1 .. MaxAddr
      /\ L = MainList(mem, last, nalloc)
      /\ L.parts \in Seq(Parts!Part) /\ Len(L.parts) = Len(s)
      /\ \A k \in 1 .. Len(s) : L.parts[k] = PartIn(mem, s[k])
      /\ L = [parts |-> L.parts, last |-> L.last, nalloc |-> L.nalloc]
      /\ L.last = AddressIn(s[Len(s)]) /\ L.nalloc = nalloc[Main]
  BY <1>1 DEF IsMain
<1>3. ASSUME NEW k \in 1 .. Len(s) PROVE n[s[k]] = mem[s[k]]
  <2>1. s[k] \notin Subs
    <3>1. CASE k = 1
      BY <1>2, <3>1, TreeAssumption
    <3>2. CASE k /= 1
      <4>1. s[k] \in 1 .. MaxAddr
        BY <1>2, <3>2
      <4> QED BY <4>1, Embedded DEF Requests
    <3> QED BY <3>1, <3>2
  <2> QED BY <1>2, <2>1
<1>4. ChainOf(n, Main) = s
  <2>1. IsChain(mem, Main, s)
    BY <1>0, <1>2, ChainFacts
  <2>2. IsChain(n, Main, s)
    BY <1>2, <1>3, <2>1 DEF IsChain, IsPath
  <2> QED BY <1>0, <2>2, IsItsChain
<1>5. MainEnds(n, la)
  BY <1>2, <1>4 DEF MainEnds
<1>6. PICK K, t : IsMain(K, n, la, na, t)
  BY <1>5, MainExists
<1>7. t = s /\ K = MainList(n, la, na)
  BY <1>4, <1>6 DEF IsMain
<1>8. PICK p : p = L.parts /\ p \in Seq(Parts!Part) /\ Len(p) = Len(s)
               /\ \A k \in 1 .. Len(s) : p[k] = PartIn(n, s[k])
  <2>1. \A k \in 1 .. Len(s) : L.parts[k] = PartIn(n, s[k])
    BY <1>2, <1>3 DEF PartIn
  <2> QED BY <1>2, <2>1
<1>9. PICK M : M = [parts |-> p, last |-> AddressIn(la[Main]), nalloc |-> na[Main]]
  OBVIOUS
<1>10. K = M
  BY <1>6, <1>7, <1>8, <1>9, SameList
<1>11. M = L
  BY <1>2, <1>8, <1>9
<1> QED BY <1>2, <1>5, <1>7, <1>10, <1>11

\* The main request's list after one of its headers was removed.
LEMMA MainRemoved ==
    ASSUME SubInv, NEW L, NEW s, IsMain(L, mem, last, nalloc, s),
           NEW k, NEW cur, NEW at, Spot(Main, k, cur, at),
           ~AssertsNext(Main, cur, at), Splits(cur, at) => fresh <= MaxAddr,
           rm_header_helper(Main, cur, at), NEW n, n = mem', Heap(n),
           NEW la, la = last', NEW na, na = nalloc'
    PROVE  /\ MainEnds(n, la)
           /\ MainList(n, la, na) = Parts!rm_header_helper(L, k, at, fresh)
<1>0. Main \in Requests /\ Main \in Addresses /\ Heap(mem) /\ Chain(Main) = s
  <2>1. s = ChainOf(mem, Main)
    BY DEF IsMain
  <2> QED BY <2>1, ChainsAre, Embedded DEF Requests, SubInv
<1>1. /\ Len(s) \in Nat /\ k \in 1 .. Len(s) /\ cur = s[k] /\ s[1] = Main
      /\ mem[cur].elts \in Nat /\ mem[cur].nelts \in Nat /\ at \in Nat /\ at < mem[cur].nelts
      /\ L.parts \in Seq(Parts!Part) /\ Len(L.parts) = Len(s)
      /\ L = [parts |-> L.parts, last |-> L.last, nalloc |-> L.nalloc] /\ L.nalloc = nalloc[Main]
      /\ \A j \in 1 .. Len(s) - 1 : mem[s[j]].next = s[j + 1]
      /\ at \in 0 .. mem[cur].nelts - 1
  BY <1>0, SpotFacts DEF IsMain, Spot
<1>2. PICK c \in Nat, e \in Nat : c = mem[cur].nelts /\ e = mem[cur].elts /\ c = mem[s[k]].nelts
                                  /\ at < c /\ at \in 0 .. c - 1
  BY <1>1
<1>3. PICK next, b : next = mem[Main].next /\ b = s[k - 1]
  OBVIOUS
<1>4. Removal(n, Main, k, cur, at)
  BY <1>0, RemovalIs
<1>5. PICK M : M = Parts!rm_header_helper(L, k, at, fresh)
  OBVIOUS
<1>6. /\ at = 0 /\ c > 1 => M = Parts!RmFirst(L, k)
      /\ at > 0 /\ at = c - 1 => M = Parts!RmTail(L, k)
      /\ at = 0 /\ c = 1 /\ k = 1 /\ k = Len(s) => M = Parts!RmOnlyOfSoleLast(L)
      /\ at = 0 /\ c = 1 /\ k > 1 /\ k = Len(s) => M = Parts!RmOnlyOfLast(L, k)
      /\ at = 0 /\ c = 1 /\ k > 1 /\ k /= Len(s) => M = Parts!RmOnlyOfMiddle(L, k)
      /\ at = 0 /\ c = 1 /\ k = 1 /\ k /= Len(s) => M = Parts!RmOnlyOfEmbedded(L)
      /\ at > 0 /\ at < c - 1 => M = Parts!RmSplit(L, k, at, fresh)
  <2>1. PICK f : f = fresh
    OBVIOUS
  <2>2. M = Parts!rm_header_helper(L, k, at, f)
    BY <1>5, <2>1
  <2> HIDE <1>5
  <2> QED BY <1>0, <1>1, <1>2, <2>1, <2>2, HelperIs
<1>7. /\ at = 0 /\ c > 1 =>
            la[Main] = last[Main] /\ na[Main] = IF cur = last[Main] THEN nalloc[Main] - 1 ELSE nalloc[Main]
      /\ at > 0 /\ at = c - 1 =>
            la[Main] = last[Main] /\ na[Main] = IF cur = last[Main] THEN c - 1 ELSE nalloc[Main]
      /\ at = 0 /\ c = 1 /\ k = 1 /\ cur = last[Main] =>
            la[Main] = last[Main] /\ na[Main] = nalloc[Main]
      /\ at = 0 /\ c = 1 /\ k > 1 /\ cur = last[Main] => la[Main] = b /\ na[Main] = mem[b].nelts
      /\ at = 0 /\ c = 1 /\ k > 1 /\ cur /= last[Main] =>
            la[Main] = last[Main] /\ na[Main] = nalloc[Main]
      /\ at = 0 /\ c = 1 /\ k = 1 /\ cur /= last[Main] =>
            /\ la[Main] = IF next = last[Main] THEN Main ELSE last[Main]
            /\ na[Main] = IF next = last[Main] THEN mem[next].nelts ELSE nalloc[Main]
      /\ Splits(cur, at) =>
            /\ la[Main] = IF cur = last[Main] THEN fresh ELSE last[Main]
            /\ na[Main] = IF cur = last[Main] THEN c - at - 1 ELSE nalloc[Main]
  <2>1. PICK d, nx : d = mem[cur].nelts /\ nx = mem[Main].next
    OBVIOUS
  <2>2. /\ at = 0 /\ d > 1 =>
              /\ last'[Main] = last[Main]
              /\ nalloc'[Main] = IF cur = last[Main] THEN nalloc[Main] - 1 ELSE nalloc[Main]
        /\ at > 0 /\ at = d - 1 =>
              /\ last'[Main] = last[Main]
              /\ nalloc'[Main] = IF cur = last[Main] THEN d - 1 ELSE nalloc[Main]
        /\ at = 0 /\ d = 1 /\ k = 1 /\ cur = last[Main] =>
              last'[Main] = last[Main] /\ nalloc'[Main] = nalloc[Main]
        /\ at = 0 /\ d = 1 /\ k > 1 /\ cur = last[Main] =>
              last'[Main] = Chain(Main)[k - 1] /\ nalloc'[Main] = mem[Chain(Main)[k - 1]].nelts
        /\ at = 0 /\ d = 1 /\ k > 1 /\ cur /= last[Main] =>
              last'[Main] = last[Main] /\ nalloc'[Main] = nalloc[Main]
        /\ at = 0 /\ d = 1 /\ k = 1 /\ cur /= last[Main] =>
              /\ last'[Main] = IF nx = last[Main] THEN Main ELSE last[Main]
              /\ nalloc'[Main] = IF nx = last[Main] THEN mem[nx].nelts ELSE nalloc[Main]
        /\ Splits(cur, at) =>
              /\ last'[Main] = IF cur = last[Main] THEN fresh ELSE last[Main]
              /\ nalloc'[Main] = IF cur = last[Main] THEN d - at - 1 ELSE nalloc[Main]
    BY <1>0, <2>1, RemovalEndsAre
  <2>3. d = c /\ nx = next /\ Chain(Main)[k - 1] = b
    BY <1>0, <1>2, <1>3, <2>1
  <2> QED BY <2>2, <2>3
<1>8. cur = last[Main] <=> k = Len(s)
  BY <1>1, MainAddresses
<1>9. PICK p, x, y : p = L.parts /\ x = L.last /\ y = L.nalloc /\ y = nalloc[Main]
  BY <1>1
<1>10. p[k].elts = e /\ p[k].nelts = c
  BY <1>1, <1>2, <1>9, MainAddresses
<1>11. PICK z : z = na[Main]
  OBVIOUS
<1>12. /\ Parts!RmFirst(L, k) =
             [parts |-> [p EXCEPT ![k] = [addr |-> p[k].addr, elts |-> p[k].elts + 1,
                                          nelts |-> p[k].nelts - 1, end |-> p[k].end]],
              last |-> x, nalloc |-> IF k = Len(s) THEN y - 1 ELSE y]
       /\ Parts!RmTail(L, k) =
             [parts |-> [p EXCEPT ![k] = [addr |-> p[k].addr, elts |-> p[k].elts,
                                          nelts |-> p[k].nelts - 1, end |-> p[k].end]],
              last |-> x, nalloc |-> IF k = Len(s) THEN p[k].nelts - 1 ELSE y]
       /\ k = 1 =>
          Parts!RmOnlyOfSoleLast(L) =
             [parts |-> [p EXCEPT ![k] = [addr |-> p[k].addr, elts |-> p[k].elts,
                                          nelts |-> 0, end |-> p[k].end]],
              last |-> x, nalloc |-> y]
  BY <1>0, <1>1, <1>9, OnePartIs
<1>13. ASSUME NEW elts \in Nat, NEW nelts \in Nat, Shrunk(n, cur, elts, nelts),
              la[Main] = last[Main]
       PROVE  /\ MainEnds(n, la)
              /\ MainList(n, la, na) =
                    [parts |-> [p EXCEPT ![k] = [addr |-> p[k].addr, elts |-> elts,
                                                 nelts |-> nelts, end |-> p[k].end]],
                     last |-> x, nalloc |-> z]
  <2>1. PICK q : q = [addr |-> L.parts[k].addr, elts |-> elts, nelts |-> nelts,
                      end |-> L.parts[k].end]
    OBVIOUS
  <2>2. Shrunk(n, s[k], elts, nelts)
    BY <1>1, <1>13
  <2>3. /\ MainEnds(n, la)
        /\ MainList(n, la, na) = [parts |-> [L.parts EXCEPT ![k] = q], last |-> x, nalloc |-> z]
    <3>1. k \in 1 .. Len(s) /\ x = L.last /\ z = na[Main]
      BY <1>1, <1>9, <1>11
    <3> QED BY <3>1, <1>13, <2>1, <2>2, MainShrunk
  <2> QED BY <1>9, <2>1, <2>3
<1>14. ASSUME at = 0, c > 1, Shrunk(n, cur, e + 1, c - 1)
       PROVE  MainEnds(n, la) /\ MainList(n, la, na) = M
  <2>1. PICK elts \in Nat, nelts \in Nat : elts = e + 1 /\ nelts = c - 1
    BY <1>2, <1>14
  <2>2. Shrunk(n, cur, elts, nelts) /\ la[Main] = last[Main]
        /\ z = (IF k = Len(s) THEN y - 1 ELSE y) /\ M = Parts!RmFirst(L, k)
    BY <1>6, <1>7, <1>8, <1>9, <1>11, <1>14, <2>1
  <2>3. p[k].elts + 1 = elts /\ p[k].nelts - 1 = nelts
    BY <1>10, <2>1
  <2> QED BY <1>12, <1>13, <2>2, <2>3
<1>15. ASSUME at > 0, at = c - 1, Shrunk(n, cur, e, c - 1)
       PROVE  MainEnds(n, la) /\ MainList(n, la, na) = M
  <2>1. PICK nelts \in Nat : nelts = c - 1
    BY <1>2, <1>15
  <2>2. Shrunk(n, cur, e, nelts) /\ la[Main] = last[Main]
        /\ z = (IF k = Len(s) THEN c - 1 ELSE y) /\ M = Parts!RmTail(L, k)
    BY <1>6, <1>7, <1>8, <1>9, <1>11, <1>15, <2>1
  <2>3. p[k].elts = e /\ p[k].nelts - 1 = nelts /\ c - 1 = nelts
    BY <1>10, <2>1
  <2> QED BY <1>12, <1>13, <2>2, <2>3
<1>16. ASSUME at = 0, c = 1, k = 1, cur = last[Main], Shrunk(n, cur, e, 0)
       PROVE  MainEnds(n, la) /\ MainList(n, la, na) = M
  <2>1. PICK none \in Nat : none = 0
    OBVIOUS
  <2>2. Shrunk(n, cur, e, none) /\ la[Main] = last[Main] /\ z = y /\ M = Parts!RmOnlyOfSoleLast(L)
    BY <1>6, <1>7, <1>8, <1>9, <1>11, <1>16, <2>1
  <2> QED BY <1>10, <1>12, <1>13, <1>16, <2>1, <2>2
<1>17. ASSUME at = 0, c = 1, k > 1, cur = last[Main], Unlinked(n, b, cur, NULL)
       PROVE  MainEnds(n, la) /\ MainList(n, la, na) = M
  <2>1. k \in 2 .. Len(s) /\ k = Len(s) /\ Unlinked(n, b, s[k], NULL)
        /\ la[Main] = b /\ na[Main] = mem[b].nelts /\ M = Parts!RmOnlyOfLast(L, k)
    BY <1>1, <1>6, <1>7, <1>8, <1>17
  <2> QED BY <1>3, <2>1, MainLastGoes
<1>18. ASSUME at = 0, c = 1, k > 1, cur /= last[Main], Unlinked(n, b, cur, mem[cur].next)
       PROVE  MainEnds(n, la) /\ MainList(n, la, na) = M
  <2>1. k \in 2 .. Len(s) /\ k /= Len(s) /\ Unlinked(n, b, s[k], mem[s[k]].next)
        /\ la[Main] = last[Main] /\ na[Main] = nalloc[Main] /\ M = Parts!RmOnlyOfMiddle(L, k)
    BY <1>1, <1>6, <1>7, <1>8, <1>18
  <2> QED BY <1>3, <2>1, MainMiddleGoes
<1>19. ASSUME at = 0, c = 1, k = 1, cur /= last[Main], n[Main] = mem[next],
              \A a \in Addresses \ {Main} : n[a] = mem[a]
       PROVE  MainEnds(n, la) /\ MainList(n, la, na) = M
  <2>1. Len(s) /= 1 /\ M = Parts!RmOnlyOfEmbedded(L)
        /\ la[Main] = (IF next = last[Main] THEN Main ELSE last[Main])
        /\ na[Main] = (IF next = last[Main] THEN mem[next].nelts ELSE nalloc[Main])
    BY <1>1, <1>6, <1>7, <1>8, <1>19
  <2> QED BY <1>3, <1>19, <2>1, MainCopied
<1>20. ASSUME Splits(cur, at), fresh <= MaxAddr, Split(n, cur, at)
       PROVE  MainEnds(n, la) /\ MainList(n, la, na) = M
  <2>0. at > 0 /\ at < c - 1
    BY <1>2, <1>20 DEF Splits
  <2>1. at \in Nat /\ at < c - 1 /\ Split(n, s[k], at) /\ M = Parts!RmSplit(L, k, at, fresh)
        /\ la[Main] = (IF s[k] = last[Main] THEN fresh ELSE last[Main])
        /\ na[Main] = (IF s[k] = last[Main] THEN c - at - 1 ELSE nalloc[Main])
    BY <1>1, <1>6, <1>7, <1>20, <2>0
  <2>2. MainEnds(n, la) /\ MainList(n, la, na) = Parts!RmSplit(L, k, at, fresh)
    <3>1. k \in 1 .. Len(s) /\ c = mem[s[k]].nelts
      BY <1>1, <1>2
    <3> QED BY <3>1, <1>20, <2>1, MainSplit
  <2> QED BY <2>1, <2>2
<1>21. MainEnds(n, la) /\ MainList(n, la, na) = M
  <2>1. CASE at = 0 /\ c > 1 /\ Shrunk(n, cur, e + 1, c - 1)
    BY <1>14, <2>1
  <2>2. CASE at > 0 /\ at = c - 1 /\ Shrunk(n, cur, e, c - 1)
    BY <1>15, <2>2
  <2>3. CASE at = 0 /\ c = 1 /\ k = 1 /\ cur = last[Main] /\ Shrunk(n, cur, e, 0)
    BY <1>16, <2>3
  <2>4. CASE at = 0 /\ c = 1 /\ k > 1 /\ cur = last[Main] /\ Unlinked(n, b, cur, NULL)
    BY <1>17, <2>4
  <2>5. CASE at = 0 /\ c = 1 /\ k > 1 /\ cur /= last[Main] /\ Unlinked(n, b, cur, mem[cur].next)
    BY <1>18, <2>5
  <2>6. CASE at = 0 /\ c = 1 /\ k = 1 /\ cur /= last[Main] /\ mem[Main].next \in Addresses
                 /\ (\A a \in Addresses \ {Main} : n[a] = mem[a]) /\ n[Main] = mem[mem[Main].next]
    BY <1>3, <1>19, <2>6
  <2>7. CASE Splits(cur, at) /\ fresh <= MaxAddr /\ Split(n, cur, at)
    BY <1>20, <2>7
  <2> QED BY <1>0, <1>2, <1>3, <1>4, <2>1, <2>2, <2>3, <2>4, <2>5, <2>6, <2>7 DEF Removal
<1> QED BY <1>5, <1>21

\* The main request removes a header.
LEMMA MainDeletes ==
    ASSUME SubInv, MainEnds(mem, last), NEW cur \in ToSet(Chain(Main)),
           NEW at \in 0 .. mem[cur].nelts - 1, Delete(Main, cur, at)
    PROVE  /\ MainEnds(mem', last')
           /\ IsStep(MainList(mem, last, nalloc), MainList(mem', last', nalloc'),
                     brk, fresh, brk', fresh')
<1>0. Main \in Requests /\ Heap(mem)
  BY DEF Requests, SubInv
<1>1. Heap(mem')
  <2>1. SubInv'
    BY <1>0, DeleteStep
  <2> QED BY <2>1 DEF SubInv
<1>2. PICK L, s : IsMain(L, mem, last, nalloc, s)
  BY <1>0, MainExists
<1>3. PICK k : Spot(Main, k, cur, at)
  BY <1>0, SpotIs
<1>4. /\ ~AssertsNext(Main, cur, at) /\ (Splits(cur, at) => fresh <= MaxAddr)
      /\ rm_header_helper(Main, cur, at) /\ brk' = brk
      /\ fresh' = (IF Splits(cur, at) THEN fresh + 1 ELSE fresh)
  BY DEF Delete
<1>5. PICK n, la, na : n = mem' /\ la = last' /\ na = nalloc'
  OBVIOUS
<1>6. /\ MainEnds(n, la)
      /\ MainList(n, la, na) = Parts!rm_header_helper(L, k, at, fresh)
  BY <1>1, <1>2, <1>3, <1>4, <1>5, MainRemoved
<1>7. /\ L = MainList(mem, last, nalloc) /\ DOMAIN L.parts = 1 .. Len(s) /\ s = Chain(Main)
      /\ k \in 1 .. Len(s) /\ cur = s[k] /\ L.parts[k].nelts = mem[cur].nelts
      /\ at \in 0 .. mem[s[k]].nelts - 1
  <2>1. /\ L = MainList(mem, last, nalloc) /\ DOMAIN L.parts = 1 .. Len(s) /\ s = Chain(Main)
    BY <1>2, ChainsAre DEF IsMain
  <2>2. k \in 1 .. Len(s) /\ cur = s[k]
    BY <1>3, <2>1 DEF Spot
  <2>3. L.parts[k].nelts = mem[s[k]].nelts
    BY <1>2, <2>2, MainAddresses
  <2> QED BY <2>1, <2>2, <2>3
<1>8. PICK c : c = mem[s[k]].nelts /\ at \in 0 .. c - 1
  BY <1>7
<1>9. Parts!RmNeedsPart(L, k, at) <=> Splits(cur, at)
  <2>1. PICK f, M : f = fresh /\ M = Parts!rm_header_helper(L, k, at, f)
    OBVIOUS
  <2>2. Parts!RmNeedsPart(L, k, at) <=> at > 0 /\ at < c - 1
    BY <1>0, <1>2, <1>7, <1>8, <2>1, HelperIs
  <2> QED BY <1>7, <1>8, <2>2 DEF Splits
<1>10. PICK M : M = MainList(mem', last', nalloc')
  OBVIOUS
<1>11. M = Parts!rm_header_helper(L, k, at, fresh)
  BY <1>5, <1>6, <1>10
<1>12. k \in DOMAIN L.parts /\ at \in 0 .. L.parts[k].nelts - 1
  BY <1>7
<1>13. IF Parts!RmNeedsPart(L, k, at) THEN fresh <= MaxAddr /\ fresh' = fresh + 1
                                      ELSE fresh' = fresh
  BY <1>4, <1>9
<1>14. IsStep(L, M, brk, fresh, brk', fresh')
  BY <1>4, <1>11, <1>12, <1>13 DEF IsStep
<1> QED BY <1>5, <1>6, <1>7, <1>10, <1>14

\* At first it is the empty list of NgxList.
LEMMA MainBegins == SubInit => Parts!Init /\ AloneInv
<1> SUFFICES ASSUME SubInit PROVE Parts!Init /\ AloneInv
  OBVIOUS
<1>1. /\ mem = [a \in Addresses |-> EmptyPart] /\ last = [r \in Requests |-> r]
      /\ nalloc = [r \in Requests |-> NAlloc] /\ brk = NAlloc /\ fresh = 1
  BY DEF SubInit
<1>2. Main \in Requests /\ Main \in Addresses /\ Heap(mem)
  BY InitSubInv, Embedded DEF Requests, SubInv
<1>3. EmptyPart.elts = 0 /\ EmptyPart.nelts = 0 /\ EmptyPart.next = NULL /\ EmptyPart.end = NAlloc
  BY DEF EmptyPart
<1>4. ChainOf(mem, Main) = <<Main>>
  <2>1. PICK s : s = <<Main>>
    OBVIOUS
  <2>2. s \in Seq(Addresses) /\ Len(s) = 1 /\ s[1] = Main /\ DOMAIN s = 1 .. 1
    BY <1>2, <2>1
  <2>3. IsPath(mem, Main, s)
    BY <1>2, <2>1, PathBegins
  <2>4. mem[s[Len(s)]].next = NULL
    BY <1>1, <1>2, <1>3, <2>2
  <2> QED BY <1>2, <2>1, <2>3, <2>4, IsItsChain DEF IsChain
<1>5. PICK s : s = <<Main>> /\ s = ChainOf(mem, Main) /\ Len(s) = 1 /\ s[1] = Main /\ DOMAIN s = 1 .. 1
  BY <1>4
<1>6. AloneInv
  BY <1>1, <1>2, <1>5 DEF AloneInv, MainEnds
<1>7. PartIn(mem, Main) = [addr |-> 0, elts |-> 0, nelts |-> 0, end |-> NAlloc]
  BY <1>1, <1>2, <1>3 DEF PartIn, AddressIn
<1>8. PartsOf(mem, s) = <<[addr |-> 0, elts |-> 0, nelts |-> 0, end |-> NAlloc]>>
  <2>1. PICK part : part = PartIn(mem, Main)
    OBVIOUS
  <2>2. PartsOf(mem, s) = [k \in 1 .. 1 |-> part]
    BY <1>5, <2>1 DEF PartsOf
  <2>3. PartsOf(mem, s) = <<part>>
    BY <2>2
  <2> QED BY <1>7, <2>1, <2>3
<1>9. MainList(mem, last, nalloc) = Parts!EmptyList(NAlloc)
  BY <1>1, <1>2, <1>5, <1>8 DEF MainList, AddressIn, Parts!EmptyList
<1>10. Parts!Init
  BY <1>1, <1>9, MainListIs DEF Parts!Init
<1> QED BY <1>6, <1>10

\* It stays alone as long as no subrequest changes its own list, and is then NgxList's.
LEMMA MainGoesOn ==
    ASSUME SubInv, AloneInv, [SubNext]_sub_vars
    PROVE  AloneInv' /\ (changes' = 0 => [Parts!Next]_(Parts!vars))
<1>0. changes \in Nat /\ started \subseteq Requests /\ SubInv'
  BY NextSubInv DEF SubInv
<1>1. SUFFICES ASSUME changes' = 0 PROVE MainEnds(mem', last') /\ [Parts!Next]_(Parts!vars)
  BY DEF AloneInv
<1> DEFINE Goal == MainEnds(mem', last') /\ [Parts!Next]_(Parts!vars)
<1>2. Heap(mem')
  BY <1>0 DEF SubInv
<1>3. PICK n, la, na : n = mem' /\ la = last' /\ na = nalloc'
  OBVIOUS
<1>4. ASSUME NEW q \in Subs, NEW repaired \in BOOLEAN, Start(q, repaired) PROVE Goal
  <2>1. /\ mem' = [mem EXCEPT ![q] = mem[Parent[q]]]
        /\ \E x : last' = [last EXCEPT ![q] = x]
        /\ nalloc' = [nalloc EXCEPT ![q] = nalloc[Parent[q]]]
        /\ brk' = brk /\ fresh' = fresh /\ changes' = changes
    BY <1>4 DEF Start
  <2>2. q /= Main
    BY TreeAssumption
  <2>3. mem \in [Addresses -> Cell] /\ last \in [Requests -> Addresses] /\ nalloc \in [Requests -> Int]
        /\ Main \in Requests
    BY DEF SubInv, Heap, Requests
  <2>4. /\ \A a \in Addresses : a \notin Subs => n[a] = mem[a]
        /\ la[Main] = last[Main] /\ na[Main] = nalloc[Main]
    BY <1>3, <2>1, <2>2, <2>3
  <2>5. MainEnds(mem, last)
    BY <1>1, <2>1 DEF AloneInv
  <2>6. MainEnds(n, la) /\ MainList(n, la, na) = MainList(mem, last, nalloc)
    BY <1>2, <1>3, <2>4, <2>5, MainLeft
  <2>7. PICK L, M : L = MainList(mem, last, nalloc) /\ M = MainList(mem', last', nalloc')
    OBVIOUS
  <2>8. IsStep(L, M, brk, fresh, brk', fresh')
    BY <1>3, <2>1, <2>6, <2>7 DEF IsStep
  <2>9. [Parts!Next]_(Parts!vars)
    BY <2>7, <2>8, MapsToStep
  <2> QED BY <1>3, <2>6, <2>9
<1>5. ASSUME NEW r \in started, NEW others \in {{}, Ancestors(r)}, Create(r, others) PROVE Goal
  <2>1. r = Main /\ changes = 0
    BY <1>0, <1>1, <1>5 DEF Create, Counted
  <2>2. MainEnds(mem, last)
    BY <2>1 DEF AloneInv
  <2>3. MainEnds(mem', last')
        /\ IsStep(MainList(mem, last, nalloc), MainList(mem', last', nalloc'),
                  brk, fresh, brk', fresh')
    BY <1>5, <2>1, <2>2, MainCreates
  <2>4. PICK L, M : L = MainList(mem, last, nalloc) /\ M = MainList(mem', last', nalloc')
    OBVIOUS
  <2>5. IsStep(L, M, brk, fresh, brk', fresh')
    BY <2>3, <2>4
  <2>6. [Parts!Next]_(Parts!vars)
    BY <2>4, <2>5, MapsToStep
  <2> QED BY <2>3, <2>6
<1>6. ASSUME NEW r \in started, NEW cur \in ToSet(Chain(r)), NEW at \in 0 .. mem[cur].nelts - 1,
             Delete(r, cur, at)
      PROVE  Goal
  <2>1. r = Main /\ changes = 0
    BY <1>0, <1>1, <1>6 DEF Delete, Counted
  <2>2. MainEnds(mem, last)
    BY <2>1 DEF AloneInv
  <2>3. MainEnds(mem', last')
        /\ IsStep(MainList(mem, last, nalloc), MainList(mem', last', nalloc'),
                  brk, fresh, brk', fresh')
    BY <1>6, <2>1, <2>2, MainDeletes
  <2>4. PICK L, M : L = MainList(mem, last, nalloc) /\ M = MainList(mem', last', nalloc')
    OBVIOUS
  <2>5. IsStep(L, M, brk, fresh, brk', fresh')
    BY <2>3, <2>4
  <2>6. [Parts!Next]_(Parts!vars)
    BY <2>4, <2>5, MapsToStep
  <2> QED BY <2>3, <2>6
<1>7. ASSUME UNCHANGED <<list_vars, brk, fresh, changes>> PROVE Goal
  <2>1. mem' = mem /\ last' = last /\ nalloc' = nalloc /\ brk' = brk /\ fresh' = fresh
        /\ changes' = changes
    BY <1>7 DEF list_vars
  <2>2. MainEnds(mem, last)
    BY <1>1, <2>1 DEF AloneInv
  <2>3. PICK L, M : L = MainList(mem, last, nalloc) /\ M = MainList(mem', last', nalloc')
    OBVIOUS
  <2>4. IsStep(L, M, brk, fresh, brk', fresh')
    BY <2>1, <2>3 DEF IsStep
  <2>5. [Parts!Next]_(Parts!vars)
    BY <2>3, <2>4, MapsToStep
  <2> QED BY <2>1, <2>2, <2>5
<1> HIDE DEF Goal
<1>8. Goal
  <2>1. CASE UNCHANGED sub_vars
    BY <1>7, <2>1 DEF sub_vars
  <2>2. ASSUME NEW r \in started, DeleteAsserts(r) PROVE Goal
    BY <1>7, <2>2 DEF DeleteAsserts
  <2> QED BY <1>4, <1>5, <1>6, <2>1, <2>2 DEF SubNext
<1> QED BY <1>8 DEF Goal

\* MainAlone: as long as no subrequest changes its own copy, the main request's list is
\* that of NgxList, one push or removal per step, whatever subrequests start from it.
THEOREM MainIsNgxList == SubSpec => MainAlone
<1>1. SubInv /\ AloneInv /\ [SubNext]_sub_vars =>
         AloneInv' /\ [changes' = 0 => [Parts!Next]_(Parts!vars)]_sub_vars
  BY MainGoesOn
<1>2. SubSpec => Parts!Init /\ [][changes' = 0 => [Parts!Next]_(Parts!vars)]_sub_vars
  BY <1>1, MainBegins, SubInvariance, PTL DEF SubSpec
<1> QED BY <1>2 DEF MainAlone
=============================================================================
