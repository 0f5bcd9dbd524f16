---------------------------- MODULE NgxListProofs ----------------------------
(***************************************************************************)
(* The list operators keep a list well formed, for every list and every    *)
(* capacity, and the list implements the sequence of headers that          *)
(* HeaderSeq states.                                                       *)
(***************************************************************************)
EXTENDS NgxList, SeqProofs

-----------------------------------------------------------------------------
(* Types. *)

\* A part with its fields of their types.
TypedPart(part) ==
    /\ part \in Part
    /\ part.addr \in Nat
    /\ part.elts \in Nat
    /\ part.nelts \in Nat
    /\ part.end \in Nat

\* A list with its fields and its parts' fields of their types.
Typed(list) ==
    /\ list \in List
    /\ list.parts \in Seq(Part)
    /\ Len(list.parts) \in Nat
    /\ DOMAIN list.parts = 1 .. Len(list.parts)
    /\ list.nalloc \in Nat
    /\ list.last \in Nat
    /\ \A k \in 1 .. Len(list.parts) :
          TypedPart(list.parts[k]) /\ Room(list, k) \in Nat

\* The fields of a part.
LEMMA PartTypes == \A part \in Part : TypedPart(part)
BY DEF Part, TypedPart

\* The fields of a list and of its parts.
LEMMA ListTypes == ASSUME NEW list \in List PROVE Typed(list)
<1>1. /\ list.parts \in Seq(Part) /\ list.nalloc \in Nat /\ list.last \in Nat
  BY DEF List
<1>2. Len(list.parts) \in Nat /\ DOMAIN list.parts = 1 .. Len(list.parts)
  BY <1>1
<1>3. ASSUME NEW k \in 1 .. Len(list.parts)
      PROVE  TypedPart(list.parts[k]) /\ Room(list, k) \in Nat
  <2>1. list.parts[k] \in Part
    BY <1>1
  <2>2. TypedPart(list.parts[k])
    BY <2>1, PartTypes
  <2>3. QED BY <2>2, <1>1 DEF Room, TypedPart
<1>4. QED BY <1>1, <1>2, <1>3 DEF Typed

\* Intervals of slots, given by their start and their length.
LEMMA IntervalSubset ==
    ASSUME NEW a \in Nat, NEW x \in Nat, NEW c \in Nat, NEW y \in Nat,
           c <= a, a + x <= c + y
    PROVE  (a .. a + x - 1) \subseteq (c .. c + y - 1)
OBVIOUS

\* In a linked list the part ngx_list_push works on is the final one.
LEMMA LastIndexIsLen ==
    ASSUME NEW list \in List, Linked(list)
    PROVE  LastIndex(list) = Len(list.parts)
BY DEF LastIndex, Linked, List, Part

\* Part k of the list r is a piece of part j of the list list: its span is cut
\* out of that part's span, in the same block.
Piece(r, k, list, j) ==
    /\ j \in 1 .. Len(list.parts)
    /\ r.parts[k].end = list.parts[j].end
    /\ list.parts[j].elts <= r.parts[k].elts
    /\ r.parts[k].elts + Room(r, k) <= list.parts[j].elts + Room(list, j)

\* A piece takes no slot its part did not have, and stays within the block.
LEMMA PieceSpan ==
    ASSUME NEW list, NEW r, Typed(list), Typed(r), NEW b \in Nat, NEW f,
           Allocated(list, b, f),
           NEW k \in 1 .. Len(r.parts), NEW j, Piece(r, k, list, j)
    PROVE  /\ Span(r, k) \subseteq Span(list, j)
           /\ r.parts[k].elts + Room(r, k) <= r.parts[k].end
           /\ r.parts[k].end <= b
<1> DEFINE a == r.parts[k].elts
           x == Room(r, k)
           c == list.parts[j].elts
           y == Room(list, j)
           e == list.parts[j].end
<1>1. /\ a \in Nat /\ x \in Nat /\ c \in Nat /\ y \in Nat /\ e \in Nat
      /\ j \in DOMAIN list.parts
  BY DEF Typed, TypedPart, Piece
<1>2. c <= a /\ a + x <= c + y /\ r.parts[k].end = e
  BY DEF Piece
<1>3. c + y <= e /\ e <= b
  BY <1>1 DEF Allocated
<1>4. Span(r, k) = a .. a + x - 1 /\ Span(list, j) = c .. c + y - 1
  BY DEF Span
<1> HIDE DEF a, x, c, y, e
<1>5. (a .. a + x - 1) \subseteq (c .. c + y - 1)
  BY <1>1, <1>2, IntervalSubset
<1>6. a + x <= e
  BY <1>1, <1>2, <1>3
<1>7. QED BY <1>2, <1>3, <1>4, <1>5, <1>6 DEF a, x

\* The list r is cut out of the list list; m says of which old part a new part
\* is a piece.
Cut(r, list, m) ==
    /\ \A k \in 1 .. Len(r.parts) : Piece(r, k, list, m[k])
    /\ \A j, k \in 1 .. Len(r.parts) :
          j /= k /\ m[j] = m[k] => Span(r, j) \cap Span(r, k) = {}

\* A list that is cut out of a well-formed list is itself well formed, if its
\* links are right, no part of it is empty and its capacity covers its tail.
LEMMA Reshape ==
    ASSUME NEW list, NEW b, NEW f, WellFormed(list, b, f),
           NEW r \in List, NEW g \in Nat \ {0},
           Linked(r), NoEmptyPart(r),
           r.nalloc >= 1, r.parts[Len(r.parts)].nelts <= r.nalloc,
           \A k \in 1 .. Len(r.parts) : r.parts[k].addr < g,
           NEW m, Cut(r, list, m)
    PROVE  WellFormed(r, b, g)
<1>1. list \in List /\ b \in Nat /\ f \in Nat /\ Disjoint(list) /\ Allocated(list, b, f)
  BY DEF WellFormed
<1>2. Typed(list) /\ Typed(r)
  BY <1>1, ListTypes
<1>3. \A k \in 1 .. Len(r.parts) :
             /\ m[k] \in 1 .. Len(list.parts)
             /\ Span(r, k) \subseteq Span(list, m[k])
             /\ r.parts[k].elts + Room(r, k) <= r.parts[k].end
             /\ r.parts[k].end <= b
  BY <1>1, <1>2, PieceSpan DEF Cut, Piece
<1>4. Disjoint(r)
  <2>1. SUFFICES ASSUME NEW j \in 1 .. Len(r.parts), NEW k \in 1 .. Len(r.parts), j /= k
                 PROVE  Span(r, j) \cap Span(r, k) = {}
    BY <1>2 DEF Disjoint, Typed
  <2>2. CASE m[j] = m[k]
    BY <2>1, <2>2 DEF Cut
  <2>3. CASE m[j] /= m[k]
    <3>1. Span(list, m[j]) \cap Span(list, m[k]) = {}
      BY <2>1, <2>3, <1>1, <1>2, <1>3 DEF Disjoint, Typed
    <3>2. QED BY <3>1, <1>3
  <2>4. QED BY <2>2, <2>3
<1>5. Allocated(r, b, g)
  BY <1>2, <1>3 DEF Allocated, Typed
<1>6. QED BY <1>1, <1>4, <1>5 DEF WellFormed

\* What a well-formed list offers to the proofs below.
LEMMA WFFacts ==
    ASSUME NEW list, NEW b, NEW f, WellFormed(list, b, f)
    PROVE  /\ Typed(list) /\ b \in Nat /\ f \in Nat \ {0}
           /\ Linked(list) /\ NoEmptyPart(list) /\ Disjoint(list)
           /\ Allocated(list, b, f)
           /\ Len(list.parts) >= 1
           /\ LastIndex(list) = Len(list.parts)
           /\ \A k \in 1 .. Len(list.parts) : IsLast(list, k) <=> k = Len(list.parts)
           /\ \A k \in 1 .. Len(list.parts) : list.parts[k].addr < f
<1>1. /\ list \in List /\ b \in Nat /\ f \in Nat \ {0}
      /\ Linked(list) /\ NoEmptyPart(list) /\ Disjoint(list) /\ Allocated(list, b, f)
  BY DEF WellFormed
<1>2. Typed(list)
  BY <1>1, ListTypes
<1>3. LastIndex(list) = Len(list.parts)
  BY <1>1, LastIndexIsLen
<1>4. /\ Len(list.parts) >= 1
      /\ \A k \in 1 .. Len(list.parts) : IsLast(list, k) <=> k = Len(list.parts)
  <2>1. /\ Len(list.parts) >= 1 /\ Len(list.parts) \in 1 .. Len(list.parts)
        /\ list.parts[Len(list.parts)].addr = list.last
    BY <1>1, <1>2 DEF Linked, Typed
  <2>2. \A j, k \in 1 .. Len(list.parts) :
           list.parts[j].addr = list.parts[k].addr => j = k
    BY <1>1, <1>2 DEF Linked, Typed
  <2>3. QED BY <2>1, <2>2 DEF IsLast
<1>5. \A k \in 1 .. Len(list.parts) : list.parts[k].addr < f
  BY <1>1, <1>2 DEF Allocated, Typed
<1>6. QED BY <1>1, <1>2, <1>3, <1>4, <1>5

\* Replacing one part by a piece of itself, with a capacity na that fits it.
LEMMA UpdatePart ==
    ASSUME NEW list, NEW b, NEW f, WellFormed(list, b, f),
           NEW k \in 1 .. Len(list.parts), NEW q \in Part, NEW na \in Nat,
           NEW r \in List, r.parts = [list.parts EXCEPT ![k] = q],
           r.last = list.last, r.nalloc = na,
           q.addr = list.parts[k].addr, q.end = list.parts[k].end,
           list.parts[k].elts <= q.elts,
           q.elts + (IF k = Len(list.parts) THEN na ELSE q.nelts)
              <= list.parts[k].elts + Room(list, k),
           na >= 1,
           k = Len(list.parts) => q.nelts <= na,
           k /= Len(list.parts) => na = list.nalloc,
           Len(list.parts) > 1 => q.nelts > 0
    PROVE  WellFormed(r, b, f)
<1> DEFINE n == Len(list.parts)
           m == [j \in 1 .. n |-> j]
<1>1. /\ Typed(list) /\ Linked(list) /\ NoEmptyPart(list) /\ Allocated(list, b, f)
      /\ n >= 1 /\ f \in Nat \ {0}
      /\ \A j \in 1 .. n : list.parts[j].addr < f
  BY WFFacts
<1>2. /\ n \in Nat /\ n \in 1 .. n /\ list.parts \in Seq(Part) /\ list.last \in Nat
      /\ DOMAIN list.parts = 1 .. n
  BY <1>1 DEF Typed
<1>3. /\ r.parts \in Seq(Part) /\ Len(r.parts) = n
      /\ r.parts[k] = q
      /\ \A j \in 1 .. n : j /= k => r.parts[j] = list.parts[j]
      /\ r.last = list.last /\ r.nalloc = na
      /\ DOMAIN r.parts = 1 .. n
  BY <1>2
<1>5. ASSUME NEW j \in 1 .. n
      PROVE  /\ r.parts[j].addr = list.parts[j].addr
             /\ Piece(r, j, list, j)
             /\ n > 1 => r.parts[j].nelts > 0
  <2>1. TypedPart(list.parts[j]) /\ Room(list, j) \in Nat
    BY <1>1 DEF Typed
  <2>2. CASE j = k
    BY <2>1, <2>2, <1>3 DEF Room, Piece
  <2>3. CASE j /= k
    <3>1. Room(r, j) = Room(list, j)
      BY <1>3, <2>3 DEF Room
    <3>2. n > 1 => list.parts[j].nelts > 0
      BY <1>1, <1>2 DEF NoEmptyPart
    <3>3. list.parts[j].elts \in Nat
      BY <2>1 DEF TypedPart
    <3>4. QED BY <1>3, <2>1, <2>3, <3>1, <3>2, <3>3 DEF Piece
  <2>4. QED BY <2>2, <2>3
<1>6. Linked(r)
  <2>1. /\ list.parts[1].addr = 0 /\ list.parts[n].addr = list.last
        /\ \A i, j \in 1 .. n : list.parts[i].addr = list.parts[j].addr => i = j
    BY <1>1, <1>2 DEF Linked
  <2>2. \A j \in 1 .. n : r.parts[j].addr = list.parts[j].addr
    BY <1>5
  <2> HIDE DEF n
  <2>3. QED BY <2>1, <2>2, <1>1, <1>2, <1>3 DEF Linked
<1>7. NoEmptyPart(r)
  BY <1>3, <1>5 DEF NoEmptyPart
<1>8. r.nalloc >= 1 /\ r.parts[Len(r.parts)].nelts <= r.nalloc
  BY <1>1, <1>2, <1>3 DEF Allocated
<1>9. \A j \in 1 .. n : m[j] = j
  OBVIOUS
<1> HIDE DEF m
<1>10. Cut(r, list, m)
  BY <1>3, <1>5, <1>9 DEF Cut
<1>11. \A j \in 1 .. Len(r.parts) : r.parts[j].addr < f
  BY <1>1, <1>3, <1>5
<1>12. QED
  BY <1>1, <1>6, <1>7, <1>8, <1>10, <1>11, Reshape

-----------------------------------------------------------------------------
(* One lemma per operation: it keeps the list well formed. *)

\* ngx_list_push with room in the last part.
LEMMA PushInLastWF ==
    ASSUME NEW list, NEW b, NEW f, WellFormed(list, b, f), ~LastFull(list)
    PROVE  WellFormed(PushInLast(list), b, f)
<1> DEFINE n == Len(list.parts)
           p == list.parts[n]
           q == [p EXCEPT !.nelts = @ + 1]
<1>1. /\ Typed(list) /\ Allocated(list, b, f) /\ n >= 1 /\ LastIndex(list) = n
  BY WFFacts
<1>2. /\ n \in 1 .. n /\ list \in List /\ TypedPart(p) /\ list.nalloc \in Nat
  BY <1>1 DEF Typed
<1>3. /\ q \in Part
      /\ q.addr = p.addr /\ q.elts = p.elts /\ q.end = p.end
      /\ q.nelts = p.nelts + 1
  BY <1>2 DEF TypedPart, Part
<1>4. /\ PushInLast(list).parts = [list.parts EXCEPT ![n] = q]
      /\ PushInLast(list).last = list.last
      /\ PushInLast(list).nalloc = list.nalloc
  BY <1>1, <1>2 DEF PushInLast, List
<1>5. PushInLast(list) \in List
  <2>1. [list.parts EXCEPT ![n] = q] \in Seq(Part)
    BY <1>1, <1>2, <1>3 DEF Typed
  <2>2. QED BY <1>2, <1>4, <2>1 DEF PushInLast, List
<1>6. /\ p.nelts <= list.nalloc /\ p.nelts /= list.nalloc /\ list.nalloc >= 1
  BY <1>1 DEF Allocated, LastFull
<1>7. /\ p.nelts \in Nat /\ p.elts \in Nat /\ Room(list, n) = list.nalloc
  BY <1>2 DEF TypedPart, Room
<1>8. q.nelts <= list.nalloc /\ q.nelts > 0
  BY <1>2, <1>3, <1>6, <1>7
<1> HIDE DEF p, q, n
<1>9. QED
  BY <1>2, <1>3, <1>4, <1>5, <1>6, <1>7, <1>8, UpdatePart DEF n, p

\* A removal steps over the first of several elements.
LEMMA RmFirstWF ==
    ASSUME NEW list, NEW b, NEW f, WellFormed(list, b, f),
           NEW k \in 1 .. Len(list.parts), list.parts[k].nelts > 1
    PROVE  WellFormed(RmFirst(list, k), b, f)
<1> DEFINE n == Len(list.parts)
           p == list.parts[k]
           q == [p EXCEPT !.elts = @ + 1, !.nelts = @ - 1]
           r == RmFirst(list, k)
           na == IF IsLast(list, k) THEN list.nalloc - 1 ELSE list.nalloc
<1>1. /\ Typed(list) /\ Allocated(list, b, f) /\ NoEmptyPart(list) /\ n >= 1
      /\ IsLast(list, k) <=> k = n
  BY WFFacts DEF IsLast
<1>2. /\ k \in 1 .. n /\ list \in List /\ TypedPart(p) /\ list.nalloc \in Nat
      /\ list.parts \in Seq(Part) /\ n \in Nat
  BY <1>1 DEF Typed
<1>3. /\ p.nelts \in Nat /\ p.elts \in Nat /\ p \in Part
      /\ list.nalloc >= 1
      /\ k = n => p.nelts <= list.nalloc /\ Room(list, k) = list.nalloc
      /\ k /= n => Room(list, k) = p.nelts
  BY <1>1, <1>2 DEF TypedPart, Allocated, Room
<1>4. /\ q \in Part
      /\ q.addr = p.addr /\ q.elts = p.elts + 1 /\ q.end = p.end
      /\ q.nelts = p.nelts - 1
  <2>1. p.nelts - 1 \in Nat /\ p.elts + 1 \in Nat
    BY <1>3
  <2>2. QED BY <1>3, <2>1 DEF Part
<1>5. r.parts = [list.parts EXCEPT ![k] = q] /\ r.last = list.last /\ r.nalloc = na
  BY <1>1, <1>2 DEF RmFirst, List
<1>6. na \in Nat /\ na >= 1 /\ (k /= n => na = list.nalloc)
  BY <1>1, <1>2, <1>3
<1>7. r \in List
  <2>1. [list.parts EXCEPT ![k] = q] \in Seq(Part)
    BY <1>2, <1>4
  <2>2. QED BY <1>2, <1>5, <1>6, <2>1 DEF RmFirst, List
<1>8. /\ k = n => q.nelts <= na
      /\ n > 1 => q.nelts > 0
      /\ p.elts <= q.elts
      /\ q.elts + (IF k = n THEN na ELSE q.nelts) <= p.elts + Room(list, k)
  <2>1. /\ q.nelts \in Nat /\ q.nelts > 0 /\ p.elts <= q.elts
        /\ q.elts + q.nelts <= p.elts + p.nelts
    BY <1>3, <1>4
  <2>2. CASE k = n
    BY <1>1, <1>2, <1>3, <1>4, <2>1, <2>2
  <2>3. CASE k /= n
    BY <1>3, <2>1, <2>3
  <2>4. QED BY <2>2, <2>3
<1> HIDE DEF p, q, r, na
<1>9. QED
  BY <1>2, <1>4, <1>5, <1>6, <1>7, <1>8, UpdatePart DEF p, r

\* A removal drops the last of several elements.
LEMMA RmTailWF ==
    ASSUME NEW list, NEW b, NEW f, WellFormed(list, b, f),
           NEW k \in 1 .. Len(list.parts), list.parts[k].nelts > 1
    PROVE  WellFormed(RmTail(list, k), b, f)
<1> DEFINE n == Len(list.parts)
           p == list.parts[k]
           q == [p EXCEPT !.nelts = @ - 1]
           r == RmTail(list, k)
           na == IF IsLast(list, k) THEN p.nelts - 1 ELSE list.nalloc
<1>1. /\ Typed(list) /\ Allocated(list, b, f) /\ NoEmptyPart(list) /\ n >= 1
      /\ IsLast(list, k) <=> k = n
  BY WFFacts DEF IsLast
<1>2. /\ k \in 1 .. n /\ list \in List /\ TypedPart(p) /\ list.nalloc \in Nat
      /\ list.parts \in Seq(Part) /\ n \in Nat
  BY <1>1 DEF Typed
<1>3. /\ p.nelts \in Nat /\ p.elts \in Nat /\ p \in Part
      /\ list.nalloc >= 1
      /\ k = n => p.nelts <= list.nalloc /\ Room(list, k) = list.nalloc
      /\ k /= n => Room(list, k) = p.nelts
  BY <1>1, <1>2 DEF TypedPart, Allocated, Room
<1>4. /\ q \in Part
      /\ q.addr = p.addr /\ q.elts = p.elts /\ q.end = p.end
      /\ q.nelts = p.nelts - 1
  <2>1. p.nelts - 1 \in Nat /\ p.elts \in Nat
    BY <1>3
  <2>2. QED BY <1>3, <2>1 DEF Part
<1>5. r.parts = [list.parts EXCEPT ![k] = q] /\ r.last = list.last /\ r.nalloc = na
  BY <1>1, <1>2 DEF RmTail, List
<1>6. na \in Nat /\ na >= 1 /\ (k /= n => na = list.nalloc)
  BY <1>1, <1>2, <1>3
<1>7. r \in List
  <2>1. [list.parts EXCEPT ![k] = q] \in Seq(Part)
    BY <1>2, <1>4
  <2>2. QED BY <1>2, <1>5, <1>6, <2>1 DEF RmTail, List
<1>8. /\ k = n => q.nelts <= na
      /\ n > 1 => q.nelts > 0
      /\ p.elts <= q.elts
      /\ q.elts + (IF k = n THEN na ELSE q.nelts) <= p.elts + Room(list, k)
  <2>1. /\ q.nelts \in Nat /\ q.nelts > 0 /\ p.elts <= q.elts
        /\ q.elts + q.nelts <= p.elts + p.nelts
    BY <1>3, <1>4
  <2>2. CASE k = n
    BY <1>1, <1>2, <1>3, <1>4, <2>1, <2>2
  <2>3. CASE k /= n
    BY <1>3, <2>1, <2>3
  <2>4. QED BY <2>2, <2>3
<1> HIDE DEF p, q, r, na
<1>9. QED
  BY <1>2, <1>4, <1>5, <1>6, <1>7, <1>8, UpdatePart DEF p, r

\* A removal empties the embedded part, which is the only one.
LEMMA RmOnlyOfSoleLastWF ==
    ASSUME NEW list, NEW b, NEW f, WellFormed(list, b, f),
           Len(list.parts) = 1
    PROVE  WellFormed(RmOnlyOfSoleLast(list), b, f)
<1> DEFINE n == Len(list.parts)
           p == list.parts[1]
           q == [p EXCEPT !.nelts = 0]
           r == RmOnlyOfSoleLast(list)
           na == list.nalloc
<1>1. /\ Typed(list) /\ Allocated(list, b, f) /\ NoEmptyPart(list) /\ n >= 1
      /\ IsLast(list, 1) <=> 1 = n
  BY WFFacts DEF IsLast
<1>2. /\ 1 \in 1 .. n /\ list \in List /\ TypedPart(p) /\ list.nalloc \in Nat
      /\ list.parts \in Seq(Part) /\ n \in Nat
  BY <1>1 DEF Typed
<1>3. /\ p.nelts \in Nat /\ p.elts \in Nat /\ p \in Part
      /\ list.nalloc >= 1
      /\ 1 = n => p.nelts <= list.nalloc /\ Room(list, 1) = list.nalloc
      /\ 1 /= n => Room(list, 1) = p.nelts
  BY <1>1, <1>2 DEF TypedPart, Allocated, Room
<1>4. /\ q \in Part
      /\ q.addr = p.addr /\ q.elts = p.elts /\ q.end = p.end
      /\ q.nelts = 0
  BY <1>2, <1>3 DEF TypedPart, Part
<1>5. r.parts = [list.parts EXCEPT ![1] = q] /\ r.last = list.last /\ r.nalloc = na
  BY <1>1, <1>2 DEF RmOnlyOfSoleLast, List
<1>6. na \in Nat /\ na >= 1 /\ (1 /= n => na = list.nalloc)
  BY <1>1, <1>2, <1>3
<1>7. r \in List
  <2>1. [list.parts EXCEPT ![1] = q] \in Seq(Part)
    BY <1>2, <1>4
  <2>2. QED BY <1>2, <1>5, <1>6, <2>1 DEF RmOnlyOfSoleLast, List
<1>8. /\ 1 = n => q.nelts <= na
      /\ n > 1 => q.nelts > 0
      /\ p.elts <= q.elts
      /\ q.elts + (IF 1 = n THEN na ELSE q.nelts) <= p.elts + Room(list, 1)
  BY <1>1, <1>2, <1>3, <1>4, <1>6
<1> HIDE DEF p, q, r, na
<1>9. QED
  BY <1>2, <1>4, <1>5, <1>6, <1>7, <1>8, UpdatePart DEF p, r

\* ngx_list_push behind a full last part.
LEMMA PushNewPartWF ==
    ASSUME NEW list, NEW b, NEW f, WellFormed(list, b, f), LastFull(list)
    PROVE  WellFormed(PushNewPart(list, b, f), b + list.nalloc, f + 1)
<1> DEFINE n == Len(list.parts)
           q == [addr |-> f, elts |-> b, nelts |-> 1, end |-> b + list.nalloc]
           r == PushNewPart(list, b, f)
<1>1. /\ Typed(list) /\ Allocated(list, b, f) /\ NoEmptyPart(list) /\ Linked(list)
      /\ Disjoint(list) /\ n >= 1 /\ LastIndex(list) = n
      /\ b \in Nat /\ f \in Nat \ {0}
      /\ \A k \in 1 .. n : list.parts[k].addr < f
  BY WFFacts
<1>2. /\ n \in Nat /\ n \in 1 .. n /\ list.parts \in Seq(Part) /\ list.nalloc \in Nat
      /\ list \in List /\ list.nalloc >= 1
      /\ DOMAIN list.parts = 1 .. n
  BY <1>1 DEF Typed, Allocated
<1>3. q \in Part
  BY <1>1, <1>2 DEF Part
<1>4. /\ r.parts = Append(SubSeq(list.parts, 1, n), q) /\ r.last = f
      /\ r.nalloc = list.nalloc
  BY <1>1, <1>2 DEF PushNewPart, List
<1>5. SubSeq(list.parts, 1, n) = list.parts
  BY <1>2
<1> HIDE DEF q
<1>6. /\ r.parts \in Seq(Part) /\ Len(r.parts) = n + 1 /\ r.parts[n + 1] = q
      /\ DOMAIN r.parts = 1 .. n + 1
      /\ \A k \in 1 .. n : r.parts[k] = list.parts[k]
  BY <1>2, <1>3, <1>4, <1>5
<1>7. r \in List
  BY <1>1, <1>2, <1>4, <1>6 DEF PushNewPart, List
<1>8. list.parts[n].nelts = list.nalloc
  BY <1>1 DEF LastFull
<1>9. /\ \A k \in 1 .. n : Room(r, k) = Room(list, k) /\ Span(r, k) = Span(list, k)
      /\ Room(r, n + 1) = list.nalloc
  BY <1>2, <1>4, <1>6, <1>8 DEF Room, Span
<1>10. /\ q.addr = f /\ q.elts = b /\ q.nelts = 1 /\ q.end = b + list.nalloc
  BY DEF q
<1>11. Linked(r)
  <2>1. /\ list.parts[1].addr = 0
        /\ \A i, j \in 1 .. n : list.parts[i].addr = list.parts[j].addr => i = j
    BY <1>1, <1>2 DEF Linked
  <2>2. ASSUME NEW i \in 1 .. n + 1, NEW j \in 1 .. n + 1,
               r.parts[i].addr = r.parts[j].addr
        PROVE  i = j
    <3>1. \A k \in 1 .. n : list.parts[k].addr /= f
      <4>1. \A k \in 1 .. n : list.parts[k].addr \in Nat
        BY <1>1 DEF Typed, TypedPart
      <4>2. QED BY <1>1, <4>1
    <3>2. (i \in 1 .. n \/ i = n + 1) /\ (j \in 1 .. n \/ j = n + 1)
      BY <1>2
    <3>3. r.parts[n + 1].addr = f /\ \A k \in 1 .. n : r.parts[k].addr = list.parts[k].addr
      BY <1>6, <1>10
    <3> HIDE DEF n, r
    <3>4. QED BY <2>1, <2>2, <3>1, <3>2, <3>3
  <2>3. /\ 1 \in 1 .. n /\ n + 1 >= 1
    BY <1>1, <1>2
  <2>4. /\ r.parts[1].addr = 0
        /\ r.parts[n + 1].addr = r.last
    BY <2>1, <2>3, <1>4, <1>6, <1>10
  <2> HIDE DEF n, r
  <2>5. QED BY <2>2, <2>3, <2>4, <1>6 DEF Linked
<1>12. NoEmptyPart(r)
  <2>1. ASSUME NEW k \in 1 .. n PROVE list.parts[k].nelts > 0
    BY <1>1, <1>2, <1>8 DEF NoEmptyPart
  <2>2. QED BY <2>1, <1>2, <1>6, <1>10 DEF NoEmptyPart
<1>13. ASSUME NEW k \in 1 .. n
       PROVE  /\ list.parts[k].elts + Room(list, k) <= list.parts[k].end
              /\ list.parts[k].end <= b
              /\ list.parts[k].elts \in Nat /\ list.parts[k].end \in Nat
              /\ Room(list, k) \in Nat
  BY <1>1, <1>2 DEF Allocated, Typed, TypedPart
<1>14. Disjoint(r)
  <2>1. Span(r, n + 1) = b .. b + list.nalloc - 1
    BY <1>6, <1>9, <1>10 DEF Span
  <2>2. \A k \in 1 .. n : Span(r, n + 1) \cap Span(r, k) = {}
    <3>1. SUFFICES ASSUME NEW k \in 1 .. n, NEW s \in Span(r, n + 1), s \in Span(list, k)
                   PROVE FALSE
      BY <1>9
    <3>2. s \in Int /\ s >= b
      BY <2>1, <1>1, <1>2
    <3>3. s <= list.parts[k].elts + Room(list, k) - 1
      BY <3>1, <1>13 DEF Span
    <3> DEFINE a == list.parts[k].elts
               x == Room(list, k)
               e == list.parts[k].end
    <3>4. a \in Nat /\ x \in Nat /\ e \in Nat /\ a + x <= e /\ e <= b /\ s <= a + x - 1
      BY <1>13, <3>3
    <3> HIDE DEF a, x, e
    <3>5. QED BY <1>1, <3>2, <3>4
  <2>3. \A i, k \in 1 .. n : i /= k => Span(r, i) \cap Span(r, k) = {}
    BY <1>1, <1>2, <1>9 DEF Disjoint
  <2>4. QED BY <2>2, <2>3, <1>2, <1>6 DEF Disjoint
<1>15. Allocated(r, b + list.nalloc, f + 1)
  <2>1. ASSUME NEW k \in 1 .. n
        PROVE  /\ r.parts[k].addr < f + 1
               /\ r.parts[k].elts + Room(r, k) <= r.parts[k].end
               /\ r.parts[k].end <= b + list.nalloc
    <3>1. list.parts[k].addr \in Nat
      BY <1>1 DEF Typed, TypedPart
    <3>2. list.parts[k].end <= b + list.nalloc
      BY <1>1, <1>2, <1>13
    <3>3. list.parts[k].addr < f + 1
      BY <1>1, <3>1
    <3>4. QED BY <1>6, <1>9, <1>13, <3>2, <3>3
  <2>2. /\ r.parts[n + 1].addr < f + 1
        /\ r.parts[n + 1].elts + Room(r, n + 1) <= r.parts[n + 1].end
        /\ r.parts[n + 1].end <= b + list.nalloc
        /\ r.parts[n + 1].nelts <= r.nalloc
    BY <1>1, <1>2, <1>4, <1>6, <1>9, <1>10
  <2>3. QED BY <2>1, <2>2, <1>2, <1>4, <1>6 DEF Allocated
<1>16. QED
  BY <1>1, <1>2, <1>7, <1>11, <1>12, <1>14, <1>15 DEF WellFormed

\* A removal drops the last part.
LEMMA RmOnlyOfLastWF ==
    ASSUME NEW list, NEW b, NEW f, WellFormed(list, b, f), Len(list.parts) > 1
    PROVE  WellFormed(RmOnlyOfLast(list, Len(list.parts)), b, f)
<1> DEFINE n == Len(list.parts)
           m == [j \in 1 .. n - 1 |-> j]
           r == RmOnlyOfLast(list, n)
<1>1. /\ Typed(list) /\ NoEmptyPart(list) /\ Linked(list) /\ f \in Nat \ {0}
      /\ \A k \in 1 .. n : list.parts[k].addr < f
  BY WFFacts
<1>2. /\ n \in Nat /\ n > 1 /\ list.parts \in Seq(Part) /\ list \in List
      /\ n - 1 \in 1 .. n /\ DOMAIN list.parts = 1 .. n
  BY <1>1 DEF Typed
<1>3. /\ r.parts = SubSeq(list.parts, 1, n - 1)
      /\ r.last = list.parts[n - 1].addr
      /\ r.nalloc = list.parts[n - 1].nelts
  BY DEF RmOnlyOfLast
<1>4. /\ r.parts \in Seq(Part) /\ Len(r.parts) = n - 1
      /\ DOMAIN r.parts = 1 .. n - 1
      /\ \A k \in 1 .. n - 1 : r.parts[k] = list.parts[k]
  BY <1>2, <1>3
<1>5. ASSUME NEW k \in 1 .. n - 1
      PROVE  /\ k \in 1 .. n /\ k /= n
             /\ TypedPart(list.parts[k]) /\ list.parts[k].nelts > 0
             /\ Room(list, k) = list.parts[k].nelts
             /\ Room(r, k) = list.parts[k].nelts
  <2>1. k \in 1 .. n /\ k /= n
    BY <1>2
  <2>2. TypedPart(list.parts[k]) /\ list.parts[k].nelts > 0
    BY <2>1, <1>1, <1>2 DEF Typed, NoEmptyPart
  <2>3. QED BY <2>1, <2>2, <1>2, <1>3, <1>4 DEF Room
<1>6. r \in List
  BY <1>2, <1>3, <1>4, <1>5 DEF RmOnlyOfLast, List, TypedPart
<1>7. Linked(r)
  <2>1. /\ list.parts[1].addr = 0
        /\ \A i, j \in 1 .. n : list.parts[i].addr = list.parts[j].addr => i = j
    BY <1>1, <1>2 DEF Linked
  <2>2. /\ \A k \in 1 .. n - 1 : k \in 1 .. n /\ r.parts[k].addr = list.parts[k].addr
        /\ 1 \in 1 .. n - 1 /\ n - 1 \in 1 .. n - 1 /\ n - 1 >= 1
    BY <1>2, <1>4
  <2> HIDE DEF n, r
  <2>3. QED BY <2>1, <2>2, <1>3, <1>4 DEF Linked
<1>8. NoEmptyPart(r)
  BY <1>4, <1>5 DEF NoEmptyPart
<1>9. r.nalloc >= 1 /\ r.parts[Len(r.parts)].nelts <= r.nalloc
  <2>1. n - 1 \in 1 .. n - 1
    BY <1>2
  <2>2. TypedPart(list.parts[n - 1]) /\ list.parts[n - 1].nelts > 0
    BY <1>5, <2>1
  <2>3. QED BY <1>3, <1>4, <2>1, <2>2 DEF TypedPart
<1>10. ASSUME NEW k \in 1 .. n - 1 PROVE Piece(r, k, list, k)
  <2>1. /\ list.parts[k].elts \in Nat /\ list.parts[k].nelts \in Nat
        /\ k \in 1 .. Len(list.parts)
    BY <1>5 DEF TypedPart
  <2>2. r.parts[k] = list.parts[k] /\ Room(r, k) = Room(list, k)
    BY <1>4, <1>5
  <2> HIDE DEF r
  <2>3. QED BY <1>5, <2>1, <2>2 DEF Piece
<1>11. \A j \in 1 .. n - 1 : m[j] = j
  OBVIOUS
<1> HIDE DEF m, r
<1>12. Cut(r, list, m)
  BY <1>4, <1>10, <1>11 DEF Cut
<1>13. \A k \in 1 .. Len(r.parts) : r.parts[k].addr < f
  BY <1>1, <1>4, <1>5
<1>14. QED
  BY <1>1, <1>6, <1>7, <1>8, <1>9, <1>12, <1>13, Reshape DEF r

\* A removal unlinks a part in the middle.
LEMMA RmOnlyOfMiddleWF ==
    ASSUME NEW list, NEW b, NEW f, WellFormed(list, b, f),
           NEW k \in 1 .. Len(list.parts), k > 1, k /= Len(list.parts)
    PROVE  WellFormed(RmOnlyOfMiddle(list, k), b, f)
<1> DEFINE n == Len(list.parts)
           old(j) == IF j < k THEN j ELSE j + 1
           m == [j \in 1 .. n - 1 |-> old(j)]
           r == RmOnlyOfMiddle(list, k)
<1>1. /\ Typed(list) /\ NoEmptyPart(list) /\ Linked(list) /\ Allocated(list, b, f)
      /\ f \in Nat \ {0}
      /\ \A j \in 1 .. n : list.parts[j].addr < f
  BY WFFacts
<1>2. /\ n \in Nat /\ n > 2 /\ list.parts \in Seq(Part) /\ list \in List
      /\ DOMAIN list.parts = 1 .. n /\ list.nalloc \in Nat /\ list.last \in Nat
  BY <1>1 DEF Typed
<1>3. /\ r.parts = SubSeq(list.parts, 1, k - 1) \o SubSeq(list.parts, k + 1, n)
      /\ r.last = list.last
      /\ r.nalloc = list.nalloc
  BY <1>2 DEF RmOnlyOfMiddle, List
<1>4. /\ r.parts \in Seq(Part) /\ Len(r.parts) = n - 1
      /\ DOMAIN r.parts = 1 .. n - 1
      /\ \A j \in 1 .. k - 1 : r.parts[j] = list.parts[j]
      /\ \A j \in k + 1 .. n : r.parts[j - 1] = list.parts[j]
  <2>1. /\ r.parts \in Seq(Part) /\ Len(r.parts) = n - 1
        /\ \A j \in 1 .. k - 1 : r.parts[j] = list.parts[j]
        /\ \A j \in k + 1 .. n : r.parts[j - 1] = list.parts[j]
    <3> HIDE DEF r
    <3>1. IsWithout(r.parts, Part, list.parts, k)
      BY <1>2, <1>3, LeftOut
    <3>2. QED BY <3>1 DEF IsWithout
  <2> HIDE DEF r, n, old
  <2>2. DOMAIN r.parts = 1 .. n - 1
    BY ONLY <2>1
  <2>3. QED BY <2>1, <2>2
<1>5. ASSUME NEW j \in 1 .. n - 1
      PROVE  /\ r.parts[j] = list.parts[old(j)] /\ old(j) \in 1 .. n
             /\ j = n - 1 <=> old(j) = n
  <2>1. CASE j < k
    BY <1>2, <1>4, <2>1
  <2>2. CASE j >= k
    <3>1. j + 1 \in k + 1 .. n /\ (j + 1) - 1 = j
      BY <1>2, <2>2
    <3> HIDE DEF r
    <3>2. r.parts[j] = list.parts[j + 1]
      BY <1>4, <3>1
    <3>3. QED BY <1>2, <2>2, <3>1, <3>2
  <2>3. QED BY <2>1, <2>2
<1>6. /\ \A i, j \in 1 .. n - 1 : old(i) = old(j) => i = j
      /\ 1 \in 1 .. n - 1 /\ n - 1 \in 1 .. n - 1 /\ n - 1 >= 1
      /\ old(1) = 1 /\ old(n - 1) = n
  BY <1>2
<1> HIDE DEF r, old
<1>7. r \in List
  <2>1. r = [list EXCEPT !.parts = r.parts]
    BY <1>2, <1>3 DEF r, RmOnlyOfMiddle, List
  <2>2. QED BY <1>2, <1>4, <2>1 DEF List
<1>8. Linked(r)
  <2>1. /\ list.parts[1].addr = 0 /\ list.parts[n].addr = list.last
        /\ \A i, j \in 1 .. n : list.parts[i].addr = list.parts[j].addr => i = j
    BY <1>1, <1>2 DEF Linked
  <2> HIDE DEF n
  <2>2. \A j \in 1 .. n - 1 : old(j) \in 1 .. n /\ r.parts[j].addr = list.parts[old(j)].addr
    BY <1>5
  <2>3. r.parts[1].addr = 0 /\ r.parts[n - 1].addr = r.last
    BY <2>1, <2>2, <1>3, <1>6
  <2>4. ASSUME NEW i \in 1 .. n - 1, NEW j \in 1 .. n - 1,
               r.parts[i].addr = r.parts[j].addr
        PROVE  i = j
    <3>1. list.parts[old(i)].addr = list.parts[old(j)].addr
      BY <2>2, <2>4
    <3>2. old(i) = old(j)
      BY <2>1, <2>2, <3>1
    <3>3. QED BY <1>6, <3>2
  <2>5. QED BY <2>3, <2>4, <1>4, <1>6 DEF Linked
<1>9. NoEmptyPart(r)
  <2>1. \A j \in 1 .. n : list.parts[j].nelts > 0
    BY <1>1, <1>2 DEF NoEmptyPart
  <2>2. QED BY <2>1, <1>4, <1>5 DEF NoEmptyPart
<1>10. r.nalloc >= 1 /\ r.parts[Len(r.parts)].nelts <= r.nalloc
  BY <1>1, <1>2, <1>3, <1>4, <1>5, <1>6 DEF Allocated
<1>11. ASSUME NEW j \in 1 .. n - 1 PROVE Piece(r, j, list, old(j))
  <2>1. /\ list.parts[old(j)].elts \in Nat /\ Room(list, old(j)) \in Nat
        /\ old(j) \in 1 .. n
    BY <1>1, <1>5 DEF Typed, TypedPart
  <2>2. Room(r, j) = Room(list, old(j))
    BY <1>3, <1>4, <1>5 DEF Room
  <2>3. QED BY <1>5, <2>1, <2>2 DEF Piece
<1>12. \A j \in 1 .. n - 1 : m[j] = old(j)
  OBVIOUS
<1> HIDE DEF m
<1>13. Cut(r, list, m)
  BY <1>4, <1>6, <1>11, <1>12 DEF Cut
<1>14. \A j \in 1 .. Len(r.parts) : r.parts[j].addr < f
  BY <1>1, <1>4, <1>5
<1>15. QED
  BY <1>1, <1>7, <1>8, <1>9, <1>10, <1>13, <1>14, Reshape DEF r

\* A removal copies the second part over the embedded one.
LEMMA RmOnlyOfEmbeddedWF ==
    ASSUME NEW list, NEW b, NEW f, WellFormed(list, b, f), Len(list.parts) > 1
    PROVE  WellFormed(RmOnlyOfEmbedded(list), b, f)
<1> DEFINE n == Len(list.parts)
           m == [j \in 1 .. n - 1 |-> j + 1]
           r == RmOnlyOfEmbedded(list)
           c == [list.parts[2] EXCEPT !.addr = list.parts[1].addr]
<1>1. /\ Typed(list) /\ NoEmptyPart(list) /\ Linked(list) /\ Allocated(list, b, f)
      /\ f \in Nat \ {0}
      /\ \A j \in 1 .. n : list.parts[j].addr < f
  BY WFFacts
<1>2. /\ n \in Nat /\ n >= 2 /\ list.parts \in Seq(Part) /\ list \in List
      /\ DOMAIN list.parts = 1 .. n /\ list.nalloc \in Nat /\ list.last \in Nat
      /\ 1 \in 1 .. n /\ 2 \in 1 .. n
  BY <1>1 DEF Typed
<1>3. /\ list.parts[1].addr = 0 /\ list.parts[n].addr = list.last
      /\ \A i, j \in 1 .. n : list.parts[i].addr = list.parts[j].addr => i = j
      /\ list.last = list.parts[2].addr <=> n = 2
  <2>1. /\ list.parts[1].addr = 0 /\ list.parts[n].addr = list.last
        /\ \A i, j \in 1 .. n : list.parts[i].addr = list.parts[j].addr => i = j
    BY <1>1, <1>2 DEF Linked
  <2>2. n \in 1 .. n
    BY <1>2
  <2> HIDE DEF n
  <2>3. QED BY <2>1, <2>2, <1>2
<1>4. c \in Part /\ c.addr = 0 /\ c.elts = list.parts[2].elts
      /\ c.nelts = list.parts[2].nelts /\ c.end = list.parts[2].end
  <2>1. list.parts[2] \in Part
    BY <1>2
  <2>2. QED BY <1>3, <2>1 DEF Part
<1>5. /\ r.parts = <<c>> \o SubSeq(list.parts, 3, n)
      /\ r.last = IF n = 2 THEN 0 ELSE list.last
      /\ r.nalloc = IF n = 2 THEN list.parts[2].nelts ELSE list.nalloc
  BY <1>3, <1>4 DEF RmOnlyOfEmbedded
<1> HIDE DEF c
<1>6. /\ r.parts \in Seq(Part) /\ Len(r.parts) = n - 1
      /\ DOMAIN r.parts = 1 .. n - 1 /\ r.parts[1] = c
  BY <1>2, <1>4, <1>5
<1>7. ASSUME NEW j \in 2 .. n - 1 PROVE r.parts[j] = list.parts[j + 1]
  <2>1. r.parts[j] = SubSeq(list.parts, 3, n)[j - 1]
    BY <1>2, <1>5
  <2>2. SubSeq(list.parts, 3, n)[j - 1] = list.parts[j + 1]
    BY <1>2
  <2>3. QED BY <2>1, <2>2
<1>8. \A j \in 1 .. n - 1 : TypedPart(list.parts[j + 1]) /\ list.parts[j + 1].nelts > 0
  BY <1>1, <1>2 DEF Typed, NoEmptyPart
<1>9. ASSUME NEW j \in 1 .. n - 1
      PROVE  /\ r.parts[j].elts = list.parts[j + 1].elts
             /\ r.parts[j].nelts = list.parts[j + 1].nelts
             /\ r.parts[j].end = list.parts[j + 1].end
             /\ r.parts[j].addr < f
             /\ r.parts[j].addr = IF j = 1 THEN 0 ELSE list.parts[j + 1].addr
  <2>1. j = 1 \/ j \in 2 .. n - 1
    BY <1>2
  <2>2. j + 1 \in 1 .. n /\ (j + 1 = 2 <=> j = 1)
    BY <1>2
  <2> HIDE DEF r, n
  <2>3. CASE j = 1
    <3>1. 1 + 1 = 2 /\ 0 < f
      BY <1>1
    <3>2. QED BY <1>4, <1>6, <2>3, <3>1
  <2>4. CASE j \in 2 .. n - 1
    <3>1. j /= 1
      BY <2>4
    <3>2. QED BY <1>1, <1>7, <2>2, <2>4, <3>1
  <2>5. QED BY <2>1, <2>3, <2>4
<1>10. /\ 1 \in 1 .. n - 1 /\ n - 1 \in 1 .. n - 1 /\ n - 1 >= 1 /\ (n - 1) + 1 = n
       /\ n - 1 = 1 <=> n = 2
       /\ \A i, j \in 1 .. n - 1 : /\ i + 1 \in 1 .. n /\ i + 1 /= 1
                                   /\ (i + 1 = j + 1 => i = j)
                                   /\ i = n - 1 <=> i + 1 = n
  BY <1>2
<1>11. list.parts[2].nelts \in Nat
  BY <1>1, <1>2 DEF Typed, TypedPart
<1>12. r \in List
  BY <1>2, <1>5, <1>6, <1>11 DEF RmOnlyOfEmbedded, List
<1> HIDE DEF r
<1>13. Linked(r)
  <2>1. r.parts[n - 1].addr = r.last
    BY <1>3, <1>5, <1>9, <1>10
  <2>2. ASSUME NEW i \in 1 .. n - 1, NEW j \in 1 .. n - 1,
               r.parts[i].addr = r.parts[j].addr
        PROVE  i = j
    <3> HIDE DEF n
    <3>1. list.parts[i + 1].addr /= 0 /\ list.parts[j + 1].addr /= 0
      BY <1>2, <1>3, <1>10
    <3>2. QED BY <1>3, <1>9, <1>10, <2>2, <3>1
  <2> HIDE DEF n
  <2>3. QED BY <2>1, <2>2, <1>6, <1>9, <1>10 DEF Linked
<1>14. NoEmptyPart(r)
  BY <1>6, <1>8, <1>9 DEF NoEmptyPart
<1>15. r.nalloc >= 1 /\ r.parts[Len(r.parts)].nelts <= r.nalloc
  <2>1. /\ list.parts[n].nelts <= list.nalloc /\ list.nalloc >= 1
        /\ list.parts[2].nelts > 0
    BY <1>1, <1>8, <1>10 DEF Allocated
  <2>2. r.parts[n - 1].nelts = list.parts[n].nelts
    BY <1>9, <1>10
  <2>3. QED BY <2>1, <2>2, <1>5, <1>6, <1>11
<1>16. ASSUME NEW j \in 1 .. n - 1 PROVE Piece(r, j, list, j + 1)
  <2>1. /\ list.parts[j + 1].elts \in Nat /\ Room(list, j + 1) \in Nat
        /\ j + 1 \in 1 .. n /\ list.parts[j + 1].nelts \in Nat
    BY <1>1, <1>10 DEF Typed, TypedPart
  <2>2. Room(r, j) <= Room(list, j + 1)
    <3>1. CASE j = n - 1
      <4>1. Room(r, j) = r.nalloc /\ Room(list, j + 1) = list.nalloc
        BY <1>6, <1>10, <3>1 DEF Room
      <4>2. list.parts[n].nelts <= list.nalloc
        BY <1>1 DEF Allocated
      <4>3. QED BY <1>2, <1>5, <1>11, <4>1, <4>2
    <3>2. CASE j /= n - 1
      BY <1>6, <1>9, <1>10, <2>1, <3>2 DEF Room
    <3>3. QED BY <3>1, <3>2
  <2>3. Room(r, j) \in Nat
    BY <1>12, <1>6, ListTypes DEF Typed
  <2>4. list.parts[j + 1].elts + Room(r, j) <= list.parts[j + 1].elts + Room(list, j + 1)
    BY <2>1, <2>2, <2>3
  <2>5. QED BY <1>9, <2>1, <2>4 DEF Piece
<1>17. \A j \in 1 .. n - 1 : m[j] = j + 1
  OBVIOUS
<1> HIDE DEF m
<1>18. Cut(r, list, m)
  BY <1>6, <1>10, <1>16, <1>17 DEF Cut
<1>19. QED
  BY <1>1, <1>6, <1>9, <1>12, <1>13, <1>14, <1>15, <1>18, Reshape DEF r

\* The two halves of a split part of c elements from a on.
LEMMA SplitArith ==
    ASSUME NEW a \in Nat, NEW c \in Nat, NEW i \in Nat, i < c - 1
    PROVE  /\ a + i + 1 \in Nat /\ c - i - 1 \in Nat
           /\ a <= a + i + 1
           /\ \A x \in Nat : c <= x => a + i + 1 + (c - i - 1) <= a + x
           /\ (a .. a + i - 1) \cap (a + i + 1 .. a + i + 1 + (c - i - 1) - 1) = {}
OBVIOUS

\* A removal from the middle of a part splits it.
LEMMA RmSplitWF ==
    ASSUME NEW list, NEW b, NEW f, WellFormed(list, b, f),
           NEW k \in 1 .. Len(list.parts), NEW i \in Nat,
           i > 0, i < list.parts[k].nelts - 1
    PROVE  WellFormed(RmSplit(list, k, i, f), b, f + 1)
<1> DEFINE n == Len(list.parts)
           p == list.parts[k]
           left == [p EXCEPT !.nelts = i]
           right == [addr |-> f, elts |-> p.elts + i + 1,
                     nelts |-> p.nelts - i - 1, end |-> p.end]
           mid == <<left, right>>
           r == RmSplit(list, k, i, f)
           old(j) == IF j <= k THEN j ELSE j - 1
           m == [j \in 1 .. n + 1 |-> old(j)]
<1>1. /\ Typed(list) /\ NoEmptyPart(list) /\ Linked(list) /\ Allocated(list, b, f)
      /\ f \in Nat \ {0}
      /\ \A j \in 1 .. n : list.parts[j].addr < f
      /\ IsLast(list, k) <=> k = n
  BY WFFacts
<1>2. /\ n \in Nat /\ n >= 1 /\ list.parts \in Seq(Part) /\ list \in List
      /\ DOMAIN list.parts = 1 .. n /\ list.nalloc \in Nat /\ list.last \in Nat
      /\ k \in Nat /\ k >= 1 /\ k <= n
  BY <1>1 DEF Typed
<1>3. /\ p \in Part /\ p.elts \in Nat /\ p.nelts \in Nat /\ p.end \in Nat /\ p.addr \in Nat
  BY <1>1, <1>2 DEF Typed, TypedPart
<1>4. /\ left \in Part /\ left.addr = p.addr /\ left.elts = p.elts
      /\ left.nelts = i /\ left.end = p.end
  BY <1>3 DEF Part
<1>5. /\ right \in Part /\ right.addr = f /\ right.elts = p.elts + i + 1
      /\ right.nelts = p.nelts - i - 1 /\ right.end = p.end
  <2>1. p.elts + i + 1 \in Nat /\ p.nelts - i - 1 \in Nat
    BY <1>3, SplitArith
  <2>2. QED BY <1>1, <1>3, <2>1 DEF Part
<1>6. /\ r.parts = SubSeq(list.parts, 1, k - 1) \o mid \o SubSeq(list.parts, k + 1, n)
      /\ r.last = IF k = n THEN f ELSE list.last
      /\ r.nalloc = IF k = n THEN right.nelts ELSE list.nalloc
  BY <1>1 DEF RmSplit
<1>7. /\ mid \in Seq(Part) /\ Len(mid) = 2 /\ mid[1] = left /\ mid[2] = right
  <2> HIDE DEF left, right
  <2>1. QED BY <1>4, <1>5
<1> HIDE DEF r, mid
<1>8. /\ r.parts \in Seq(Part) /\ Len(r.parts) = n - 1 + Len(mid)
      /\ \A j \in 1 .. k - 1 : r.parts[j] = list.parts[j]
      /\ \A j \in 1 .. Len(mid) : r.parts[k - 1 + j] = mid[j]
      /\ \A j \in k + 1 .. n : r.parts[j - 1 + Len(mid)] = list.parts[j]
  <2>1. list.parts \in Seq(Part) /\ k \in 1 .. Len(list.parts) /\ mid \in Seq(Part)
    BY <1>2, <1>7
  <2>2. r.parts = SubSeq(list.parts, 1, k - 1) \o mid
                    \o SubSeq(list.parts, k + 1, Len(list.parts))
    BY <1>6
  <2>3. IsAround(r.parts, Part, list.parts, k, mid)
    BY ONLY <2>1, <2>2, Around
  <2>4. QED BY <2>3 DEF IsAround
<1> HIDE DEF left, right
<1>9. /\ Len(r.parts) = n + 1 /\ DOMAIN r.parts = 1 .. n + 1
      /\ r.parts[k] = left /\ r.parts[k + 1] = right
  BY <1>2, <1>7, <1>8
<1>10. ASSUME NEW j \in 1 .. n + 1, j /= k, j /= k + 1
       PROVE  r.parts[j] = list.parts[old(j)]
  <2>1. CASE j < k
    BY <1>2, <1>8, <2>1
  <2>2. CASE j > k + 1
    <3>1. j - 1 \in k + 1 .. n
      BY <1>2, <2>2
    <3>2. r.parts[(j - 1) - 1 + 2] = list.parts[j - 1]
      BY <1>7, <1>8, <3>1
    <3>3. QED BY <1>2, <2>2, <3>2
  <2>3. QED BY <1>2, <1>10, <2>1, <2>2
<1>11. /\ \A j \in 1 .. n + 1 : old(j) \in 1 .. n
       /\ \A j \in 1 .. n + 1 : old(j) = k <=> j = k \/ j = k + 1
       /\ old(1) = 1 /\ old(n + 1) = n /\ old(k) = k /\ old(k + 1) = k
       /\ 1 \in 1 .. n + 1 /\ n + 1 \in 1 .. n + 1 /\ n + 1 >= 1
       /\ k \in 1 .. n + 1 /\ k + 1 \in 1 .. n + 1 /\ k /= k + 1
       /\ k = n <=> k + 1 = n + 1
       /\ k /= n + 1
  BY <1>2
<1>12. \A j, h \in 1 .. n + 1 : old(j) = old(h) /\ j /= h
             => (j = k /\ h = k + 1) \/ (j = k + 1 /\ h = k)
  BY <1>2
<1>13. \A j \in 1 .. n + 1 : j /= k /\ j /= k + 1 => (j = n + 1 <=> old(j) = n)
  BY <1>2
<1> HIDE DEF old
<1>14. r \in List
  <2>1. r = [parts |-> r.parts, last |-> r.last, nalloc |-> r.nalloc]
    BY DEF r, RmSplit
  <2>2. r.last \in Nat /\ r.nalloc \in Nat
    BY <1>1, <1>2, <1>5, <1>6 DEF Part
  <2>3. QED BY <1>8, <2>1, <2>2 DEF List
<1>15. Linked(r)
  <2>1. /\ list.parts[1].addr = 0 /\ list.parts[n].addr = list.last
        /\ \A h, j \in 1 .. n : list.parts[h].addr = list.parts[j].addr => h = j
    BY <1>1, <1>2 DEF Linked
  <2>2. ASSUME NEW j \in 1 .. n + 1, j /= k + 1
        PROVE  r.parts[j].addr = list.parts[old(j)].addr
    <3>1. CASE j = k
      BY <1>4, <1>9, <1>11, <3>1
    <3>2. CASE j /= k
      BY <1>10, <2>2, <3>2
    <3>3. QED BY <3>1, <3>2
  <2>3. r.parts[k + 1].addr = f
    BY <1>5, <1>9
  <2>4. r.parts[1].addr = 0
    BY <1>2, <1>11, <2>1, <2>2
  <2>5. r.parts[n + 1].addr = r.last
    <3>1. CASE k = n
      BY <1>6, <1>11, <2>3, <3>1
    <3>2. CASE k /= n
      BY <1>6, <1>11, <2>1, <2>2, <3>2
    <3>3. QED BY <3>1, <3>2
  <2>6. ASSUME NEW h \in 1 .. n + 1, NEW j \in 1 .. n + 1,
               r.parts[h].addr = r.parts[j].addr
        PROVE  h = j
    <3>1. \A e \in 1 .. n : list.parts[e].addr /= f
      <4>1. \A e \in 1 .. n : list.parts[e].addr \in Nat
        BY <1>1 DEF Typed, TypedPart
      <4>2. QED BY <1>1, <4>1
    <3>2. CASE h = k + 1 \/ j = k + 1
      BY <1>11, <2>2, <2>3, <2>6, <3>1, <3>2
    <3>3. CASE h /= k + 1 /\ j /= k + 1
      <4>1. list.parts[old(h)].addr = list.parts[old(j)].addr
        BY <2>2, <2>6, <3>3
      <4>2. old(h) \in 1 .. n /\ old(j) \in 1 .. n
        BY <1>11
      <4>3. old(h) = old(j)
        BY <2>1, <4>1, <4>2
      <4>4. QED BY <1>12, <3>3, <4>3
    <3>4. QED BY <3>2, <3>3
  <2> HIDE DEF n
  <2>7. QED BY <1>9, <1>11, <2>4, <2>5, <2>6 DEF Linked
<1>16. left.nelts > 0 /\ right.nelts > 0 /\ right.nelts \in Nat
  BY <1>3, <1>4, <1>5
<1>17. NoEmptyPart(r)
  <2>1. ASSUME NEW j \in 1 .. n + 1 PROVE r.parts[j].nelts > 0
    <3>1. CASE j = k \/ j = k + 1
      BY <1>9, <1>16, <3>1
    <3>2. CASE j /= k /\ j /= k + 1
      <4>1. n > 1
        BY <1>2, <3>2
      <4>2. old(j) \in 1 .. n
        BY <1>11
      <4>3. list.parts[old(j)].nelts > 0
        BY <1>1, <1>2, <4>1, <4>2 DEF NoEmptyPart
      <4>4. QED BY <1>10, <3>2, <4>3
    <3>3. QED BY <3>1, <3>2
  <2>2. QED BY <2>1, <1>9 DEF NoEmptyPart
<1>18. r.nalloc >= 1 /\ r.parts[Len(r.parts)].nelts <= r.nalloc
  <2>1. CASE k = n
    <3>1. r.nalloc = right.nelts /\ r.parts[n + 1].nelts = right.nelts
      BY <1>6, <1>9, <2>1
    <3>2. QED BY <1>9, <1>16, <3>1
  <2>2. CASE k /= n
    <3>1. r.parts[n + 1] = list.parts[n]
      <4>1. n + 1 /= k /\ n + 1 /= k + 1
        BY <1>2, <1>11, <2>2
      <4>2. QED BY <1>10, <1>11, <4>1
    <3>2. list.nalloc >= 1 /\ list.parts[n].nelts <= list.nalloc
      BY <1>1 DEF Allocated
    <3>3. QED BY <1>6, <1>9, <2>2, <3>1, <3>2
  <2>3. QED BY <2>1, <2>2
<1>19. \A j \in 1 .. n : TypedPart(list.parts[j]) /\ Room(list, j) \in Nat
  BY <1>1 DEF Typed
<1>20. p.nelts <= Room(list, k)
  BY <1>1, <1>2, <1>3 DEF Room, Allocated
<1>21. /\ Room(r, k) = i
       /\ Room(r, k + 1) = p.nelts - i - 1
  <2>1. Room(r, k) = left.nelts
    BY <1>9, <1>11 DEF Room
  <2>2. Room(r, k + 1) = right.nelts
    BY <1>6, <1>9, <1>11 DEF Room
  <2>3. QED BY <2>1, <2>2, <1>4, <1>5
<1>22. ASSUME NEW j \in 1 .. n + 1 PROVE Piece(r, j, list, old(j))
  <2>1. CASE j = k
    <3>1. p.elts <= p.elts /\ p.elts + i <= p.elts + Room(list, k)
      BY <1>3, <1>19, <1>20
    <3>2. QED BY <2>1, <3>1, <1>4, <1>9, <1>11, <1>21 DEF Piece
  <2>2. CASE j = k + 1
    <3>1. /\ p.elts <= p.elts + i + 1
          /\ p.elts + i + 1 + (p.nelts - i - 1) <= p.elts + Room(list, k)
      BY <1>3, <1>19, <1>20, SplitArith
    <3>2. QED BY <2>2, <3>1, <1>5, <1>9, <1>11, <1>21 DEF Piece
  <2>3. CASE j /= k /\ j /= k + 1
    <3>1. r.parts[j] = list.parts[old(j)] /\ old(j) \in 1 .. n
      BY <1>10, <1>11, <2>3
    <3>2. Room(r, j) = Room(list, old(j))
      <4>1. CASE j = n + 1
        <5>1. k /= n /\ old(j) = n
          BY <1>11, <2>3, <4>1
        <5>2. QED BY <1>6, <1>9, <4>1, <5>1 DEF Room
      <4>2. CASE j /= n + 1
        BY <1>9, <1>13, <2>3, <3>1, <4>2 DEF Room
      <4>3. QED BY <4>1, <4>2
    <3>3. list.parts[old(j)].elts \in Nat /\ Room(list, old(j)) \in Nat
      BY <1>19, <3>1 DEF TypedPart
    <3>4. QED BY <3>1, <3>2, <3>3 DEF Piece
  <2>4. QED BY <2>1, <2>2, <2>3
<1>23. Span(r, k) \cap Span(r, k + 1) = {}
  <2>1. /\ Span(r, k) = p.elts .. p.elts + i - 1
        /\ Span(r, k + 1) = p.elts + i + 1 .. p.elts + i + 1 + (p.nelts - i - 1) - 1
    BY <1>4, <1>5, <1>9, <1>21 DEF Span
  <2>2. QED BY <2>1, <1>3, SplitArith
<1>24. \A j \in 1 .. n + 1 : m[j] = old(j)
  OBVIOUS
<1> HIDE DEF m
<1>25. Cut(r, list, m)
  <2>1. ASSUME NEW h \in 1 .. n + 1, NEW j \in 1 .. n + 1, h /= j, m[h] = m[j]
        PROVE  Span(r, h) \cap Span(r, j) = {}
    <3>1. (h = k /\ j = k + 1) \/ (h = k + 1 /\ j = k)
      BY <1>12, <1>24, <2>1
    <3>2. QED BY <1>23, <3>1
  <2>2. QED BY <2>1, <1>9, <1>22, <1>24 DEF Cut
<1>26. \A j \in 1 .. n + 1 : r.parts[j].addr < f + 1
  <2>1. \A j \in 1 .. n : list.parts[j].addr < f + 1
    BY <1>1, <1>19 DEF TypedPart
  <2>2. f < f + 1
    BY <1>1
  <2>3. QED BY <1>4, <1>5, <1>9, <1>10, <1>11, <2>1, <2>2, <1>2
<1>27. f + 1 \in Nat \ {0}
  BY <1>1
<1>28. QED
  BY <1>9, <1>14, <1>15, <1>17, <1>18, <1>25, <1>26, <1>27, Reshape DEF r

-----------------------------------------------------------------------------
(* The inductive invariant. *)

\* Well-formedness does not depend on how far the pool's counter has moved.
LEMMA LaterPool ==
    ASSUME NEW list, NEW b, NEW f, WellFormed(list, b, f)
    PROVE  WellFormed(list, b, f + 1)
<1>1. /\ Typed(list) /\ f \in Nat /\ Allocated(list, b, f)
      /\ \A k \in 1 .. Len(list.parts) : list.parts[k].addr < f
  BY WFFacts
<1>2. \A k \in 1 .. Len(list.parts) : list.parts[k].addr < f + 1
  BY <1>1 DEF Typed, TypedPart
<1>3. Allocated(list, b, f + 1)
  BY <1>1, <1>2 DEF Allocated, Typed
<1>4. f + 1 \in Nat \ {0}
  BY <1>1
<1>5. QED BY <1>3, <1>4 DEF WellFormed

\* Removing any element keeps the list well formed; only the branch that splits
\* a part takes an address from the pool.
LEMMA RmHeaderHelperWF ==
    ASSUME NEW list, NEW b, NEW f, WellFormed(list, b, f),
           NEW k \in 1 .. Len(list.parts), NEW i \in 0 .. list.parts[k].nelts - 1
    PROVE  /\ ~RmNeedsPart(list, k, i) => WellFormed(rm_header_helper(list, k, i, f), b, f)
           /\ WellFormed(rm_header_helper(list, k, i, f), b, f + 1)
<1> DEFINE n == Len(list.parts)
           only == i = 0 /\ list.parts[k].nelts = 1
           r == rm_header_helper(list, k, i, f)
<1>1. /\ n >= 1 /\ n \in Nat /\ list.parts[k].nelts \in Nat
      /\ IsLast(list, k) <=> k = n
  BY WFFacts DEF Typed, TypedPart
<1>2. i \in Nat /\ list.parts[k].nelts >= 1 /\ i <= list.parts[k].nelts - 1
  BY <1>1
<1>3. CASE only /\ IsLast(list, k) /\ k = 1
  <2>1. r = RmOnlyOfSoleLast(list) /\ n = 1
    BY <1>1, <1>3 DEF rm_header_helper, RmNeedsPart
  <2>2. WellFormed(r, b, f)
    BY <2>1, RmOnlyOfSoleLastWF
  <2>3. QED BY <2>2, LaterPool
<1>4. CASE only /\ IsLast(list, k) /\ k > 1
  <2>1. r = RmOnlyOfLast(list, n) /\ n > 1
    BY <1>1, <1>4 DEF rm_header_helper, RmNeedsPart
  <2>2. WellFormed(r, b, f)
    BY <2>1, RmOnlyOfLastWF
  <2>3. QED BY <2>2, LaterPool
<1>5. CASE only /\ ~IsLast(list, k) /\ k = 1
  <2>1. r = RmOnlyOfEmbedded(list)
    BY <1>5 DEF rm_header_helper, RmNeedsPart
  <2>2. n > 1
    <3>1. 1 /= n /\ n >= 1 /\ n \in Nat
      BY <1>1, <1>5
    <3> HIDE DEF n
    <3>2. QED BY ONLY <3>1
  <2>3. WellFormed(r, b, f)
    BY <2>1, <2>2, RmOnlyOfEmbeddedWF
  <2>4. QED BY <2>3, LaterPool
<1>6. CASE only /\ ~IsLast(list, k) /\ k > 1
  <2>1. r = RmOnlyOfMiddle(list, k) /\ k /= n
    BY <1>1, <1>6 DEF rm_header_helper, RmNeedsPart
  <2>2. WellFormed(r, b, f)
    BY <2>1, <1>6, RmOnlyOfMiddleWF
  <2>3. QED BY <2>2, LaterPool
<1>7. CASE i = 0 /\ ~only
  <2>1. r = RmFirst(list, k) /\ list.parts[k].nelts > 1
    BY <1>1, <1>2, <1>7 DEF rm_header_helper, RmNeedsPart
  <2>2. WellFormed(r, b, f)
    BY <2>1, RmFirstWF
  <2>3. QED BY <2>2, LaterPool
<1>8. CASE i > 0 /\ ~RmNeedsPart(list, k, i)
  <2>1. r = RmTail(list, k)
    BY <1>1, <1>2, <1>8 DEF rm_header_helper
  <2>2. list.parts[k].nelts > 1
    BY <1>1, <1>2, <1>8
  <2>3. WellFormed(r, b, f)
    BY <2>1, <2>2, RmTailWF
  <2>4. QED BY <2>3, LaterPool
<1>9. CASE RmNeedsPart(list, k, i)
  <2>1. i > 0 /\ i < list.parts[k].nelts - 1
    BY <1>9 DEF RmNeedsPart
  <2>2. r = RmSplit(list, k, i, f)
    BY <1>1, <1>2, <1>9, <2>1 DEF rm_header_helper
  <2>3. WellFormed(r, b, f + 1)
    BY <1>2, <2>1, <2>2, RmSplitWF
  <2>4. QED BY <1>9, <2>3
<1>10. k = 1 \/ k > 1
  BY <1>1
<1>11. i = 0 \/ i > 0
  BY <1>2
<1>12. QED
  BY <1>3, <1>4, <1>5, <1>6, <1>7, <1>8, <1>9, <1>10, <1>11

\* The list ngx_list_init makes is well formed.
LEMMA InitIInv == Init => IInv
<1>1. SUFFICES ASSUME Init PROVE IInv
  OBVIOUS
<1> DEFINE p == [addr |-> 0, elts |-> 0, nelts |-> 0, end |-> NAlloc]
<1>2. /\ p \in Part /\ NAlloc \in Nat /\ NAlloc >= 1
      /\ p.addr = 0 /\ p.elts = 0 /\ p.nelts = 0 /\ p.end = NAlloc
  BY NAllocAssumption DEF Part
<1>3. /\ l.parts = <<p>> /\ l.last = 0 /\ l.nalloc = NAlloc
      /\ brk = NAlloc /\ fresh = 1
      /\ l = [parts |-> <<p>>, last |-> 0, nalloc |-> NAlloc]
  BY <1>1 DEF Init, EmptyList
<1> HIDE DEF p
<1>4. /\ <<p>> \in Seq(Part) /\ Len(<<p>>) = 1 /\ <<p>>[1] = p /\ DOMAIN <<p>> = {1}
  BY <1>2
<1>5. l \in List
  BY <1>2, <1>3, <1>4 DEF List
<1>6. Linked(l) /\ NoEmptyPart(l) /\ Disjoint(l)
  BY <1>2, <1>3, <1>4 DEF Linked, NoEmptyPart, Disjoint
<1>7. Allocated(l, brk, fresh)
  BY <1>2, <1>3, <1>4 DEF Allocated, Room
<1>8. QED BY <1>2, <1>3, <1>5, <1>6, <1>7 DEF IInv, WellFormed

\* Every step keeps it.
LEMMA NextIInv == IInv /\ [Next]_vars => IInv'
<1>1. SUFFICES ASSUME IInv, [Next]_vars PROVE IInv'
  OBVIOUS
<1>2. CASE Push
  BY <1>1, <1>2, PushInLastWF DEF IInv, Push
<1>3. CASE PushGrow
  BY <1>1, <1>3, PushNewPartWF DEF IInv, PushGrow
<1>4. ASSUME NEW k \in DOMAIN l.parts, NEW i \in 0 .. l.parts[k].nelts - 1,
             Rm(k, i) \/ RmGrow(k, i)
      PROVE  IInv'
  <2>1. k \in 1 .. Len(l.parts)
    BY <1>1, WFFacts DEF IInv, Typed
  <2>2. /\ ~RmNeedsPart(l, k, i) => WellFormed(rm_header_helper(l, k, i, fresh), brk, fresh)
        /\ WellFormed(rm_header_helper(l, k, i, fresh), brk, fresh + 1)
    BY <1>1, <2>1, RmHeaderHelperWF DEF IInv
  <2>3. CASE Rm(k, i)
    BY <2>2, <2>3 DEF Rm, IInv
  <2>4. CASE RmGrow(k, i)
    BY <2>2, <2>4 DEF RmGrow, IInv
  <2>5. QED BY <1>4, <2>3, <2>4
<1>5. CASE UNCHANGED vars
  BY <1>1, <1>5 DEF IInv, vars
<1>6. QED BY <1>1, <1>2, <1>3, <1>4, <1>5 DEF Next, RmAny

\* The invariant holds in every reachable state.
THEOREM Invariance == Spec => []IInv
<1>1. Init => IInv
  BY InitIInv
<1>2. IInv /\ [Next]_vars => IInv'
  BY NextIInv
<1>3. QED BY <1>1, <1>2, PTL DEF Spec

-----------------------------------------------------------------------------
(* What follows from it. *)

\* The fields keep their types whatever is pushed and removed: no unsigned
\* count of a part or of the list is ever decremented below zero.
THEOREM TypeCorrect == Spec => []TypeOK
<1>1. IInv => TypeOK
  BY DEF IInv, WellFormed, TypeOK
<1>2. QED BY <1>1, Invariance, PTL

\* l->last is the end of the next-chain and no part is lost or linked twice,
\* after every sequence of calls of rm_header_helper and ngx_list_push.
THEOREM LastStaysTail == Spec => []LastIsTail
<1>1. IInv => LastIsTail
  BY DEF IInv, WellFormed, LastIsTail
<1>2. QED BY <1>1, Invariance, PTL

\* The parts never share a slot, not even one a later push may fill.
THEOREM NoSharedSlot == Spec => []SpansDisjoint
<1>1. IInv => SpansDisjoint
  BY DEF IInv, WellFormed, SpansDisjoint
<1>2. QED BY <1>1, Invariance, PTL

\* nginx's traversal idiom reads exactly the slots that hold a header.
THEOREM TraversalExact == Spec => []ScanExact
<1>1. ASSUME IInv PROVE ScanExact
  <2>1. Typed(l) /\ NoEmptyPart(l)
    BY <1>1, WFFacts DEF IInv
  <2>2. ASSUME NEW k \in DOMAIN l.parts PROVE ~(k > 1 /\ l.parts[k].nelts = 0)
    <3>1. k \in 1 .. Len(l.parts) /\ Len(l.parts) \in Nat
      BY <2>1 DEF Typed
    <3>2. k > 1 => Len(l.parts) > 1
      BY <3>1
    <3>3. QED BY <2>1, <3>2 DEF NoEmptyPart
  <2>3. QED BY <2>2 DEF ScanExact, Scanned, Live
<1>2. QED BY <1>1, Invariance, PTL

\* The next slot lies in its part's block and holds no header.
LEMMA SafeToPush == IInv => PushSafe
<1>0. SUFFICES ASSUME IInv PROVE PushSafe
  OBVIOUS
<1> DEFINE n == Len(l.parts)
           p == l.parts[n]
           s == PushSlot(l, brk)
<1>1. /\ Typed(l) /\ Allocated(l, brk, fresh) /\ Disjoint(l) /\ n >= 1
      /\ LastIndex(l) = n /\ brk \in Nat
  BY <1>0, WFFacts DEF IInv
<1>2. n \in 1 .. n /\ TypedPart(p) /\ l.nalloc \in Nat /\ DOMAIN l.parts = 1 .. n
  BY <1>1 DEF Typed
<1>3. /\ p.nelts <= l.nalloc /\ l.nalloc >= 1 /\ p.elts + l.nalloc <= p.end
      /\ p.elts \in Nat /\ p.nelts \in Nat /\ p.end \in Nat
      /\ Room(l, n) = l.nalloc
  BY <1>1, <1>2 DEF Allocated, TypedPart, Room
<1>4. ASSUME NEW k \in 1 .. n
      PROVE  /\ SlotsOf(l.parts[k]) \subseteq Span(l, k)
             /\ \A x \in Span(l, k) : x \in Int /\ x < brk
  <2>1. /\ TypedPart(l.parts[k]) /\ Room(l, k) \in Nat
        /\ l.parts[k].elts + Room(l, k) <= l.parts[k].end /\ l.parts[k].end <= brk
    BY <1>1, <1>2 DEF Typed, Allocated
  <2>2. l.parts[k].nelts <= Room(l, k)
    BY <1>3, <2>1 DEF Room, TypedPart
  <2> DEFINE a == l.parts[k].elts
             c == l.parts[k].nelts
             x == Room(l, k)
             e == l.parts[k].end
  <2>3. /\ a \in Nat /\ c \in Nat /\ x \in Nat /\ e \in Nat
        /\ c <= x /\ a + x <= e /\ e <= brk
        /\ SlotsOf(l.parts[k]) = a .. a + c - 1 /\ Span(l, k) = a .. a + x - 1
    BY <2>1, <2>2 DEF TypedPart, SlotsOf, Span
  <2> HIDE DEF a, c, x, e
  <2>4. a <= a /\ a + c <= a + x
    BY <2>3
  <2>5. (a .. a + c - 1) \subseteq (a .. a + x - 1)
    BY <2>3, <2>4, IntervalSubset
  <2>6. \A y \in a .. a + x - 1 : y \in Int /\ y < brk
    BY <1>1, <2>3
  <2>7. QED BY <2>3, <2>5, <2>6
<1>5. CASE LastFull(l)
  <2>1. s = brk /\ PushEnd(l, brk) = brk + l.nalloc
    BY <1>5 DEF PushSlot, PushEnd
  <2>2. s < PushEnd(l, brk)
    BY <1>1, <1>2, <1>3, <2>1
  <2>3. \A k \in 1 .. n : s \notin SlotsOf(l.parts[k])
    BY <1>1, <1>4, <2>1
  <2>4. QED BY <1>2, <2>2, <2>3 DEF PushSafe, Live
<1>6. CASE ~LastFull(l)
  <2>1. s = p.elts + p.nelts /\ PushEnd(l, brk) = p.end /\ p.nelts /= l.nalloc
    BY <1>1, <1>6 DEF PushSlot, PushEnd, LastFull
  <2> DEFINE a == p.elts
             c == p.nelts
             x == l.nalloc
             e == p.end
  <2>2. s < PushEnd(l, brk) /\ s \in p.elts .. p.elts + l.nalloc - 1
    <3>1. /\ a \in Nat /\ c \in Nat /\ x \in Nat /\ e \in Nat
          /\ c <= x /\ c /= x /\ a + x <= e
      BY <1>2, <1>3, <2>1
    <3> HIDE DEF a, c, x, e
    <3>2. a + c < e /\ a + c \in a .. a + x - 1
      BY <3>1
    <3>3. QED BY <2>1, <3>2 DEF a, c, x, e
  <2>3. s \in Span(l, n) /\ s \notin SlotsOf(p)
    BY <1>3, <2>1, <2>2 DEF Span, SlotsOf
  <2>4. \A k \in 1 .. n : s \notin SlotsOf(l.parts[k])
    <3>1. ASSUME NEW k \in 1 .. n, k /= n PROVE s \notin SlotsOf(l.parts[k])
      <4>1. Span(l, k) \cap Span(l, n) = {}
        BY <1>1, <1>2, <3>1 DEF Disjoint
      <4>2. QED BY <1>4, <2>3, <4>1
    <3>2. QED BY <2>3, <3>1
  <2>5. QED BY <1>2, <2>2, <2>4 DEF PushSafe, Live
<1>7. QED BY <1>5, <1>6

\* The next ngx_list_push hands out a slot inside its part's block, and one
\* that holds no header of the list.
THEOREM PushStaysSafe == Spec => []PushSafe
<1>1. IInv => PushSafe
  BY SafeToPush
<1>2. QED BY <1>1, Invariance, PTL

-----------------------------------------------------------------------------
(* The concatenation of a sequence of sequences. *)

-----------------------------------------------------------------------------
(* The contents as runs of slots, one run for each part. *)

\* The runs of the parts, in their order.
Runs(parts) == [k \in DOMAIN parts |-> Run(parts[k].elts, parts[k].nelts)]

\* The contents are the runs joined.
LEMMA ContentsAreRuns == ASSUME NEW list PROVE Contents(list) = FlattenSeq(Runs(list.parts))
  BY DEF Contents, Runs, Run

\* There is one run for each part.
LEMMA RunsType ==
    ASSUME NEW parts \in Seq(Part)
    PROVE  /\ Runs(parts) \in Seq(Seq(Nat)) /\ Len(Runs(parts)) = Len(parts)
           /\ \A k \in 1 .. Len(parts) : Runs(parts)[k] = Run(parts[k].elts, parts[k].nelts)
<1>1. Len(parts) \in Nat /\ DOMAIN parts = 1 .. Len(parts)
  OBVIOUS
<1>2. \A k \in 1 .. Len(parts) : parts[k].elts \in Nat /\ parts[k].nelts \in Nat
  BY PartTypes DEF TypedPart
<1>3. \A k \in 1 .. Len(parts) : Run(parts[k].elts, parts[k].nelts) \in Seq(Nat)
  BY <1>2, RunType
<1> QED BY <1>1, <1>3 DEF Runs

\* Two parts with the same headers.
SameRun(a, b) == a.elts = b.elts /\ a.nelts = b.nelts

\* The slots of the parts after have mid in place of the k-th part's of before.
Reslotted(after, before, k, mid) ==
    /\ Len(after) = Len(before) - 1 + Len(mid)
    /\ \A j \in 1 .. k - 1 : SameRun(after[j], before[j])
    /\ \A j \in 1 .. Len(mid) : Run(after[k - 1 + j].elts, after[k - 1 + j].nelts) = mid[j]
    /\ \A j \in k + 1 .. Len(before) : SameRun(after[j - 1 + Len(mid)], before[j])

\* Then their runs have mid in place of the k-th.
LEMMA RunsReplaced ==
    ASSUME NEW before \in Seq(Part), NEW after \in Seq(Part), NEW k \in 1 .. Len(before),
           NEW mid \in Seq(Seq(Nat)), Reslotted(after, before, k, mid)
    PROVE  /\ Runs(before) \in Seq(Seq(Nat)) /\ k \in 1 .. Len(Runs(before))
           /\ Replaced(Runs(after), Runs(before), k, mid)
<1> DEFINE q == Runs(before)  r == Runs(after)
<1>1. /\ Len(before) \in Nat /\ Len(after) \in Nat /\ Len(mid) \in Nat
      /\ k \in Nat /\ k >= 1 /\ k <= Len(before)
      /\ Len(after) = Len(before) - 1 + Len(mid)
  BY DEF Reslotted
<1>2. /\ q \in Seq(Seq(Nat)) /\ Len(q) = Len(before)
      /\ \A j \in 1 .. Len(before) : q[j] = Run(before[j].elts, before[j].nelts)
      /\ r \in Seq(Seq(Nat)) /\ Len(r) = Len(after)
      /\ \A j \in 1 .. Len(after) : r[j] = Run(after[j].elts, after[j].nelts)
  BY RunsType
<1> HIDE DEF q, r
<1>3. ASSUME NEW j \in 1 .. k - 1 PROVE r[j] = q[j]
  <2>1. j \in 1 .. Len(before) /\ j \in 1 .. Len(after)
    BY <1>1
  <2>2. SameRun(after[j], before[j])
    BY DEF Reslotted
  <2> QED BY <1>2, <2>1, <2>2 DEF SameRun
<1>4. ASSUME NEW j \in 1 .. Len(mid) PROVE r[k - 1 + j] = mid[j]
  <2>1. k - 1 + j \in 1 .. Len(after)
    BY <1>1
  <2>2. Run(after[k - 1 + j].elts, after[k - 1 + j].nelts) = mid[j]
    BY DEF Reslotted
  <2> QED BY <1>2, <2>1, <2>2
<1>5. ASSUME NEW j \in k + 1 .. Len(before) PROVE r[j - 1 + Len(mid)] = q[j]
  <2>1. j \in 1 .. Len(before) /\ j - 1 + Len(mid) \in 1 .. Len(after)
    BY <1>1
  <2>2. SameRun(after[j - 1 + Len(mid)], before[j])
    BY DEF Reslotted
  <2> QED BY <1>2, <2>1, <2>2 DEF SameRun
<1>6. IsAround(r, Seq(Nat), q, k, mid)
  BY <1>1, <1>2, <1>3, <1>4, <1>5 DEF IsAround
<1>7. k \in 1 .. Len(q)
  BY <1>2
<1>8. Replaced(r, q, k, mid)
  BY <1>2, <1>6, <1>7, ReplacedIf
<1> QED BY <1>2, <1>7, <1>8 DEF q, r

\* Where mid has the slots of part k but for its element i, that header is gone.
LEMMA HeaderGone ==
    ASSUME NEW list, NEW r, list.parts \in Seq(Part), r.parts \in Seq(Part),
           NEW k \in 1 .. Len(list.parts), NEW i \in 0 .. list.parts[k].nelts - 1,
           NEW mid \in Seq(Seq(Nat)), Reslotted(r.parts, list.parts, k, mid),
           FlattenSeq(mid) = Run(list.parts[k].elts, i)
                               \o Run(list.parts[k].elts + i + 1, list.parts[k].nelts - i - 1)
    PROVE  Gone(Contents(list), Contents(r), list.parts[k].elts + i)
<1> DEFINE e == list.parts[k].elts  n == list.parts[k].nelts
           q == Runs(list.parts)
           u == Run(e, i)  v == Run(e + i + 1, n - i - 1)
<1>1. e \in Nat /\ n \in Nat
  BY PartTypes DEF TypedPart
<1>2. /\ i \in Nat /\ e + i \in Nat /\ e + i + 1 \in Nat /\ n - i - 1 \in Nat
      /\ i \in 0 .. n - 1
  <2>1. i \in 0 .. n - 1
    OBVIOUS
  <2> HIDE DEF e, n
  <2> QED BY ONLY <1>1, <2>1
<1>3. u \in Seq(Nat) /\ v \in Seq(Nat)
  BY <1>1, <1>2, RunType
<1>4. q[k] = (u \o <<e + i>>) \o v
  BY <1>1, <1>2, RunsType, RunAround
<1>5. q \in Seq(Seq(Nat)) /\ k \in 1 .. Len(q) /\ Replaced(Runs(r.parts), q, k, mid)
  BY RunsReplaced
<1>6. FlattenSeq(mid) = u \o v
  OBVIOUS
<1> HIDE DEF q, u, v, e, n
<1> DEFINE rr == Runs(r.parts)
<1>7. Shorter(q[k], FlattenSeq(mid), e + i)
  BY <1>2, <1>3, <1>4, <1>6 DEF Shorter
<1>8. Contents(list) = FlattenSeq(q) /\ Contents(r) = FlattenSeq(rr)
  BY ContentsAreRuns DEF q
<1> HIDE DEF rr
<1>9. Replaced(rr, q, k, mid)
  BY <1>5 DEF rr
<1>10. Gone(FlattenSeq(q), FlattenSeq(rr), e + i)
  BY <1>2, <1>5, <1>7, <1>9, OneGone
<1> QED BY <1>8, <1>10 DEF e

-----------------------------------------------------------------------------
(* The operations on the contents. *)

\* One part gives up a slot at an end, or its only one.
LEMMA ShrunkGone ==
    ASSUME NEW list, NEW r, list.parts \in Seq(Part), r.parts \in Seq(Part),
           NEW k \in 1 .. Len(list.parts), NEW i \in 0 .. list.parts[k].nelts - 1,
           NEW e \in Nat, NEW n \in Nat,
           Len(r.parts) = Len(list.parts),
           \A j \in 1 .. Len(list.parts) : j /= k => r.parts[j] = list.parts[j],
           r.parts[k].elts = e, r.parts[k].nelts = n,
           Run(e, n) = Run(list.parts[k].elts, i)
                         \o Run(list.parts[k].elts + i + 1, list.parts[k].nelts - i - 1)
    PROVE  Gone(Contents(list), Contents(r), list.parts[k].elts + i)
<1> DEFINE mid == <<Run(e, n)>>
<1>1. Run(e, n) \in Seq(Nat)
  BY RunType
<1>2. mid \in Seq(Seq(Nat)) /\ Len(mid) = 1 /\ mid[1] = Run(e, n)
  BY <1>1
<1>3. FlattenSeq(mid) = Run(e, n)
  BY <1>1, FlattenOne
<1>4. Len(list.parts) \in Nat /\ k \in Nat
  OBVIOUS
<1> HIDE DEF mid
<1>5. Reslotted(r.parts, list.parts, k, mid)
  <2>1. Len(r.parts) = Len(list.parts) - 1 + Len(mid)
    BY <1>2, <1>4
  <2>2. ASSUME NEW j \in 1 .. k - 1 PROVE SameRun(r.parts[j], list.parts[j])
    <3>1. j \in 1 .. Len(list.parts) /\ j /= k
      BY <1>4
    <3> QED BY <3>1 DEF SameRun
  <2>3. ASSUME NEW j \in 1 .. Len(mid)
        PROVE  Run(r.parts[k - 1 + j].elts, r.parts[k - 1 + j].nelts) = mid[j]
    <3>1. j = 1 /\ k - 1 + j = k
      BY <1>2, <1>4
    <3> QED BY <1>2, <3>1
  <2>4. ASSUME NEW j \in k + 1 .. Len(list.parts)
        PROVE  SameRun(r.parts[j - 1 + Len(mid)], list.parts[j])
    <3>1. j \in 1 .. Len(list.parts) /\ j /= k /\ j - 1 + Len(mid) = j
      BY <1>2, <1>4
    <3> QED BY <3>1 DEF SameRun
  <2> QED BY <2>1, <2>2, <2>3, <2>4 DEF Reslotted
<1>6. FlattenSeq(mid) = Run(list.parts[k].elts, i)
                          \o Run(list.parts[k].elts + i + 1, list.parts[k].nelts - i - 1)
  BY <1>3
<1> QED BY <1>2, <1>5, <1>6, HeaderGone

\* A part goes with its only header.
LEMMA DroppedGone ==
    ASSUME NEW list, NEW r, list.parts \in Seq(Part), r.parts \in Seq(Part),
           NEW k \in 1 .. Len(list.parts), list.parts[k].nelts = 1,
           Len(r.parts) = Len(list.parts) - 1,
           \A j \in 1 .. k - 1 : SameRun(r.parts[j], list.parts[j]),
           \A j \in k + 1 .. Len(list.parts) : SameRun(r.parts[j - 1], list.parts[j])
    PROVE  Gone(Contents(list), Contents(r), list.parts[k].elts)
<1> DEFINE mid == << >>  e == list.parts[k].elts
<1>1. mid \in Seq(Seq(Nat)) /\ Len(mid) = 0 /\ FlattenSeq(mid) = << >>
  BY FlattenNone
<1>2. Len(list.parts) \in Nat /\ k \in Nat /\ e \in Nat
  BY PartTypes DEF TypedPart
<1>3. Run(e, 0) = << >> /\ Run(e + 0 + 1, 1 - 0 - 1) = << >> /\ << >> \o << >> = << >>
  <2>1. e + 0 + 1 \in Nat /\ 1 - 0 - 1 = 0
    BY <1>2
  <2>2. Run(e, 0) = << >> /\ Run(e + 0 + 1, 0) = << >>
    BY <1>2, <2>1, RunNone
  <2> QED BY <2>1, <2>2
<1>4. 0 \in 0 .. list.parts[k].nelts - 1
  OBVIOUS
<1> HIDE DEF mid
<1>5. Reslotted(r.parts, list.parts, k, mid)
  <2>1. Len(r.parts) = Len(list.parts) - 1 + Len(mid)
    BY <1>1, <1>2
  <2>2. \A j \in 1 .. Len(mid) : Run(r.parts[k - 1 + j].elts, r.parts[k - 1 + j].nelts) = mid[j]
    BY <1>1
  <2>3. ASSUME NEW j \in k + 1 .. Len(list.parts)
        PROVE  SameRun(r.parts[j - 1 + Len(mid)], list.parts[j])
    <3>1. j - 1 + Len(mid) = j - 1
      BY <1>1, <1>2
    <3> QED BY <3>1
  <2> QED BY <2>1, <2>2, <2>3 DEF Reslotted
<1>6. FlattenSeq(mid) = Run(list.parts[k].elts, 0)
                          \o Run(list.parts[k].elts + 0 + 1, list.parts[k].nelts - 0 - 1)
  BY <1>1, <1>3
<1>7. Gone(Contents(list), Contents(r), e + 0)
  BY <1>1, <1>4, <1>5, <1>6, HeaderGone
<1> QED BY <1>2, <1>7

\* Whichever branch removes a header, that one goes and no other changes its
\* slot or its place.
LEMMA RmHeaderHelperGone ==
    ASSUME NEW list, NEW b, NEW f, WellFormed(list, b, f),
           NEW k \in 1 .. Len(list.parts), NEW i \in 0 .. list.parts[k].nelts - 1
    PROVE  Gone(Contents(list), Contents(rm_header_helper(list, k, i, f)), list.parts[k].elts + i)
<1> DEFINE n == Len(list.parts)
           p == list.parts[k]
           e == p.elts
           only == i = 0 /\ p.nelts = 1
<1>0. PICK r : r = rm_header_helper(list, k, i, f)
  OBVIOUS
<1> SUFFICES Gone(Contents(list), Contents(r), e + i)
  BY <1>0
<1>1. /\ n >= 1 /\ n \in Nat /\ p \in Part /\ p.nelts \in Nat /\ e \in Nat
      /\ IsLast(list, k) <=> k = n
      /\ list.parts \in Seq(Part) /\ DOMAIN list.parts = 1 .. n /\ list \in List
  BY WFFacts DEF Typed, TypedPart
<1>2. i \in Nat /\ p.nelts >= 1 /\ i <= p.nelts - 1
  BY <1>1
<1>3. r.parts \in Seq(Part)
  BY <1>0, RmHeaderHelperWF, WFFacts DEF Typed
<1>13. only => e + i = e
  BY <1>1
<1>4. CASE only /\ IsLast(list, k) /\ k = 1
  <2>0. PICK z \in Nat : z = 0
    OBVIOUS
  <2>1. r = RmOnlyOfSoleLast(list)
    BY <1>1, <1>4, <1>0 DEF rm_header_helper, RmNeedsPart
  <2>2. r.parts = [list.parts EXCEPT ![1] = [p EXCEPT !.nelts = 0]]
    BY <1>1, <1>4, <2>1 DEF RmOnlyOfSoleLast, List
  <2>3. /\ Len(r.parts) = n
        /\ \A j \in 1 .. n : j /= k => r.parts[j] = list.parts[j]
        /\ r.parts[k].elts = e /\ r.parts[k].nelts = z
    BY <1>1, <1>4, <2>0, <2>2 DEF Part
  <2>4. Run(e, z) = Run(e, i) \o Run(e + i + 1, p.nelts - i - 1)
    <3>1. e + i + 1 \in Nat /\ p.nelts - i - 1 = 0 /\ i = 0
      BY <1>1, <1>4
    <3>2. Run(e, 0) = << >> /\ Run(e + i + 1, 0) = << >> /\ << >> \o << >> = << >>
      BY <1>1, <3>1, RunNone
    <3> QED BY <2>0, <3>1, <3>2
  <2> QED BY <1>1, <1>3, <2>3, <2>4, ShrunkGone
<1>5. CASE only /\ IsLast(list, k) /\ k > 1
  <2>1. r = RmOnlyOfLast(list, k) /\ k = n
    BY <1>1, <1>5, <1>0 DEF rm_header_helper, RmNeedsPart
  <2>2. r.parts = SubSeq(list.parts, 1, k - 1)
    BY <2>1 DEF RmOnlyOfLast
  <2>3. /\ Len(r.parts) = n - 1 /\ \A j \in 1 .. k - 1 : r.parts[j] = list.parts[j]
    BY <1>1, <2>1, <2>2
  <2>4. \A j \in k + 1 .. n : SameRun(r.parts[j - 1], list.parts[j])
    BY <1>1, <2>1
  <2> QED BY <1>1, <1>3, <1>5, <2>3, <2>4, <1>13, DroppedGone DEF SameRun
<1>6. CASE only /\ ~IsLast(list, k) /\ k = 1
  <2>0. r = RmOnlyOfEmbedded(list)
    BY <1>1, <1>6, <1>0 DEF rm_header_helper, RmNeedsPart
  <2>1. n > 1
    <3>1. 1 /= n /\ n >= 1 /\ n \in Nat
      BY <1>1, <1>6
    <3> HIDE DEF n
    <3> QED BY ONLY <3>1
  <2> DEFINE nxt == list.parts[2]
             copied == [nxt EXCEPT !.addr = list.parts[1].addr]
             rest == SubSeq(list.parts, 3, n)
  <2>2. /\ r.parts = <<copied>> \o rest /\ nxt \in Part /\ list.parts[1].addr \in Nat
    BY <1>1, <2>0, <2>1, PartTypes DEF RmOnlyOfEmbedded, TypedPart
  <2>3. copied \in Part /\ copied.elts = nxt.elts /\ copied.nelts = nxt.nelts
    BY <2>2 DEF Part
  <2>4. rest \in Seq(Part) /\ Len(rest) = n - 2 /\ \A j \in 1 .. n - 2 : rest[j] = list.parts[j + 2]
    BY <1>1, <2>1
  <2> HIDE DEF copied, rest
  <2>5. /\ <<copied>> \in Seq(Part) /\ Len(<<copied>>) = 1 /\ <<copied>>[1] = copied
    BY <2>3
  <2>6. /\ Len(r.parts) = n - 1 /\ r.parts[1] = copied
        /\ \A j \in 1 .. Len(rest) : r.parts[1 + j] = rest[j]
    <3>0. PICK s \in Seq(Part) : s = <<copied>>
      BY <2>5
    <3>1. /\ Len(r.parts) = Len(s) + Len(rest)
          /\ \A j \in 1 .. Len(s) : r.parts[j] = s[j]
          /\ \A j \in 1 .. Len(rest) : r.parts[Len(s) + j] = rest[j]
      <4>1. r.parts = s \o rest
        BY <2>2, <3>0
      <4>2. /\ Len(s \o rest) = Len(s) + Len(rest)
            /\ \A j \in 1 .. Len(s) : (s \o rest)[j] = s[j]
            /\ \A j \in 1 .. Len(rest) : (s \o rest)[Len(s) + j] = rest[j]
        BY ONLY <2>4, <3>0, Concat
      <4> QED BY <4>1, <4>2
    <3>2. Len(s) = 1 /\ s[1] = copied
      BY <2>5, <3>0
    <3>3. 1 + (n - 2) = n - 1 /\ 1 \in 1 .. 1
      BY <1>1
    <3> QED BY <2>4, <3>1, <3>2, <3>3
  <2>7. ASSUME NEW j \in k + 1 .. n PROVE SameRun(r.parts[j - 1], list.parts[j])
    <3>1. CASE j = 2
      BY <1>6, <2>3, <2>6, <3>1 DEF SameRun
    <3>2. CASE j /= 2
      <4>1. j - 2 \in 1 .. Len(rest) /\ 1 + (j - 2) = j - 1 /\ (j - 2) + 2 = j
        BY <1>1, <1>6, <2>4, <3>2
      <4>2. r.parts[1 + (j - 2)] = rest[j - 2] /\ rest[j - 2] = list.parts[(j - 2) + 2]
        BY <2>4, <2>6, <4>1
      <4> QED BY <4>1, <4>2 DEF SameRun
    <3> QED BY <3>1, <3>2
  <2>8. \A j \in 1 .. k - 1 : SameRun(r.parts[j], list.parts[j])
    BY <1>6
  <2> QED BY <1>1, <1>3, <1>6, <2>6, <2>7, <2>8, <1>13, DroppedGone
<1>7. CASE only /\ ~IsLast(list, k) /\ k > 1
  <2>1. r = RmOnlyOfMiddle(list, k)
    BY <1>1, <1>7, <1>0 DEF rm_header_helper, RmNeedsPart
  <2>2. r.parts = SubSeq(list.parts, 1, k - 1) \o SubSeq(list.parts, k + 1, n)
    BY <1>1, <2>1 DEF RmOnlyOfMiddle, List
  <2>3. k \in 1 .. Len(list.parts) /\ list.parts \in Seq(Part)
    BY <1>1
  <2>4. r.parts = SubSeq(list.parts, 1, k - 1) \o SubSeq(list.parts, k + 1, Len(list.parts))
    BY <2>2
  <2> HIDE DEF n
  <2>5. /\ Len(r.parts) = Len(list.parts) - 1
        /\ \A j \in 1 .. k - 1 : r.parts[j] = list.parts[j]
        /\ \A j \in k + 1 .. Len(list.parts) : r.parts[j - 1] = list.parts[j]
    <3>1. IsWithout(r.parts, Part, list.parts, k)
      BY ONLY <2>3, <2>4, LeftOut
    <3> QED BY <3>1 DEF IsWithout
  <2> QED BY <1>1, <1>3, <1>7, <2>5, <1>13, DroppedGone DEF SameRun
<1>8. CASE i = 0 /\ ~only
  <2>1. r = RmFirst(list, k) /\ p.nelts > 1
    BY <1>1, <1>2, <1>8, <1>0 DEF rm_header_helper, RmNeedsPart
  <2> DEFINE q == [p EXCEPT !.elts = @ + 1, !.nelts = @ - 1]
  <2>2. r.parts = [list.parts EXCEPT ![k] = q]
    BY <1>1, <2>1 DEF RmFirst, List
  <2>a. q.elts = e + 1 /\ q.nelts = p.nelts - 1
    BY <1>1 DEF Part
  <2> HIDE DEF q
  <2>3. /\ Len(r.parts) = n
        /\ \A j \in 1 .. n : j /= k => r.parts[j] = list.parts[j]
        /\ r.parts[k].elts = e + 1 /\ r.parts[k].nelts = p.nelts - 1
    BY <1>1, <2>2, <2>a
  <2>4. /\ e + 1 \in Nat /\ p.nelts - 1 \in Nat
        /\ Run(e + 1, p.nelts - 1) = Run(e, i) \o Run(e + i + 1, p.nelts - i - 1)
    <3>1. e + 1 \in Nat /\ p.nelts - 1 \in Nat
      BY <1>1, <1>2
    <3>2. Run(e, i) = << >> /\ e + i + 1 = e + 1 /\ p.nelts - i - 1 = p.nelts - 1
      BY <1>1, <1>8, RunNone
    <3>3. Run(e + 1, p.nelts - 1) \in Seq(Nat)
      BY <3>1, RunType
    <3>4. << >> \o Run(e + 1, p.nelts - 1) = Run(e + 1, p.nelts - 1)
      BY <3>3, ConcatEmptySeq
    <3> QED BY <3>1, <3>2, <3>4
  <2> QED BY <1>1, <1>3, <2>3, <2>4, ShrunkGone
<1>9. CASE i > 0 /\ ~RmNeedsPart(list, k, i)
  <2>1. r = RmTail(list, k)
    BY <1>1, <1>2, <1>9, <1>0 DEF rm_header_helper
  <2> DEFINE q == [p EXCEPT !.nelts = @ - 1]
  <2>2. r.parts = [list.parts EXCEPT ![k] = q]
    BY <1>1, <2>1 DEF RmTail, List
  <2>a. q.elts = e /\ q.nelts = p.nelts - 1
    BY <1>1 DEF Part
  <2> HIDE DEF q
  <2>3. /\ Len(r.parts) = n
        /\ \A j \in 1 .. n : j /= k => r.parts[j] = list.parts[j]
        /\ r.parts[k].elts = e /\ r.parts[k].nelts = p.nelts - 1
    BY <1>1, <2>2, <2>a
  <2>4. /\ p.nelts - 1 \in Nat
        /\ Run(e, p.nelts - 1) = Run(e, i) \o Run(e + i + 1, p.nelts - i - 1)
    <3>1. i = p.nelts - 1 /\ p.nelts - 1 \in Nat /\ e + i + 1 \in Nat /\ p.nelts - i - 1 = 0
      BY <1>1, <1>2, <1>9 DEF RmNeedsPart
    <3>2. Run(e + i + 1, 0) = << >>
      BY <3>1, RunNone
    <3>3. Run(e, i) \in Seq(Nat)
      BY <1>1, <1>2, RunType
    <3>4. Run(e, i) \o << >> = Run(e, i)
      BY <3>3, ConcatEmptySeq
    <3> QED BY <3>1, <3>2, <3>4
  <2> QED BY <1>1, <1>3, <2>3, <2>4, ShrunkGone
<1>10. CASE RmNeedsPart(list, k, i)
  <2>1. i > 0 /\ i < p.nelts - 1
    BY <1>10 DEF RmNeedsPart
  <2>2. r = RmSplit(list, k, i, f)
    BY <1>1, <1>2, <1>10, <2>1, <1>0 DEF rm_header_helper
  <2> DEFINE left == [p EXCEPT !.nelts = i]
             right == [addr |-> f, elts |-> e + i + 1, nelts |-> p.nelts - i - 1, end |-> p.end]
             u == Run(e, i)
             v == Run(e + i + 1, p.nelts - i - 1)
  <2>3. r.parts = SubSeq(list.parts, 1, k - 1) \o <<left, right>> \o SubSeq(list.parts, k + 1, n)
    BY <1>1, <2>2 DEF RmSplit
  <2>4. left \in Part /\ left.elts = e /\ left.nelts = i
    BY <1>1, <1>2 DEF Part
  <2>5. right \in Part /\ right.elts = e + i + 1 /\ right.nelts = p.nelts - i - 1
    <3>1. f \in Nat /\ p.end \in Nat
      BY <1>1, WFFacts, PartTypes DEF TypedPart
    <3>2. e + i + 1 \in Nat /\ p.nelts - i - 1 \in Nat
      BY <1>1, <1>2, <2>1
    <3> QED BY <3>1, <3>2 DEF Part
  <2>6. u \in Seq(Nat) /\ v \in Seq(Nat)
    <3>1. e + i + 1 \in Nat /\ p.nelts - i - 1 \in Nat
      BY <1>1, <1>2, <2>1
    <3> QED BY <1>1, <1>2, <3>1, RunType
  <2> HIDE DEF left, right, u, v
  <2>7. /\ <<left, right>> \in Seq(Part) /\ Len(<<left, right>>) = 2
        /\ <<left, right>>[1] = left /\ <<left, right>>[2] = right
    BY <2>4, <2>5
  <2>8. IsAround(r.parts, Part, list.parts, k, <<left, right>>)
    BY ONLY k \in 1 .. Len(list.parts), <1>1, <2>3, <2>7, Around
  <2> DEFINE mid == <<u, v>>
  <2>9. mid \in Seq(Seq(Nat)) /\ Len(mid) = 2 /\ mid[1] = u /\ mid[2] = v
    BY <2>6
  <2>10. FlattenSeq(mid) = u \o v
    <3>1. <<u>> \in Seq(Seq(Nat)) /\ mid = Append(<<u>>, v)
      BY <2>6
    <3>2. FlattenSeq(Append(<<u>>, v)) = FlattenSeq(<<u>>) \o v
      BY <2>6, <3>1, FlattenAppend
    <3>3. FlattenSeq(<<u>>) = u
      BY <2>6, FlattenOne
    <3> QED BY <3>1, <3>2, <3>3
  <2> HIDE DEF mid
  <2>11. Reslotted(r.parts, list.parts, k, mid)
    <3>1. Len(r.parts) = n - 1 + Len(mid)
      BY <2>7, <2>8, <2>9 DEF IsAround
    <3>2. \A j \in 1 .. k - 1 : r.parts[j] = list.parts[j]
      BY <2>8 DEF IsAround
    <3>3. r.parts[k - 1 + 1] = left /\ r.parts[k - 1 + 2] = right
      BY <2>7, <2>8 DEF IsAround
    <3>4. ASSUME NEW j \in 1 .. Len(mid)
          PROVE  Run(r.parts[k - 1 + j].elts, r.parts[k - 1 + j].nelts) = mid[j]
      <4>1. j = 1 \/ j = 2
        BY <2>9
      <4> QED BY <2>4, <2>5, <2>9, <3>3, <4>1 DEF u, v
    <3>5. \A j \in k + 1 .. n : r.parts[j - 1 + Len(mid)] = list.parts[j]
      BY <2>7, <2>8, <2>9 DEF IsAround
    <3> QED BY <3>1, <3>2, <3>4, <3>5 DEF Reslotted, SameRun
  <2> QED BY <1>1, <1>3, <2>9, <2>10, <2>11, HeaderGone DEF u, v
<1>11. k = 1 \/ k > 1
  BY <1>1
<1>12. i = 0 \/ i > 0
  BY <1>2
<1> QED BY <1>4, <1>5, <1>6, <1>7, <1>8, <1>9, <1>10, <1>11, <1>12

\* The sequence after is before with x at its end.
Longer(before, after, x) == after = before \o <<x>>

\* Where the last run gets one slot more, the contents get it at their end.
LEMMA LastGrown ==
    ASSUME NEW q \in Seq(Seq(Nat)), NEW n, n = Len(q), n >= 1, NEW mid \in Seq(Seq(Nat)),
           NEW x \in Nat, Longer(q[n], FlattenSeq(mid), x),
           NEW r, Replaced(r, q, n, mid)
    PROVE  Longer(FlattenSeq(q), FlattenSeq(r), x)
<1> DEFINE a == SubSeq(q, 1, n - 1)  c == SubSeq(q, n + 1, n)
           fa == FlattenSeq(a)
<1>1. n \in Nat /\ q[n] \in Seq(Nat) /\ <<q[n]>> \in Seq(Seq(Nat)) /\ n \in 1 .. n
  OBVIOUS
<1>2. a \in Seq(Seq(Nat))
  <2>1. \A i \in 1 .. n - 1 : q[i] \in Seq(Nat)
    BY <1>1
  <2>2. 1 \in Int /\ n - 1 \in Int
    BY <1>1
  <2> QED BY ONLY <2>1, <2>2, SubSeqProperties
<1>3. c = << >>
  <2>1. n < n + 1 /\ n \in Int /\ n + 1 \in Int
    BY <1>1
  <2> QED BY <2>1, SubSeqEmpty
<1>4. q = a \o <<q[n]>>
  <2>1. 1 \in 1 .. Len(q) /\ n \in 1 .. Len(q)
    BY <1>1
  <2>2. SubSeq(q, 1, n) = a \o <<q[n]>>
    BY <2>1, SubSeqRecursiveSecond
  <2> QED BY <2>2, SubSeqFull
<1>5. r = a \o mid
  <2>1. r = (a \o mid) \o << >>
    BY <1>3 DEF Replaced
  <2>2. a \o mid \in Seq(Seq(Nat))
    BY <1>2, ConcatProperties
  <2> QED BY <2>1, <2>2, ConcatEmptySeq
<1> HIDE DEF a, c
<1>6. fa \in Seq(Nat)
  BY <1>2, FlattenType
<1> HIDE DEF fa
<1>7. FlattenSeq(q) = fa \o q[n]
  <2>1. FlattenSeq(a \o <<q[n]>>) = fa \o FlattenSeq(<<q[n]>>)
    BY <1>1, <1>2, FlattenConcat DEF fa
  <2>2. FlattenSeq(<<q[n]>>) = q[n]
    BY <1>1, FlattenOne
  <2> QED BY <1>4, <2>1, <2>2
<1>8. FlattenSeq(r) = fa \o (q[n] \o <<x>>)
  <2>1. FlattenSeq(a \o mid) = fa \o FlattenSeq(mid)
    BY <1>2, FlattenConcat DEF fa
  <2> QED BY <1>5, <2>1 DEF Longer
<1>9. fa \o (q[n] \o <<x>>) = (fa \o q[n]) \o <<x>>
  <2>1. PICK y \in Seq(Nat) : y = <<x>>
    <3>1. <<x>> \in Seq(Nat)
      OBVIOUS
    <3> QED BY <3>1
  <2>2. PICK w \in Seq(Nat) : w = q[n]
    BY <1>1
  <2>3. (fa \o w) \o y = fa \o (w \o y)
    <3>1. Cat(Cat(fa, w), y) = Cat(fa, Cat(w, y))
      BY <1>6, CatFacts
    <3> QED BY <3>1 DEF Cat
  <2> QED BY <2>1, <2>2, <2>3
<1> QED BY <1>7, <1>8, <1>9 DEF Longer

\* ngx_list_push with room in the last part appends the slot behind its headers.
LEMMA PushInLastAppends ==
    ASSUME NEW list, NEW b, NEW f, WellFormed(list, b, f), ~LastFull(list)
    PROVE  Contents(PushInLast(list)) = Append(Contents(list), PushSlot(list, b))
<1> DEFINE n == Len(list.parts)  p == list.parts[n]  e == p.elts  m == p.nelts
           q == Runs(list.parts)
<1>0. PICK r : r = PushInLast(list)
  OBVIOUS
<1>1. /\ n >= 1 /\ n \in Nat /\ n \in 1 .. n /\ p \in Part /\ m \in Nat /\ e \in Nat
      /\ LastIndex(list) = n
      /\ list.parts \in Seq(Part) /\ DOMAIN list.parts = 1 .. n /\ list \in List
  BY WFFacts DEF Typed, TypedPart
<1>2. r.parts \in Seq(Part)
  BY <1>0, PushInLastWF, WFFacts DEF Typed
<1>3. PushSlot(list, b) = e + m
  BY <1>1 DEF PushSlot
<1>4. r.parts = [list.parts EXCEPT ![n] = [p EXCEPT !.nelts = m + 1]]
  BY <1>0, <1>1 DEF PushInLast, List
<1>5. /\ Len(r.parts) = n
      /\ \A j \in 1 .. n - 1 : r.parts[j] = list.parts[j]
      /\ r.parts[n].elts = e /\ r.parts[n].nelts = m + 1
  <2>1. PICK g : g = [p EXCEPT !.nelts = m + 1]
    OBVIOUS
  <2>2. g.elts = e /\ g.nelts = m + 1
    BY <1>1, <2>1 DEF Part
  <2>3. r.parts = [list.parts EXCEPT ![n] = g]
    BY <1>4, <2>1
  <2> HIDE DEF p, e, m
  <2>4. Len(r.parts) = n /\ r.parts[n] = g
    BY <1>1, <2>3
  <2>5. ASSUME NEW j \in 1 .. n - 1 PROVE r.parts[j] = list.parts[j]
    <3>1. j \in 1 .. n /\ j /= n
      BY <1>1
    <3> QED BY <1>1, <2>3, <3>1
  <2> QED BY <2>2, <2>4, <2>5
<1>6. /\ Run(e, m) \in Seq(Nat) /\ Run(e, m + 1) \in Seq(Nat)
      /\ Run(e, m + 1) = Run(e, m) \o <<e + m>> /\ e + m \in Nat
  <2>1. m + 1 \in Nat /\ 1 \in Nat /\ e + m \in Nat
    BY <1>1
  <2>2. Run(e, m) \o Run(e + m, 1) = Run(e, m + 1)
    BY <1>1, <2>1, RunJoin
  <2>3. Run(e + m, 1) = <<e + m>>
    BY <2>1, RunOne
  <2> QED BY <1>1, <2>1, <2>2, <2>3, RunType
<1> DEFINE mid == <<Run(e, m + 1)>>
<1>7. mid \in Seq(Seq(Nat)) /\ Len(mid) = 1 /\ mid[1] = Run(e, m + 1)
  BY <1>6
<1>8. FlattenSeq(mid) = Run(e, m) \o <<e + m>>
  BY <1>6, FlattenOne
<1> HIDE DEF mid
<1>9. Reslotted(r.parts, list.parts, n, mid)
  <2>1. Len(r.parts) = n - 1 + Len(mid)
    BY <1>1, <1>5, <1>7
  <2>2. ASSUME NEW j \in 1 .. Len(mid)
        PROVE  Run(r.parts[n - 1 + j].elts, r.parts[n - 1 + j].nelts) = mid[j]
    <3>1. j = 1 /\ n - 1 + j = n
      BY <1>1, <1>7
    <3> QED BY <1>5, <1>7, <3>1
  <2> QED BY <1>1, <1>5, <2>1, <2>2 DEF Reslotted, SameRun
<1>10. q \in Seq(Seq(Nat)) /\ Replaced(Runs(r.parts), q, n, mid)
  BY <1>1, <1>2, <1>7, <1>9, RunsReplaced
<1>11. Len(q) = n /\ q[n] = Run(e, m)
  BY <1>1, RunsType
<1>12. Contents(list) = FlattenSeq(q) /\ Contents(r) = FlattenSeq(Runs(r.parts))
  BY ContentsAreRuns
<1> HIDE DEF q, n, e, m
<1>13. FlattenSeq(Runs(r.parts)) = Append(FlattenSeq(q), e + m)
  <2>1. PICK x \in Nat : x = e + m
    BY <1>6
  <2>2. /\ q \in Seq(Seq(Nat)) /\ n = Len(q) /\ n >= 1
        /\ Longer(q[n], FlattenSeq(mid), x)
    BY <1>1, <1>8, <1>10, <1>11, <2>1 DEF Longer
  <2>3. PICK s : s = Runs(r.parts)
    OBVIOUS
  <2>4. Replaced(s, q, n, mid)
    BY <1>10, <2>3
  <2>5. mid \in Seq(Seq(Nat))
    BY <1>7
  <2>6. Longer(FlattenSeq(q), FlattenSeq(s), x)
    BY ONLY <2>1, <2>2, <2>4, <2>5, LastGrown
  <2>7. Append(FlattenSeq(q), x) = FlattenSeq(q) \o <<x>>
    <3>1. FlattenSeq(q) \in Seq(Nat)
      BY <2>2, FlattenType
    <3> QED BY <2>1, <3>1, AppendIsConcat
  <2> QED BY <2>1, <2>3, <2>6, <2>7 DEF Longer
<1> QED BY <1>0, <1>3, <1>12, <1>13

\* ngx_list_push with a full last part appends the first slot of a new one.
LEMMA PushNewPartAppends ==
    ASSUME NEW list, NEW b, NEW f, WellFormed(list, b, f), LastFull(list)
    PROVE  Contents(PushNewPart(list, b, f)) = Append(Contents(list), PushSlot(list, b))
<1> DEFINE n == Len(list.parts)  q == Runs(list.parts)
           new == [addr |-> f, elts |-> b, nelts |-> 1, end |-> b + list.nalloc]
<1>0. PICK r : r = PushNewPart(list, b, f)
  OBVIOUS
<1>1. /\ n >= 1 /\ n \in Nat /\ LastIndex(list) = n /\ b \in Nat /\ f \in Nat
      /\ list.parts \in Seq(Part) /\ list \in List /\ list.nalloc \in Nat
  BY WFFacts DEF Typed
<1>2. PushSlot(list, b) = b
  BY DEF PushSlot
<1>3. new \in Part /\ new.elts = b /\ new.nelts = 1
  BY <1>1 DEF Part
<1>4. r.parts = Append(list.parts, new)
  <2>1. r.parts = Append(SubSeq(list.parts, 1, n), new)
    BY <1>0, <1>1 DEF PushNewPart, List
  <2> QED BY <1>1, <2>1, SubSeqFull
<1> HIDE DEF new
<1>5. /\ r.parts \in Seq(Part) /\ Len(r.parts) = n + 1 /\ r.parts[n + 1] = new
      /\ \A j \in 1 .. n : r.parts[j] = list.parts[j]
  BY <1>1, <1>3, <1>4, AppendProperties
<1>6. /\ q \in Seq(Seq(Nat)) /\ Len(q) = n
      /\ \A j \in 1 .. n : q[j] = Run(list.parts[j].elts, list.parts[j].nelts)
  BY <1>1, RunsType
<1>7. /\ Runs(r.parts) \in Seq(Seq(Nat)) /\ Len(Runs(r.parts)) = n + 1
      /\ \A j \in 1 .. n + 1 : Runs(r.parts)[j] = Run(r.parts[j].elts, r.parts[j].nelts)
  BY <1>5, RunsType
<1>8. Run(b, 1) = <<b>> /\ <<b>> \in Seq(Nat)
  BY <1>1, RunOne
<1> HIDE DEF q
<1>9. Runs(r.parts) = Append(q, <<b>>)
  <2> DEFINE s == Append(q, <<b>>)
  <2>1. /\ s \in Seq(Seq(Nat)) /\ Len(s) = n + 1 /\ s[n + 1] = <<b>>
        /\ \A j \in 1 .. n : s[j] = q[j]
    BY <1>6, <1>8, AppendProperties
  <2> HIDE DEF s, n
  <2>2. ASSUME NEW j \in 1 .. n + 1 PROVE Runs(r.parts)[j] = s[j]
    <3>1. CASE j = n + 1
      BY <1>3, <1>5, <1>7, <1>8, <2>1, <3>1
    <3>2. CASE j /= n + 1
      <4>1. j \in 1 .. n
        BY <1>1, <3>2
      <4> QED BY <1>5, <1>6, <1>7, <2>1, <4>1
    <3> QED BY <3>1, <3>2
  <2>3. Runs(r.parts) = s
    BY <1>7, <2>1, <2>2, SeqEqual
  <2> QED BY <2>3 DEF s
<1>10. FlattenSeq(Append(q, <<b>>)) = FlattenSeq(q) \o <<b>>
  BY <1>6, <1>8, FlattenAppend
<1>11. Append(FlattenSeq(q), b) = FlattenSeq(q) \o <<b>>
  <2>1. FlattenSeq(q) \in Seq(Nat)
    BY <1>6, FlattenType
  <2> QED BY <1>1, <2>1, AppendIsConcat
<1>12. Contents(list) = FlattenSeq(q) /\ Contents(r) = FlattenSeq(Runs(r.parts))
  BY ContentsAreRuns DEF q
<1> QED BY <1>0, <1>2, <1>9, <1>10, <1>11, <1>12

-----------------------------------------------------------------------------
(* Where in the contents an element of a part is.                          *)

\* The first k sequences joined.
Leading(q, k) == FlattenSeq(SubSeq(q, 1, k))

\* One more sequence, all of them, none.
LEMMA Leadings ==
    ASSUME NEW q \in Seq(Seq(Nat)), NEW k \in 1 .. Len(q)
    PROVE  /\ Leading(q, 0) = << >>
           /\ Leading(q, k - 1) \in Seq(Nat) /\ q[k] \in Seq(Nat)
           /\ Leading(q, k) = Leading(q, k - 1) \o q[k]
           /\ Leading(q, Len(q)) = FlattenSeq(q)
           /\ \E v \in Seq(Nat) : FlattenSeq(q) = Leading(q, k) \o v
<1> DEFINE a == SubSeq(q, 1, k - 1)  b == SubSeq(q, 1, k)  c == SubSeq(q, k + 1, Len(q))
<1>1. Len(q) \in Nat /\ k \in Nat /\ 1 <= k /\ k <= Len(q) /\ q[k] \in Seq(Nat)
  OBVIOUS
<1>2. a \in Seq(Seq(Nat)) /\ b \in Seq(Seq(Nat)) /\ c \in Seq(Seq(Nat))
  <2>1. \A n \in 1 .. Len(q) : q[n] \in Seq(Nat)
    OBVIOUS
  <2>2. \A n \in 1 .. k - 1 : q[n] \in Seq(Nat)
    BY <1>1, <2>1
  <2>3. \A n \in 1 .. k : q[n] \in Seq(Nat)
    BY <1>1, <2>1
  <2>4. \A n \in k + 1 .. Len(q) : q[n] \in Seq(Nat)
    BY <1>1, <2>1
  <2>5. 1 \in Int /\ k - 1 \in Int /\ k \in Int /\ k + 1 \in Int /\ Len(q) \in Int
    BY <1>1
  <2>6. a \in Seq(Seq(Nat))
    BY ONLY <2>2, <2>5, SubSeqProperties
  <2>7. b \in Seq(Seq(Nat))
    BY ONLY <2>3, <2>5, SubSeqProperties
  <2>8. c \in Seq(Seq(Nat))
    BY ONLY <2>4, <2>5, SubSeqProperties
  <2> QED BY <2>6, <2>7, <2>8
<1>3. b = Append(a, q[k])
  <2>1. 1 \in 1 .. Len(q) + 1 /\ k \in 1 .. Len(q) /\ k \in 0 .. Len(q)
    BY <1>1
  <2>2. b = a \o <<q[k]>>
    BY <2>1, SubSeqRecursiveSecond
  <2> HIDE DEF a, b
  <2>3. a \o <<q[k]>> = Append(a, q[k])
    BY <1>1, <1>2
  <2> QED BY <2>2, <2>3
<1>4. b \o c = q
  <2>1. 1 \in 1 .. Len(q) /\ k \in 0 .. Len(q) /\ Len(q) \in k .. Len(q) /\ 1 \in 1 .. Len(q) + 1
        /\ k \in 1 .. Len(q)
    BY <1>1
  <2>2. b \o c = SubSeq(q, 1, Len(q))
    BY <2>1, ConcatAdjacentSubSeq
  <2> QED BY <2>2, SubSeqFull
<1>5. Leading(q, 0) = << >>
  <2>1. SubSeq(q, 1, 0) = << >>
    BY SubSeqEmpty
  <2> QED BY <2>1, FlattenNone DEF Leading
<1>6. Leading(q, Len(q)) = FlattenSeq(q)
  BY SubSeqFull DEF Leading
<1>7. Leading(q, k - 1) = FlattenSeq(a) /\ Leading(q, k) = FlattenSeq(b)
  BY DEF Leading
<1> HIDE DEF a, b, c
<1>8. FlattenSeq(a) \in Seq(Nat) /\ FlattenSeq(c) \in Seq(Nat)
  BY <1>2, FlattenType
<1>9. FlattenSeq(b) = FlattenSeq(a) \o q[k]
  BY <1>1, <1>2, <1>3, FlattenAppend
<1>10. FlattenSeq(q) = FlattenSeq(b) \o FlattenSeq(c)
  BY <1>2, <1>4, FlattenConcat
<1> QED BY <1>1, <1>5, <1>6, <1>7, <1>8, <1>9, <1>10

\* The number of headers in front of element i of part k.
Pos(list, k, i) == Len(Leading(Runs(list.parts), k - 1)) + i

\* It is the element's place in the contents, counted from 0; behind a part's last
\* element the next part's first one follows, and behind the last part's nothing.
LEMMA Positions ==
    ASSUME NEW list, Typed(list), NEW k \in 1 .. Len(list.parts)
    PROVE  /\ Pos(list, 1, 0) = 0
           /\ \A i \in 0 .. list.parts[k].nelts :
                 Pos(list, k, i) \in 0 .. Len(Contents(list))
           /\ \A i \in 0 .. list.parts[k].nelts - 1 :
                 /\ Pos(list, k, i) + 1 \in 1 .. Len(Contents(list))
                 /\ Contents(list)[Pos(list, k, i) + 1] = list.parts[k].elts + i
                 /\ Pos(list, k, i) + 1 = Pos(list, k, i + 1)
           /\ Pos(list, k, list.parts[k].nelts) = Pos(list, k + 1, 0)
           /\ k = Len(list.parts) =>
                 Pos(list, k, list.parts[k].nelts) = Len(Contents(list))
<1>1. PICK q : q = Runs(list.parts)
  OBVIOUS
<1>2. PICK e, n : e = list.parts[k].elts /\ n = list.parts[k].nelts
  OBVIOUS
<1>3. /\ list.parts \in Seq(Part) /\ e \in Nat /\ n \in Nat
      /\ k \in Nat /\ Len(list.parts) \in Nat
  BY <1>2 DEF Typed, TypedPart
<1>4. q \in Seq(Seq(Nat)) /\ Len(q) = Len(list.parts) /\ k \in 1 .. Len(q) /\ q[k] = Run(e, n)
  BY <1>1, <1>2, <1>3, RunsType
<1>5. Run(e, n) \in Seq(Nat) /\ Len(Run(e, n)) = n /\ \A i \in 0 .. n - 1 : Run(e, n)[i + 1] = e + i
  <2>1. \A i \in 0 .. n - 1 : i + 1 \in 1 .. n /\ e + (i + 1) - 1 = e + i
    BY <1>3
  <2> QED BY <1>3, <2>1, RunType DEF Run
<1>6. PICK a \in Seq(Nat) : a = Leading(q, k - 1)
  BY <1>4, Leadings
<1>7. PICK v \in Seq(Nat) : FlattenSeq(q) = Leading(q, k) \o v
  BY <1>4, Leadings
<1>8. Leading(q, 0) = << >> /\ Leading(q, k) = a \o Run(e, n) /\ Leading(q, Len(q)) = FlattenSeq(q)
  BY <1>4, <1>6, Leadings
<1>9. PICK b \in Seq(Nat) : b = Run(e, n)
  BY <1>5
<1>10. PICK ab \in Seq(Nat) : ab = a \o b
  BY ConcatProperties
<1>11. /\ Len(ab) = Len(a) + n
       /\ \A j \in 1 .. n : ab[Len(a) + j] = b[j]
  BY <1>5, <1>9, <1>10, Concat
<1>12. PICK s \in Seq(Nat) : s = Contents(list) /\ s = ab \o v
  <2>1. Contents(list) = ab \o v
    BY <1>1, <1>7, <1>8, <1>9, <1>10, ContentsAreRuns
  <2>2. ab \o v \in Seq(Nat)
    BY ConcatProperties
  <2> QED BY <2>1, <2>2
<1>13. /\ Len(s) = Len(ab) + Len(v)
       /\ \A j \in 1 .. Len(ab) : s[j] = ab[j]
  BY <1>12, Concat
<1>14. Len(a) \in Nat /\ Len(v) \in Nat
  OBVIOUS
<1>15. Pos(list, 1, 0) = 0
  <2>1. 1 - 1 = 0 /\ Len(<< >>) + 0 = 0
    OBVIOUS
  <2> QED BY <1>1, <1>8, <2>1 DEF Pos
<1>16. \A i : Pos(list, k, i) = Len(a) + i
  BY <1>1, <1>6 DEF Pos
<1>17. Pos(list, k, n) = Pos(list, k + 1, 0)
  <2>1. k + 1 - 1 = k /\ Len(ab) + 0 = Len(a) + n
    BY <1>3, <1>11, <1>14
  <2>2. Pos(list, k + 1, 0) = Len(ab) + 0
    BY <1>1, <1>8, <1>9, <1>10, <2>1 DEF Pos
  <2> QED BY <1>16, <2>1, <2>2
<1>18. ASSUME NEW i \in 0 .. n PROVE Pos(list, k, i) \in 0 .. Len(s)
  BY <1>3, <1>11, <1>13, <1>14, <1>16
<1>19. ASSUME NEW i \in 0 .. n - 1
       PROVE  /\ Pos(list, k, i) + 1 \in 1 .. Len(s)
              /\ s[Pos(list, k, i) + 1] = e + i
              /\ Pos(list, k, i) + 1 = Pos(list, k, i + 1)
  <2>1. i \in Nat /\ i + 1 \in 1 .. n /\ Len(a) + i + 1 = Len(a) + (i + 1)
    BY <1>3, <1>14
  <2>2. Len(a) + (i + 1) \in 1 .. Len(ab) /\ Len(a) + (i + 1) \in 1 .. Len(s)
    <3>1. PICK x \in Nat, y \in Nat : x = Len(a) /\ y = Len(v)
      BY <1>14
    <3>2. PICK z \in Nat : z = i + 1 /\ 1 <= z /\ z <= n
      BY <1>3, <2>1
    <3>3. Len(ab) = x + n /\ Len(s) = x + n + y
      BY <1>11, <1>13, <3>1
    <3>4. x + z \in 1 .. x + n /\ x + z \in 1 .. x + n + y
      BY ONLY <1>3, <3>1, <3>2
    <3> QED BY <3>1, <3>2, <3>3, <3>4
  <2>3. ab[Len(a) + (i + 1)] = b[i + 1] /\ s[Len(a) + (i + 1)] = ab[Len(a) + (i + 1)]
    BY <1>11, <1>13, <2>1, <2>2
  <2>4. b[i + 1] = e + i
    BY <1>5, <1>9
  <2>5. Pos(list, k, i) = Len(a) + i /\ Pos(list, k, i + 1) = Len(a) + (i + 1)
    BY <1>16
  <2> QED BY <2>1, <2>2, <2>3, <2>4, <2>5
<1>20. ASSUME k = Len(list.parts) PROVE Pos(list, k, n) = Len(s)
  <2>1. s = ab
    BY <1>1, <1>4, <1>8, <1>9, <1>10, <1>12, <1>20, ContentsAreRuns
  <2> QED BY <1>11, <1>16, <2>1
<1> QED BY <1>2, <1>12, <1>15, <1>17, <1>18, <1>19, <1>20

\* Every slot that holds a header is in the contents.
LEMMA LiveIsContents ==
    ASSUME NEW list, Typed(list), NEW x \in Live(list)
    PROVE  \E p \in 1 .. Len(Contents(list)) : Contents(list)[p] = x
<1>1. PICK k \in DOMAIN list.parts : x \in SlotsOf(list.parts[k])
  BY DEF Live
<1>2. /\ k \in 1 .. Len(list.parts)
      /\ list.parts[k].elts \in Nat /\ list.parts[k].nelts \in Nat
  BY <1>1 DEF Typed, TypedPart
<1>3. PICK e \in Nat, n \in Nat : e = list.parts[k].elts /\ n = list.parts[k].nelts
  BY <1>2
<1>4. x \in e .. e + n - 1
  BY <1>1, <1>3 DEF SlotsOf
<1>5. x - e \in 0 .. n - 1 /\ e + (x - e) = x
  BY <1>3, <1>4
<1>6. PICK j : j = x - e
  OBVIOUS
<1>7. j \in 0 .. list.parts[k].nelts - 1 /\ list.parts[k].elts + j = x
  BY <1>3, <1>5, <1>6
<1>8. /\ Pos(list, k, j) + 1 \in 1 .. Len(Contents(list))
      /\ Contents(list)[Pos(list, k, j) + 1] = list.parts[k].elts + j
  BY <1>2, <1>7, Positions
<1> QED BY <1>7, <1>8

-----------------------------------------------------------------------------
(* The list implements the sequence of headers. *)

\* Every header's slot is one of its part's.
LEMMA ContentsAreLive ==
    ASSUME NEW list, Typed(list)
    PROVE  Contents(list) \in Seq(Live(list))
<1> DEFINE n == Len(list.parts)  q == Runs(list.parts)  T == Live(list)
<1>1. /\ n \in Nat /\ list.parts \in Seq(Part) /\ DOMAIN list.parts = 1 .. n
      /\ \A k \in 1 .. n : list.parts[k].elts \in Nat /\ list.parts[k].nelts \in Nat
  BY DEF Typed, TypedPart
<1>2. /\ q \in Seq(Seq(Nat)) /\ Len(q) = n
      /\ \A k \in 1 .. n : q[k] = Run(list.parts[k].elts, list.parts[k].nelts)
  BY <1>1, RunsType
<1> HIDE DEF q
<1>3. ASSUME NEW k \in 1 .. n PROVE q[k] \in Seq(T)
  <2>1. \A x \in SlotsOf(list.parts[k]) : x \in T
    BY <1>1 DEF Live
  <2> DEFINE e == list.parts[k].elts  m == list.parts[k].nelts
  <2>2. e \in Nat /\ m \in Nat /\ q[k] = Run(e, m)
    BY <1>1, <1>2
  <2>3. \A x \in e .. e + m - 1 : x \in T
    BY <2>1 DEF SlotsOf
  <2> HIDE DEF e, m, T
  <2>4. \A j \in 1 .. m : e + j - 1 \in T
    BY <2>2, <2>3
  <2> QED BY <2>2, <2>4 DEF Run
<1> HIDE DEF n, T
<1>4. q \in Seq(Seq(T))
  BY <1>1, <1>2, <1>3
<1>5. FlattenSeq(q) \in Seq(T)
  BY <1>4, FlattenType
<1>6. Contents(list) = FlattenSeq(q)
  BY ContentsAreRuns DEF q
<1> QED BY <1>5, <1>6 DEF T

\* The list ngx_list_init makes holds no header.
LEMMA EmptyContents ==
    ASSUME NEW m \in Nat PROVE Contents(EmptyList(m)) = << >>
<1> DEFINE p == [addr |-> 0, elts |-> 0, nelts |-> 0, end |-> m]
           parts == <<p>>
<1>1. p \in Part /\ p.elts = 0 /\ p.nelts = 0
  BY DEF Part
<1>2. EmptyList(m).parts = parts
  BY DEF EmptyList
<1> HIDE DEF p
<1>3. parts \in Seq(Part) /\ Len(parts) = 1 /\ parts[1] = p
  BY <1>1
<1> HIDE DEF parts
<1>4. PICK q : q = Runs(parts)
  OBVIOUS
<1>5. q \in Seq(Seq(Nat)) /\ Len(q) = 1 /\ q[1] = Run(0, 0)
  BY <1>1, <1>3, <1>4, RunsType
<1>6. Run(0, 0) = << >>
  BY RunNone
<1>7. q = << << >> >>
  BY <1>5, <1>6
<1>8. FlattenSeq(q) = << >>
  <2>1. << >> \in Seq(Nat)
    OBVIOUS
  <2> QED BY <1>7, <2>1, FlattenOne
<1> QED BY <1>2, <1>4, <1>8, ContentsAreRuns

\* The pool hands out no slot past its bound.
Bounded == brk <= MaxSlot

\* The first part's slots are within the bound.
LEMMA InitBounded == Init => Bounded
  BY BoundAssumption DEF Init, Bounded

\* Every step stays within it.
LEMMA NextBounded == Bounded /\ [Next]_vars => Bounded'
  BY DEF Bounded, Next, Push, PushGrow, RmAny, Rm, RmGrow, vars

\* Each step on the list is a step of the sequence.
LEMMA StepImplements ==
    ASSUME IInv, Bounded, PushSafe, [Next]_vars
    PROVE  [Seqs!Next]_(Contents(l))
<1> DEFINE c == Contents(l)  slot == PushSlot(l, brk)
<1>1. WellFormed(l, brk, fresh) /\ Typed(l) /\ brk \in Nat
  BY WFFacts DEF IInv
<1>2. c \in Seq(Live(l))
  BY <1>1, ContentsAreLive
<1>3. slot \notin Seqs!Range(c)
  <2>1. slot \notin Live(l)
    BY DEF PushSafe
  <2> QED BY <1>2, <2>1 DEF Seqs!Range
<1>4. CASE Push
  <2>1. Contents(l)' = Append(c, slot)
    BY <1>1, <1>4, PushInLastAppends DEF Push
  <2>2. slot \in 0 .. MaxSlot - 1
    <3> DEFINE p == l.parts[LastIndex(l)]
    <3>1. /\ p.elts \in Nat /\ p.nelts \in Nat /\ p.end \in Nat /\ p.end <= brk
      <4>1. LastIndex(l) = Len(l.parts) /\ Len(l.parts) \in 1 .. Len(l.parts)
        BY <1>1, WFFacts DEF Typed
      <4> QED BY <1>1, <4>1, WFFacts DEF Typed, TypedPart, Allocated
    <3>2. slot = p.elts + p.nelts /\ slot < p.end
      BY <1>4 DEF Push, PushSlot, PushEnd, PushSafe
    <3> HIDE DEF slot, p
    <3> QED BY <1>1, <3>1, <3>2, BoundAssumption DEF Bounded
  <2> QED BY <1>3, <2>1, <2>2 DEF Seqs!Next, Seqs!Push
<1>5. CASE PushGrow
  <2>1. Contents(l)' = Append(c, slot)
    BY <1>1, <1>5, PushNewPartAppends DEF PushGrow
  <2>2. slot \in 0 .. MaxSlot - 1
    <3>1. slot = brk /\ brk + l.nalloc <= MaxSlot
      BY <1>5 DEF PushGrow, PushSlot
    <3>2. l.nalloc \in Nat /\ l.nalloc >= 1
      BY <1>1, WFFacts DEF Typed, Allocated
    <3> HIDE DEF slot
    <3> QED BY <1>1, <3>1, <3>2, BoundAssumption
  <2> QED BY <1>3, <2>1, <2>2 DEF Seqs!Next, Seqs!Push
<1>6. ASSUME NEW k \in DOMAIN l.parts, NEW i \in 0 .. l.parts[k].nelts - 1,
             Rm(k, i) \/ RmGrow(k, i)
      PROVE  Seqs!Rm
  <2>1. k \in 1 .. Len(l.parts) /\ l' = rm_header_helper(l, k, i, fresh)
    BY <1>1, <1>6 DEF Typed, Rm, RmGrow
  <2>2. Gone(Contents(l), Contents(rm_header_helper(l, k, i, fresh)), l.parts[k].elts + i)
    BY <1>1, <2>1, RmHeaderHelperGone
  <2>3. Gone(c, Contents(l'), l.parts[k].elts + i)
    BY <2>1, <2>2
  <2>4. PICK p : p \in DOMAIN c /\ Contents(l') = RemoveAt(c, p)
    BY <2>3 DEF Gone, GoneAt
  <2>5. Seqs!RemoveAt(c, p) = RemoveAt(c, p)
    BY DEF Seqs!RemoveAt, RemoveAt
  <2> QED BY <2>4, <2>5 DEF Seqs!Rm
<1>7. CASE UNCHANGED vars
  BY <1>7 DEF vars, Contents
<1> QED BY <1>4, <1>5, <1>6, <1>7 DEF Next, RmAny, Seqs!Next

\* The list implements a sequence of headers: whatever is pushed and removed, a
\* removal by rm_header_helper takes out one header and leaves every other in its
\* slot and its place, and a push puts a slot that holds no header at the end.
THEOREM ListImplementsSeq == Spec => Refinement
<1>1. Init => Seqs!Init
  <2>1. NAlloc \in Nat
    BY NAllocAssumption
  <2> QED BY <2>1, EmptyContents DEF Init, Seqs!Init
<1>2. Init => IInv /\ Bounded
  BY InitIInv, InitBounded
<1>3. IInv /\ Bounded /\ [Next]_vars => (IInv /\ Bounded)'
  BY NextIInv, NextBounded
<1>4. IInv /\ Bounded /\ [Next]_vars => [Seqs!Next]_(Contents(l))
  BY StepImplements, SafeToPush
<1> QED BY <1>1, <1>2, <1>3, <1>4, PTL DEF Spec, Refinement, Seqs!Spec
-----------------------------------------------------------------------------
(* What the steps do to the contents. *)

\* Slots of the pool, each at one place.
Placed(s) ==
    /\ s \in Seq(0 .. MaxSlot - 1)
    /\ \A p, q \in DOMAIN s : s[p] = s[q] => p = q

\* A push puts the slot it hands out at the end.
LEMMA PushAppends ==
    ASSUME IInv, Push \/ PushGrow
    PROVE  Contents(l') = Append(Contents(l), PushSlot(l, brk))
<1>1. WellFormed(l, brk, fresh)
  BY DEF IInv
<1>2. CASE Push
  BY <1>1, <1>2, PushInLastAppends DEF Push
<1>3. CASE PushGrow
  BY <1>1, <1>3, PushNewPartAppends DEF PushGrow
<1> QED BY <1>2, <1>3

\* A removal takes out the header at its place.
LEMMA RmTakesOut ==
    ASSUME IInv, Placed(Contents(l)), NEW k \in 1 .. Len(l.parts),
           NEW n \in 0 .. l.parts[k].nelts - 1, Rm(k, n) \/ RmGrow(k, n)
    PROVE  Lacks(Contents(l'), Contents(l), Pos(l, k, n) + 1)
<1>1. WellFormed(l, brk, fresh) /\ Typed(l)
  BY WFFacts DEF IInv
<1>2. l' = rm_header_helper(l, k, n, fresh)
  BY DEF Rm, RmGrow
<1>3. Gone(Contents(l), Contents(l'), l.parts[k].elts + n)
  BY <1>1, <1>2, RmHeaderHelperGone
<1>4. PICK s, t : s = Contents(l) /\ t = Contents(l')
  OBVIOUS
<1>5. PICK p : p \in DOMAIN s /\ t = RemoveAt(s, p) /\ s[p] = l.parts[k].elts + n
  BY <1>3, <1>4 DEF Gone, GoneAt
<1>6. PICK c : c = Pos(l, k, n) + 1
  OBVIOUS
<1>7. c \in 1 .. Len(s) /\ s[c] = l.parts[k].elts + n
  BY <1>1, <1>4, <1>6, Positions
<1>8. s \in Seq(0 .. MaxSlot - 1) /\ Len(s) \in Nat /\ DOMAIN s = 1 .. Len(s)
  BY <1>4 DEF Placed
<1>9. p = c
  BY <1>4, <1>5, <1>7, <1>8 DEF Placed
<1> QED BY <1>4, <1>5, <1>6, <1>8, <1>9, RemovedLacks

\* Every header keeps to a slot of its own.
LEMMA StepPlaced ==
    ASSUME IInv, Bounded, Placed(Contents(l)), [Next]_vars
    PROVE  Placed(Contents(l'))
<1>1. PICK s : s = Contents(l)
  OBVIOUS
<1>2. PICK t : t = Contents(l')
  OBVIOUS
<1>3. /\ s \in Seq(0 .. MaxSlot - 1) /\ Len(s) \in Nat /\ DOMAIN s = 1 .. Len(s)
      /\ \A p, q \in DOMAIN s : s[p] = s[q] => p = q
  BY <1>1 DEF Placed
<1>4. [Seqs!Next]_(Contents(l))
  BY SafeToPush, StepImplements
<1>5. CASE t = s
  BY <1>1, <1>2, <1>5
<1>6. CASE \E x \in (0 .. MaxSlot - 1) \ Seqs!Range(s) : t = Append(s, x)
  <2>1. PICK x \in (0 .. MaxSlot - 1) \ Seqs!Range(s) : t = Append(s, x)
    BY <1>6
  <2>2. \A p \in 1 .. Len(s) : s[p] /= x
    BY <1>3, <2>1 DEF Seqs!Range
  <2>3. /\ t \in Seq(0 .. MaxSlot - 1) /\ Len(t) = Len(s) + 1 /\ DOMAIN t = 1 .. Len(t)
        /\ \A p \in 1 .. Len(s) : t[p] = s[p]
        /\ t[Len(s) + 1] = x
    BY <1>3, <2>1, AppendProperties
  <2>4. ASSUME NEW p \in DOMAIN t, NEW q \in DOMAIN t, t[p] = t[q] PROVE p = q
    <3>1. (p \in 1 .. Len(s) \/ p = Len(s) + 1) /\ (q \in 1 .. Len(s) \/ q = Len(s) + 1)
      BY <1>3, <2>3
    <3> QED BY <1>3, <2>2, <2>3, <2>4, <3>1
  <2> QED BY <1>2, <2>3, <2>4 DEF Placed
<1>7. CASE \E p \in DOMAIN s : t = RemoveAt(s, p)
  <2>1. PICK p \in DOMAIN s : t = RemoveAt(s, p)
    BY <1>7
  <2>2. Lacks(t, s, p) /\ t \in Seq(0 .. MaxSlot - 1)
    BY <1>3, <2>1, RemovedLacks
  <2>3. ASSUME NEW j \in DOMAIN t, NEW k \in DOMAIN t, t[j] = t[k] PROVE j = k
    <3>1. /\ p \in 1 .. Len(s) /\ Len(t) = Len(s) - 1
          /\ \A q \in 1 .. Len(t) : t[q] = s[Past(p, q)]
          /\ DOMAIN t = 1 .. Len(t)
      BY <2>2 DEF Lacks
    <3>2. /\ Past(p, j) \in 1 .. Len(s) /\ Past(p, k) \in 1 .. Len(s)
          /\ j < k <=> Past(p, j) < Past(p, k)
          /\ k < j <=> Past(p, k) < Past(p, j)
      BY <1>3, <3>1, Skips
    <3>3. Past(p, j) = Past(p, k)
      BY <1>3, <2>3, <3>1, <3>2
    <3> QED BY <1>3, <3>1, <3>2, <3>3
  <2> QED BY <1>2, <2>2, <2>3 DEF Placed
<1>8. Seqs!Next => \/ \E x \in (0 .. MaxSlot - 1) \ Seqs!Range(s) : t = Append(s, x)
                   \/ \E p \in DOMAIN s : t = RemoveAt(s, p)
  <2>1. \A p : Seqs!RemoveAt(s, p) = RemoveAt(s, p)
    BY DEF Seqs!RemoveAt, RemoveAt
  <2> QED BY <1>1, <1>2, <2>1 DEF Seqs!Next, Seqs!Push, Seqs!Rm
<1> QED BY <1>1, <1>2, <1>4, <1>5, <1>6, <1>7, <1>8

\* No two headers of the list share a slot, and all are the pool's.
THEOREM EachInItsSlot == Spec => [](Placed(Contents(l)))
<1>1. Init => Placed(Contents(l))
  <2>1. NAlloc \in Nat
    BY NAllocAssumption
  <2>2. Init => Contents(l) = << >>
    BY <2>1, EmptyContents DEF Init
  <2>3. << >> \in Seq(0 .. MaxSlot - 1) /\ DOMAIN << >> = {}
    OBVIOUS
  <2>4. Placed(<< >>)
    BY <2>3 DEF Placed
  <2> QED BY <2>2, <2>4
<1>2. Init => IInv /\ Bounded
  BY InitIInv, InitBounded
<1>3. IInv /\ Bounded /\ [Next]_vars => (IInv /\ Bounded)'
  BY NextIInv, NextBounded
<1>4. IInv /\ Bounded /\ Placed(Contents(l)) /\ [Next]_vars => Placed(Contents(l))'
  BY StepPlaced
<1> QED BY <1>1, <1>2, <1>3, <1>4, PTL DEF Spec
=============================================================================
