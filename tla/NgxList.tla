------------------------------- MODULE NgxList -------------------------------
(***************************************************************************)
(* The ngx_list_t that holds a request's headers, as this module's         *)
(* ngx_http_headers_control_rm_header_helper leaves it.                    *)
(*                                                                         *)
(* nginx only ever appends to such a list.  Deleting a request header is   *)
(* this module's own surgery on the list's parts, and it must leave a list *)
(* on which nginx's ngx_list_push and every traversal are still correct.   *)
(*                                                                         *)
(* A slot is the memory of one ngx_table_elt_t, a Nat.  A part is a record *)
(*   addr   the address of the ngx_list_part_t itself                      *)
(*   elts   its first slot                                                 *)
(*   nelts  its number of headers                                          *)
(*   end    one past the block its slots were allocated in (a ghost: the C *)
(*          struct has no such field)                                      *)
(* The "next" pointers are the order of the sequence l.parts, whose first  *)
(* member is the part embedded in the ngx_list_t, at address 0.  l.last is *)
(* an address.  l.nalloc is both the capacity left to the last part and    *)
(* the capacity of the next part to be allocated.                          *)
(***************************************************************************)
EXTENDS Integers, Sequences, SequencesExt

CONSTANTS
    NAlloc,     \* the n of ngx_list_init
    MaxSlot,    \* bound: slots the pool hands out
    MaxAddr     \* bound: parts the pool hands out

ASSUME NAllocAssumption == NAlloc \in Nat \ {0}
ASSUME BoundAssumption == MaxSlot \in Nat /\ MaxAddr \in Nat /\ NAlloc <= MaxSlot

VARIABLES
    l,          \* the list: [parts, last, nalloc]
    brk,        \* the pool: the slots from here on were never handed out
    fresh       \* the pool: the address of the next part

vars == <<l, brk, fresh>>

Part == [addr : Nat, elts : Nat, nelts : Nat, end : Nat]
List == [parts : Seq(Part), last : Nat, nalloc : Nat]

-----------------------------------------------------------------------------
(* Reading a list. *)

SlotsOf(part) == part.elts .. part.elts + part.nelts - 1

\* The slots that hold a header.
Live(list) == UNION {SlotsOf(list.parts[k]) : k \in DOMAIN list.parts}

\* The headers in list order, as slots.
Contents(list) ==
    FlattenSeq([k \in DOMAIN list.parts |->
        [n \in 1 .. list.parts[k].nelts |-> list.parts[k].elts + n - 1]])

\* The slots the traversal idiom of nginx reads: on stepping to a next part it
\* reads that part's first element without looking at its nelts again.
Scanned(list) ==
    UNION {IF k > 1 /\ list.parts[k].nelts = 0
             THEN {list.parts[k].elts}
             ELSE SlotsOf(list.parts[k]) : k \in DOMAIN list.parts}

-----------------------------------------------------------------------------
(* ngx_list_push: the last part is full when its nelts is nalloc; a new part *)
(* of nalloc slots is then linked behind it.                                *)

LastIndex(list) == CHOOSE k \in DOMAIN list.parts : list.parts[k].addr = list.last

LastFull(list) == list.parts[LastIndex(list)].nelts = list.nalloc

PushSlot(list, newslot) ==
    LET part == list.parts[LastIndex(list)]
    IN  IF LastFull(list) THEN newslot ELSE part.elts + part.nelts

\* The end of the block that the slot handed out by a push has to lie in.
PushEnd(list, newslot) ==
    IF LastFull(list) THEN newslot + list.nalloc ELSE list.parts[LastIndex(list)].end

PushInLast(list) ==
    [list EXCEPT !.parts[LastIndex(list)].nelts = @ + 1]

PushNewPart(list, newslot, newaddr) ==
    [list EXCEPT
        !.parts = Append(SubSeq(@, 1, LastIndex(list)),
                         [addr |-> newaddr, elts |-> newslot, nelts |-> 1,
                          end |-> newslot + list.nalloc]),
        !.last = newaddr]

-----------------------------------------------------------------------------
(* Slips in the removal that the properties below have to catch.           *)

\* The last part's capacity is not lowered along with its moved start.
RmFirst_KeepsNalloc(list, k) ==
    [list EXCEPT !.parts[k].elts = @ + 1, !.parts[k].nelts = @ - 1]

\* The start of the emptied embedded part is not moved back.
RmOnlyOfSoleLast_Shrinks(list) ==
    [list EXCEPT !.parts[1].elts = @ + 1, !.parts[1].nelts = 0,
                 !.nalloc = @ - 1]

\* The part before the removed one inherits its capacity.
RmOnlyOfLast_KeepsNalloc(list, k) ==
    [list EXCEPT !.parts = SubSeq(@, 1, k - 1),
                 !.last = list.parts[k - 1].addr]

\* last is left pointing at the part that was copied over the embedded one.
RmOnlyOfEmbedded_KeepsLast(list) ==
    [list EXCEPT !.parts =
        <<[list.parts[2] EXCEPT !.addr = list.parts[1].addr]>>
            \o SubSeq(list.parts, 3, Len(list.parts))]

\* An emptied part in the middle stays linked.
RmOnlyOfMiddle_Stays(list, k) ==
    [list EXCEPT !.parts[k].elts = @ + 1, !.parts[k].nelts = 0]

\* The right half is linked at the end of the list.
RmSplit_AtEnd(list, k, i, newaddr) ==
    LET cur   == list.parts[k]
        right == [addr |-> newaddr, elts |-> cur.elts + i + 1,
                  nelts |-> cur.nelts - i - 1, end |-> cur.end]
    IN  [parts  |-> Append([list.parts EXCEPT ![k].nelts = i], right),
         last   |-> newaddr,
         nalloc |-> right.nelts]

-----------------------------------------------------------------------------
(* ngx_http_headers_control_rm_header_helper(l, cur, i), one operator per   *)
(* branch; cur is the k-th part, i counts from 0 as in C.                   *)

IsLast(list, k) == list.parts[k].addr = list.last

\* i is cur's first element and cur has others: elts steps over it.
RmFirst(list, k) ==
    [list EXCEPT
        !.parts[k].elts  = @ + 1,
        !.parts[k].nelts = @ - 1,
        !.nalloc = IF IsLast(list, k) THEN @ - 1 ELSE @]

\* The only element of the last part, which is the embedded one: the part
\* stays, and its first slot is free again.
RmOnlyOfSoleLast(list) == [list EXCEPT !.parts[1].nelts = 0]

\* The only element of the last part, a later one: the part before it is last
\* now, and counts as full.
RmOnlyOfLast(list, k) ==
    [parts  |-> SubSeq(list.parts, 1, k - 1),
     last   |-> list.parts[k - 1].addr,
     nalloc |-> list.parts[k - 1].nelts]

\* The only element of the embedded part, which others follow: the next part
\* is copied over it (the copy has the embedded part's address).
RmOnlyOfEmbedded(list) ==
    LET nxt == list.parts[2]
        copied == [nxt EXCEPT !.addr = list.parts[1].addr]
    IN  [parts  |-> <<copied>> \o SubSeq(list.parts, 3, Len(list.parts)),
         last   |-> IF list.last = nxt.addr THEN copied.addr ELSE list.last,
         nalloc |-> IF list.last = nxt.addr THEN nxt.nelts ELSE list.nalloc]

\* The only element of a part in the middle: the part is unlinked.
RmOnlyOfMiddle(list, k) ==
    [list EXCEPT !.parts =
        SubSeq(@, 1, k - 1) \o SubSeq(@, k + 1, Len(@))]

\* The last element of a part with others: the part is full from now on.
RmTail(list, k) ==
    [list EXCEPT
        !.parts[k].nelts = @ - 1,
        !.nalloc = IF IsLast(list, k) THEN list.parts[k].nelts - 1 ELSE @]

\* Any other element: cur keeps what is before it, a new part what is after.
RmSplit(list, k, i, newaddr) ==
    LET cur   == list.parts[k]
        left  == [cur EXCEPT !.nelts = i]
        right == [addr |-> newaddr, elts |-> cur.elts + i + 1,
                  nelts |-> cur.nelts - i - 1, end |-> cur.end]
    IN  [parts  |-> SubSeq(list.parts, 1, k - 1) \o <<left, right>>
                      \o SubSeq(list.parts, k + 1, Len(list.parts)),
         last   |-> IF IsLast(list, k) THEN newaddr ELSE list.last,
         nalloc |-> IF IsLast(list, k) THEN right.nelts ELSE list.nalloc]

RmNeedsPart(list, k, i) == i > 0 /\ i < list.parts[k].nelts - 1

rm_header_helper(list, k, i, newaddr) ==
    LET only == i = 0 /\ list.parts[k].nelts = 1
    IN  CASE only /\ IsLast(list, k) /\ k = 1  -> RmOnlyOfSoleLast(list)
          [] only /\ IsLast(list, k) /\ k > 1  -> RmOnlyOfLast(list, k)
          [] only /\ ~IsLast(list, k) /\ k = 1 -> RmOnlyOfEmbedded(list)
          [] only /\ ~IsLast(list, k) /\ k > 1 -> RmOnlyOfMiddle(list, k)
          [] i = 0 /\ ~only                    -> RmFirst(list, k)
          [] i > 0 /\ ~RmNeedsPart(list, k, i) -> RmTail(list, k)
          [] RmNeedsPart(list, k, i)           -> RmSplit(list, k, i, newaddr)

-----------------------------------------------------------------------------
(* The state machine: nginx and this module push headers, this module      *)
(* removes any header of the list, in any order.                           *)

EmptyList(n) ==
    [parts  |-> <<[addr |-> 0, elts |-> 0, nelts |-> 0, end |-> n]>>,
     last   |-> 0,
     nalloc |-> n]

Init ==
    /\ l = EmptyList(NAlloc)
    /\ brk = NAlloc
    /\ fresh = 1

\* ngx_list_push finds room in the last part.
Push ==
    /\ ~LastFull(l)
    /\ l' = PushInLast(l)
    /\ UNCHANGED <<brk, fresh>>

\* ngx_list_push allocates a part.
PushGrow ==
    /\ LastFull(l)
    /\ brk + l.nalloc <= MaxSlot
    /\ fresh <= MaxAddr
    /\ l' = PushNewPart(l, brk, fresh)
    /\ brk' = brk + l.nalloc
    /\ fresh' = fresh + 1

\* A removal that needs no memory.
Rm(k, i) ==
    /\ ~RmNeedsPart(l, k, i)
    /\ l' = rm_header_helper(l, k, i, fresh)
    /\ UNCHANGED <<brk, fresh>>

\* A removal from the middle of a part allocates a part.  (When the pool has
\* no memory the helper returns NGX_ERROR and the list is as it was.)
RmGrow(k, i) ==
    /\ RmNeedsPart(l, k, i)
    /\ fresh <= MaxAddr
    /\ l' = rm_header_helper(l, k, i, fresh)
    /\ fresh' = fresh + 1
    /\ UNCHANGED brk

RmAny == \E k \in DOMAIN l.parts : \E i \in 0 .. l.parts[k].nelts - 1 :
            Rm(k, i) \/ RmGrow(k, i)

Next == Push \/ PushGrow \/ RmAny

Spec == Init /\ [][Next]_vars

-----------------------------------------------------------------------------
(* Properties. *)

\* Every field keeps its type; in particular no unsigned count is decremented
\* below zero (nelts-- and nalloc-- in rm_header_helper).
TypeOK ==
    /\ l \in List
    /\ brk \in Nat
    /\ fresh \in Nat

\* last is the part at the end of the next-chain, the first part is the embedded
\* one and no part is linked twice.
Linked(list) ==
    /\ Len(list.parts) >= 1
    /\ list.parts[1].addr = 0
    /\ list.parts[Len(list.parts)].addr = list.last
    /\ \A j, k \in DOMAIN list.parts :
          list.parts[j].addr = list.parts[k].addr => j = k

NoEmptyPart(list) ==
    Len(list.parts) > 1 => \A k \in DOMAIN list.parts : list.parts[k].nelts > 0

\* The slots a part occupies or, for the last one, may still hand out.
Room(list, k) == IF k = Len(list.parts) THEN list.nalloc ELSE list.parts[k].nelts
Span(list, k) == list.parts[k].elts .. list.parts[k].elts + Room(list, k) - 1

Disjoint(list) ==
    \A j, k \in DOMAIN list.parts : j /= k => Span(list, j) \cap Span(list, k) = {}

\* The last part's capacity is at least one and covers its headers, every span
\* stays within its block, and the pool's next slot and next part address are
\* beyond everything in use.
Allocated(list, newslot, newaddr) ==
    /\ list.nalloc >= 1
    /\ list.parts[Len(list.parts)].nelts <= list.nalloc
    /\ \A k \in DOMAIN list.parts :
          /\ list.parts[k].addr < newaddr
          /\ list.parts[k].elts + Room(list, k) <= list.parts[k].end
          /\ list.parts[k].end <= newslot

\* After any sequence of removals and pushes l->last is still the end of the
\* next-chain and no part was lost or linked twice.  (Asserted by
\* rm_header_helper and at the end of set_header_helper, and relied on by
\* ngx_list_push, which links a new part behind last.)
LastIsTail == Linked(l)

\* No removal leaves an empty part behind another one, so the traversals of
\* set_header_helper, of this module's filters and of nginx itself, which read
\* a next part's first element unchecked, see exactly the headers there are.
ScanExact == Scanned(l) = Live(l)

\* The slot that the next ngx_list_push hands out lies inside the block its
\* part was allocated with, and holds no header that is still in the list.
PushSafe ==
    /\ PushSlot(l, brk) < PushEnd(l, brk)
    /\ PushSlot(l, brk) \notin Live(l)

\* The parts never share a slot, not even one that a later push may fill: the
\* splitting and shrinking of parts by rm_header_helper leaves no overlap.
SpansDisjoint == Disjoint(l)

\* The list implements a sequence of headers in which a removal takes out one
\* header and every other one keeps its place and its slot.
Seqs == INSTANCE HeaderSeq WITH headers <- Contents(l), Slots <- 0 .. MaxSlot - 1
Refinement == Seqs!Spec

\* The inductive invariant behind the safety properties.
WellFormed(list, newslot, newaddr) ==
    /\ list \in List
    /\ newslot \in Nat
    /\ newaddr \in Nat \ {0}
    /\ Linked(list)
    /\ NoEmptyPart(list)
    /\ Disjoint(list)
    /\ Allocated(list, newslot, newaddr)

IInv == WellFormed(l, brk, fresh)
=============================================================================
