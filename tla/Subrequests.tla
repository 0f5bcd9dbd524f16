----------------------------- MODULE Subrequests -----------------------------
(***************************************************************************)
(* The header lists of a request and its subrequests.                      *)
(*                                                                         *)
(* nginx starts a subrequest with a copy of its parent's r->headers_in.    *)
(* The list in it is copied by its head: the first part, which is embedded *)
(* there, is then twice in memory, all parts behind it are shared, and     *)
(* last may point to the part embedded in the parent.  A handler that      *)
(* creates a header which nginx keeps a pointer to copies headers_in back, *)
(* to all the parents.                                                     *)
(*                                                                         *)
(* So this is the list of NgxList with its pointers: a part is an address  *)
(* in mem, with the address of the next; a request is the address of the   *)
(* part that is embedded in it.  Some modules set a subrequest's last to   *)
(* its own part where the parent's pointed to the parent's ("repaired").   *)
(***************************************************************************)
EXTENDS Integers, Sequences, SequencesExt, Picks

CONSTANTS
    Main, Subs, Parent,     \* the tree of a request and its subrequests
    NAlloc,                 \* the n of ngx_list_init
    MaxSlot,                \* bound: slots the pool hands out
    MaxAddr,                \* bound: parts the pool hands out
    MaxChanges,             \* bound: changes by subrequests
    NULL

Requests == {Main} \cup Subs

\* Subrequests come from requests: of any of them one is the outermost.
ASSUME TreeAssumption ==
    /\ Main \notin Subs /\ Parent \in [Subs -> Requests]
    /\ \A some \in SUBSET Subs : some /= {} => \E q \in some : Parent[q] \notin some
ASSUME BoundAssumption == NAlloc \in Nat \ {0} /\ MaxSlot \in Nat /\ MaxAddr \in Nat

VARIABLES
    mem,        \* address -> [elts, nelts, next], and the end of the block
    last,       \* per request l->last
    nalloc,     \* per request l->nalloc
    brk,        \* the pool: the slots from here on were never handed out
    fresh,      \* the pool: the address of the next part
    started,    \* the requests there are
    aborted,    \* an assertion failed, which ends the worker
    changes     \* ghost: how often subrequests changed their lists

list_vars == <<mem, last, nalloc>>
sub_vars == <<list_vars, brk, fresh, started, aborted, changes>>

Addresses == Requests \cup 1 .. MaxAddr

\* No part from the pool is one that is embedded in a request.
ASSUME AddressAssumption == Requests \cap Nat = {} /\ NULL \notin Addresses

-----------------------------------------------------------------------------
(* Reading a list. *)

\* The parts from r's own on.
Chain(r) ==
    LET parts[n \in 0 .. MaxAddr] ==
            IF n = 0 THEN <<r>>
            ELSE LET front == parts[n - 1]
                     next == mem[Last(front)].next
                 IN  IF next = NULL THEN front ELSE Append(front, next)
    IN  parts[MaxAddr]

SlotsOf(part) == [n \in 1 .. part.nelts |-> part.elts + n - 1]

\* The headers of a request, as slots: what it is proxied with.
Headers(r) ==
    LET parts == Chain(r)
    IN  FlattenSeq([k \in DOMAIN parts |-> SlotsOf(mem[parts[k]])])

-----------------------------------------------------------------------------
(* ngx_list_push. *)

Full(r) == mem[last[r]].nelts = nalloc[r]

\* The slot it hands out.
PushSlot(r) == IF Full(r) THEN brk ELSE mem[last[r]].elts + mem[last[r]].nelts

HasMemory(r) == Full(r) => brk + nalloc[r] <= MaxSlot /\ fresh <= MaxAddr

\* A part may by now hold more headers than this request's nalloc, and is then not
\* found full; or nalloc is 0, and a part of no slots is allocated: what a write
\* behind the part's block does is undefined.
InBlock(r) == PushSlot(r) < (IF Full(r) THEN brk + nalloc[r] ELSE mem[last[r]].end)

NewPart(r) == [elts |-> brk, nelts |-> 1, next |-> NULL, end |-> brk + nalloc[r]]

PushedMem(r) ==
    IF Full(r)
    THEN [mem EXCEPT ![last[r]].next = fresh, ![fresh] = NewPart(r)]
    ELSE [mem EXCEPT ![last[r]].nelts = @ + 1]

PushedLast(r) == IF Full(r) THEN fresh ELSE last[r]

\* From the pool: the slots and the part.
PushPool(r) ==
    /\ brk' = IF Full(r) THEN brk + nalloc[r] ELSE brk
    /\ fresh' = IF Full(r) THEN fresh + 1 ELSE fresh

-----------------------------------------------------------------------------
(* rm_header_helper, one operator per branch: mem, last and nalloc after it. *)

\* The part in front of cur in r's chain.
Before(r, cur) == CHOOSE a \in ToSet(Chain(r)) : mem[a].next = cur

IsLast(r, cur) == cur = last[r]

After(r, newmem, newlast, newnalloc) ==
    /\ mem' = newmem
    /\ last' = [last EXCEPT ![r] = newlast]
    /\ nalloc' = [nalloc EXCEPT ![r] = newnalloc]

\* Slips that the properties below have to catch.

\* An emptied part in the middle stays linked.
RmOnlyOfMiddle_Stays(r, cur) ==
    After(r, [mem EXCEPT ![cur].elts = @ + 1, ![cur].nelts = 0], last[r], nalloc[r])

\* The part that was copied over the embedded one is emptied.
RmOnlyOfEmbedded_Empties(r) ==
    LET next == mem[r].next
    IN  After(r, [mem EXCEPT ![r] = mem[next], ![next].nelts = 0],
              IF IsLast(r, next) THEN r ELSE last[r],
              IF IsLast(r, next) THEN mem[next].nelts ELSE nalloc[r])

\* cur's first element, of several.
RmFirst(r, cur) ==
    After(r, [mem EXCEPT ![cur].elts = @ + 1, ![cur].nelts = @ - 1],
          last[r], IF IsLast(r, cur) THEN nalloc[r] - 1 ELSE nalloc[r])

\* The only element of the last part, which is the embedded one.
RmOnlyOfSoleLast(r) ==
    After(r, [mem EXCEPT ![r].nelts = 0], last[r], nalloc[r])

\* The only element of the last part, a later one.
RmOnlyOfLast(r, cur) ==
    LET part == Before(r, cur)
    IN  After(r, [mem EXCEPT ![cur].elts = @ + 1, ![cur].nelts = 0, ![part].next = NULL],
              part, mem[part].nelts)

\* The only element of the embedded part, which others follow: *cur->next is
\* copied over it.
RmOnlyOfEmbedded(r) ==
    LET next == mem[r].next
    IN  After(r, [mem EXCEPT ![r] = mem[next]],
              IF IsLast(r, next) THEN r ELSE last[r],
              IF IsLast(r, next) THEN mem[next].nelts ELSE nalloc[r])

\* The only element of a part in the middle.
RmOnlyOfMiddle(r, cur) ==
    After(r, [mem EXCEPT ![cur].elts = @ + 1, ![cur].nelts = 0,
                         ![Before(r, cur)].next = mem[cur].next],
          last[r], nalloc[r])

\* The last element of a part with others.
RmTail(r, cur) ==
    After(r, [mem EXCEPT ![cur].nelts = @ - 1],
          last[r], IF IsLast(r, cur) THEN mem[cur].nelts - 1 ELSE nalloc[r])

\* Any other element: a new part takes those behind it.
RmSplit(r, cur, i) ==
    LET right == [elts |-> mem[cur].elts + i + 1, nelts |-> mem[cur].nelts - i - 1,
                  next |-> mem[cur].next, end |-> mem[cur].end]
    IN  After(r, [mem EXCEPT ![cur].nelts = i, ![cur].next = fresh, ![fresh] = right],
              IF IsLast(r, cur) THEN fresh ELSE last[r],
              IF IsLast(r, cur) THEN right.nelts ELSE nalloc[r])

Splits(cur, i) == i > 0 /\ i < mem[cur].nelts - 1
Only(cur, i) == i = 0 /\ mem[cur].nelts = 1

\* The assertion that the embedded part has one behind it fails.
AssertsNext(r, cur, i) ==
    mem[r].nelts > 0 /\ Only(cur, i) /\ ~IsLast(r, cur) /\ cur = r /\ mem[cur].next = NULL

rm_header_helper(r, cur, i) ==
    \/ Only(cur, i) /\ IsLast(r, cur) /\ cur = r /\ RmOnlyOfSoleLast(r)
    \/ Only(cur, i) /\ IsLast(r, cur) /\ cur /= r /\ RmOnlyOfLast(r, cur)
    \/ Only(cur, i) /\ ~IsLast(r, cur) /\ cur = r /\ RmOnlyOfEmbedded(r)
    \/ Only(cur, i) /\ ~IsLast(r, cur) /\ cur /= r /\ RmOnlyOfMiddle(r, cur)
    \/ i = 0 /\ ~Only(cur, i) /\ RmFirst(r, cur)
    \/ i > 0 /\ ~Splits(cur, i) /\ RmTail(r, cur)
    \/ Splits(cur, i) /\ RmSplit(r, cur, i)

-----------------------------------------------------------------------------
(* The state machine. *)

EmptyPart == [elts |-> 0, nelts |-> 0, next |-> NULL, end |-> NAlloc]

SubInit ==
    /\ mem = [a \in Addresses |-> EmptyPart]
    /\ last = [r \in Requests |-> r]
    /\ nalloc = [r \in Requests |-> NAlloc]
    /\ brk = NAlloc
    /\ fresh = 1
    /\ started = {Main}
    /\ aborted = FALSE
    /\ changes = 0

\* ngx_http_subrequest: sr->headers_in = r->headers_in.
Start(q, repaired) ==
    /\ ~aborted
    /\ q \in Subs \ started
    /\ Parent[q] \in started
    /\ started' = started \cup {q}
    /\ mem' = [mem EXCEPT ![q] = mem[Parent[q]]]
    /\ last' = [last EXCEPT ![q] =
                   IF repaired /\ last[Parent[q]] = Parent[q] THEN q ELSE last[Parent[q]]]
    /\ nalloc' = [nalloc EXCEPT ![q] = nalloc[Parent[q]]]
    /\ UNCHANGED <<brk, fresh, aborted, changes>>

\* A slip: only the parent gets the copy.
Ancestors_Parent(r) == {Parent[q] : q \in {r} \cap Subs}

\* The requests that r = r->parent passes until r is r->main.
Ancestors(r) ==
    LET above[q \in Requests] == IF q = Main THEN {} ELSE {Parent[q]} \cup above[Parent[q]]
    IN  above[r]

\* headers_in of r goes to the requests in others, once r's own is newmem[r] and
\* its last newlast.
CopyHead(r, others, newmem, newlast) ==
    /\ mem' = [a \in Addresses |-> IF a \in others THEN newmem[r] ELSE newmem[a]]
    /\ last' = [q \in Requests |-> IF q \in others \cup {r} THEN newlast ELSE last[q]]
    /\ nalloc' = [q \in Requests |-> IF q \in others THEN nalloc[r] ELSE nalloc[q]]

Counted(r) ==
    IF r = Main THEN UNCHANGED changes
    ELSE changes < MaxChanges /\ changes' = changes + 1

\* A header is created; others are the parents that get a copy of headers_in, which
\* they do if nginx keeps a pointer to such a header.
Create(r, others) ==
    /\ ~aborted
    /\ r \in started
    /\ HasMemory(r) /\ InBlock(r)
    /\ CopyHead(r, others, PushedMem(r), PushedLast(r))
    /\ PushPool(r)
    /\ Counted(r)
    /\ UNCHANGED <<started, aborted>>

\* The header at an index of a part is removed, and the assertion after the
\* removal is evaluated.
Delete(r, cur, i) ==
    /\ ~aborted
    /\ r \in started
    /\ ~AssertsNext(r, cur, i)
    /\ Splits(cur, i) => fresh <= MaxAddr
    /\ rm_header_helper(r, cur, i)
    /\ fresh' = IF Splits(cur, i) THEN fresh + 1 ELSE fresh
    /\ aborted' = (mem'[r].next = NULL /\ last'[r] /= r)
    /\ Counted(r)
    /\ UNCHANGED <<brk, started>>

\* A removal that meets the assertion in rm_header_helper.
DeleteAsserts(r) ==
    /\ ~aborted
    /\ r \in started
    /\ AssertsNext(r, r, 0)
    /\ aborted' = TRUE
    /\ UNCHANGED <<list_vars, brk, fresh, started, changes>>

SubNext ==
    \/ \E q \in Subs, repaired \in BOOLEAN : Start(q, repaired)
    \/ \E r \in started : \E others \in {{}, Ancestors(r)} : Create(r, others)
    \/ \E r \in started : \E cur \in ToSet(Chain(r)) : \E i \in 0 .. mem[cur].nelts - 1 :
          Delete(r, cur, i)
    \/ \E r \in started : DeleteAsserts(r)

SubSpec == SubInit /\ [][SubNext]_sub_vars

-----------------------------------------------------------------------------
(* Properties. *)

\* The main request's list with its next pointers is the list of NgxList: the
\* chain of parts as a sequence, the embedded part at address 0.
AsParts ==
    LET PartAt(a) == [addr |-> IF a = Main THEN 0 ELSE a,
                      elts |-> mem[a].elts, nelts |-> mem[a].nelts, end |-> mem[a].end]
        parts == Chain(Main)
    IN  [k \in DOMAIN parts |-> PartAt(parts[k])]

Parts == INSTANCE NgxList WITH
    l <- [parts |-> AsParts, last |-> IF last[Main] = Main THEN 0 ELSE last[Main],
          nalloc |-> nalloc[Main]]

\* As long as no subrequest changes its own copy of it, the main request's list
\* is what it would be without subrequests, one surgery or push of NgxList per
\* step: starting subrequests from it does it no harm.  (set_header_helper and
\* rm_header_helper, when only the main request's rules change headers.)
MainAlone ==
    Parts!Init /\ [][changes' = 0 => [Parts!Next]_(Parts!vars)]_sub_vars

\* A request whose last is the end of its own chain.
Own(r) == last[r] \in ToSet(Chain(r)) /\ mem[last[r]].next = NULL

Without(s, slot) == Pick(s, {k \in DOMAIN s : s[k] /= slot})

\* A removal takes the header it found out of the list and no other, if the
\* request owns the end of the list; and although parts are shared it takes no
\* other header from parents and subrequests: they lose this one or nothing.
\* (Of the lists that have no slot twice: rm_header_helper on a list that
\* set_header_helper shared.)
RemovesOne ==
    [][\A r \in started : \A cur \in ToSet(Chain(r)) : \A i \in 0 .. mem[cur].nelts - 1 :
          Delete(r, cur, i) /\ Own(r) /\ IsInjective(Headers(r)) =>
             \A q \in started :
                LET before == Headers(q)
                    after == Headers(q)'
                    lost == Without(before, mem[cur].elts + i)
                IN  IF q = r THEN after = lost
                    ELSE IsInjective(before) => after \in {before, lost}
      ]_sub_vars

\* A created header that nginx keeps a pointer to is propagated: afterwards all
\* parents up to the main request see the very headers the subrequest sees, and
\* the new one is among them if the subrequest's last was part of its list.
\* (The loop at the end of set_header_helper.)
ParentsFollow ==
    [][\A r \in started \cap Subs :
          Create(r, Ancestors(r)) =>
            /\ Headers(r)' = Headers(Parent[r])' /\ Headers(r)' = Headers(Main)'
            /\ last[r] \in ToSet(Chain(r)) => PushSlot(r) \in ToSet(Headers(Main)')
      ]_sub_vars

\* The assertions on the list never fail: after a removal a list of one part
\* ends in it (set_header_helper), and an embedded part that is not last has one
\* behind it (rm_header_helper).  They do fail: a subrequest's list may have its
\* last in the parent, and after a copy to the parents theirs in the subrequest.
NeverAborts == ~aborted
=============================================================================
