----------------------------- MODULE HeaderRules -----------------------------
(***************************************************************************)
(* The configuration and the requests together: RuleConf reads and merges  *)
(* the directives, then requests run RuleChain's loop over the list, and   *)
(* with the count, that merging left to their location.  What either       *)
(* module takes for granted about the other is here a fact.                *)
(***************************************************************************)
EXTENDS RuleConf

CONSTANT Keys       \* the header names in Lines

VARIABLES side, rules, locked, i, pc, verdict,
          at        \* the location of the request in the loop, or NULL

chain_vars == <<side, rules, locked, i, pc, verdict>>
all_vars == <<vars, chain_vars, at>>

\* The loop looks at these parts of a rule.
ShapeOf(h) ==
    [key |-> h.key, wildcard |-> h.wildcard, next |-> h.next, cond |-> h.cond,
     pass |-> h.opcode = "pass"]

Chain == INSTANCE RuleChain WITH
    Shapes <- [key : Keys, wildcard : BOOLEAN, next : BOOLEAN, cond : BOOLEAN, pass : BOOLEAN]

\* A location's rules as the loop sees them.
ListOf(b, s) ==
    [k \in DOMAIN ArrayOf(b, s) |->
        [shape |-> ShapeOf(ArrayOf(b, s)[k].h), id |-> ArrayOf(b, s)[k].id]]

HeaderRulesInit == Init /\ Chain!Idle /\ at = NULL

\* A request for location b gets to the filter, or to the handler, if that is
\* installed.
Request(b, s, version10, memory) ==
    /\ phase = "serving"
    /\ s \in installed
    /\ Chain!Begin(s, ListOf(b, s), conf[b][s].cnt, version10, memory)
    /\ at' = b
    /\ UNCHANGED vars

RequestStep == Chain!Body /\ UNCHANGED <<vars, at>>

RequestEnds == Chain!EndRequest /\ at' = NULL /\ UNCHANGED vars

Configure == Next /\ UNCHANGED <<chain_vars, at>>

HeaderRulesNext ==
    \/ Configure
    \/ /\ pc = "idle"
       /\ \E b \in Blocks, s \in Sides, version10 \in BOOLEAN, memory \in BOOLEAN :
             Request(b, s, version10, memory)
    \/ RequestStep
    \/ RequestEnds

HeaderRulesSpec == HeaderRulesInit /\ [][HeaderRulesNext]_all_vars

-----------------------------------------------------------------------------
(* Properties. *)

From(k) == ArrayOf(at, side)[k].from
WithVerdict(what) == {From(k) : k \in {k \in DOMAIN verdict : verdict[k] = what}}

\* Where the rules that ran were written, in their order.
RanHere ==
    Pick([k \in DOMAIN verdict |-> From(k)], {k \in DOMAIN verdict : verdict[k] = "ran"})

\* From the file to the headers: the rules that a request runs are those, in
\* that order, that the rules of its block and of all the blocks around it say
\* should run for the conditions that this request met, as if nothing had been
\* merged, disabled, or kept in a bitmap.
RunsAsWritten ==
    (pc = "passed_on" /\ ~locked.null /\ i > Len(rules) /\ rules /= << >>) =>
        LET whole == Whole(side)[at]
            conditional == {whole[k].from : k \in {k \in DOMAIN whole : whole[k].h.cond}}
        IN  \E hit \in SUBSET (conditional \ WithVerdict("declined")) :
               Ran(whole, hit) = RanHere

\* The unchecked writes into the bitmap, which is sized by the count, at ids that
\* merging gave out.
WritesFit == pc = "fault" => locked.null
=============================================================================
