------------------------------ MODULE RuleChain ------------------------------
(***************************************************************************)
(* The loop that runs a location's rules on a request, the same in         *)
(* ngx_http_headers_control_filter (response headers) and in               *)
(* ngx_http_headers_control_handler (request headers).                     *)
(*                                                                         *)
(* A rule without -n that has run breaks the chain of its header: no later *)
(* exact rule for that header runs.  The code keeps the ids of the rules   *)
(* that broke their chain in a bitmap and, before running a rule, looks    *)
(* for an earlier rule with the same key whose id is in it.                *)
(*                                                                         *)
(* What a rule does to the headers is its handler's business; here a rule  *)
(* runs, is declined because its condition is not met, or fails.           *)
(***************************************************************************)
EXTENDS Bitmap, Sequences

CONSTANTS
    Keys,       \* header names, up to letter case
    Shapes,     \* the rules there may be: a subset of Shape
    MaxRules    \* bound: rules of a location

\* The part of a header_val_t that the loop looks at.
Shape == [key : Keys, wildcard : BOOLEAN, next : BOOLEAN,
          cond : BOOLEAN,    \* it has a filter, or is in a when block
          pass : BOOLEAN]    \* its opcode is pass

ASSUME ShapesAssumption == Shapes \subseteq Shape
ASSUME MaxRulesAssumption == MaxRules \in Nat

Rule == [shape : Shape, id : Nat]

VARIABLES
    side,       \* which of the two loops: "out" or "in"
    rules,      \* conf->headers_out or headers_in; << >> is the NULL pointer
    locked,     \* the bitmap on the stack
    i,          \* the loop counter, from 1
    pc,
    verdict     \* ghost: what became of the rules before i

vars == <<side, rules, locked, i, pc, verdict>>

Exact(rule) == ~rule.shape.wildcard
SameKey(r1, r2) == r1.shape.key = r2.shape.key

\* The rules of a location that ngx_http_headers_control_merge_one_array has
\* left with ids 0, 1, ...
Indexed(shapes) == [k \in DOMAIN shapes |-> [shape |-> shapes[k], id |-> k - 1]]

Idle ==
    /\ side = "out"
    /\ rules = << >>
    /\ locked = bitmap_init(0, TRUE)
    /\ i = 1
    /\ pc = "idle"
    /\ verdict = << >>

\* The filter or the handler is called for a location with the rules list, of
\* which the configuration says there are cnt.  No rules, or a request older
\* than HTTP/1.0 for the handler: nothing is done.  memory is whether
\* bitmap_init's ngx_pcalloc succeeds.
Begin(which, list, cnt, version10, memory) ==
    /\ pc = "idle"
    /\ side' = which
    /\ rules' = list
    /\ locked' = bitmap_init(cnt, memory)
    /\ i' = 1
    /\ pc' = IF list = << >> \/ (which = "in" /\ ~version10) THEN "passed_on" ELSE "loop"
    /\ verdict' = << >>

-----------------------------------------------------------------------------
(* The loop's body. *)

\* The inner loop: an earlier exact rule with the same key broke the chain.
IsLocked(r) ==
    /\ Exact(rules[r])
    /\ \E j \in 1 .. r - 1 :
          /\ Exact(rules[j])
          /\ SameKey(rules[j], rules[r])
          /\ bitmap_isset(locked, rules[j].id)

Turn(what) ==
    /\ verdict' = Append(verdict, what)
    /\ i' = i + 1

Skip ==
    /\ pc = "loop"
    /\ i <= Len(rules)
    /\ IsLocked(i)
    /\ Turn("locked")
    /\ UNCHANGED <<side, rules, locked, pc>>

Reached == pc = "loop" /\ i <= Len(rules) /\ ~IsLocked(i)

\* exec_*_header: the condition is not met.
NotMet ==
    /\ Reached
    /\ rules[i].shape.cond
    /\ Turn("declined")
    /\ UNCHANGED <<side, rules, locked, pc>>

\* exec_*_header: the condition, the value or the handler fails, and the loop
\* with it.  The rules before this one have done what they do.
Fail ==
    /\ Reached
    /\ rules[i].shape.cond \/ ~rules[i].shape.pass
    /\ pc' = "error"
    /\ UNCHANGED <<side, rules, locked, i, verdict>>

\* A rule with -n breaks the chain as well.
BreaksChain_IgnoresNext(rule) == Exact(rule)

BreaksChain(rule) == Exact(rule) /\ ~rule.shape.next

\* exec_*_header: pass, or the handler succeeds; the chain goes on.
RunOn ==
    /\ Reached
    /\ ~BreaksChain(rules[i])
    /\ Turn("ran")
    /\ UNCHANGED <<side, rules, locked, pc>>

\* The same, and the rule locks its header.
RunAndLock ==
    /\ Reached
    /\ BreaksChain(rules[i])
    /\ InWords(locked, rules[i].id)
    /\ locked' = SetBit(locked, rules[i].id)
    /\ Turn("ran")
    /\ UNCHANGED <<side, rules, pc>>

\* The same, and the write misses the bitmap's words: what comes of it is not
\* defined, and in practice a null pointer ends the worker.
RunAndFault ==
    /\ Reached
    /\ BreaksChain(rules[i])
    /\ ~InWords(locked, rules[i].id)
    /\ pc' = "fault"
    /\ UNCHANGED <<side, rules, locked, i, verdict>>

\* ngx_http_next_header_filter, or NGX_DECLINED to the phase engine.
PassOn ==
    /\ pc = "loop"
    /\ i > Len(rules)
    /\ pc' = "passed_on"
    /\ UNCHANGED <<side, rules, locked, i, verdict>>

\* This request is through with the loop, or its worker died and was replaced:
\* the loop's variables are gone from the stack.
EndRequest ==
    /\ pc \in {"passed_on", "error", "fault"}
    /\ side' = "out"
    /\ rules' = << >>
    /\ locked' = bitmap_init(0, TRUE)
    /\ i' = 1
    /\ pc' = "idle"
    /\ verdict' = << >>

Body == Skip \/ NotMet \/ Fail \/ RunOn \/ RunAndLock \/ RunAndFault \/ PassOn

\* A request for a location with any rules at all.
Request ==
    /\ pc = "idle"
    /\ \E which \in {"out", "in"}, version10 \in BOOLEAN, memory \in BOOLEAN,
          n \in 0 .. MaxRules : \E shapes \in [1 .. n -> Shapes] :
             Begin(which, Indexed(shapes), n, version10, memory)

Next ==
    \/ Request
    \/ Body
    \/ EndRequest

Spec == Idle /\ [][Next]_vars

-----------------------------------------------------------------------------
(* Properties. *)

TypeOK ==
    /\ side \in {"out", "in"}
    /\ rules \in Seq(Rule)
    /\ locked \in bitmap_t(locked.size)
    /\ i \in Nat \ {0}
    /\ pc \in {"idle", "loop", "passed_on", "error", "fault"}
    /\ verdict \in Seq({"locked", "declined", "ran"})

\* Rule p keeps rule q from running.
Bars(p, q) ==
    /\ Exact(rules[p]) /\ Exact(rules[q])
    /\ SameKey(rules[p], rules[q])
    /\ ~rules[p].shape.next
    /\ verdict[p] = "ran"

\* A rule is skipped exactly when an earlier exact rule without -n for the same
\* header has run: a declined one never breaks the chain, wildcard rules
\* neither break nor feel it, and two headers never share a lock.  Without
\* memory for the bitmap nothing is ever locked.
ChainExact ==
    \A q \in DOMAIN verdict :
        verdict[q] = "locked" <=> \E p \in 1 .. q - 1 : Bars(p, q)

\* The unchecked writes of the two loops miss the bitmap only if the pool had
\* no memory for it: every rule's id lies in its words.
FaultOnlyWithoutMemory == pc = "fault" => locked.null

\* The bitmap holds the ids of the rules that ran and broke their chain.
LockedIsRan ==
    \A p \in DOMAIN rules :
        bitmap_isset(locked, rules[p].id)
            <=> p \in DOMAIN verdict /\ verdict[p] = "ran" /\ BreaksChain(rules[p])

\* The inductive invariant behind them.
IInv ==
    /\ TypeOK
    /\ \A k \in DOMAIN rules : rules[k].id = k - 1
    /\ ~locked.null => locked.size = Len(rules)
    /\ Len(verdict) = i - 1
    /\ i <= Len(rules) + 1
    /\ LockedIsRan
    /\ ChainExact
    /\ FaultOnlyWithoutMemory
=============================================================================
