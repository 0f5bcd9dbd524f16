------------------------------- MODULE RuleConf -------------------------------
(***************************************************************************)
(* From the directives of a configuration to the rules of each location:   *)
(* ngx_http_headers_control_parse_directive while nginx reads the file,    *)
(* ngx_http_headers_control_merge_loc_conf when it merges each block with  *)
(* the block around it.                                                    *)
(*                                                                         *)
(* A block's rules are in an ngx_array_t, on which other blocks may have a *)
(* pointer: a block without rules of its own is given its parent's array.  *)
(* Here an array is named by the block and side it was created for.        *)
(*                                                                         *)
(* A token of a directive is a string, already folded to lower case where  *)
(* the code ignores the case; what the code asks of its characters is      *)
(* which of the sets below it is in.                                       *)
(***************************************************************************)
EXTENDS Bitmap, Picks, FiniteSets

CONSTANTS
    Blocks, Root, Parent,       \* the tree of http, server and location blocks
    Builds,                     \* with ngx_expr_module, without it, or both
    Lines,                      \* the directives: token sequences from the operation on
    Wildcards,                  \* tokens that end in *
    BadNames,                   \* the empty token, and those with whitespace
    Builtins,                   \* per side, the names in the table of handlers
    IfTokens, IfNotTokens,      \* tokens if=..., if!=... with something after the =
    Uncompilable,               \* tokens that are no complex value, or hold none
    NULL,
    MaxRules                    \* bound: directives in the configuration

Sides == {"out", "in"}
Opcodes == {"set", "add", "pass", "clear", "append", "rewrite"}

\* Blocks are nested: of any of them but the root, one is the outermost.
ASSUME TreeAssumption ==
    /\ Root \in Blocks /\ Parent \in [Blocks \ {Root} -> Blocks]
    /\ \A some \in SUBSET (Blocks \ {Root}) : some /= {} => \E b \in some : Parent[b] \notin some
ASSUME BuildsAssumption == Builds \subseteq BOOLEAN
ASSUME NullAssumption == NULL \notin Blocks \X Sides
ASSUME LinesAssumption == Lines \subseteq Seq(STRING)

VARIABLES
    expr,       \* this nginx is built with ngx_expr_module
    phase,      \* "reading", "merging", "serving" or "rejected"
    text,       \* ghost: per block and side the rules written there, in order
    heap,       \* the arrays: per block and side the rules in the one created for it
    conf,       \* the loc_confs: per block and side the array pointer and the count
    merged,     \* the blocks whose rules are final
    requires,   \* hmcf->requires_filter and requires_handler: sides with rules
    installed,  \* the sides whose filter or handler is in nginx's chain
    refused     \* ghost: the line that was rejected

vars == <<expr, phase, text, heap, conf, merged, requires, installed, refused>>

-----------------------------------------------------------------------------
(* parse_directive and parse_header, as a function of a line's tokens.     *)

\* No token is behind the condition.
NoneLeft(line, cond) == Len(line) <= cond

\* Only a condition of its own makes a rule conditional.
Conditional_IgnoresWhen(line, cond, when) == Len(line) >= cond

\* It has a filter, or belongs to a when block.
Conditional(line, cond, when) == when \/ Len(line) >= cond

\* line is cf->args without the directive's name; when, the directive is inside
\* a when block.  A rule's key stands for its hash and handler as well.
parse_directive(side, line, when) ==
    LET next  == Len(line) >= 2 /\ line[2] = "-n"
        name  == IF next THEN 3 ELSE 2
        value == line[1] \notin {"clear", "pass"}
        cond  == name + (IF value THEN 2 ELSE 1)    \* where a condition may be
        key   == line[name]
        ok == /\ Len(line) >= 2
              /\ line[1] \in Opcodes
              /\ Len(line) >= cond - 1
              /\ Len(line) >= cond =>
                    ~expr /\ line[cond] \in (IfTokens \cup IfNotTokens) \ Uncompilable
              /\ NoneLeft(line, cond)
              /\ key \notin BadNames
              /\ value => line[name + 1] \notin Uncompilable
              /\ ~(line[1] = "append" /\ key \in Builtins[side])
    IN  [ok |-> ok,
         rule |-> IF ok THEN [key |-> key, wildcard |-> key \in Wildcards, next |-> next,
                              cond |-> Conditional(line, cond, when), opcode |-> line[1]]
                        ELSE NULL]

-----------------------------------------------------------------------------
(* merge_one_array. *)

\* A conditional child rule disables as well.
Disables_Conditional(child, parent) ==
    /\ ~child.next /\ ~child.wildcard
    /\ ~parent.wildcard
    /\ child.key = parent.key

Disables(child, parent) ==
    /\ ~child.cond /\ ~child.next /\ ~child.wildcard
    /\ ~parent.wildcard
    /\ child.key = parent.key

\* The bitmap of the parent rules that some child rule disables.
DisableMap(curr, prev, prevcnt, memory) ==
    LET map[j \in 0 .. Len(prev)] ==
            IF j = 0 THEN bitmap_init(prevcnt, memory)
            ELSE IF \E i \in DOMAIN curr : Disables(curr[i].h, prev[j].h)
                 THEN bitmap_set(map[j - 1], prev[j].id) ELSE map[j - 1]
    IN  map[Len(prev)]

\* The parent rules that are copied.
Kept(curr, prev, prevcnt, memory) ==
    LET map == DisableMap(curr, prev, prevcnt, memory)
    IN  Pick(prev, {j \in DOMAIN prev : ~bitmap_isset(map, prev[j].id)})

WithId(rule, id) ==
    [h |-> rule.h, id |-> id, from |-> rule.from, line |-> rule.line, when |-> rule.when]

\* The appended rules keep the ids they had in the parent.
Reindex_OwnOnly(rules, own) ==
    [k \in DOMAIN rules |-> IF k <= own THEN WithId(rules[k], k - 1) ELSE rules[k]]

\* own is the number of rules the child had of its own.
Reindex(rules, own) == [k \in DOMAIN rules |-> WithId(rules[k], k - 1)]

\* The parent's rules come first.
merge_one_array_ParentFirst(curr, prev, prevcnt, memory) ==
    Reindex(Kept(curr, prev, prevcnt, memory) \o curr, Len(curr))

merge_one_array(curr, prev, prevcnt, memory) ==
    Reindex(curr \o Kept(curr, prev, prevcnt, memory), Len(curr))

-----------------------------------------------------------------------------
(* The state machine. *)

Init ==
    /\ expr \in Builds
    /\ phase = "reading"
    /\ text = [b \in Blocks |-> [s \in Sides |-> << >>]]
    /\ heap = [a \in Blocks \X Sides |-> << >>]
    /\ conf = [b \in Blocks |-> [s \in Sides |-> [arr |-> NULL, cnt |-> 0]]]
    /\ merged = {}
    /\ requires = {}
    /\ installed = {}
    /\ refused = NULL

Written == UNION {{<<b, s, k>> : k \in DOMAIN text[b][s]} : b \in Blocks, s \in Sides}

\* The two flags of the main conf are mixed up.
Requires_Swapped(s) == Sides \ {s}

\* A rule for responses needs the filter, one for requests the handler.
Requires(s) == {s}

\* The line is accepted: the rule is pushed on the block's array, which its first
\* rule creates, and takes the block's count for its id.  Where it was written,
\* and how, goes with it for the properties.
Accept(b, s, line, when, parsed) ==
    LET rule == [h |-> parsed.rule, id |-> conf[b][s].cnt,
                 from |-> <<b, s, Len(text[b][s]) + 1>>,
                 line |-> line, when |-> when]
    IN  /\ text' = [text EXCEPT ![b][s] = Append(@, rule)]
        /\ heap' = [heap EXCEPT ![<<b, s>>] = Append(@, rule)]
        /\ conf' = [conf EXCEPT ![b][s] = [arr |-> <<b, s>>, cnt |-> @.cnt + 1]]
        /\ requires' = requires \cup Requires(s)
        /\ UNCHANGED <<expr, phase, merged, installed, refused>>

\* NGX_CONF_ERROR: nginx gives this configuration up.
Reject(s, line, when) ==
    /\ phase' = "rejected"
    /\ refused' = [side |-> s, line |-> line, when |-> when]
    /\ UNCHANGED <<expr, text, heap, conf, merged, requires, installed>>

Directive(b, s, line, when) ==
    LET parsed == parse_directive(s, line, when)
    IN  /\ phase = "reading"
        /\ when => expr
        /\ \/ parsed.ok /\ Accept(b, s, line, when, parsed)
           \/ ~parsed.ok /\ Reject(s, line, when)

\* The end of the http block, which has no block to be merged with.
EndOfFile ==
    /\ phase = "reading"
    /\ phase' = "merging"
    /\ merged' = {Root}
    /\ UNCHANGED <<expr, text, heap, conf, requires, installed, refused>>

\* The two arrays are swapped: the parent's is the one that grows.
MergedHeap_OntoParent(b, a, s, memory) ==
    LET c == conf[b][s]
        p == conf[Parent[b]][s]
    IN  IF c.arr /= NULL /\ p.arr = <<a, s>>
        THEN merge_one_array(heap[p.arr], heap[c.arr], c.cnt, memory)
        ELSE heap[<<a, s>>]

\* What merging block b makes of the array created for block a and side s.
MergedHeap(b, a, s, memory) ==
    LET c == conf[b][s]
        p == conf[Parent[b]][s]
    IN  IF a = b /\ c.arr /= NULL /\ p.arr /= NULL
        THEN merge_one_array(heap[c.arr], heap[p.arr], p.cnt, memory)
        ELSE heap[<<a, s>>]

\* The count stays the one of the child's own rules.
MergedConf_OwnCount(b, s, memory) ==
    LET c == conf[b][s]
    IN  IF c.arr = NULL THEN conf[Parent[b]][s] ELSE c

MergedConf(b, s, memory) ==
    LET c == conf[b][s]
    IN  IF c.arr = NULL THEN conf[Parent[b]][s]
        ELSE [arr |-> c.arr, cnt |-> Len(MergedHeap(b, b, s, memory))]

\* merge_loc_conf(cf, parent, b), which nginx calls for every block after it has
\* called it for the block around.  memory: the sides for whose bitmap the pool
\* has some.
Merge(b, memory) ==
    /\ phase = "merging"
    /\ b \notin merged
    /\ Parent[b] \in merged
    /\ heap' = [a \in Blocks \X Sides |-> MergedHeap(b, a[1], a[2], a[2] \in memory)]
    /\ conf' = [conf EXCEPT ![b] = [s \in Sides |-> MergedConf(b, s, s \in memory)]]
    /\ merged' = merged \cup {b}
    /\ UNCHANGED <<expr, phase, text, requires, installed, refused>>

\* post_config.  again: the cycle is the one of its previous call, as when the
\* configuration before this one was rejected; the filter is then always put in.
PostConfig(again) ==
    /\ phase = "merging"
    /\ merged = Blocks
    /\ phase' = "serving"
    /\ installed' = IF again THEN requires \cup {"out"} ELSE requires
    /\ UNCHANGED <<expr, text, heap, conf, merged, requires, refused>>

Read ==
    /\ phase = "reading"
    /\ Cardinality(Written) < MaxRules
    /\ \E b \in Blocks, s \in Sides, line \in Lines, when \in BOOLEAN :
          Directive(b, s, line, when)

Next ==
    \/ Read
    \/ EndOfFile
    \/ \E b \in Blocks \ merged, memory \in SUBSET Sides : Merge(b, memory)
    \/ \E again \in BOOLEAN : PostConfig(again)

Spec == Init /\ [][Next]_vars

-----------------------------------------------------------------------------
(* Properties. *)

ArrayOf(b, s) == IF conf[b][s].arr = NULL THEN << >> ELSE heap[conf[b][s].arr]

\* The rules that a line means, by README.md's "operation [-n] name [value]
\* [if=... | if!=...]": one for each way to read the line like that.  A -n where
\* the flag may be is the flag and never a name.
Meaning(side, line, when) ==
    LET optional == {<< >>} \cup {<<line[k]>> : k \in 2 .. Len(line)}
        Reads(flag, name, value, cond) ==
            /\ line = <<line[1]>> \o flag \o <<name>> \o value \o cond
            /\ line[1] \in Opcodes
            /\ name \notin BadNames
            /\ flag = << >> => name /= "-n"
            /\ (value = << >>) = (line[1] \in {"clear", "pass"})
            /\ value /= << >> => value[1] \notin Uncompilable
            /\ line[1] = "append" => name \notin Builtins[side]
            /\ cond /= << >> =>
                  ~expr /\ cond[1] \in (IfTokens \cup IfNotTokens) \ Uncompilable
    IN  {[key |-> way[2], wildcard |-> way[2] \in Wildcards, next |-> way[1] /= << >>,
          cond |-> when \/ way[4] /= << >>, opcode |-> line[1]] :
            way \in {way \in {<< >>, <<"-n">>} \X {line[k] : k \in 2 .. Len(line)}
                                \X optional \X optional :
                        Reads(way[1], way[2], way[3], way[4])}}

\* A line is accepted exactly when it is a directive of the documented syntax,
\* and then its rule is the one thing it can mean: no token is dropped, or taken
\* for another part of the directive.
GrammarExact ==
    /\ \A b \in Blocks, s \in Sides : \A k \in DOMAIN text[b][s] :
          LET rule == text[b][s][k] IN Meaning(s, rule.line, rule.when) = {rule.h}
    /\ phase = "rejected" => Meaning(refused.side, refused.line, refused.when) = {}

\* What the loops that run the rules count on: a rule's id is its index, and the
\* count that sizes their bitmap is the number of rules.
IdsArePositions ==
    \A b \in Blocks, s \in Sides :
        /\ conf[b][s].cnt = Len(ArrayOf(b, s))
        /\ \A k \in DOMAIN ArrayOf(b, s) : ArrayOf(b, s)[k].id = k - 1

\* Where the rules of list that run were written, in the order they run in, when
\* of the conditional ones those written at hit have their condition met.
Ran(list, hit) ==
    LET Met(h) == h.h.cond => h.from \in hit
        Runs(q) ==
            /\ Met(list[q])
            /\ list[q].h.wildcard \/ \A p \in 1 .. q - 1 :
                  (~list[p].h.wildcard /\ list[p].h.key = list[q].h.key /\ Met(list[p]))
                      => list[p].h.next
    IN  Pick([q \in DOMAIN list |-> list[q].from], {q \in DOMAIN list : Runs(q)})

\* All the rules of a block and of the blocks around it, the inner ones first.
Whole(s) ==
    LET whole[b \in Blocks] ==
            IF b = Root THEN text[b][s] ELSE text[b][s] \o whole[Parent[b]]
    IN  whole

\* Disabling rules while merging is only an optimisation of the chain: whatever
\* conditions are met, the merged list runs the rules that the unabridged list
\* of the block's and all its ancestors' rules runs, and in the same order.
MergeSound ==
    \A b \in merged, s \in Sides :
        LET all == Whole(s)[b]
            conditional == {all[k].from : k \in {k \in DOMAIN all : all[k].h.cond}}
        IN  \A hit \in SUBSET conditional :
               Ran(ArrayOf(b, s), hit) = Ran(all, hit)

\* Arrays are shared between blocks, and still no merge changes the rules of a
\* block that is merged already.
MergedStays == [][\A b \in merged, s \in Sides : ArrayOf(b, s)' = ArrayOf(b, s)]_vars

\* The filter is installed when some location has rules for responses, and the
\* handler when one has rules for requests, inherited rules included.
ServedWhereWritten ==
    phase = "serving" =>
        \A b \in Blocks, s \in Sides : ArrayOf(b, s) /= << >> => s \in installed
=============================================================================
