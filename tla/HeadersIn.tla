------------------------------ MODULE HeadersIn ------------------------------
(***************************************************************************)
(* What the rules do to a request's headers: the handlers of headers_in.c, *)
(* on the list of NgxList.                                                 *)
(*                                                                         *)
(* nginx keeps a header in up to three places: the list, which is what is  *)
(* proxied; for the names it knows, a pointer from r->headers_in to the    *)
(* header in the list; and for some of those, fields computed from the     *)
(* value.  A rule has to change all of them together.                      *)
(*                                                                         *)
(* A rule is carried out without a pause, by one handler.  Most of them    *)
(* end in set_header_helper, whose loop starts anew after every header it  *)
(* removes; here a turn of that loop is a step.  This is a main request:   *)
(* the helper's copying from a subrequest to its parents does nothing.     *)
(*                                                                         *)
(* A name stands for all its spellings, the hash and the lower-case copy.  *)
(***************************************************************************)
EXTENDS NgxList, Picks, FiniteSets, FiniteSetsExt

CONSTANTS
    Names,          \* header names
    Prefix,         \* the names that end in *, each with the names it matches
    Plain,          \* the names handled by set_builtin_header,
    Checked,        \*   by a handler that may refuse the value (Host, Content-Length),
    Classified,     \*   by one that classifies it (Connection, User-Agent),
    Multi,          \*   by set_builtin_multi_header (Cookie, X-Forwarded-For)
    Repeatable,     \* the names of which nginx accepts several headers
    Received,       \* values of headers received
    Values,         \* values that rules evaluate to, EMPTY aside
    Refused,        \* the values that validate_host or ngx_atosz refuses
    Connection,     \* the Classified name whose value decides on keep-alive
    Closing,        \* its values that contain "close"
    EMPTY,          \* the value of length 0
    NULL,
    UNSET,          \* what a variable holds that was not initialised
    MaxHeaders,     \* bound: headers received
    MaxRules        \* bound: rules of the location

Single == Plain \cup Checked \cup Classified    \* with a pointer to one header
Builtin == Single \cup Multi
Derived == Checked \cup Classified

Keys == Names \cup DOMAIN Prefix

ASSUME NamesAssumption ==
    /\ Builtin \subseteq Names
    /\ Multi \cap Single = {}
    /\ Connection \in Classified
    /\ DOMAIN Prefix \cap Names = {}
    /\ \A p \in DOMAIN Prefix : Prefix[p] \subseteq Keys
ASSUME ValuesAssumption == EMPTY \notin Received \cup Values
ASSUME NullAssumption ==
    NULL \notin Nat /\ UNSET \notin Nat /\ NULL /= UNSET /\ NULL \notin {"ptr", "local"}

VARIABLES
    cell,       \* per slot the header in it: key, value and whether its hash is not 0
    malformed,  \* the request line was: nginx has not even set up the list
    ptr,        \* the pointers of r->headers_in to single headers
    chain,      \* per Multi name, the headers from r->headers_in.cookie on
    derived,    \* the value the fields that depend on a header were computed from
    keepalive,  \* r->keepalive
    pc,
    call,       \* the rule being carried out, or the last one
    out,        \* set_header_helper's output_header: "ptr", "local" or NULL
    part, i,    \* its position in the list: which part, which element of it
    matched,
    h,          \* the multi handler's local pointer
    count,      \* rules carried out so far
    before      \* ghost: the headers when the rule was begun

local_vars == <<out, part, i, matched, h>>
field_vars == <<ptr, chain, derived, keepalive>>
headers_vars == <<vars, cell, malformed, field_vars, pc, call, local_vars, count, before>>

Slots == 0 .. MaxSlot - 1

\* The list as names and values.
Header(slot) == <<cell[slot].key, cell[slot].value>>
Headers == [p \in DOMAIN Contents(l) |-> Header(Contents(l)[p])]

\* The rules that parse_directive accepts, pass aside (it calls no handler).
Rules ==
    {rule \in [op : {"set", "add", "clear", "append", "rewrite"}, key : Keys,
               value : Values \cup {EMPTY}] :
        /\ rule.op = "clear" => rule.value = EMPTY
        /\ rule.op = "append" => rule.key \notin Builtin}

Wildcard(rule) == rule.key \in DOMAIN Prefix

HeadersInit ==
    /\ Init
    /\ cell = [s \in Slots |-> [key |-> NULL, value |-> EMPTY, hash |-> FALSE]]
    /\ malformed \in BOOLEAN
    /\ ptr = [n \in Single |-> NULL]
    /\ chain = [n \in Multi |-> << >>]
    /\ derived = [n \in Derived |-> EMPTY]
    /\ keepalive = TRUE
    /\ pc = "receiving"
    /\ call = NULL
    /\ out = NULL
    /\ part = 1 /\ i = 0
    /\ matched = NULL
    /\ h = NULL
    /\ count = 0
    /\ before = << >>

-----------------------------------------------------------------------------
(* nginx reads the request. *)

\* ngx_list_push, and the new header's fields.
PushHeader(key, value) ==
    /\ Push \/ PushGrow
    /\ cell' = [cell EXCEPT ![PushSlot(l, brk)] =
                   [key |-> key, value |-> value, hash |-> value /= EMPTY]]

\* The first header of a name is pointed to, further ones are linked to it.
Receive(key, value) ==
    /\ pc = "receiving"
    /\ ~malformed
    /\ Len(Headers) < MaxHeaders
    /\ key \in Names
    /\ key \in Repeatable \/ \A p \in DOMAIN Headers : Headers[p][1] /= key
    /\ ~(key \in Checked /\ value \in Refused)
    /\ PushHeader(key, value)
    /\ ptr' = IF key \in Single /\ ptr[key] = NULL
              THEN [ptr EXCEPT ![key] = PushSlot(l, brk)] ELSE ptr
    /\ chain' = IF key \in Multi
                THEN [chain EXCEPT ![key] = Append(@, PushSlot(l, brk))] ELSE chain
    /\ derived' = IF key \in Derived THEN [derived EXCEPT ![key] = value] ELSE derived
    /\ keepalive' = (keepalive /\ ~(key = Connection /\ value \in Closing))
    /\ UNCHANGED <<malformed, pc, call, local_vars, count, before>>

\* The phases get to the rewrite phase's end.
AllReceived ==
    /\ pc = "receiving"
    /\ pc' = "idle"
    /\ UNCHANGED <<vars, cell, malformed, field_vars, call, local_vars, count, before>>

-----------------------------------------------------------------------------
(* exec_input_header calls the rule's handler.                              *)

Begin(rule) ==
    /\ pc = "idle"
    /\ count < MaxRules
    /\ rule \in Rules
    /\ count' = count + 1
    /\ call' = rule
    /\ before' = Headers

\* The handler calls set_header_helper, with or without an output_header.
CallHelper(rule, output) ==
    /\ pc' = IF rule.op = "append" THEN "create" ELSE "scan"
    /\ out' = output
    /\ part' = 1 /\ i' = 0
    /\ matched' = NULL

\* The handler returns at once.
ReturnAtOnce(result) ==
    /\ pc' = result
    /\ UNCHANGED <<out, part, i, matched, h>>

\* The fields are set only along with a header that is there.
Derive_IfPresent(rule) ==
    /\ derived' = IF rule.key \in Derived /\ ptr[rule.key] /= NULL
                  THEN [derived EXCEPT ![rule.key] = rule.value] ELSE derived
    /\ keepalive' = (keepalive /\ ~(rule.key = Connection /\ rule.value \in Closing))

\* The fields that depend on the header are set first, whatever the rule says.
Derive(rule) ==
    /\ derived' = IF rule.key \in Derived
                  THEN [derived EXCEPT ![rule.key] = rule.value] ELSE derived
    /\ keepalive' = (keepalive /\ ~(rule.key = Connection /\ rule.value \in Closing))

\* set_header: the names that have no handler of their own, and wildcards.
SetHeader(rule) ==
    /\ Begin(rule)
    /\ rule.key \notin Builtin
    /\ CallHelper(rule, NULL)
    /\ UNCHANGED <<vars, cell, malformed, field_vars, h>>

\* The value is refused: NGX_ERROR, before anything is changed.
RefuseValue(rule) ==
    /\ Begin(rule)
    /\ rule.key \in Checked /\ rule.value \in Refused
    /\ ReturnAtOnce("error")
    /\ UNCHANGED <<vars, cell, malformed, field_vars>>

\* What leads to set_builtin_header.
BeginBuiltin(rule) ==
    /\ Begin(rule)
    /\ rule.key \in Single
    /\ ~(rule.key \in Checked /\ rule.value \in Refused)
    /\ Derive(rule)
    /\ UNCHANGED <<vars, malformed, ptr, chain, h>>

\* There is no such header.
SetAbsentBuiltin(rule) ==
    /\ BeginBuiltin(rule)
    /\ ptr[rule.key] = NULL
    /\ CallHelper(rule, "ptr")
    /\ UNCHANGED cell

KeepBuiltin(rule) ==
    /\ BeginBuiltin(rule)
    /\ ptr[rule.key] /= NULL
    /\ rule.op = "add"
    /\ ReturnAtOnce("idle")
    /\ UNCHANGED cell

ClearBuiltin(rule) ==
    /\ BeginBuiltin(rule)
    /\ ptr[rule.key] /= NULL
    /\ rule.op /= "add" /\ rule.value = EMPTY
    /\ cell' = [cell EXCEPT ![ptr[rule.key]].hash = FALSE, ![ptr[rule.key]].value = EMPTY]
    /\ CallHelper(rule, "ptr")

ReplaceBuiltin(rule) ==
    /\ BeginBuiltin(rule)
    /\ ptr[rule.key] /= NULL
    /\ rule.op /= "add" /\ rule.value /= EMPTY
    /\ cell' = [cell EXCEPT ![ptr[rule.key]].hash = TRUE,
                            ![ptr[rule.key]].value = rule.value]
    /\ ReturnAtOnce("idle")

\* The chain is not cut first.
SetMulti_KeepsChain(rule) ==
    /\ Begin(rule)
    /\ rule.key \in Multi
    /\ ~malformed
    /\ h' = UNSET
    /\ CallHelper(rule, "local")
    /\ UNCHANGED <<vars, cell, malformed, field_vars>>

\* set_builtin_multi_header up to its call of the helper.
SetMulti(rule) ==
    /\ Begin(rule)
    /\ rule.key \in Multi
    /\ ~malformed
    /\ chain' = [chain EXCEPT ![rule.key] = << >>]
    /\ h' = UNSET
    /\ CallHelper(rule, "local")
    /\ UNCHANGED <<vars, cell, malformed, ptr, derived, keepalive>>

\* The other condition, a response status of 400, is not met: a request that was
\* answered gets to no handler of the rewrite phase.
SkipMulti(rule) ==
    /\ Begin(rule)
    /\ rule.key \in Multi
    /\ malformed
    /\ ReturnAtOnce("idle")
    /\ UNCHANGED <<vars, cell, malformed, field_vars>>

BeginRule == \E rule \in Rules :
    \/ SetHeader(rule) \/ RefuseValue(rule)
    \/ SetAbsentBuiltin(rule) \/ KeepBuiltin(rule)
    \/ ClearBuiltin(rule) \/ ReplaceBuiltin(rule)
    \/ SetMulti(rule) \/ SkipMulti(rule)

-----------------------------------------------------------------------------
(* set_header_helper: the loop.                                             *)

Nelts == l.parts[part].nelts

\* One element too many is read.
PartOver_OffByOne == i > Nelts

PartOver == i >= Nelts

AtEnd == PartOver /\ part = Len(l.parts)

\* The element to look at: behind a part's last one it is the next part's first,
\* which is read without a look at that part's nelts.
HerePart == IF PartOver THEN part + 1 ELSE part
Here == IF PartOver THEN 0 ELSE i
HereSlot == l.parts[HerePart].elts + Here

\* The names of the headers that a rule is about.
Covered(rule) ==
    IF ~Wildcard(rule) THEN {rule.key}
    ELSE IF rule.value = EMPTY THEN Prefix[rule.key] ELSE {}

Matches == cell[HereSlot].key \in Covered(call)

\* Only removals are told.
Output_NullOnly(slot) ==
    /\ ptr' = IF out = "ptr" /\ slot = NULL THEN [ptr EXCEPT ![call.key] = slot] ELSE ptr
    /\ h' = IF out = "local" THEN slot ELSE h

\* *output_header = slot
Output(slot) ==
    /\ ptr' = IF out = "ptr" THEN [ptr EXCEPT ![call.key] = slot] ELSE ptr
    /\ h' = IF out = "local" THEN slot ELSE h

\* The helper returns NGX_OK, to the rest of the multi handler or through its
\* caller to the loop; its variables are gone.
Return ==
    /\ pc' = IF out = "local" THEN "link" ELSE "idle"
    /\ out' = NULL
    /\ part' = 1 /\ i' = 0
    /\ matched' = NULL

Looking == pc = "scan" /\ ~AtEnd

GoOn ==
    /\ part' = HerePart
    /\ i' = Here + 1

Miss ==
    /\ Looking
    /\ ~Matches
    /\ GoOn
    /\ UNCHANGED <<vars, cell, malformed, field_vars, pc, call, out, matched, h, count, before>>

\* There already is one.
AddNothing ==
    /\ Looking
    /\ Matches
    /\ call.op = "add"
    /\ Return
    /\ UNCHANGED <<vars, cell, malformed, field_vars, call, h, count, before>>

\* Repetitions are given the value as well.
Superfluous_Never == call.value = EMPTY

\* Is it removed, or does it keep its place with the new value?
Superfluous == call.value = EMPTY \/ (matched /= NULL /\ matched /= HereSlot)

TakeValue ==
    /\ Looking
    /\ Matches
    /\ call.op /= "add" /\ ~Superfluous
    /\ cell' = [cell EXCEPT ![HereSlot].value = call.value]
    /\ Output(HereSlot)
    /\ matched' = HereSlot
    /\ GoOn
    /\ UNCHANGED <<vars, malformed, chain, derived, keepalive, pc, call, out, count, before>>

BeginRemoval ==
    /\ Looking
    /\ Matches
    /\ call.op /= "add" /\ Superfluous
    /\ cell' = [cell EXCEPT ![HereSlot].hash = FALSE]

\* The header is only marked, as one would in a response.
RemoveHeader_OnlyMarks ==
    /\ BeginRemoval
    /\ Output(NULL)
    /\ part' = 1 /\ i' = 0
    /\ UNCHANGED <<vars, malformed, chain, derived, keepalive, pc, call, out, matched,
                   count, before>>

\* rm_header_helper, and retry.
RemoveHeader ==
    /\ BeginRemoval
    /\ Rm(HerePart, Here) \/ RmGrow(HerePart, Here)
    /\ Output(NULL)
    /\ part' = 1 /\ i' = 0
    /\ UNCHANGED <<malformed, chain, derived, keepalive, pc, call, out, matched, count, before>>

\* rm_header_helper has no memory for a part.
RemovalFails ==
    /\ BeginRemoval
    /\ RmNeedsPart(l, HerePart, Here)
    /\ pc' = "error"
    /\ UNCHANGED <<vars, malformed, field_vars, call, local_vars, count, before>>

\* The loop is over, and there is nothing to create.
Found ==
    /\ pc = "scan" /\ AtEnd
    /\ matched /= NULL \/ call.value = EMPTY \/ call.op = "rewrite"
    /\ Return
    /\ UNCHANGED <<vars, cell, malformed, field_vars, call, h, count, before>>

NotFound ==
    /\ pc = "scan" /\ AtEnd
    /\ matched = NULL /\ call.value /= EMPTY /\ call.op /= "rewrite"
    /\ pc' = "create"
    /\ UNCHANGED <<vars, cell, malformed, field_vars, call, local_vars, count, before>>

-----------------------------------------------------------------------------
(* set_header_helper: the new header.                                       *)

\* nginx has no list to push it on.
CreateNowhere ==
    /\ pc = "create"
    /\ malformed
    /\ Return
    /\ UNCHANGED <<vars, cell, malformed, field_vars, call, h, count, before>>

Create ==
    /\ pc = "create"
    /\ ~malformed
    /\ PushHeader(call.key, call.value)
    /\ Output(PushSlot(l, brk))
    /\ Return
    /\ UNCHANGED <<malformed, chain, derived, keepalive, call, count, before>>

\* ngx_list_push has no memory for a part.
PushFails ==
    /\ pc = "create"
    /\ ~malformed
    /\ LastFull(l)
    /\ pc' = "error"
    /\ UNCHANGED <<vars, cell, malformed, field_vars, call, local_vars, count, before>>

\* There is none for lowcase_key; the header is in the list by then.
LowcaseFails ==
    /\ pc = "create"
    /\ ~malformed
    /\ PushHeader(call.key, call.value)
    /\ pc' = "error"
    /\ UNCHANGED <<malformed, field_vars, call, local_vars, count, before>>

\* The rest of set_builtin_multi_header: h becomes the chain, which is empty since
\* SetMulti.
Link ==
    /\ pc = "link"
    /\ chain' = IF call.value = EMPTY THEN chain ELSE [chain EXCEPT ![call.key] = <<h>>]
    /\ h' = NULL
    /\ pc' = "idle"
    /\ UNCHANGED <<vars, cell, malformed, ptr, derived, keepalive,
                   call, out, part, i, matched, count, before>>

Loop == Miss \/ AddNothing \/ TakeValue \/ RemoveHeader \/ RemovalFails \/ Found \/ NotFound

Helper == Loop \/ CreateNowhere \/ Create \/ PushFails \/ LowcaseFails \/ Link

HeadersNext ==
    \/ \E key \in Names, value \in Received : Receive(key, value)
    \/ AllReceived
    \/ BeginRule
    \/ Helper

\* A function that has been called goes on until it returns.
HeadersSpec == HeadersInit /\ [][HeadersNext]_headers_vars /\ WF_headers_vars(Helper)

-----------------------------------------------------------------------------
(* Properties. *)

HeadersTypeOK ==
    /\ TypeOK
    /\ cell \in [Slots -> [key : Keys \cup {NULL}, value : Received \cup Values \cup {EMPTY},
                           hash : BOOLEAN]]
    /\ malformed \in BOOLEAN /\ keepalive \in BOOLEAN
    /\ ptr \in [Single -> Nat \cup {NULL}]
    /\ chain \in [Multi -> Seq(Nat \cup {NULL, UNSET})]
    /\ derived \in [Derived -> Received \cup Values \cup {EMPTY}]
    /\ pc \in {"receiving", "idle", "scan", "create", "link", "error"}
    /\ call \in Rules \cup {NULL}
    /\ out \in {NULL, "ptr", "local"}
    /\ part \in Nat \ {0} /\ i \in Nat
    /\ matched \in Nat \cup {NULL}
    /\ h \in Nat \cup {NULL, UNSET}
    /\ count \in Nat

\* The loop steps to a next part's first element, and looks at it, without having
\* seen that there is one; still it never looks at anything but the headers.
ReadsHeaders == (pc = "scan" /\ ~AtEnd) => HereSlot \in Live(l)

\* The headers of a name in the list, as slots, in their order.
LiveOf(name) ==
    Pick(Contents(l), {p \in DOMAIN Contents(l) : cell[Contents(l)[p]].key = name})

\* A pointer that was left to a header no longer in the list; by now its slot may
\* have been handed out again, to a header of any name.
Stale(name) ==
    /\ ptr[name] /= NULL
    /\ ptr[name] \notin Live(l) \/ cell[ptr[name]].key /= name

\* Between rules, r->headers_in points to the first header of a name exactly when
\* the list has one, whatever the rules, duplicates and moved parts before.  A
\* wildcard clear may leave the pointer behind, but then there is no such header.
PointersExact ==
    pc \in {"receiving", "idle"} =>
        \A name \in Single :
            LET live == LiveOf(name)
            IN  IF live = << >> THEN ptr[name] = NULL \/ Stale(name)
                ELSE ptr[name] = live[1]

\* The members of lines but those at the indexes gone.
Dropping(lines, gone) == Pick(lines, DOMAIN lines \ gone)

\* The headers that a rule is about, by their indexes.
Hits(rule, lines) == {p \in DOMAIN lines : lines[p][1] \in Covered(rule)}

\* The documented effect of a rule on the headers.  For a name that nginx points
\* to, set and rewrite replace the first header's value and leave repetitions.
Effect(rule, lines) ==
    LET hits  == Hits(rule, lines)
        first == Min(hits)
        spare == IF rule.key \in Single THEN {} ELSE hits \ {first}
        new   == Append(lines, <<rule.key, rule.value>>)
        replaced == Dropping([lines EXCEPT ![first][2] = rule.value], spare)
    IN  CASE rule.op = "append" -> new
          [] rule.op = "add" ->
                IF hits = {} /\ rule.value /= EMPTY THEN new ELSE lines
          [] rule.op \in {"set", "clear", "rewrite"} /\ rule.value = EMPTY ->
                Dropping(lines, hits)
          [] rule.op = "set" /\ rule.value /= EMPTY ->
                IF hits = {} THEN new ELSE replaced
          [] rule.op = "rewrite" /\ rule.value /= EMPTY ->
                IF hits = {} THEN lines ELSE replaced

\* A rule that comes to its end has had its documented effect on the list, and no
\* other: in however many rounds of removing and starting anew, over however many
\* parts, every other header has kept its place and its value.
EffectExact ==
    (pc = "idle" /\ call /= NULL /\ ~malformed) =>
        \/ Headers = Effect(call, before)
        \/ call.key \in Single /\ Stale(call.key)

\* After set or clear of a name with several headers, the chain from r->headers_in
\* has exactly the headers of that name in the list, whatever was in it before.
ChainRebuilt ==
    (pc = "idle" /\ call /= NULL /\ call.key \in Multi /\ call.op \in {"set", "clear"}
        /\ ~malformed) => chain[call.key] = LiveOf(call.key)

\* After set or clear of a header on which other fields of r->headers_in depend,
\* those agree with the header that is now in the list.  An add or a rewrite makes
\* them those of its value, even if it leaves the header, or its absence, as it was.
FieldsFollow ==
    (pc = "idle" /\ call /= NULL /\ call.key \in Derived /\ ~malformed) =>
        LET live == LiveOf(call.key)
        IN  \/ /\ call.op \in {"set", "clear"}
               /\ derived[call.key] = IF live = << >> THEN EMPTY ELSE cell[live[1]].value
            \/ call.op \in {"add", "rewrite"} /\ derived[call.key] = call.value
            \/ Stale(call.key)

\* README.md of set: "Replace the header value, or add it if absent".
SetIsDone ==
    (pc = "idle" /\ call /= NULL /\ call.op = "set" /\ ~Wildcard(call) /\ call.value /= EMPTY
        /\ ~malformed) =>
        \E p \in DOMAIN Headers : Headers[p] = <<call.key, call.value>>

Present == \E p \in DOMAIN before : before[p][1] = call.key

\* README.md of add: "Set only if the header does **not** already exist".  The chain
\* of headers that did exist is still what it was.
AddKeepsChain ==
    (pc = "idle" /\ call /= NULL /\ call.op = "add" /\ call.value /= EMPTY
        /\ call.key \in Multi /\ Present) =>
        chain[call.key] = LiveOf(call.key)

\* Every rule comes to an end: the loop that starts anew after each removal does
\* so only as often as there are headers to remove.
RuleEnds == (pc \in {"scan", "create", "link"}) ~> (pc \in {"idle", "error"})

\* The rules do to the list what nginx and rm_header_helper may do to it.
ListSpec == Spec
=============================================================================
