------------------------------ MODULE HeadersOut ------------------------------
(***************************************************************************)
(* What the rules do to a response's headers: the handlers of              *)
(* headers_out.c, run by the header filter.                                *)
(*                                                                         *)
(* Nothing is taken out of this list: a header is cleared by setting its   *)
(* hash to 0, and keeps its slot.  For the names nginx knows, it has a     *)
(* pointer to the header; a cleared header that is pointed to keeps nginx  *)
(* from sending one of its own.  Content-Type is no header of the list but *)
(* fields of r->headers_out; Cache-Control is a chain of headers.          *)
(*                                                                         *)
(* The list only grows, so it is the sequence of its slots.  A rule is     *)
(* carried out without a pause and does not start its scan anew: it is one *)
(* step.  The filters behind this one are in the definition of Sent.       *)
(***************************************************************************)
EXTENDS Picks, Integers, Sequences, FiniteSetsExt, Functions

CONSTANTS
    Names,          \* header names
    Prefix,         \* the names that end in *, each with the names it matches
    Pointer,        \* per name with a single pointer, the name nginx has it for
    Defaulted,      \* those of these for which nginx adds a header if it has none
    Lengths,        \* Content-Length, if it is among the names
    Ranges,         \* Accept-Ranges, if it is among the names
    Types,          \* Content-Type, if it is among the names
    Multi,          \* Cache-Control, if it is among the names
    Produced,       \* values of headers that nginx produces
    ValuesOf,       \* per name, the values its rules evaluate to, EMPTY aside
    Refused,        \* the values that ngx_atosz refuses
    CharsetOf,      \* per value, the charset that ContentType finds in it, or NULL
    OWN,            \* the value of a header that nginx adds
    EMPTY,          \* the value of length 0
    NULL,
    MaxHeaders,     \* bound: headers nginx produces
    MaxRules        \* bound: rules of the location

Single == DOMAIN Pointer
Builtin == Single \cup Multi \cup Types
Keys == Names \cup DOMAIN Prefix
Pointers == {Pointer[name] : name \in Single}
Values == (UNION {ValuesOf[key] : key \in Keys}) \cup {EMPTY}

ASSUME NamesAssumption ==
    /\ Builtin \cup Pointers \subseteq Names
    /\ Multi \cap Types = {} /\ (Multi \cup Types) \cap (Single \cup Pointers) = {}
    /\ Defaulted \cup Lengths \cup Ranges \subseteq Single
    /\ Defaulted \cap (Lengths \cup Ranges) = {} /\ Lengths \cap Ranges = {}
    /\ \A n \in Defaulted \cup Lengths \cup Ranges : Pointer[n] = n
    /\ \A names \in {Lengths, Ranges, Types} : \A m, n \in names : m = n
    /\ \A m, n \in Single : Pointer[m] = Pointer[n] => m = n
    /\ \A n \in Single : Pointer[n] \in Single => Pointer[n] = n
    /\ DOMAIN Prefix \cap Names = {}
ASSUME ValuesAssumption ==
    /\ DOMAIN ValuesOf = Keys
    /\ EMPTY \notin Produced \cup (UNION {ValuesOf[key] : key \in Keys})
    /\ DOMAIN CharsetOf = Produced \cup Values
    /\ CharsetOf[EMPTY] = NULL
ASSUME NullAssumption == NULL \notin Nat \cup Names \cup Produced \cup Values

VARIABLES
    list,       \* per slot the header: key, value and whether its hash is not 0
    ptr,        \* the pointers of r->headers_out to headers, as slots
    chain,      \* per Multi name, the headers from r->headers_out.cache_control on
    type,       \* content_type
    charset,    \* charset, NULL if its length is 0
    length,     \* content_length_n, NULL if it is -1
    ranges,     \* r->allow_ranges
    pc,
    call,       \* the rule carried out last
    count       \* rules carried out so far

field_vars == <<type, charset, length, ranges>>
out_vars == <<list, ptr, chain, field_vars, pc, call, count>>

\* The rules that parse_directive accepts, pass aside (it calls no handler).
Rules ==
    {rule \in [op : {"set", "add", "clear", "append", "rewrite"}, key : Keys, value : Values] :
        /\ rule.value \in ValuesOf[rule.key] \cup {EMPTY}
        /\ rule.op = "clear" => rule.value = EMPTY
        /\ rule.op = "append" => rule.key \notin Builtin}

Wildcard(rule) == rule.key \in DOMAIN Prefix

\* The fields as nginx's content handler may have set them.
OutInit ==
    /\ list = << >>
    /\ ptr = [name \in Pointers |-> NULL]
    /\ chain = [name \in Multi |-> << >>]
    /\ type \in IF Types = {} THEN {EMPTY} ELSE Produced \cup {EMPTY}
    /\ charset = CharsetOf[type]
    /\ length \in IF Lengths \cup Ranges = {} THEN {NULL} ELSE (Produced \ Refused) \cup {NULL}
    /\ ranges \in IF Ranges = {} THEN {FALSE} ELSE BOOLEAN
    /\ pc = "producing"
    /\ call = NULL
    /\ count = 0

-----------------------------------------------------------------------------
(* nginx produces the response. *)

NewSlot_Unpushed == Len(list)

\* The slot that ngx_list_push returns.
NewSlot == Len(list) + 1

PushHeader(key, value) ==
    list' = Append(list, [key |-> key, value |-> value, hash |-> value /= EMPTY])

Has(key) == \E p \in DOMAIN list : list[p].key = key

Produce(key, value) ==
    /\ pc = "producing"
    /\ Len(list) < MaxHeaders
    /\ key \in Names \ Types
    /\ key \in Single \cup Pointers => ~Has(key)
    /\ key \in Single => Pointer[key] = key
    /\ key \in Lengths => value \notin Refused
    /\ PushHeader(key, value)
    /\ ptr' = IF key \in Pointers THEN [ptr EXCEPT ![key] = Len(list) + 1] ELSE ptr
    /\ chain' = IF key \in Multi
                THEN [chain EXCEPT ![key] = Append(@, Len(list) + 1)] ELSE chain
    /\ length' = IF key \in Lengths THEN value ELSE length
    /\ UNCHANGED <<type, charset, ranges, pc, call, count>>

\* The response gets to the filter.
AllProduced ==
    /\ pc = "producing"
    /\ pc' = "idle"
    /\ UNCHANGED <<list, ptr, chain, field_vars, call, count>>

-----------------------------------------------------------------------------
(* set_header_helper *)

\* The names of the headers that a rule is about; a wildcard is here one for any
\* rule.
Covered(rule) == IF Wildcard(rule) THEN Prefix[rule.key] ELSE {rule.key}

Hits(rule) == {p \in DOMAIN list : list[p].hash /\ list[p].key \in Covered(rule)}

Cleared(slot) == [slot EXCEPT !.value = EMPTY, !.hash = FALSE]

\* Repetitions are given the value as well.
Scanned_EveryHit(rule, value) ==
    [p \in DOMAIN list |->
        IF p \notin Hits(rule) THEN list[p]
        ELSE IF value = EMPTY THEN Cleared(list[p])
        ELSE [list[p] EXCEPT !.value = value]]

\* The first header is given the value, the others are cleared.
Scanned(rule, value) ==
    [p \in DOMAIN list |->
        IF p \notin Hits(rule) THEN list[p]
        ELSE IF value = EMPTY \/ p /= Min(Hits(rule)) THEN Cleared(list[p])
        ELSE [list[p] EXCEPT !.value = value]]

\* The pointer is forgotten.
Output_Lost(output, slot) == ptr' = ptr

\* *output_header = slot, if there is an output_header.
Output(output, slot) ==
    ptr' = IF output = NULL THEN ptr ELSE [ptr EXCEPT ![output] = slot]

Return == pc' = "idle"

KeepFound(rule) ==
    /\ rule.op = "add" /\ Hits(rule) /= {}
    /\ Return
    /\ UNCHANGED <<list, ptr>>

\* output_header is left at the last of them.
ChangeFound(rule, value, output) ==
    /\ rule.op \notin {"add", "append"} /\ Hits(rule) /= {}
    /\ list' = Scanned(rule, value)
    /\ Output(output, Max(Hits(rule)))
    /\ Return

Creates(rule, value, no_create) ==
    \/ rule.op = "append"
    \/ /\ Hits(rule) = {}
       /\ rule.op /= "rewrite"
       /\ ~((Wildcard(rule) \/ no_create) /\ value = EMPTY)

LeaveAbsent(rule, value, no_create) ==
    /\ Hits(rule) = {}
    /\ ~Creates(rule, value, no_create)
    /\ Return
    /\ UNCHANGED <<list, ptr>>

\* A slot even for an empty value: nginx is not to send a header of its own.
Create(rule, value, output, no_create) ==
    /\ Creates(rule, value, no_create)
    /\ PushHeader(rule.key, value)
    /\ Output(output, NewSlot)
    /\ Return

\* No memory for the list, or, with the header in it, for lowcase_key.
CreateFails(rule, value, no_create) ==
    /\ Creates(rule, value, no_create)
    /\ list' = list \/ PushHeader(rule.key, value)
    /\ pc' = "error"
    /\ UNCHANGED ptr

\* At its start the helper sets the key and the hash of a Location that begins with
\* a slash; since nginx 1.23 they always are what they are set to.
Helper(rule, value, output, no_create) ==
    \/ KeepFound(rule)
    \/ ChangeFound(rule, value, output)
    \/ LeaveAbsent(rule, value, no_create)
    \/ Create(rule, value, output, no_create)
    \/ CreateFails(rule, value, no_create)

-----------------------------------------------------------------------------
(* exec_output_header calls the rule's handler. *)

Begin(rule) ==
    /\ pc = "idle"
    /\ count < MaxRules
    /\ count' = count + 1
    /\ call' = rule

\* set_header: the names that have no handler of their own, and wildcards.
SetHeader(rule) ==
    /\ Begin(rule)
    /\ rule.key \notin Builtin
    /\ Helper(rule, rule.value, NULL, FALSE)
    /\ UNCHANGED <<chain, field_vars>>

\* ngx_atosz does not take the value: NGX_ERROR, and nothing is changed.
RefuseLength(rule) ==
    /\ Begin(rule)
    /\ rule.key \in Lengths /\ rule.value \in Refused
    /\ pc' = "error"
    /\ UNCHANGED <<list, ptr, chain, field_vars>>

\* A cleared Content-Length leaves content_length_n.
Derive_NoReset(rule) ==
    /\ length' = IF rule.key \in Lengths /\ rule.value /= EMPTY THEN rule.value ELSE length
    /\ ranges' = (ranges /\ ~(rule.key \in Ranges /\ rule.value = EMPTY))

\* set_content_length_header, clear_content_length_header, set_accept_ranges_header:
\* the fields are set first, whatever the rule says.
Derive(rule) ==
    /\ length' = IF rule.key \notin Lengths THEN length
                 ELSE IF rule.value = EMPTY THEN NULL ELSE rule.value
    /\ ranges' = (ranges /\ ~(rule.key \in Ranges /\ rule.value = EMPTY))

\* What leads to set_builtin_header.
BeginBuiltin(rule) ==
    /\ Begin(rule)
    /\ rule.key \in Single
    /\ ~(rule.key \in Lengths /\ rule.value \in Refused)
    /\ Derive(rule)
    /\ UNCHANGED <<chain, type, charset>>

Old(rule) == ptr[Pointer[rule.key]]

SkipAbsentBuiltin(rule) ==
    /\ BeginBuiltin(rule)
    /\ Old(rule) = NULL
    /\ rule.op = "rewrite"
    /\ Return
    /\ UNCHANGED <<list, ptr>>

SetAbsentBuiltin(rule) ==
    /\ BeginBuiltin(rule)
    /\ Old(rule) = NULL
    /\ rule.op /= "rewrite"
    /\ Helper(rule, rule.value, Pointer[rule.key], FALSE)

KeepBuiltin(rule) ==
    /\ BeginBuiltin(rule)
    /\ Old(rule) /= NULL
    /\ rule.op = "add"
    /\ Return
    /\ UNCHANGED <<list, ptr>>

ClearBuiltin(rule) ==
    /\ BeginBuiltin(rule)
    /\ Old(rule) /= NULL
    /\ rule.op /= "add" /\ rule.value = EMPTY
    /\ list' = [list EXCEPT ![Old(rule)] = Cleared(@)]
    /\ Return
    /\ UNCHANGED ptr

\* The header is given the rule's name as well.
ReplaceBuiltin(rule) ==
    /\ BeginBuiltin(rule)
    /\ Old(rule) /= NULL
    /\ rule.op /= "add" /\ rule.value /= EMPTY
    /\ list' = [list EXCEPT ![Old(rule)] =
                   [key |-> rule.key, value |-> rule.value, hash |-> TRUE]]
    /\ Return
    /\ UNCHANGED ptr

\* set_content_type_header: only a value with a charset changes charset.
SetType(rule) ==
    /\ Begin(rule)
    /\ rule.key \in Types
    /\ type' = rule.value
    /\ charset' = IF CharsetOf[rule.value] = NULL THEN charset ELSE CharsetOf[rule.value]
    /\ Helper(rule, EMPTY, NULL, TRUE)
    /\ UNCHANGED <<chain, length, ranges>>

\* set_builtin_multi_header, which does not look at what operation it is for.
BeginMulti(rule) ==
    /\ Begin(rule)
    /\ rule.key \in Multi
    /\ UNCHANGED <<ptr, field_vars>>

ChangeChain(rule) ==
    /\ BeginMulti(rule)
    /\ chain[rule.key] /= << >>
    /\ list' = [p \in DOMAIN list |->
                   IF p = chain[rule.key][1]
                   THEN [list[p] EXCEPT !.value = rule.value, !.hash = rule.value /= EMPTY]
                   ELSE IF p \in Range(chain[rule.key]) THEN Cleared(list[p]) ELSE list[p]]
    /\ Return
    /\ UNCHANGED chain

LeaveNoChain(rule) ==
    /\ BeginMulti(rule)
    /\ chain[rule.key] = << >> /\ rule.value = EMPTY
    /\ Return
    /\ UNCHANGED <<list, chain>>

\* The header is not linked to.
StartChain_Unlinked(rule) ==
    /\ BeginMulti(rule)
    /\ chain[rule.key] = << >> /\ rule.value /= EMPTY
    /\ PushHeader(rule.key, rule.value)
    /\ Return
    /\ UNCHANGED chain

StartChain(rule) ==
    /\ BeginMulti(rule)
    /\ chain[rule.key] = << >> /\ rule.value /= EMPTY
    /\ PushHeader(rule.key, rule.value)
    /\ chain' = [chain EXCEPT ![rule.key] = <<NewSlot>>]
    /\ Return

StartChainFails(rule) ==
    /\ BeginMulti(rule)
    /\ chain[rule.key] = << >> /\ rule.value /= EMPTY
    /\ pc' = "error"
    /\ UNCHANGED <<list, chain>>

RunRule(rule) ==
    \/ SetHeader(rule)
    \/ RefuseLength(rule)
    \/ SkipAbsentBuiltin(rule) \/ SetAbsentBuiltin(rule)
    \/ KeepBuiltin(rule) \/ ClearBuiltin(rule) \/ ReplaceBuiltin(rule)
    \/ SetType(rule)
    \/ ChangeChain(rule) \/ LeaveNoChain(rule) \/ StartChain(rule) \/ StartChainFails(rule)

OutNext ==
    \/ \E key \in Names, value \in Produced : Produce(key, value)
    \/ AllProduced
    \/ \E rule \in Rules : RunRule(rule)

OutSpec == OutInit /\ [][OutNext]_out_vars

-----------------------------------------------------------------------------
(* What the client gets: nginx's own header filters. *)

\* A header line; Content-Type may have the charset appended.
Line(value) == <<value, NULL>>

Listed(name) ==
    Pick([p \in DOMAIN list |-> Line(list[p].value)],
         {p \in DOMAIN list : list[p].hash /\ list[p].key = name})

\* The lines that are not in the list.
Own(name) ==
    CASE name \in Lengths /\ ptr[name] = NULL /\ length /= NULL -> <<Line(length)>>
      [] name \in Ranges /\ ranges /\ length /= NULL            -> <<Line(OWN)>>
      [] name \in Defaulted /\ ptr[name] = NULL                 -> <<Line(OWN)>>
      [] name \in Types /\ type /= EMPTY ->
            <<IF CharsetOf[type] = NULL THEN <<type, charset>> ELSE Line(type)>>
      [] OTHER -> << >>

Sent(name) == Listed(name) \o Own(name)

-----------------------------------------------------------------------------
(* Properties. *)

OutTypeOK ==
    /\ list \in Seq([key : Keys, value : Produced \cup Values, hash : BOOLEAN])
    /\ ptr \in [Pointers -> DOMAIN list \cup {NULL}]
    /\ chain \in [Multi -> Seq(DOMAIN list)]
    /\ type \in Produced \cup Values
    /\ length \in Produced \cup Values \cup {NULL}
    /\ ranges \in BOOLEAN
    /\ pc \in {"producing", "idle", "error"}
    /\ call \in Rules \cup {NULL}
    /\ count \in Nat

\* A header that nginx points to is the only one of its name that is sent, and the
\* pointer is to a header of that name: no rules make nginx and the client see
\* different headers, or send two.
OutPointersExact ==
    pc /= "error" => \A name \in Single \cap Pointers :
        /\ \A p \in DOMAIN list : (list[p].hash /\ list[p].key = name) => ptr[name] = p
        /\ ptr[name] /= NULL => list[ptr[name]].key = name

\* Each Cache-Control that is sent is in the chain, so that the next rule finds it.
ChainLinked ==
    pc /= "error" => \A name \in Multi : \A p \in DOMAIN list :
        (list[p].hash /\ list[p].key = name) => p \in Range(chain[name])

\* A rule has been carried out.
RuleDone == count' = count + 1 /\ pc' = "idle"

\* nginx already has the header when the filter is called; its own ones of Defaulted
\* and Ranges come later.
Present(name) == Listed(name) /= << >> \/ (name \in Types \cup Lengths /\ Own(name) /= << >>)

\* The documented effect of a rule on the lines of a name.
Effect(rule, name) ==
    LET new == IF rule.value = EMPTY THEN << >> ELSE <<Line(rule.value)>>
    IN  IF name \notin Covered(rule) THEN Sent(name)
        ELSE CASE rule.op \in {"set", "clear"} -> new
               [] rule.op = "add"     -> IF Present(name) THEN Sent(name) ELSE new
               [] rule.op = "rewrite" -> IF Present(name) THEN new ELSE Sent(name)
               [] rule.op = "append"  -> Sent(name) \o new

\* The rules that go by the pointer of another name, and take its header for theirs.
Borrows(rule) == rule.key \in Single /\ Pointer[rule.key] /= rule.key

\* The rules that do something else to the name they are for; README.md says nothing
\* of wildcards that are not cleared.
Departs(rule) ==
    \/ Borrows(rule)
    \/ rule.op \in {"add", "rewrite"} /\ rule.key \in Types \cup Multi \cup Lengths
    \/ /\ rule.op \in {"add", "rewrite"} /\ rule.key \in Single
       /\ Old(rule) /= NULL /\ ~list[Old(rule)].hash
    \/ rule.key \in Ranges /\ ranges
    \/ rule.key \in Types /\ CharsetOf[rule.value] = NULL /\ charset /= NULL

\* What those do: Content-Type and Cache-Control are set whatever the operator, and
\* a Content-Length by a rewrite; what has a pointer counts as present, cleared or not; a
\* charset that is there stays; and Accept-Ranges that are not cleared are sent again.
Departure(rule) ==
    LET name == rule.key
        new  == IF rule.value = EMPTY THEN << >> ELSE <<Line(rule.value)>>
        set  == name \in Types \cup Multi \/ (name \in Lengths /\ rule.op = "rewrite")
        kept == IF Old(rule) = NULL THEN rule.op = "rewrite" ELSE rule.op = "add"
        text == IF ~set /\ kept THEN Listed(name) ELSE new
    IN  CASE name \in Types /\ rule.value /= EMPTY /\ CharsetOf[rule.value] = NULL ->
                <<<<rule.value, charset>>>>
          [] name \in Ranges /\ ranges /\ length /= NULL /\ rule.value /= EMPTY ->
                text \o <<Line(OWN)>>
          [] OTHER -> text

\* A rule has exactly its documented effect on what the client gets, nginx's own
\* headers included, or the one it departs by; and whatever it does to its own header
\* it leaves all the others alone, but that nginx has to know the length to send an
\* Accept-Ranges of its own, and that a header is taken by a rule that goes by its
\* pointer.
OutEffectExact ==
    [][RuleDone =>
        \A name \in Keys :
            \/ Sent(name)' = Effect(call', name)
            \/ name = call'.key /\ Departs(call') /\ Sent(name)' = Departure(call')
            \/ name \in Ranges /\ call'.key \in Lengths /\ Listed(name)' = Listed(name)
            \/ Borrows(call') /\ name = Pointer[call'.key]
            \/ name \in Covered(call') \cup {call'.key} /\ Wildcard(call') /\ call'.op /= "clear"
            \/ name \in Covered(call') /\ Wildcard(call') /\ Sent(name)' = Own(name)]_out_vars

\* What is sent as Content-Length is what nginx goes by.
LengthAgrees ==
    \A name \in Lengths :
        Sent(name) = IF length = NULL THEN << >> ELSE <<Line(length)>>

\* Only an add that keeps the header, or a wildcard, parts the Content-Length that is
\* sent from the one that nginx goes by.
LengthPartedBy ==
    [][(RuleDone /\ LengthAgrees /\ ~LengthAgrees') =>
          call'.op = "add" \/ Wildcard(call')]_out_vars

\* A rule of the kinds that README.md describes has the effect it describes.
AsDescribed(op) ==
    /\ RuleDone
    /\ call'.op = op
    /\ op = "clear" \/ (call'.value /= EMPTY /\ ~Wildcard(call'))
    => \A name \in Keys : Sent(name)' = Effect(call', name)

\* README.md of clear: "Remove the header. Wildcard suffix `*` matches by prefix".
ClearExact == [][AsDescribed("clear")]_out_vars
=============================================================================
