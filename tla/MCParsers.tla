------------------------------ MODULE MCParsers ------------------------------
(***************************************************************************)
(* Small instances of the three parsers, of which one runs: ValidateHost   *)
(* for every Host of up to five characters, one of each class, and names   *)
(* and literals with ports of up to six digits around the greatest one;    *)
(* ContentType for a type with any five characters behind it; and RuleConf *)
(* for every line of an operation and up to four tokens, or five for set,  *)
(* of which each is what one of the parser's tests asks for, in builds     *)
(* with ngx_expr_module, in its when block and outside, and in builds      *)
(* without.                                                                *)
(***************************************************************************)
EXTENDS ValidateHost, ContentType, RuleConf

MCDigit == [c \in {"0", "3", "5", "6"} |->
               CASE c = "0" -> 0 [] c = "3" -> 3 [] c = "5" -> 5 [] c = "6" -> 6]

MCLowerCase == [c \in {"A"} |-> "a"]

MCChar == {"A", "a", "-", "0", "3", "5", "6", ":", ".", "%", "[", "]", "/"}

OneOfEach == {"A", "a", "0", ":", ".", "%", "[", "]", "/"}

MCHosts ==
    UNION {[1 .. n -> OneOfEach] : n \in 0 .. 5}
    \cup {name \o digits : name \in {<<"a", ":">>, <<"[", "-", "]", ":">>},
                           digits \in UNION {[1 .. n -> {"0", "3", "5", "6"}] : n \in 4 .. 6}}

MCTypeChar == {"t", SEMICOLON, SPACE, QUOTE, NAME}

MCTypes ==
    {<< >>} \cup
    {<<"t">> \o rest : rest \in UNION {[1 .. n -> MCTypeChar] : n \in 0 .. 5}}

Tokens == {"set", "-n", "x-a", "host", "if=c", "if!=", ""}

MCLines ==
    {<<op>> \o args : op \in {"set", "pass", "append"},
                      args \in UNION {[1 .. n -> Tokens] : n \in 0 .. 4}}
    \cup {<<"set">> \o args : args \in [1 .. 5 -> Tokens]}
    \cup {<<"host">>, <<"host", "x-a">>, <<"host", "x-a", "x-a">>}

MCParent == [b \in {"srv"} |-> "http"]

MCBuiltins == [s \in Sides |-> IF s = "in" THEN {"host"} ELSE {}]

ParsersInit == HostInit /\ TypeInit /\ Init

HostIdle == rc = "idle"
TypeIdle == pc = "idle"
ConfIdle == Written = {} /\ phase = "reading"

ParsersNext ==
    \/ TypeIdle /\ ConfIdle /\ UNCHANGED <<type_vars, vars>> /\ HostNext
    \/ HostIdle /\ ConfIdle /\ UNCHANGED <<host_vars, vars>> /\ TypeNext
    \/ HostIdle /\ TypeIdle /\ UNCHANGED <<host_vars, type_vars>> /\ Next

ParsersSpec == ParsersInit /\ [][ParsersNext]_<<host_vars, type_vars, vars>>
=============================================================================
