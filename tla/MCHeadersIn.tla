----------------------------- MODULE MCHeadersIn -----------------------------
(***************************************************************************)
(* Small instance of HeadersIn: list parts of three headers, so that every *)
(* branch of rm_header_helper is met, on two families of names that no     *)
(* request mixes: names that nginx does not know with a wildcard over      *)
(* them, for lists of four headers; and the names it keeps pointers to     *)
(* with one over some of those, for lists of three.                        *)
(***************************************************************************)
EXTENDS HeadersIn

ListPrefix == [p \in {"x-*"} |-> {"x-a", "x-b", "x-*"}]

PtrPrefix == [p \in {"re*"} |-> {"referer", "re*"}]

BothPrefixes == ListPrefix @@ PtrPrefix

Used ==
    {Headers[p][1] : p \in DOMAIN Headers} \cup (IF call = NULL THEN {} ELSE {call.key})

ListFamily == Used \subseteq {"x-a", "x-b", "x-*"}

\* Of one header fewer as long as nginx adds them.
PtrFamily ==
    /\ Used \subseteq {"referer", "re*", "host", "connection", "cookie"}
    /\ pc = "receiving" => Len(Headers) < MaxHeaders

\* A value that no header may have is only given to one where that matters.
RefusedOnly == call /= NULL /\ call.value \in Refused => call.key \in Checked

MCNext == HeadersNext /\ ((ListFamily \/ PtrFamily) /\ RefusedOnly)'

MCSpec == HeadersInit /\ [][MCNext]_headers_vars /\ WF_headers_vars(Helper)
=============================================================================
