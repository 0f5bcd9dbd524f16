----------------------------- MODULE MCHeadersOut -----------------------------
(***************************************************************************)
(* Small instances of HeadersOut: one with a header of each kind, and one  *)
(* for either departure from the operators' description that is shown.     *)
(***************************************************************************)
EXTENDS HeadersOut

\* A value "t;c" has a charset, and so has what nginx produces.
Charsets == [value \in Produced \cup Values |->
    CASE value = "t;c" -> "c" [] value = "p" -> "d" [] OTHER -> NULL]

MCPointer == [name \in {"server", "content-length", "accept-ranges"} |-> name]
MCPrefix == [p \in {"c*"} |-> {"content-length", "content-type", "cache-control", "c-a", "c*"}]
MCValues == [key \in Names \cup DOMAIN Prefix |->
    CASE key = "content-length" -> {"1", "bad"}
      [] key = "content-type"   -> {"1", "t;c"}
      [] OTHER                  -> {"1"}]

PlainValues == [key \in Names \cup DOMAIN Prefix |-> {"1"}]
NoPointer == [name \in {} |-> name]
NoPrefix == [p \in {} |-> {}]
EtagPointer == [name \in {"e-tag"} |-> "etag"]
=============================================================================
