---------------------------- MODULE MCHeaderRules ----------------------------
(***************************************************************************)
(* Small instance of HeaderRules: two locations in a server in the http    *)
(* block, three rules, words of two bits.                                  *)
(***************************************************************************)
EXTENDS HeaderRules, TLC

CONSTANTS locA, locB

MCParent == [b \in {"srv", locA, locB} |-> IF b = "srv" THEN "http" ELSE "srv"]

\* The locations have the same place in the tree.
Locations == Permutations({locA, locB})

MCLines ==
    {<<"set", "x-a", "v">>, <<"set", "-n", "x-a", "v">>, <<"set", "x-a", "v", "if=c">>,
     <<"clear", "x-*">>, <<"pass", "x-b">>}

MCBuiltins == [s \in {"out", "in"} |-> {}]
=============================================================================
