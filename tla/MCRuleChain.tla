----------------------------- MODULE MCRuleChain -----------------------------
(***************************************************************************)
(* Small instance of RuleChain: two headers, rules with every combination  *)
(* of -n and condition for the first, words of two bits so that three      *)
(* rules need two of them.                                                 *)
(***************************************************************************)
EXTENDS RuleChain

MCShapes ==
    [key : {"X-A"}, wildcard : {FALSE}, next : BOOLEAN, cond : BOOLEAN, pass : {FALSE}]
    \cup {[key |-> "X-A", wildcard |-> FALSE, next |-> FALSE, cond |-> FALSE, pass |-> TRUE],
          [key |-> "X-B", wildcard |-> FALSE, next |-> FALSE, cond |-> FALSE, pass |-> FALSE],
          [key |-> "X-A", wildcard |-> TRUE, next |-> FALSE, cond |-> TRUE, pass |-> FALSE]}
=============================================================================
