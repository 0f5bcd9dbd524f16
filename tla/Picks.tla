-------------------------------- MODULE Picks --------------------------------
(***************************************************************************)
(* The members of a sequence at some of its indexes, in their order: what  *)
(* a loop over an array leaves that copies some elements and skips others. *)
(* SelectSeq with a set of indexes for the test, as a recursive function.  *)
(***************************************************************************)
EXTENDS Naturals, Sequences

\* The numbers from 1 to n that are in P, in increasing order.
Indexes(n, P) ==
    LET indexes[m \in 0 .. n] ==
            IF m = 0 THEN << >>
            ELSE IF m \in P THEN Append(indexes[m - 1], m) ELSE indexes[m - 1]
    IN  indexes[n]

\* The members of s at the indexes P.
Pick(s, P) ==
    LET indexes == Indexes(Len(s), P)
    IN  [k \in DOMAIN indexes |-> s[indexes[k]]]
=============================================================================
