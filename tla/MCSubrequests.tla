---------------------------- MODULE MCSubrequests ----------------------------
(***************************************************************************)
(* A request, a subrequest and a subrequest of that one.                   *)
(***************************************************************************)
EXTENDS Subrequests

CONSTANTS main, sub, subsub

MCSubs == {sub, subsub}
MCParent == [q \in MCSubs |-> IF q = sub THEN main ELSE sub]

\* nginx without modules that repair a subrequest's last: it is the parent's.
StockNext ==
    /\ SubNext
    /\ \A q \in Subs \ started : q \in started' => last'[q] = last[Parent[q]]

StockSpec == SubInit /\ [][StockNext]_sub_vars
=============================================================================
