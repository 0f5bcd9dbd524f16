------------------------------- MODULE MCWorker -------------------------------
(***************************************************************************)
(* Small instance of PostConfig and PhaseEngine: the rewrite module's      *)
(* handler, this module's, and another one that moves to the end, in every *)
(* order in which modules may be built into nginx.                         *)
(*                                                                         *)
(* A new worker knows nothing of the one before it, and requests nothing   *)
(* of how the worker came about.  So that not every state of the one is    *)
(* met with every state of the other, the master acts while the worker has *)
(* no requests yet, and requests come to the first worker.                 *)
(***************************************************************************)
EXTENDS PostConfig, FiniteSetsExt, SequencesExt

CONSTANTS rewrite, lua

AllHandlers == {ours, rewrite, lua}

\* A configuration without rules for requests has no handler of this module.
MCArrays == SetToSeqs(AllHandlers) \cup SetToSeqs(AllHandlers \ {ours})

NoRequestsYet == \A r \in Requests : passes[r] = 0
FirstWorker == served /= NONE /\ configs = 1 /\ crashes = 0 /\ Len(accepted) = 1

WorkerSpec ==
    /\ ConfigInit
    /\ [][\/ NoRequestsYet /\ MasterNext
          \/ FirstWorker /\ WorkerStep]_config_vars
    /\ Fairness
=============================================================================
