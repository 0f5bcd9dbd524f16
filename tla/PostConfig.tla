------------------------------ MODULE PostConfig ------------------------------
(***************************************************************************)
(* ngx_http_headers_control_post_config over the life of a master process, *)
(* and the worker it forks.                                                *)
(*                                                                         *)
(* The chain of header filters begins in static variables.  Reading a      *)
(* configuration changes them in the master, whether or not it is accepted *)
(* in the end, and a worker has what was in them when it was forked; the   *)
(* master forks one when it has accepted a configuration, and one for each *)
(* that dies.  Every http block's reading begins the chain anew, and this  *)
(* module's filter is only put in if it is needed, or if the block may not *)
(* be the only one: the cycle is then the one of the call before.          *)
(*                                                                         *)
(* ngx_cycle is the cycle in use: it does not change while a configuration *)
(* is read.  Master and worker share no memory; their steps need not be    *)
(* interleaved.                                                            *)
(***************************************************************************)
EXTENDS PhaseEngine

CONSTANTS
    Cycles,         \* addresses of cycles
    MaxBlocks,      \* bound: http blocks in a configuration
    MaxConfigs,     \* bound: configurations read
    MaxCrashes      \* bound: workers that die

Sides == {"out", "in"}

VARIABLES
    ngx_cycle,
    prev_cycle,     \* ngx_http_headers_control_prev_cycle
    reading,        \* per http block read so far the sides that have rules, or NONE
    linked,         \* the filter is in the chain that the master's statics begin
    accepted,       \* the http blocks of the configuration in use, or NONE
    served,         \* the http block whose requests the worker runs
    worker_linked,  \* the filter is in the worker's chain
    calls,          \* ghost: of post_config since ngx_cycle changed: "none", "several",
                    \*   or one for a block that does or does not need the filter
    worker_calls,   \* ghost: calls when the worker was forked
    configs, crashes

master_vars == <<ngx_cycle, prev_cycle, reading, linked, accepted, calls, configs, crashes>>
worker_vars == <<phase_vars, served, worker_linked, worker_calls>>
config_vars == <<master_vars, worker_vars>>

ConfigInit ==
    /\ NewWorker(<< >>)
    /\ ngx_cycle \in Cycles         \* init_cycle
    /\ prev_cycle = NONE
    /\ reading = NONE
    /\ linked = FALSE
    /\ accepted = NONE
    /\ served = NONE
    /\ worker_linked = FALSE
    /\ calls = "none"
    /\ worker_calls = "none"
    /\ configs = 0
    /\ crashes = 0

-----------------------------------------------------------------------------
(* The master. *)

\* nginx is started, or told to read its configuration again.
BeginReading ==
    /\ reading = NONE
    /\ configs < MaxConfigs
    /\ configs' = configs + 1
    /\ reading' = << >>
    /\ UNCHANGED <<ngx_cycle, prev_cycle, linked, accepted, calls, crashes, worker_vars>>

\* Only what the block itself needs counts.
InChain_Needed(multi_http_blocks, requires) == "out" \in requires

InChain(multi_http_blocks, requires) == multi_http_blocks \/ "out" \in requires

\* The end of an http block.  requires: its main conf's requires_filter and
\* requires_handler.  Without memory for the handler the configuration fails,
\* with the filter in the chain.
post_config(requires, memory) ==
    /\ reading /= NONE
    /\ Len(reading) < MaxBlocks
    /\ linked' = InChain(prev_cycle = ngx_cycle, requires)
    /\ prev_cycle' = ngx_cycle
    /\ reading' = IF "in" \in requires /\ ~memory THEN NONE ELSE Append(reading, requires)
    /\ calls' = IF calls /= "none" THEN "several"
                ELSE IF "out" \in requires THEN "needed" ELSE "not_needed"
    /\ UNCHANGED <<ngx_cycle, accepted, configs, crashes, worker_vars>>

\* The configuration has an error, or its sockets cannot be opened.
RejectConfig ==
    /\ reading /= NONE
    /\ reading' = NONE
    /\ UNCHANGED <<ngx_cycle, prev_cycle, linked, accepted, calls, configs, crashes,
                   worker_vars>>

\* A worker is forked; the array for the block that its requests are for has
\* this module's handler if that block has rules for requests.
ForkWorker(blocks, chain, made) ==
    /\ \E k \in DOMAIN blocks, a \in Arrays :
          /\ ours \in HandlersOf(a) <=> "in" \in blocks[k]
          /\ Fork(a)
          /\ served' = blocks[k]
    /\ worker_linked' = chain
    /\ worker_calls' = made

\* The new cycle's address is any but that of the one it replaces.
AcceptConfig(cycle) ==
    /\ reading \notin {NONE, << >>}
    /\ cycle /= ngx_cycle
    /\ ngx_cycle' = cycle
    /\ accepted' = reading
    /\ reading' = NONE
    /\ calls' = "none"
    /\ ForkWorker(reading, linked, "none")
    /\ UNCHANGED <<prev_cycle, linked, configs, crashes>>

\* A configuration without an http block runs no worker of interest.
AcceptWithoutHttp(cycle) ==
    /\ reading = << >>
    /\ cycle /= ngx_cycle
    /\ ngx_cycle' = cycle
    /\ accepted' = NONE
    /\ reading' = NONE
    /\ calls' = "none"
    /\ Fork(<< >>)
    /\ served' = NONE
    /\ worker_linked' = FALSE
    /\ worker_calls' = "none"
    /\ UNCHANGED <<prev_cycle, linked, configs, crashes>>

\* The worker dies, and the master forks another.
Crash ==
    /\ reading = NONE
    /\ accepted /= NONE
    /\ crashes < MaxCrashes
    /\ crashes' = crashes + 1
    /\ ForkWorker(accepted, linked, calls)
    /\ UNCHANGED <<ngx_cycle, prev_cycle, reading, linked, accepted, calls, configs>>

WorkerStep ==
    /\ reading = NONE
    /\ served /= NONE
    /\ PhaseStep
    /\ UNCHANGED <<master_vars, served, worker_linked, worker_calls>>

MasterNext ==
    \/ BeginReading
    \/ \E requires \in SUBSET Sides, memory \in BOOLEAN : post_config(requires, memory)
    \/ RejectConfig
    \/ \E cycle \in Cycles : AcceptConfig(cycle) \/ AcceptWithoutHttp(cycle)
    \/ Crash

ConfigNext == MasterNext \/ WorkerStep

\* The worker goes on with the request it runs, and an event that a request waits
\* for comes.  Reading a configuration ends.
Fairness ==
    /\ \A r \in Requests : WF_config_vars(WorkerStep /\ (Run(r) \/ Resume(r)))
    /\ WF_config_vars(RejectConfig)

ConfigSpec == ConfigInit /\ [][ConfigNext]_config_vars /\ Fairness

-----------------------------------------------------------------------------
(* Properties. *)

\* A worker runs the filter if any http block of its configuration has rules for
\* responses.  The exception is a worker forked in place of one that died, when
\* since its configuration was accepted post_config was called once, for a
\* configuration without such rules that was then rejected.
FilterServes ==
    (accepted /= NONE /\ \E k \in DOMAIN accepted : "out" \in accepted[k]) =>
        \/ worker_linked
        \/ worker_calls = "not_needed"
=============================================================================
