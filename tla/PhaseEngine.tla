----------------------------- MODULE PhaseEngine -----------------------------
(***************************************************************************)
(* The handler of request headers in nginx's rewrite phase.                *)
(*                                                                         *)
(* A phase's handlers are an array that all requests of a worker share; a  *)
(* request keeps its index in it, r->phase_handler.  When it is called for *)
(* the first time the handler moves itself to the end of its phase, so     *)
(* that it runs after the handlers of the rewrite module and others, which *)
(* shifts these under the requests that are in the phase just then.        *)
(*                                                                         *)
(* A worker runs one request at a time, until a handler makes it wait for  *)
(* an event; then others run.  nginx's part, the checker of the phase and  *)
(* what comes before and behind it, is external.                           *)
(***************************************************************************)
EXTENDS Integers, Sequences

CONSTANTS
    Handlers,       \* the rewrite handlers of all modules
    ours,           \* ngx_http_headers_control_handler
    Movers,         \* those that move to the end like it, as lua-nginx-module's does
    Arrays,         \* the phase's handlers as configurations leave them
    Requests,       \* requests and subrequests
    NONE,
    MaxPasses,      \* bound: passages of a request through the phase
    MaxPauses       \* bound: how often a request is made to wait

ASSUME HandlersAssumption == ours \in Movers /\ Movers \subseteq Handlers
ASSUME ArraysAssumption ==
    \A a \in Arrays :
        /\ a \in Seq(Handlers)
        /\ \A i, j \in DOMAIN a : a[i] = a[j] => i = j
ASSUME NoneAssumption == NONE \notin Requests

VARIABLES
    ph,         \* the rewrite phase's part of cmcf->phase_engine.handlers
    postponed,  \* the movers whose flag postponed_to_phase_end is set
    at,         \* r->phase_handler: an index of ph, one behind it, or 0 outside
    running,    \* the request that the worker runs
    ran,        \* ghost: the handlers that a request's passage has behind it
    waiting,    \* ghost: the handler that made a request wait
    passes, pauses

phase_vars == <<ph, postponed, at, running, ran, waiting, passes, pauses>>

InPhase(r) == at[r] \in DOMAIN ph
Paused(r) == InPhase(r) /\ running /= r

\* A worker that has just been forked: no request, and the array as it was
\* built when the configuration was read.
NewWorker(a) ==
    /\ ph = a
    /\ postponed = {}
    /\ at = [r \in Requests |-> 0]
    /\ running = NONE
    /\ ran = [r \in Requests |-> << >>]
    /\ waiting = [r \in Requests |-> NONE]
    /\ passes = [r \in Requests |-> 0]
    /\ pauses = [r \in Requests |-> 0]

PhaseInit == \E a \in Arrays : NewWorker(a)

-----------------------------------------------------------------------------
(* ngx_http_headers_control_handler. *)

\* Slips in the move that the properties below have to catch.

\* The request does not go back to the slot it is in.
Again_Forgotten(index) == index

\* The whole array is rotated.
MoveToEnd_All(order, index) ==
    [k \in DOMAIN order |-> IF k < Len(order) THEN order[k + 1] ELSE order[1]]

\* The handler stays where it is.
MoveToEnd_Stays(order, index) == order

\* The flag is forgotten: every call moves the handler.
Flagged_Never(handler) == {}

\* The flag is set by the call that finds the handler to move.
Flagged(handler) == {handler} \cap Movers

\* memmove: the handlers behind index move up, the one at index becomes the last.
MoveToEnd(order, index) ==
    [k \in DOMAIN order |->
        IF k < index THEN order[k] ELSE IF k < Len(order) THEN order[k + 1] ELSE order[index]]

\* r->phase_handler--, before the checker increments it.
Again(index) == index - 1

\* What the checker does when a handler declines.
Declined(r, index) == at' = [at EXCEPT ![r] = index + 1]

\* The handler at r's index is called.
Called(r) == ph[at[r]]
IsCalled(r) == running = r /\ InPhase(r)

\* The first call: the handler goes to the end, and its slot is done again.
Postpone(r) ==
    /\ IsCalled(r)
    /\ Called(r) \in Movers \ postponed
    /\ at[r] < Len(ph)
    /\ postponed' = postponed \cup Flagged(Called(r))
    /\ ph' = MoveToEnd(ph, at[r])
    /\ Declined(r, Again(at[r]))
    /\ UNCHANGED <<running, ran, waiting, passes, pauses>>

\* Any other call goes on to the handler's work.
Works(r) ==
    /\ IsCalled(r)
    /\ Called(r) \notin Movers \ postponed \/ at[r] = Len(ph)
    /\ postponed' = postponed \cup Flagged(Called(r))

\* The work is done: NGX_DECLINED.
Decline(r) ==
    /\ Works(r)
    /\ Declined(r, at[r])
    /\ ran' = [ran EXCEPT ![r] = Append(@, Called(r))]
    /\ UNCHANGED <<ph, running, waiting, passes, pauses>>

\* An error, or another answer that ends the request.
Finish(r) ==
    /\ Works(r)
    /\ at' = [at EXCEPT ![r] = 0]
    /\ running' = NONE
    /\ UNCHANGED <<ph, ran, waiting, passes, pauses>>

-----------------------------------------------------------------------------
(* nginx, and the other handlers. *)

\* A handler waits for an event.  This module's never does.
Pause(r) ==
    /\ Works(r)
    /\ Called(r) /= ours
    /\ pauses[r] < MaxPauses
    /\ pauses' = [pauses EXCEPT ![r] = @ + 1]
    /\ waiting' = [waiting EXCEPT ![r] = Called(r)]
    /\ running' = NONE
    /\ UNCHANGED <<ph, at, ran, passes>>

\* The event: the handler at the request's index is called again.
Resume(r) ==
    /\ running = NONE
    /\ InPhase(r)
    /\ running' = r
    /\ UNCHANGED <<ph, postponed, at, ran, waiting, passes, pauses>>

\* The client is gone, or the event does not come in time.
Abort(r) ==
    /\ running = NONE
    /\ InPhase(r)
    /\ at' = [at EXCEPT ![r] = 0]
    /\ UNCHANGED <<ph, postponed, running, ran, waiting, passes, pauses>>

BeginPass(r) ==
    /\ passes[r] < MaxPasses
    /\ passes' = [passes EXCEPT ![r] = @ + 1]
    /\ at' = [at EXCEPT ![r] = 1]
    /\ running' = r
    /\ ran' = [ran EXCEPT ![r] = << >>]
    /\ UNCHANGED <<ph, postponed, waiting, pauses>>

\* A request comes to the phase, once more after an internal redirect.
Enter(r) ==
    /\ running = NONE
    /\ at[r] = 0
    /\ BeginPass(r)

\* The phase is through, and a handler has changed the URI: it starts again.
Rewritten(r) ==
    /\ running = r
    /\ at[r] = Len(ph) + 1
    /\ BeginPass(r)

\* The phase is through, and the request goes on to the phases behind it.
Leave(r) ==
    /\ running = r
    /\ at[r] = Len(ph) + 1
    /\ at' = [at EXCEPT ![r] = 0]
    /\ running' = NONE
    /\ UNCHANGED <<ph, postponed, ran, waiting, passes, pauses>>

\* The worker's own steps; what it waits for is Enter, Resume and Abort.
Run(r) ==
    Postpone(r) \/ Decline(r) \/ Finish(r) \/ Pause(r) \/ Rewritten(r) \/ Leave(r)

PhaseStep == \E r \in Requests : Run(r) \/ Enter(r) \/ Resume(r) \/ Abort(r)

\* The worker exits and another one takes its place.
Fork(a) ==
    /\ ph' = a
    /\ postponed' = {}
    /\ at' = [r \in Requests |-> 0]
    /\ running' = NONE
    /\ ran' = [r \in Requests |-> << >>]
    /\ waiting' = [r \in Requests |-> NONE]
    /\ passes' = [r \in Requests |-> 0]
    /\ pauses' = [r \in Requests |-> 0]

PhaseNext == PhaseStep \/ \E a \in Arrays : Fork(a)

PhaseSpec == PhaseInit /\ [][PhaseNext]_phase_vars

-----------------------------------------------------------------------------
(* Properties. *)

RanBy(r) == {ran[r][k] : k \in DOMAIN ran[r]}
HandlersOf(order) == {order[k] : k \in DOMAIN order}

PhaseTypeOK ==
    /\ ph \in Seq(Handlers)
    /\ postponed \subseteq Movers
    /\ at \in [Requests -> 0 .. Len(ph) + 1]
    /\ running \in Requests \cup {NONE}
    /\ ran \in [Requests -> Seq(Handlers)]
    /\ waiting \in [Requests -> Handlers \cup {NONE}]

\* A passage runs no handler twice, and when it is through it has run all of
\* them, wherever requests were when a handler was moved.
EachOnce ==
    \A r \in Requests : at[r] /= 0 =>
        /\ \A j, k \in DOMAIN ran[r] : ran[r][j] = ran[r][k] => j = k
        /\ at[r] = Len(ph) + 1 => RanBy(r) = HandlersOf(ph)

\* A request that waits is resumed by the handler that made it wait.
ResumesItsOwn == \A r \in Requests : Paused(r) => Called(r) = waiting[r]

\* The rules for request headers see what all the others have done: the handler
\* runs in no passage before one that does not move to the end too.
RunsAtTail ==
    \A r \in Requests : at[r] /= 0 =>
        \A k \in DOMAIN ran[r] : ran[r][k] = ours =>
            HandlersOf(ph) \ Movers \subseteq {ran[r][j] : j \in 1 .. k - 1}

\* Every passage ends: the slot that is done again is another handler's.
PassEnds == \A r \in Requests : at[r] /= 0 ~> at[r] = 0
=============================================================================
