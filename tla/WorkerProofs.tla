----------------------------- MODULE WorkerProofs -----------------------------
(***************************************************************************)
(* Proofs about PhaseEngine, for every set of requests and of handlers,    *)
(* any of which may move to the end of the phase; about PostConfig, for    *)
(* every history of configurations, accepted or not, and of workers; and   *)
(* about RuleChain, for every number of rules, every mix of them and every *)
(* word size.                                                              *)
(*                                                                         *)
(* A handler is moved by its first call, and a request that waits has      *)
(* called every handler up to its index: what is moved is always behind    *)
(* it.  So what a passage has run is what the array holds in front of its  *)
(* index, at any time, and the rest follows.                               *)
(*                                                                         *)
(* In the loop over the rules a bit is set for the keys of exactly the     *)
(* rules that have broken a chain.                                         *)
(***************************************************************************)
EXTENDS PostConfig, RuleChain, TLAPS

Distinct(order) == \A j, k \in DOMAIN order : order[j] = order[k] => j = k

\* A handler that has been called is not moved any more.
Settled(handler) == handler \in Movers => handler \in postponed

\* What a passage has run is what is in front of its index.
InFront(r) ==
    at[r] /= 0 =>
        /\ Len(ran[r]) = at[r] - 1
        /\ \A k \in 1 .. at[r] - 1 : ran[r][k] = ph[k] /\ Settled(ph[k])

\* A request that waits has called the handler at its index.
AtItsOwn(r) ==
    (at[r] \in 1 .. Len(ph) /\ running /= r) =>
        ph[at[r]] = waiting[r] /\ Settled(ph[at[r]])

\* Once it has moved, this module's handler is behind all those that do not.
Behind ==
    ours \in postponed =>
        \A j, k \in 1 .. Len(ph) : (ph[k] = ours /\ ph[j] \notin Movers) => j < k

Invariant ==
    /\ PhaseTypeOK
    /\ Distinct(ph)
    /\ \A r \in Requests : InFront(r) /\ AtItsOwn(r)
    /\ Behind

-----------------------------------------------------------------------------

\* The memmove loses no handler and leaves those in front of it alone.
LEMMA MoveFacts ==
    ASSUME NEW order \in Seq(Handlers), Distinct(order),
           NEW index \in 1 .. Len(order)
    PROVE  LET moved == MoveToEnd(order, index)
           IN  /\ moved \in Seq(Handlers)
               /\ Len(moved) = Len(order)
               /\ Distinct(moved)
               /\ \A k \in 1 .. Len(order) :
                     moved[k] = IF k < index THEN order[k]
                                ELSE IF k < Len(order) THEN order[k + 1] ELSE order[index]
<1> DEFINE moved == MoveToEnd(order, index)
<1>1. DOMAIN order = 1 .. Len(order) /\ Len(order) \in Nat
  OBVIOUS
<1>2. /\ DOMAIN moved = 1 .. Len(order)
      /\ \A k \in 1 .. Len(order) :
            moved[k] = IF k < index THEN order[k]
                       ELSE IF k < Len(order) THEN order[k + 1] ELSE order[index]
  BY <1>1 DEF MoveToEnd
<1>3. moved \in [1 .. Len(order) -> Handlers]
  <2>1. \A k \in 1 .. Len(order) : moved[k] \in Handlers
    BY <1>1, <1>2
  <2> QED
    BY <2>1, <1>1 DEF MoveToEnd
<1>4. moved \in Seq(Handlers) /\ Len(moved) = Len(order)
  BY <1>1, <1>2, <1>3
<1>5. Distinct(moved)
  <2> DEFINE from(m) == IF m < index THEN m ELSE IF m < Len(order) THEN m + 1 ELSE index
  <2> SUFFICES ASSUME NEW j \in 1 .. Len(order), NEW k \in 1 .. Len(order),
                      moved[j] = moved[k]
               PROVE  j = k
    BY <1>2 DEF Distinct
  <2> HIDE DEF moved
  <2>1. /\ from(j) \in 1 .. Len(order) /\ moved[j] = order[from(j)]
        /\ from(k) \in 1 .. Len(order) /\ moved[k] = order[from(k)]
    BY <1>1, <1>2
  <2>2. from(j) = from(k)
    BY <1>1, <2>1 DEF Distinct
  <2> QED
    BY <1>1, <2>2
<1> QED
  BY <1>2, <1>4, <1>5

\* A worker starts with the invariant, whatever array it is forked with.
LEMMA NewWorkerSound ==
    ASSUME NEW a \in Arrays, NewWorker(a)
    PROVE  Invariant
<1>1. PhaseTypeOK
  BY ArraysAssumption DEF NewWorker, PhaseTypeOK
<1> QED
  BY <1>1, ArraysAssumption DEF NewWorker, Invariant, Distinct, InFront, AtItsOwn, Behind

LEMMA ForkSound ==
    ASSUME NEW a \in Arrays, Fork(a)
    PROVE  Invariant'
<1>1. PhaseTypeOK'
  BY ArraysAssumption DEF Fork, PhaseTypeOK
<1> QED
  BY <1>1, ArraysAssumption DEF Fork, Invariant, Distinct, InFront, AtItsOwn, Behind

\* The move: no request but the one running is at or behind the index.
LEMMA PostponeSound ==
    ASSUME Invariant, NEW r \in Requests, Postpone(r)
    PROVE  Invariant'
<1> USE DEF Invariant, PhaseTypeOK, IsCalled, InPhase, Called, Postpone, Declined, Again, Flagged
<1> DEFINE index == at[r]
<1>1. /\ index \in 1 .. Len(ph) - 1
      /\ Len(ph) \in Nat
      /\ ph[index] \in Movers /\ ph[index] \notin postponed
      /\ postponed' = postponed \cup {ph[index]}
      /\ at' = at
  <2>1. DOMAIN ph = 1 .. Len(ph) /\ Len(ph) \in Nat
    OBVIOUS
  <2>2. at' = [at EXCEPT ![r] = index - 1 + 1] /\ index \in 1 .. Len(ph)
    BY <2>1
  <2>3. at' = at
    BY <2>2
  <2> QED
    BY <2>1, <2>2, <2>3
<1>2. /\ ph' \in Seq(Handlers)
      /\ Len(ph') = Len(ph)
      /\ Distinct(ph')
      /\ \A k \in 1 .. Len(ph) :
            ph'[k] = IF k < index THEN ph[k] ELSE IF k < Len(ph) THEN ph[k + 1] ELSE ph[index]
  BY <1>1, MoveFacts
<1>3. PhaseTypeOK'
  BY <1>1, <1>2
<1>4. ASSUME NEW q \in Requests
      PROVE  InFront(q)' /\ AtItsOwn(q)'
  <2>1. at[q] - 1 < index
    BY <1>1, <1>4 DEF InFront, Settled
  <2>2. InFront(q)'
    BY <1>1, <1>2, <1>4, <2>1 DEF InFront, Settled
  <2>3. ASSUME at[q] \in 1 .. Len(ph), running /= q
        PROVE  ph'[at[q]] = ph[at[q]]
    <3>1. at[q] /= index
      BY <1>1, <1>4, <2>3 DEF AtItsOwn, Settled
    <3>2. at[q] < index
      BY <1>1, <2>1, <2>3, <3>1
    <3> QED
      BY <1>2, <2>3, <3>2
  <2>4. AtItsOwn(q)'
    BY <1>1, <1>2, <1>4, <2>3 DEF AtItsOwn, Settled
  <2> QED
    BY <2>2, <2>4
<1>5. Behind'
  <2> SUFFICES ASSUME ours \in postponed',
                      NEW j \in 1 .. Len(ph), NEW k \in 1 .. Len(ph),
                      ph'[k] = ours, ph'[j] \notin Movers
               PROVE  j < k
    BY <1>2 DEF Behind
  <2>1. j /= Len(ph)
    BY <1>1, <1>2
  <2>2. CASE ph[index] = ours
    <3>1. k = Len(ph)
      <4>1. ph'[Len(ph)] = ours
        BY <1>1, <1>2, <2>2
      <4> QED
        BY <1>1, <1>2, <4>1 DEF Distinct
    <3> QED
      BY <1>1, <2>1, <3>1
  <2>3. CASE ph[index] /= ours
    <3>1. ours \in postponed
      BY <1>1, <2>3
    <3>2. k < Len(ph)
      BY <1>1, <1>2, <2>3
    <3> DEFINE from(m) == IF m < index THEN m ELSE m + 1
    <3>3. /\ from(j) \in 1 .. Len(ph) /\ ph'[j] = ph[from(j)]
          /\ from(k) \in 1 .. Len(ph) /\ ph'[k] = ph[from(k)]
      BY <1>1, <1>2, <2>1, <3>2
    <3>4. from(j) < from(k)
      BY <3>1, <3>3 DEF Behind
    <3> QED
      BY <1>1, <3>4
  <2> QED
    BY <2>2, <2>3
<1> QED
  BY <1>2, <1>3, <1>4, <1>5

\* A handler's work settles it: it is called at the end of the phase, or is one
\* that has been moved, or is not moved at all.
LEMMA WorksFacts ==
    ASSUME Invariant, NEW r \in Requests, Works(r)
    PROVE  /\ at[r] \in 1 .. Len(ph) /\ running = r
           /\ Called(r) \in Handlers
           /\ postponed' \subseteq Movers
           /\ \A h : Settled(h) => Settled(h)'
           /\ Called(r) \in Movers => Called(r) \in postponed'
           /\ ph' = ph => Behind'
<1>1. at[r] \in 1 .. Len(ph) /\ running = r /\ Called(r) \in Handlers /\ Len(ph) \in Nat
  BY DEF Invariant, PhaseTypeOK, Works, IsCalled, InPhase, Called
<1>2. postponed' = postponed \cup ({Called(r)} \cap Movers)
  BY DEF Works, Flagged
<1>3. postponed' \subseteq Movers
  BY <1>2 DEF Invariant, PhaseTypeOK
<1>4. /\ \A h : Settled(h) => Settled(h)'
      /\ Called(r) \in Movers => Called(r) \in postponed'
  BY <1>2 DEF Settled
<1>5. ASSUME ph' = ph
      PROVE  Behind'
  <2>1. CASE ours \in postponed
    BY <1>5, <2>1 DEF Behind, Invariant
  <2>2. CASE ours \notin postponed
    <3> SUFFICES ASSUME ours \in postponed',
                        NEW j \in 1 .. Len(ph), NEW k \in 1 .. Len(ph),
                        ph[k] = ours, ph[j] \notin Movers
                 PROVE  j < k
      BY <1>5 DEF Behind
    <3>1. ph[at[r]] = ours
      BY <1>2, <2>2 DEF Called
    <3>2. at[r] = k
      BY <1>1, <3>1 DEF Invariant, PhaseTypeOK, Distinct
    <3>3. k = Len(ph)
      BY <1>2, <2>2, <3>1, <3>2, HandlersAssumption DEF Works, Called
    <3>4. j /= k
      BY HandlersAssumption
    <3> QED
      BY <1>1, <3>3, <3>4
  <2> QED
    BY <2>1, <2>2
<1> QED
  BY <1>1, <1>3, <1>4, <1>5

\* The request's handler joins what it has behind it.
LEMMA DeclineSound ==
    ASSUME Invariant, NEW r \in Requests, Decline(r)
    PROVE  Invariant'
<1>1. Works(r) /\ ph' = ph /\ running' = running /\ waiting' = waiting
  BY DEF Decline
<1>2. /\ at' = [at EXCEPT ![r] = at[r] + 1]
      /\ ran' = [ran EXCEPT ![r] = Append(ran[r], Called(r))]
  BY DEF Decline, Declined
<1>3. /\ at[r] \in 1 .. Len(ph) /\ running = r
      /\ Called(r) \in Handlers
      /\ postponed' \subseteq Movers
      /\ \A h : Settled(h) => Settled(h)'
      /\ Called(r) \in Movers => Called(r) \in postponed'
      /\ Behind'
  BY <1>1, WorksFacts
<1>4. PhaseTypeOK'
  BY <1>1, <1>2, <1>3 DEF Invariant, PhaseTypeOK
<1>5. ASSUME NEW q \in Requests
      PROVE  InFront(q)' /\ AtItsOwn(q)'
  <2>1. CASE q = r
    <3>1. /\ ran[r] \in Seq(Handlers) /\ Len(ran[r]) = at[r] - 1
          /\ at'[r] = at[r] + 1 /\ ran'[r] = Append(ran[r], ph[at[r]])
          /\ at[r] \in Nat
      BY <1>2, <1>3 DEF Invariant, PhaseTypeOK, InFront, Called
    <3>2. \A k \in 1 .. at[r] - 1 : ran[r][k] = ph[k] /\ Settled(ph[k])
      BY <1>3 DEF Invariant, InFront
    <3>3. Len(ran'[r]) = at'[r] - 1
      BY <3>1
    <3>4. ASSUME NEW k \in 1 .. at[r]
          PROVE  ran'[r][k] = ph[k] /\ Settled(ph[k])'
      <4>1. CASE k = at[r]
        BY <1>3, <3>1, <4>1, <1>1 DEF Called, Settled
      <4>2. CASE k < at[r]
        <5>1. k \in 1 .. at[r] - 1
          BY <3>1, <4>2
        <5>2. ran'[r][k] = ran[r][k]
          BY <3>1, <5>1
        <5> QED
          BY <1>1, <1>3, <3>2, <5>1, <5>2 DEF Settled
      <4> QED
        BY <3>1, <4>1, <4>2
    <3>5. InFront(r)'
      <4>1. at'[r] - 1 = at[r]
        BY <3>1
      <4> QED
        BY <1>1, <3>3, <3>4, <4>1 DEF InFront, Settled
    <3>6. AtItsOwn(r)'
      BY <1>1, <1>3 DEF AtItsOwn
    <3> QED
      BY <2>1, <3>5, <3>6
  <2>2. CASE q /= r
    <3>1. at'[q] = at[q] /\ ran'[q] = ran[q]
      BY <1>2, <2>2 DEF Invariant, PhaseTypeOK
    <3> QED
      BY <1>1, <1>3, <3>1 DEF Invariant, InFront, AtItsOwn, Settled
  <2> QED
    BY <2>1, <2>2
<1> QED
  BY <1>1, <1>3, <1>4, <1>5 DEF Invariant, Distinct

\* The request that waits has called the handler it waits in.
LEMMA PauseSound ==
    ASSUME Invariant, NEW r \in Requests, Pause(r)
    PROVE  Invariant'
<1>1. /\ Works(r) /\ ph' = ph /\ at' = at /\ ran' = ran /\ running' = NONE
      /\ waiting' = [waiting EXCEPT ![r] = Called(r)]
  BY DEF Pause
<1>2. /\ running = r
      /\ Called(r) \in Handlers
      /\ postponed' \subseteq Movers
      /\ \A h : Settled(h) => Settled(h)'
      /\ Called(r) \in Movers => Called(r) \in postponed'
      /\ Behind'
  BY <1>1, WorksFacts
<1>3. PhaseTypeOK'
  BY <1>1, <1>2 DEF Invariant, PhaseTypeOK
<1>4. ASSUME NEW q \in Requests
      PROVE  InFront(q)' /\ AtItsOwn(q)'
  <2>1. InFront(q)'
    BY <1>1, <1>2 DEF Invariant, InFront, Settled
  <2>2. CASE q = r
    <3>1. waiting'[r] = ph[at[r]]
      BY <1>1 DEF Invariant, PhaseTypeOK, Called
    <3> QED
      BY <1>1, <1>2, <2>1, <2>2, <3>1 DEF AtItsOwn, Settled, Called
  <2>3. CASE q /= r
    <3>1. waiting'[q] = waiting[q]
      BY <1>1, <2>3 DEF Invariant, PhaseTypeOK
    <3> QED
      BY <1>1, <1>2, <2>1, <2>3, <3>1 DEF Invariant, AtItsOwn, Settled
  <2> QED
    BY <2>2, <2>3
<1> QED
  BY <1>1, <1>2, <1>3, <1>4 DEF Invariant, Distinct

LEMMA FinishSound ==
    ASSUME Invariant, NEW r \in Requests, Finish(r)
    PROVE  Invariant'
<1>1. /\ Works(r) /\ ph' = ph /\ ran' = ran /\ running' = NONE /\ waiting' = waiting
      /\ at' = [at EXCEPT ![r] = 0]
  BY DEF Finish
<1>2. /\ running = r
      /\ postponed' \subseteq Movers
      /\ \A h : Settled(h) => Settled(h)'
      /\ Behind'
  BY <1>1, WorksFacts
<1>3. PhaseTypeOK'
  BY <1>1, <1>2 DEF Invariant, PhaseTypeOK
<1>4. ASSUME NEW q \in Requests
      PROVE  InFront(q)' /\ AtItsOwn(q)'
  <2>1. CASE q = r
    <3>1. at'[r] = 0
      BY <1>1 DEF Invariant, PhaseTypeOK
    <3> QED
      BY <2>1, <3>1 DEF InFront, AtItsOwn
  <2>2. CASE q /= r
    <3>1. at'[q] = at[q]
      BY <1>1, <2>2 DEF Invariant, PhaseTypeOK
    <3> QED
      BY <1>1, <1>2, <2>2, <3>1 DEF Invariant, InFront, AtItsOwn, Settled
  <2> QED
    BY <2>1, <2>2
<1> QED
  BY <1>1, <1>2, <1>3, <1>4 DEF Invariant, Distinct

\* What nginx does with a request between its handlers.
LEMMA PassageSound ==
    ASSUME Invariant, NEW r \in Requests,
           Resume(r) \/ Abort(r) \/ Enter(r) \/ Rewritten(r) \/ Leave(r)
    PROVE  Invariant'
<1>1. ph' = ph /\ postponed' = postponed /\ waiting' = waiting /\ Len(ph) \in Nat
  BY DEF Resume, Abort, Enter, Rewritten, BeginPass, Leave, Invariant, PhaseTypeOK
<1>2. \/ at' = at /\ ran' = ran /\ running' = r /\ running = NONE
      \/ /\ at' = [at EXCEPT ![r] = 0] /\ ran' = ran
         /\ running' = NONE /\ running \in {r, NONE}
      \/ /\ at' = [at EXCEPT ![r] = 1] /\ ran' = [ran EXCEPT ![r] = << >>]
         /\ running' = r /\ running \in {r, NONE}
  BY DEF Resume, Abort, Enter, Rewritten, BeginPass, Leave
<1>3. PhaseTypeOK'
  <2>1. 0 \in 0 .. Len(ph) + 1 /\ 1 \in 0 .. Len(ph) + 1
    BY <1>1
  <2>2. << >> \in Seq(Handlers)
    OBVIOUS
  <2> QED
    BY <1>1, <1>2, <2>1, <2>2 DEF Invariant, PhaseTypeOK
<1>4. ASSUME NEW q \in Requests
      PROVE  InFront(q)' /\ AtItsOwn(q)'
  <2>1. CASE q = r
    <3>1. \/ at'[r] = at[r] /\ ran'[r] = ran[r] /\ running' = r
          \/ at'[r] = 0
          \/ at'[r] = 1 /\ ran'[r] = << >> /\ running' = r
      BY <1>2 DEF Invariant, PhaseTypeOK
    <3>2. InFront(r)'
      <4>1. CASE at'[r] = at[r] /\ ran'[r] = ran[r]
        BY <1>1, <4>1 DEF Invariant, InFront, Settled
      <4>2. CASE at'[r] = 0
        BY <4>2 DEF InFront
      <4>3. CASE at'[r] = 1 /\ ran'[r] = << >>
        BY <4>3 DEF InFront
      <4> QED
        BY <3>1, <4>1, <4>2, <4>3
    <3>3. AtItsOwn(r)'
      BY <3>1 DEF AtItsOwn
    <3> QED
      BY <2>1, <3>2, <3>3
  <2>2. CASE q /= r
    <3>1. at'[q] = at[q] /\ ran'[q] = ran[q] /\ running /= q
      BY <1>2, <2>2, NoneAssumption DEF Invariant, PhaseTypeOK
    <3> QED
      BY <1>1, <3>1 DEF Invariant, InFront, AtItsOwn, Settled
  <2> QED
    BY <2>1, <2>2
<1> QED
  BY <1>1, <1>3, <1>4 DEF Invariant, Distinct, Behind

LEMMA StepSound ==
    ASSUME Invariant, [PhaseNext]_phase_vars
    PROVE  Invariant'
<1>1. CASE PhaseStep
  <2>1. PICK r \in Requests : Run(r) \/ Enter(r) \/ Resume(r) \/ Abort(r)
    BY <1>1 DEF PhaseStep
  <2> QED
    BY <2>1, PostponeSound, DeclineSound, PauseSound, FinishSound, PassageSound DEF Run
<1>2. CASE \E a \in Arrays : Fork(a)
  BY <1>2, ForkSound
<1>3. CASE UNCHANGED phase_vars
  BY <1>3 DEF phase_vars, Invariant, PhaseTypeOK, Distinct, InFront, AtItsOwn, Settled, Behind
<1> QED
  BY <1>1, <1>2, <1>3 DEF PhaseNext

THEOREM PhaseInvariant == PhaseSpec => []Invariant
<1>1. PhaseInit => Invariant
  BY NewWorkerSound DEF PhaseInit
<1>2. Invariant /\ [PhaseNext]_phase_vars => Invariant'
  BY StepSound
<1> QED
  BY <1>1, <1>2, PTL DEF PhaseSpec

-----------------------------------------------------------------------------

\* The state of the phase engine has its type.
THEOREM PhaseTypeCorrect == PhaseSpec => []PhaseTypeOK
<1>1. Invariant => PhaseTypeOK
  BY DEF Invariant
<1> QED
  BY <1>1, PhaseInvariant, PTL

\* EachOnce: a passage runs no handler twice, and all of them by its end.
THEOREM NoneSkipped == PhaseSpec => []EachOnce
<1>1. Invariant => EachOnce
  <2> SUFFICES ASSUME Invariant, NEW r \in Requests, at[r] /= 0
               PROVE  /\ \A j, k \in DOMAIN ran[r] : ran[r][j] = ran[r][k] => j = k
                      /\ at[r] = Len(ph) + 1 => RanBy(r) = HandlersOf(ph)
    BY DEF EachOnce
  <2>1. /\ ph \in Seq(Handlers) /\ DOMAIN ph = 1 .. Len(ph) /\ Len(ph) \in Nat
        /\ at[r] \in 1 .. Len(ph) + 1
        /\ DOMAIN ran[r] = 1 .. at[r] - 1
        /\ \A k \in 1 .. at[r] - 1 : ran[r][k] = ph[k]
    BY DEF Invariant, PhaseTypeOK, InFront
  <2>2. \A j, k \in DOMAIN ran[r] : ran[r][j] = ran[r][k] => j = k
    BY <2>1 DEF Invariant, Distinct
  <2>3. at[r] = Len(ph) + 1 => RanBy(r) = HandlersOf(ph)
    BY <2>1 DEF RanBy, HandlersOf
  <2> QED
    BY <2>2, <2>3
<1> QED
  BY <1>1, PhaseInvariant, PTL

\* ResumesItsOwn: the move never puts another handler under a request that waits.
THEOREM ResumedByItsOwn == PhaseSpec => []ResumesItsOwn
<1>1. Invariant => ResumesItsOwn
  <2>1. Invariant => DOMAIN ph = 1 .. Len(ph)
    BY DEF Invariant, PhaseTypeOK
  <2> QED
    BY <2>1 DEF Invariant, PhaseTypeOK, AtItsOwn, ResumesItsOwn, Paused, InPhase, Called
<1> QED
  BY <1>1, PhaseInvariant, PTL

\* RunsAtTail: this module's handler runs behind all that do not move.
THEOREM RulesRunAtTail == PhaseSpec => []RunsAtTail
<1>1. Invariant => RunsAtTail
  <2> SUFFICES ASSUME Invariant, NEW r \in Requests, at[r] /= 0,
                      NEW k \in DOMAIN ran[r], ran[r][k] = ours,
                      NEW h \in HandlersOf(ph) \ Movers
               PROVE  h \in {ran[r][j] : j \in 1 .. k - 1}
    BY DEF RunsAtTail
  <2>1. /\ ph \in Seq(Handlers) /\ DOMAIN ph = 1 .. Len(ph) /\ Len(ph) \in Nat
        /\ at[r] \in 1 .. Len(ph) + 1
        /\ DOMAIN ran[r] = 1 .. at[r] - 1
        /\ \A m \in 1 .. at[r] - 1 : ran[r][m] = ph[m] /\ Settled(ph[m])
    BY DEF Invariant, PhaseTypeOK, InFront
  <2>2. PICK j \in 1 .. Len(ph) : ph[j] = h
    BY <2>1 DEF HandlersOf
  <2>3. k \in 1 .. Len(ph) /\ ph[k] = ours /\ ours \in postponed
    BY <2>1, HandlersAssumption DEF Settled
  <2>4. j < k
    BY <2>2, <2>3 DEF Invariant, Behind
  <2>5. j \in 1 .. k - 1 /\ ran[r][j] = h
    BY <2>1, <2>2, <2>3, <2>4
  <2> QED
    BY <2>5
<1> QED
  BY <1>1, PhaseInvariant, PTL

-----------------------------------------------------------------------------
(* PostConfig: once it was called for a cycle, post_config puts the filter in *)
(* every time.  So the chain is without it only after a first call that did   *)
(* not need it, and then either no block before has rules for responses, or   *)
(* the cycle in use has been kept.                                            *)

NeedsFilter(blocks) == \E k \in DOMAIN blocks : "out" \in blocks[k]

Links ==
    /\ reading \in Seq(SUBSET Sides) \cup {NONE}
    /\ calls \in {"none", "needed", "not_needed", "several"}
    /\ calls /= "none" => prev_cycle = ngx_cycle
    /\ calls \in {"needed", "several"} => linked
    /\ reading \notin {NONE, << >>} => prev_cycle = ngx_cycle
    /\ reading /= NONE /\ NeedsFilter(reading) => linked
    /\ accepted /= NONE /\ NeedsFilter(accepted) /\ calls = "none" => linked
    /\ accepted /= NONE /\ NeedsFilter(accepted) => worker_linked \/ worker_calls = "not_needed"

\* A call of post_config keeps the chain as needed by the blocks read so far.
LEMMA PostConfigLinks ==
    ASSUME Links, NEW requires \in SUBSET Sides, NEW memory, post_config(requires, memory)
    PROVE  Links'
<1>1. /\ reading \in Seq(SUBSET Sides) /\ reading /= NONE
      /\ ngx_cycle' = ngx_cycle /\ prev_cycle' = ngx_cycle
      /\ linked' = (prev_cycle = ngx_cycle \/ "out" \in requires)
      /\ accepted' = accepted
      /\ worker_linked' = worker_linked /\ worker_calls' = worker_calls
      /\ calls' = IF calls /= "none" THEN "several"
                  ELSE IF "out" \in requires THEN "needed" ELSE "not_needed"
      /\ reading' \in {NONE, Append(reading, requires)}
  BY DEF post_config, Links, InChain, worker_vars
<1>2. reading' \in Seq(SUBSET Sides) \cup {NONE}
  BY <1>1
<1>3. calls' \in {"needed", "several"} => linked'
  BY <1>1 DEF Links
<1>4. reading' /= NONE /\ NeedsFilter(reading') => linked'
  <2> SUFFICES ASSUME reading' = Append(reading, requires), NeedsFilter(reading'),
                      "out" \notin requires
               PROVE  prev_cycle = ngx_cycle
    BY <1>1
  <2>1. reading /= << >>
    <3> SUFFICES ASSUME reading = << >>
                 PROVE  FALSE
      OBVIOUS
    <3>1. reading' = <<requires>>
      OBVIOUS
    <3> QED
      BY <3>1 DEF NeedsFilter
  <2> QED
    BY <1>1, <2>1 DEF Links
<1>5. accepted' /= NONE /\ NeedsFilter(accepted') =>
          worker_linked' \/ worker_calls' = "not_needed"
  BY <1>1 DEF Links, NeedsFilter
<1> QED
  BY <1>1, <1>2, <1>3, <1>4, <1>5 DEF Links, NeedsFilter

LEMMA ConfigLinks ==
    ASSUME Links, [ConfigNext]_config_vars
    PROVE  Links'
<1> USE DEF Links, NeedsFilter, worker_vars
<1>1. CASE BeginReading
  BY <1>1 DEF BeginReading
<1>2. CASE \E requires \in SUBSET Sides, memory \in BOOLEAN : post_config(requires, memory)
  BY <1>2, PostConfigLinks
<1>3. CASE RejectConfig
  BY <1>3 DEF RejectConfig
<1>4. ASSUME NEW cycle \in Cycles, AcceptConfig(cycle)
      PROVE  Links'
  <2>1. /\ reading \notin {NONE, << >>}
        /\ accepted' = reading /\ reading' = NONE /\ calls' = "none"
        /\ linked' = linked /\ worker_linked' = linked
    BY <1>4 DEF AcceptConfig, ForkWorker
  <2> QED
    BY <2>1
<1>5. ASSUME NEW cycle \in Cycles, AcceptWithoutHttp(cycle)
      PROVE  Links'
  BY <1>5 DEF AcceptWithoutHttp
<1>6. CASE Crash
  <2>1. /\ ngx_cycle' = ngx_cycle /\ prev_cycle' = prev_cycle /\ reading' = reading
        /\ linked' = linked /\ accepted' = accepted /\ calls' = calls
        /\ worker_linked' = linked /\ worker_calls' = calls
    BY <1>6 DEF Crash, ForkWorker
  <2> QED
    BY <2>1
<1>7. CASE WorkerStep
  BY <1>7 DEF WorkerStep, master_vars
<1>8. CASE UNCHANGED config_vars
  BY <1>8 DEF config_vars, master_vars
<1> QED
  BY <1>1, <1>2, <1>3, <1>4, <1>5, <1>6, <1>7, <1>8 DEF ConfigNext, MasterNext

\* FilterServes: no sequence of configurations and crashes leaves a worker without
\* the filter it needs, but for the one that FilterServes names.
THEOREM FilterIsServed == ConfigSpec => []FilterServes
<1>1. ConfigInit => Links
  BY DEF ConfigInit, Links, NeedsFilter
<1>2. Links /\ [ConfigNext]_config_vars => Links'
  BY ConfigLinks
<1>3. Links => FilterServes
  BY DEF Links, NeedsFilter, FilterServes
<1> QED
  BY <1>1, <1>2, <1>3, PTL DEF ConfigSpec

-----------------------------------------------------------------------------
(* RuleChain: bits and words. *)

\* A bit is found again from its word and its place in it.
LEMMA DivMod ==
    ASSUME NEW x \in Nat
    PROVE  /\ x \div W \in Nat /\ x % W \in 0 .. W - 1
           /\ x = W * (x \div W) + (x % W)
BY WAssumption, SMT

\* No two bits share a place.
LEMMA PlaceUnique ==
    ASSUME NEW x \in Nat, NEW y \in Nat, Word(x) = Word(y), Offset(x) = Offset(y)
    PROVE  x = y
BY DivMod, WAssumption DEF Word, Offset

\* Every bit below the size has a word.
LEMMA BitInWords ==
    ASSUME NEW x \in Nat, NEW size \in Nat, x < size
    PROVE  Word(x) \in 0 .. Words(size) - 1
BY DivMod, WAssumption DEF Word, Words

\* A fresh bitmap has its words, and no bit set.
LEMMA FreshBitmap ==
    ASSUME NEW size \in Nat, NEW memory \in BOOLEAN
    PROVE  LET bm == bitmap_init(size, memory)
           IN  /\ bm.size \in Nat
               /\ bm \in bitmap_t(bm.size)
               /\ bm.null = ~memory
               /\ memory => bm.size = size
               /\ \A x \in Nat : ~bitmap_isset(bm, x)
<1> DEFINE bm == bitmap_init(size, memory)
           sz == IF memory THEN size ELSE 0
<1>1. /\ bm.size = sz /\ bm.null = ~memory
      /\ bm.bits = [w \in 0 .. Words(sz) - 1 |-> {}]
      /\ bm = [null |-> ~memory, size |-> sz, bits |-> bm.bits]
  BY DEF bitmap_init
<1>2. sz \in Nat
  OBVIOUS
<1>3. bm.bits \in [0 .. Words(sz) - 1 -> SUBSET (0 .. W - 1)]
  BY <1>1
<1>4. bm \in bitmap_t(sz)
  BY <1>1, <1>3 DEF bitmap_t
<1>5. ASSUME NEW x \in Nat PROVE ~bitmap_isset(bm, x)
  <2>1. SUFFICES ASSUME x < sz PROVE Offset(x) \notin bm.bits[Word(x)]
    BY <1>1 DEF bitmap_isset
  <2>2. Word(x) \in 0 .. Words(sz) - 1
    BY <1>2, <2>1, BitInWords
  <2>3. QED BY <1>1, <2>2
<1>6. QED BY <1>1, <1>2, <1>4, <1>5

\* Writing a bit sets that bit and no other.
LEMMA WrittenBit ==
    ASSUME NEW bm, bm.size \in Nat, bm \in bitmap_t(bm.size),
           NEW x \in Nat, x < bm.size, ~bm.null
    PROVE  /\ InWords(bm, x)
           /\ SetBit(bm, x) \in bitmap_t(bm.size)
           /\ SetBit(bm, x).size = bm.size
           /\ SetBit(bm, x).null = bm.null
           /\ \A y \in Nat : bitmap_isset(SetBit(bm, x), y) <=> y = x \/ bitmap_isset(bm, y)
<1> DEFINE D == 0 .. Words(bm.size) - 1
           new == SetBit(bm, x)
<1>1. /\ bm.bits \in [D -> SUBSET (0 .. W - 1)]
      /\ bm.null \in BOOLEAN
      /\ bm = [null |-> bm.null, size |-> bm.size, bits |-> bm.bits]
  BY DEF bitmap_t
<1>2. Word(x) \in D
  BY BitInWords
<1>3. Offset(x) \in 0 .. W - 1
  BY DivMod DEF Offset
<1>4. /\ new.size = bm.size /\ new.null = bm.null
      /\ new.bits = [bm.bits EXCEPT ![Word(x)] = @ \cup {Offset(x)}]
  BY <1>1 DEF SetBit
<1>5. new.bits \in [D -> SUBSET (0 .. W - 1)]
  BY <1>1, <1>2, <1>3, <1>4
<1>6. new \in bitmap_t(bm.size)
  <2>1. new = [bm EXCEPT !.bits = new.bits]
    BY <1>1, <1>4 DEF SetBit
  <2>2. QED BY <1>1, <1>5, <2>1 DEF bitmap_t
<1>7. InWords(bm, x)
  BY <1>1, <1>2 DEF InWords
<1>8. ASSUME NEW y \in Nat
      PROVE  bitmap_isset(new, y) <=> y = x \/ bitmap_isset(bm, y)
  <2>1. CASE y >= bm.size
    <3>1. y /= x /\ ~(y < bm.size)
      BY <2>1
    <3>2. QED BY <3>1, <1>4 DEF bitmap_isset
  <2>2. CASE y < bm.size
    <3>1. Word(y) \in D
      BY <2>2, BitInWords
    <3>2. Word(x) = Word(y) /\ Offset(x) = Offset(y) => x = y
      BY PlaceUnique
    <3>3. Offset(y) \in new.bits[Word(y)] <=> y = x \/ Offset(y) \in bm.bits[Word(y)]
      BY <1>1, <1>2, <1>4, <3>1, <3>2
    <3>4. QED BY <2>2, <3>3, <1>4 DEF bitmap_isset
  <2>3. QED BY <2>1, <2>2
<1>9. QED BY <1>4, <1>6, <1>7, <1>8

-----------------------------------------------------------------------------
(* RuleChain: the inductive invariant. *)

\* The loop is about to look at rule i, and nothing has been decided for it.
LEMMA AtRule ==
    ASSUME IInv, i <= Len(rules)
    PROVE  /\ i \in DOMAIN rules /\ i \in 1 .. Len(rules) /\ i \in Nat
           /\ rules \in Seq(Rule) /\ DOMAIN rules = 1 .. Len(rules)
           /\ verdict \in Seq({"locked", "declined", "ran"})
           /\ Len(verdict) = i - 1 /\ DOMAIN verdict = 1 .. i - 1
           /\ rules[i].id = i - 1
BY DEF IInv, TypeOK

\* IsLocked, which asks the bitmap, is about the rules that ran.
LEMMA LockedMeansBlocked ==
    ASSUME IInv, i <= Len(rules)
    PROVE  IsLocked(i) <=> \E p \in 1 .. i - 1 : Bars(p, i)
<1>1. /\ i \in Nat /\ DOMAIN verdict = 1 .. i - 1
      /\ \A p \in 1 .. i - 1 : p \in DOMAIN rules
  BY AtRule
<1>2. \A p \in 1 .. i - 1 :
         bitmap_isset(locked, rules[p].id) <=> verdict[p] = "ran" /\ BreaksChain(rules[p])
  BY <1>1 DEF IInv, LockedIsRan
<1>3. QED BY <1>2 DEF IsLocked, Bars, BreaksChain

\* A turn of the loop that leaves the right bits set.
LEMMA TurnKeeps ==
    ASSUME IInv, pc = "loop", i <= Len(rules),
           NEW what \in {"locked", "declined", "ran"}, Turn(what),
           what = "locked" <=> IsLocked(i),
           side' = side, rules' = rules, pc' = pc,
           locked'.size = locked.size, locked'.null = locked.null,
           locked' \in bitmap_t(locked.size),
           \A y \in Nat : bitmap_isset(locked', y)
              <=> (y = i - 1 /\ what = "ran" /\ BreaksChain(rules[i]))
                  \/ bitmap_isset(locked, y)
    PROVE  IInv'
<1>1. /\ i \in DOMAIN rules /\ i \in 1 .. Len(rules) /\ i \in Nat
      /\ rules \in Seq(Rule) /\ DOMAIN rules = 1 .. Len(rules)
      /\ verdict \in Seq({"locked", "declined", "ran"})
      /\ Len(verdict) = i - 1 /\ DOMAIN verdict = 1 .. i - 1
      /\ rules[i].id = i - 1
  BY AtRule
<1>2. /\ i' = i + 1 /\ verdict' = Append(verdict, what)
  BY DEF Turn
<1>3. /\ verdict' \in Seq({"locked", "declined", "ran"})
      /\ Len(verdict') = i /\ DOMAIN verdict' = 1 .. i
      /\ verdict'[i] = what
      /\ \A p \in 1 .. i - 1 : verdict'[p] = verdict[p]
  BY <1>1, <1>2
<1>4. TypeOK'
  BY <1>1, <1>2, <1>3 DEF IInv, TypeOK
<1>5. \A k \in DOMAIN rules : rules[k].id = k - 1
  BY DEF IInv
<1>6. LockedIsRan'
  <2>1. SUFFICES ASSUME NEW p \in DOMAIN rules
                 PROVE  bitmap_isset(locked', rules[p].id)
                        <=> p \in 1 .. i /\ verdict'[p] = "ran" /\ BreaksChain(rules[p])
    BY <1>3 DEF LockedIsRan, BreaksChain, Exact
  <2>2. rules[p].id = p - 1 /\ p - 1 \in Nat /\ p \in Nat /\ p >= 1
    BY <1>1, <1>5
  <2>3. bitmap_isset(locked', p - 1)
          <=> (p = i /\ what = "ran" /\ BreaksChain(rules[i])) \/ bitmap_isset(locked, p - 1)
    BY <1>1, <2>2
  <2>4. bitmap_isset(locked, p - 1)
          <=> p \in 1 .. i - 1 /\ verdict[p] = "ran" /\ BreaksChain(rules[p])
    BY <1>1, <2>2 DEF IInv, LockedIsRan
  <2>5. CASE p = i
    <3>1. p \notin 1 .. i - 1 /\ p \in 1 .. i
      BY <1>1, <2>5
    <3>2. QED BY <1>3, <2>2, <2>3, <2>4, <2>5, <3>1
  <2>6. CASE p /= i
    <3>1. p \in 1 .. i - 1 <=> p \in 1 .. i
      BY <1>1, <2>2, <2>6
    <3>2. QED BY <1>3, <2>2, <2>3, <2>4, <2>6, <3>1
  <2>7. QED BY <2>5, <2>6
<1>7. ChainExact'
  <2>1. SUFFICES ASSUME NEW q \in 1 .. i
                 PROVE  verdict'[q] = "locked" <=> \E p \in 1 .. q - 1 : Bars(p, q)'
    BY <1>3 DEF ChainExact
  <2>2. \A p \in 1 .. q - 1 : Bars(p, q)' <=> Bars(p, q)
    <3>1. \A p \in 1 .. q - 1 : p \in 1 .. i - 1
      BY <1>1
    <3>2. QED BY <1>3, <3>1 DEF Bars, Exact, SameKey
  <2>3. CASE q = i
    BY <1>3, <2>2, <2>3, LockedMeansBlocked
  <2>4. CASE q /= i
    <3>1. q \in 1 .. i - 1
      BY <1>1, <2>4
    <3>2. verdict[q] = "locked" <=> \E p \in 1 .. q - 1 : Bars(p, q)
      BY <1>1, <3>1 DEF IInv, ChainExact
    <3>3. QED BY <1>3, <2>2, <3>1, <3>2
  <2>5. QED BY <2>3, <2>4
<1>8. FaultOnlyWithoutMemory'
  BY DEF FaultOnlyWithoutMemory
<1>9. /\ \A k \in DOMAIN rules' : rules'[k].id = k - 1
      /\ ~locked'.null => locked'.size = Len(rules')
      /\ Len(verdict') = i' - 1
      /\ i' <= Len(rules') + 1
  BY <1>1, <1>2, <1>3, <1>5 DEF IInv
<1>10. QED BY <1>4, <1>6, <1>7, <1>8, <1>9 DEF IInv

\* A rule that breaks its chain: either the write is within the bitmap and sets
\* its bit alone, or the bitmap has no memory.
LEMMA LockingWrite ==
    ASSUME IInv, i <= Len(rules)
    PROVE  /\ ~locked.null => InWords(locked, i - 1)
           /\ InWords(locked, i - 1) =>
                 /\ SetBit(locked, i - 1) \in bitmap_t(locked.size)
                 /\ SetBit(locked, i - 1).size = locked.size
                 /\ SetBit(locked, i - 1).null = locked.null
                 /\ \A y \in Nat : bitmap_isset(SetBit(locked, i - 1), y)
                                  <=> y = i - 1 \/ bitmap_isset(locked, y)
<1>1. i \in Nat /\ i >= 1 /\ i - 1 \in Nat /\ i - 1 < Len(rules) /\ Len(rules) \in Nat
  BY AtRule
<1>2. locked \in bitmap_t(locked.size) /\ (~locked.null => locked.size = Len(rules))
  BY DEF IInv, TypeOK
<1>3. InWords(locked, i - 1) => ~locked.null
  BY DEF InWords
<1>4. ASSUME ~locked.null
      PROVE  /\ InWords(locked, i - 1)
             /\ SetBit(locked, i - 1) \in bitmap_t(locked.size)
             /\ SetBit(locked, i - 1).size = locked.size
             /\ SetBit(locked, i - 1).null = locked.null
             /\ \A y \in Nat : bitmap_isset(SetBit(locked, i - 1), y)
                              <=> y = i - 1 \/ bitmap_isset(locked, y)
  <2>1. locked.size \in Nat /\ i - 1 < locked.size
    BY <1>1, <1>2, <1>4
  <2>2. QED BY <1>1, <1>2, <1>4, <2>1, WrittenBit
<1>5. QED BY <1>3, <1>4

\* The loop has not begun: with the rules of a location and a fresh bitmap.
LEMMA FreshLoop ==
    ASSUME NEW n \in Nat, NEW shapes \in [1 .. n -> Shape], NEW memory \in BOOLEAN
    PROVE  LET list == Indexed(shapes)
               bm == bitmap_init(n, memory)
           IN  /\ list \in Seq(Rule) /\ Len(list) = n
               /\ \A k \in DOMAIN list : list[k].id = k - 1 /\ list[k].id \in Nat
               /\ bm \in bitmap_t(bm.size)
               /\ ~bm.null => bm.size = n
               /\ \A x \in Nat : ~bitmap_isset(bm, x)
<1> DEFINE list == Indexed(shapes)
<1>1. list = [k \in 1 .. n |-> [shape |-> shapes[k], id |-> k - 1]]
  BY DEF Indexed
<1>2. ASSUME NEW k \in 1 .. n
      PROVE  list[k] \in Rule /\ list[k].id = k - 1 /\ list[k].id \in Nat
  <2>1. k - 1 \in Nat /\ shapes[k] \in Shape
    OBVIOUS
  <2>2. QED BY <1>1, <2>1 DEF Rule
<1>3. list \in Seq(Rule) /\ Len(list) = n /\ DOMAIN list = 1 .. n
  BY <1>1, <1>2
<1>4. QED BY <1>2, <1>3, FreshBitmap

\* Before a request, and after the previous one.
LEMMA IdleIInv == Idle => IInv
<1>1. SUFFICES ASSUME Idle PROVE IInv
  OBVIOUS
<1> DEFINE bm == bitmap_init(0, TRUE)
<1>2. /\ bm \in bitmap_t(bm.size) /\ bm.size = 0 /\ ~bm.null
      /\ \A x \in Nat : ~bitmap_isset(bm, x)
  BY FreshBitmap
<1>3. /\ side = "out" /\ rules = << >> /\ locked = bm /\ i = 1 /\ pc = "idle"
      /\ verdict = << >>
  BY <1>1 DEF Idle
<1> HIDE DEF bm
<1>4. TypeOK
  BY <1>2, <1>3 DEF TypeOK
<1>5. DOMAIN rules = {} /\ DOMAIN verdict = {} /\ Len(rules) = 0 /\ Len(verdict) = 0
  BY <1>3
<1>6. QED
  BY <1>2, <1>3, <1>4, <1>5 DEF IInv, LockedIsRan, ChainExact, FaultOnlyWithoutMemory

\* Every step keeps the invariant.
LEMMA NextIInv == IInv /\ [Next]_vars => IInv'
<1>1. SUFFICES ASSUME IInv, [Next]_vars PROVE IInv'
  OBVIOUS
<1>2. CASE Request
  <2>1. PICK which \in {"out", "in"}, version10 \in BOOLEAN, memory \in BOOLEAN,
             n \in 0 .. MaxRules : \E shapes \in [1 .. n -> Shapes] :
                Begin(which, Indexed(shapes), n, version10, memory)
    BY <1>2 DEF Request
  <2>2. PICK shapes \in [1 .. n -> Shapes] :
                Begin(which, Indexed(shapes), n, version10, memory)
    BY <2>1
  <2>3. n \in Nat /\ shapes \in [1 .. n -> Shape]
    BY MaxRulesAssumption, ShapesAssumption
  <2> DEFINE list == Indexed(shapes)
             bm == bitmap_init(n, memory)
  <2>4. /\ list \in Seq(Rule) /\ Len(list) = n
        /\ \A k \in DOMAIN list : list[k].id = k - 1 /\ list[k].id \in Nat
        /\ bm \in bitmap_t(bm.size)
        /\ ~bm.null => bm.size = n
        /\ \A x \in Nat : ~bitmap_isset(bm, x)
    BY <2>3, FreshLoop
  <2>5. /\ side' = which /\ rules' = list /\ locked' = bm /\ i' = 1
        /\ pc' \in {"passed_on", "loop"} /\ verdict' = << >>
    BY <2>2 DEF Begin
  <2> HIDE DEF list, bm
  <2>6. TypeOK'
    BY <2>4, <2>5 DEF TypeOK
  <2>7. DOMAIN verdict' = {} /\ Len(verdict') = 0
    BY <2>5
  <2>8. LockedIsRan' /\ ChainExact' /\ FaultOnlyWithoutMemory'
    BY <2>4, <2>5, <2>7 DEF LockedIsRan, ChainExact, FaultOnlyWithoutMemory
  <2>9. QED BY <2>3, <2>4, <2>5, <2>6, <2>7, <2>8 DEF IInv
<1> DEFINE NoNewBit(what) ==
      \A y \in Nat : bitmap_isset(locked, y)
         <=> (y = i - 1 /\ what = "ran" /\ BreaksChain(rules[i])) \/ bitmap_isset(locked, y)
<1>3. locked \in bitmap_t(locked.size)
  BY <1>1 DEF IInv, TypeOK
<1>4. CASE Skip
  <2>1. NoNewBit("locked")
    OBVIOUS
  <2>2. QED BY <1>1, <1>3, <1>4, <2>1, TurnKeeps DEF Skip
<1>5. CASE NotMet
  <2>1. NoNewBit("declined")
    OBVIOUS
  <2>2. QED BY <1>1, <1>3, <1>5, <2>1, TurnKeeps DEF NotMet, Reached
<1>6. CASE RunOn
  <2>1. NoNewBit("ran")
    BY <1>6 DEF RunOn
  <2>2. QED BY <1>1, <1>3, <1>6, <2>1, TurnKeeps DEF RunOn, Reached
<1>7. CASE RunAndLock
  <2>1. i <= Len(rules) /\ rules[i].id = i - 1
    BY <1>1, <1>7, AtRule DEF RunAndLock, Reached
  <2>2. /\ locked' = SetBit(locked, i - 1) /\ InWords(locked, i - 1)
        /\ BreaksChain(rules[i])
    BY <1>7, <2>1 DEF RunAndLock
  <2>3. /\ locked'.size = locked.size /\ locked'.null = locked.null
        /\ locked' \in bitmap_t(locked.size)
        /\ \A y \in Nat : bitmap_isset(locked', y)
              <=> (y = i - 1 /\ "ran" = "ran" /\ BreaksChain(rules[i]))
                  \/ bitmap_isset(locked, y)
    BY <1>1, <2>1, <2>2, LockingWrite
  <2>4. /\ pc = "loop" /\ Turn("ran") /\ ~IsLocked(i)
        /\ side' = side /\ rules' = rules /\ pc' = pc
    BY <1>7 DEF RunAndLock, Reached
  <2>5. QED BY <1>1, <2>1, <2>3, <2>4, TurnKeeps
<1>8. CASE RunAndFault
  <2>1. i <= Len(rules) /\ rules[i].id = i - 1
    BY <1>1, <1>8, AtRule DEF RunAndFault, Reached
  <2>2. locked.null
    BY <1>1, <1>8, <2>1, LockingWrite DEF RunAndFault
  <2>3. QED
    BY <1>1, <1>8, <2>2 DEF RunAndFault, IInv, TypeOK, LockedIsRan, BreaksChain, Exact,
       ChainExact, Bars, SameKey, FaultOnlyWithoutMemory
<1>9. CASE Fail \/ PassOn
  <2>1. /\ UNCHANGED <<side, rules, locked, i, verdict>>
        /\ pc' \in {"error", "passed_on"}
    BY <1>9 DEF Fail, PassOn
  <2>2. QED
    BY <1>1, <2>1 DEF IInv, TypeOK, LockedIsRan, BreaksChain, Exact,
       ChainExact, Bars, SameKey, FaultOnlyWithoutMemory
<1>10. CASE EndRequest
  <2>1. Idle'
    BY <1>10 DEF EndRequest, Idle
  <2>2. QED BY <2>1, IdleIInv, PTL
<1>11. CASE UNCHANGED vars
  BY <1>1, <1>11 DEF vars, IInv, TypeOK, LockedIsRan, BreaksChain, Exact,
     ChainExact, Bars, SameKey, FaultOnlyWithoutMemory
<1>12. QED
  BY <1>1, <1>2, <1>4, <1>5, <1>6, <1>7, <1>8, <1>9, <1>10, <1>11 DEF Next, Body

\* The invariant holds in every reachable state.
THEOREM Invariance == Spec => []IInv
<1>1. Idle => IInv
  BY IdleIInv
<1>2. IInv /\ [Next]_vars => IInv'
  BY NextIInv
<1>3. QED BY <1>1, <1>2, PTL DEF Spec

-----------------------------------------------------------------------------
(* RuleChain: what follows from it. *)

\* In every run of the filter and of the handler a rule is skipped exactly when
\* an earlier exact rule without -n for the same header has run, for any number
\* of rules and however many words their bits fill.
THEOREM ChainCorrect == Spec => []ChainExact
<1>1. IInv => ChainExact
  BY DEF IInv
<1>2. QED BY <1>1, Invariance, PTL

\* The unchecked writes into the bitmap's words miss them only when the pool had
\* no memory for the bitmap.
THEOREM WritesInBounds == Spec => []FaultOnlyWithoutMemory
<1>1. IInv => FaultOnlyWithoutMemory
  BY DEF IInv
<1>2. QED BY <1>1, Invariance, PTL
=============================================================================
