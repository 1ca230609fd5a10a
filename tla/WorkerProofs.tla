---------------------------- MODULE WorkerProofs ----------------------------
(***************************************************************************)
(* Theorems about Worker, for any number of threads and any sizes.         *)
(***************************************************************************)
EXTENDS Worker, TLAPS

----------------------------------------------------------------------------
(* Types                                                                   *)

LEMMA TypeInit == Init => TypeOK
<1> SUFFICES ASSUME Init PROVE TypeOK OBVIOUS
<1>1. pc \in [Callers -> CallPCs] BY DEF Init, CallPCs
<1>2. dpc \in DrainPCs BY DEF Init, DrainPCs
<1>3. reason \in Reasons BY DEF Init, Reasons
<1>4. result \in [Flushers -> Results] BY DEF Init, Results
<1>5. /\ event \in [Flushers -> BOOLEAN] /\ delivered \in [Flushers -> BOOLEAN]
      /\ posted \in [Flushers -> BOOLEAN] /\ givenUp \in [Flushers -> BOOLEAN]
      /\ sawRetired \in [Submitters -> BOOLEAN] /\ seen \in [Flushers -> Nat]
      /\ owes \in [Flushers -> SUBSET Submitters]
  BY DEF Init
<1>6. queue \in Seq(Items) /\ pending \in Seq(Submitters) /\ sunk \in Seq(Submitters)
  BY DEF Init
<1> QED BY <1>1, <1>2, <1>3, <1>4, <1>5, <1>6 DEF Init, TypeOK

\* A caller's step moves that caller only, to a place of its code.
LEMMA TypeGoto ==
  ASSUME TypeOK, NEW c \in Callers, NEW there \in CallPCs, Goto(c, there)
  PROVE  pc' \in [Callers -> CallPCs]
  BY DEF TypeOK, Goto

LEMMA SubmitShape ==
  ASSUME TypeOK, NEW s \in Submitters, Submit(s)
  PROVE  \E there \in CallPCs : Goto(s, there)
<1> USE DEF CallPCs
<1>1. CASE SubmitRead(s) BY <1>1 DEF SubmitRead
<1>2. CASE SubmitPut(s)
  <2>1. CASE sawRetired[s] BY <1>2, <2>1 DEF SubmitPut
  <2>2. CASE ~sawRetired[s] BY <1>2, <2>2 DEF SubmitPut
  <2> QED BY <2>1, <2>2
<1>3. CASE SubmitRecheck(s) BY <1>3 DEF SubmitRecheck
<1> QED BY <1>1, <1>2, <1>3 DEF Submit

LEMMA TypeSubmit ==
  ASSUME TypeOK, NEW s \in Submitters, Submit(s)
  PROVE  TypeOK'
<1> USE DEF gateVars, flagVars, markerVars, countVars, drainVars, flushVars, sinkVars
<1>1. pc' \in [Callers -> CallPCs] BY SubmitShape, TypeGoto DEF Callers
<1>2. CASE SubmitRead(s)
  <2>1. sawRetired' \in [Submitters -> BOOLEAN] BY <1>2 DEF SubmitRead, TypeOK
  <2>2. undeliverable' \subseteq Submitters BY <1>2 DEF SubmitRead, TypeOK
  <2> QED BY <1>1, <1>2, <2>1, <2>2 DEF SubmitRead, TypeOK
<1>3. CASE SubmitPut(s)
  <2>1. queue' \in Seq(Items)
    <3>1. s \in Items /\ queue \in Seq(Items) BY DEF Items, TypeOK
    <3> QED BY <1>3, <3>1 DEF SubmitPut
  <2>2. dropped' \subseteq Submitters BY <1>3 DEF SubmitPut, TypeOK
  <2> QED BY <1>1, <1>3, <2>1, <2>2 DEF SubmitPut, TypeOK
<1>4. CASE SubmitRecheck(s)
  <2>1. undeliverable' \subseteq Submitters BY <1>4 DEF SubmitRecheck, TypeOK
  <2> QED BY <1>1, <1>4, <2>1 DEF SubmitRecheck, TypeOK
<1> QED BY <1>2, <1>3, <1>4 DEF Submit

\* What a step of flush() may change.
LEMMA FlushShape ==
  ASSUME TypeOK, NEW f \in Flushers, Flush(f)
  PROVE  /\ \E there \in CallPCs : Goto(f, there)
         /\ FlushUnchanged
         /\ queue' \in Seq(Items)
         /\ seen' \in [Flushers -> Nat]
         /\ posted' \in [Flushers -> BOOLEAN]
         /\ givenUp' \in [Flushers -> BOOLEAN]
         /\ result' \in [Flushers -> Results]
         /\ owes' \in [Flushers -> SUBSET Submitters]
<1> USE DEF CallPCs, Results, Return
<1>0. /\ queue \in Seq(Items) /\ seen \in [Flushers -> Nat] /\ failed \in Nat
      /\ posted \in [Flushers -> BOOLEAN] /\ givenUp \in [Flushers -> BOOLEAN]
      /\ result \in [Flushers -> Results] /\ owes \in [Flushers -> SUBSET Submitters]
  BY DEF TypeOK
<1>1. CASE FlushGate(f) BY <1>0, <1>1 DEF FlushGate
<1>2. CASE FlushAlive(f) BY <1>0, <1>2 DEF FlushAlive
<1>3. CASE FlushStamp(f)
  <2>1. Backlog \subseteq Submitters BY DEF Backlog, TypeOK, ToSet
  <2> QED BY <1>0, <1>3, <2>1 DEF FlushStamp
<1>4. CASE FlushPut(f)
  <2>1. f \in Items BY DEF Items
  <2>2. Append(queue, f) \in Seq(Items) BY <1>0, <2>1
  <2>3. queue' = queue \/ queue' = Append(queue, f) BY <1>4 DEF FlushPut
  <2>4. queue' \in Seq(Items) BY <1>0, <2>2, <2>3
  <2> QED BY <1>0, <1>4, <2>4 DEF FlushPut
<1>5. CASE FlushExpired(f) BY <1>0, <1>5 DEF FlushExpired
<1>6. CASE FlushGivenUp(f) BY <1>0, <1>6 DEF FlushGivenUp, AfterGivenUp
<1>7. CASE FlushSettled(f)
  <2>1. \E there \in CallPCs : Goto(f, there)
    BY <1>7 DEF FlushSettled, WhenSettled, WhenDraining
  <2> QED BY <1>0, <1>7, <2>1 DEF FlushSettled
<1>8. CASE FlushFailed(f) BY <1>0, <1>8 DEF FlushFailed
<1>9. CASE FlushAnswered(f) BY <1>0, <1>9 DEF FlushAnswered
<1>10. CASE FlushWait(f) BY <1>0, <1>10 DEF FlushWait
<1>11. CASE FlushVerdict(f) BY <1>0, <1>11 DEF FlushVerdict
<1> QED BY <1>1, <1>2, <1>3, <1>4, <1>5, <1>6, <1>7, <1>8, <1>9, <1>10, <1>11 DEF Flush

LEMMA TypeFlush ==
  ASSUME TypeOK, NEW f \in Flushers, Flush(f)
  PROVE  TypeOK'
<1>1. pc' \in [Callers -> CallPCs] BY FlushShape, TypeGoto DEF Callers
<1> QED BY FlushShape, <1>1
  DEF FlushUnchanged, TypeOK, gateVars, flagVars, countVars, drainVars, sinkVars

LEMMA DeadlineType == \A c \in Stoppers : Deadline(c) \in Bounded \cup {DrainThread, None}
  BY DEF Deadline

\* What claim_stop leaves behind.
LEMMA ClaimType ==
  ASSUME TypeOK, NEW onDrainThread \in BOOLEAN,
         NEW deadline \in Bounded \cup {DrainThread, None}, ClaimStop(onDrainThread, deadline)
  PROVE  /\ stopped' \in BOOLEAN /\ joinOwed' \in BOOLEAN /\ joinTakenOver' \in BOOLEAN
         /\ exitDeadline' \in Bounded \cup {DrainThread, None}
<1>1. CASE Claims(onDrainThread) BY <1>1 DEF ClaimStop, TypeOK
<1>2. CASE ~Claims(onDrainThread) BY <1>2 DEF ClaimStop, TypeOK
<1> QED BY <1>1, <1>2

LEMMA StopShape ==
  ASSUME TypeOK, NEW p \in Stoppers, Stop(p)
  PROVE  /\ \E there \in CallPCs : Goto(p, there)
         /\ StopUnchanged
<1> USE DEF CallPCs
<1>1. CASE StopRetire(p) BY <1>1 DEF StopRetire
<1>2. CASE StopRetireLate(p) BY <1>2 DEF StopRetireLate
<1>3. CASE StopClaimLate(p) BY <1>3 DEF StopClaimLate
<1>4. CASE StopLost(p) BY <1>4 DEF StopLost
<1>5. CASE StopSentinel(p) BY <1>5 DEF StopSentinel
<1>6. CASE StopPutSentinel(p) BY <1>6 DEF StopPutSentinel
<1>7. CASE StopSetStop(p) BY <1>7 DEF StopSetStop
<1>8. CASE StopJoin(p) BY <1>8 DEF StopJoin
<1>9. CASE StopTimedOut(p) BY <1>9 DEF StopTimedOut
<1>10. CASE StopBlame(p) BY <1>10 DEF StopBlame
<1>11. CASE StopSettle(p) BY <1>11 DEF StopSettle
<1>12. CASE StopSweepTaken(p) BY <1>12 DEF StopSweepTaken
<1>13. CASE StopSweepQueue(p) BY <1>13 DEF StopSweepQueue
<1> QED BY <1>1, <1>2, <1>3, <1>4, <1>5, <1>6, <1>7, <1>8, <1>9, <1>10, <1>11, <1>12, <1>13
        DEF Stop

LEMMA AnswerType ==
  ASSUME TypeOK, NEW marks, Answer(marks)
  PROVE  event' \in [Flushers -> BOOLEAN]
  BY DEF Answer, TypeOK

LEMMA TypeStop ==
  ASSUME TypeOK, NEW p \in Stoppers, Stop(p)
  PROVE  TypeOK'
<1>0. pc' \in [Callers -> CallPCs] BY StopShape, TypeGoto DEF Callers
<1> USE StopShape, <1>0
<1> USE DEF StopUnchanged, gateVars, flagVars, drainVars, flushVars, sinkVars
<1>1. CASE StopRetire(p)
  <2>1. ClaimStop(FALSE, Deadline(p)) BY <1>1 DEF StopRetire
  <2>2. /\ stopped' \in BOOLEAN /\ joinOwed' \in BOOLEAN /\ joinTakenOver' \in BOOLEAN
        /\ exitDeadline' \in Bounded \cup {DrainThread, None}
    BY <2>1, ClaimType, DeadlineType
  <2> QED BY <1>1, <2>2 DEF StopRetire, TypeOK
<1>2. CASE StopRetireLate(p) BY <1>2 DEF StopRetireLate, TypeOK
<1>3. CASE StopClaimLate(p)
  <2>1. ClaimStop(FALSE, Deadline(p)) BY <1>3 DEF StopClaimLate
  <2>2. /\ stopped' \in BOOLEAN /\ joinOwed' \in BOOLEAN /\ joinTakenOver' \in BOOLEAN
        /\ exitDeadline' \in Bounded \cup {DrainThread, None}
    BY <2>1, ClaimType, DeadlineType
  <2> QED BY <1>3, <2>2 DEF StopClaimLate, TypeOK
<1>4. CASE StopLost(p) BY <1>4 DEF StopLost, TypeOK
<1>5. CASE StopSentinel(p) BY <1>5 DEF StopSentinel, TypeOK
<1>6. CASE StopPutSentinel(p)
  <2>1. SHUTDOWN \in Items /\ queue \in Seq(Items) BY DEF Items, TypeOK
  <2>2. queue' \in Seq(Items) BY <1>6, <2>1 DEF StopPutSentinel
  <2> QED BY <1>6, <2>2 DEF StopPutSentinel, TypeOK
<1>7. CASE StopSetStop(p) BY <1>7 DEF StopSetStop, TypeOK
<1>8. CASE StopJoin(p) BY <1>8 DEF StopJoin, TypeOK
<1>9. CASE StopTimedOut(p) BY <1>9 DEF StopTimedOut, TypeOK
<1>10. CASE StopBlame(p)
  <2>1. reason' \in Reasons BY <1>10 DEF StopBlame, TypeOK, Reasons
  <2> QED BY <1>10, <2>1 DEF StopBlame, TypeOK
<1>11. CASE StopSettle(p) BY <1>11 DEF StopSettle, TypeOK
<1>12. CASE StopSweepTaken(p)
  <2>1. event' \in [Flushers -> BOOLEAN] BY <1>12, AnswerType DEF StopSweepTaken
  <2> QED BY <1>12, <2>1 DEF StopSweepTaken, TypeOK
<1>13. CASE StopSweepQueue(p)
  <2>1. event' \in [Flushers -> BOOLEAN] BY <1>13, AnswerType DEF StopSweepQueue
  <2> QED BY <1>13, <2>1 DEF StopSweepQueue, TypeOK
<1> QED BY <1>1, <1>2, <1>3, <1>4, <1>5, <1>6, <1>7, <1>8, <1>9, <1>10, <1>11, <1>12, <1>13
        DEF Stop

LEMMA TypeEmit ==
  ASSUME TypeOK, EmitReturns \/ EmitBackoff \/ EmitShutdown \/ EmitSentinel
  PROVE  TypeOK'
<1> USE DEF DrainUnchanged, Move, gateVars, flagVars, drainVars, flushVars, callVars, sinkVars
<1>0. /\ {"judge", "top", "backoff", "emit", "answer", "finish", "rsentinel"} \subseteq DrainPCs
  BY DEF DrainPCs
<1>1. ASSUME AfterEmit
      PROVE  pending' \in Seq(Submitters) /\ attempt' \in Nat /\ dpc' \in DrainPCs
  BY <1>0, <1>1 DEF AfterEmit
<1>2. ASSUME Abandon
      PROVE  failed' \in Nat /\ lost' \subseteq Submitters
  <2>1. ToSet(pending) \subseteq Submitters BY DEF TypeOK, ToSet
  <2>2. failed' = failed + 1 /\ lost' = lost \cup ToSet(pending) BY <1>2 DEF Abandon
  <2>3. failed \in Nat /\ lost \subseteq Submitters BY DEF TypeOK
  <2> QED BY <2>1, <2>2, <2>3
<1>3. CASE EmitOk
  <2>1. sunk \in Seq(Submitters) /\ pending \in Seq(Submitters) BY DEF TypeOK
  <2>2. sunk' \in Seq(Submitters)  BY <1>3, <2>1 DEF EmitOk
  <2> QED BY <1>1, <1>3, <2>2 DEF EmitOk, TypeOK
<1>4. CASE EmitFail
  <2>1. CASE attempt >= MaxRetries
    <3>1. Abandon /\ AfterEmit BY <1>4, <2>1 DEF EmitFail, Abandon
    <3> QED BY <1>1, <1>2, <1>4, <3>1 DEF EmitFail, TypeOK
  <2>2. CASE ~(attempt >= MaxRetries) BY <1>0, <1>4, <2>2 DEF EmitFail, TypeOK
  <2> QED BY <2>1, <2>2
<1>5. CASE EmitDie BY <1>0, <1>5 DEF EmitDie, TypeOK
<1>6. CASE EmitBackoff
  <2>1. CASE Abandon
    <3>1. AfterEmit BY <2>1 DEF Abandon
    <3> QED BY <1>1, <1>2, <1>6, <2>1, <3>1 DEF EmitBackoff, TypeOK
  <2>2. CASE attempt' = attempt + 1 /\ Move("emit") /\ UNCHANGED <<failed, lost, pending>>
    <3>1. attempt' \in Nat BY <2>2 DEF TypeOK
    <3> QED BY <1>0, <1>6, <2>2, <3>1 DEF EmitBackoff, TypeOK
  <2> QED BY <1>6, <2>1, <2>2 DEF EmitBackoff
<1>7. CASE EmitShutdown
  <2>1. PICK deadline \in {DrainThread, None} : ClaimStop(TRUE, deadline)
    BY <1>7 DEF EmitShutdown
  <2>2. /\ stopped' \in BOOLEAN /\ joinOwed' \in BOOLEAN /\ joinTakenOver' \in BOOLEAN
        /\ exitDeadline' \in Bounded \cup {DrainThread, None}
    BY <2>1, ClaimType
  <2>3. dpc' \in DrainPCs BY <1>0, <1>7 DEF EmitShutdown
  <2> QED BY <1>7, <2>2, <2>3 DEF EmitShutdown, TypeOK
<1>8. CASE EmitSentinel
  <2>1. SHUTDOWN \in Items /\ queue \in Seq(Items) BY DEF Items, TypeOK
  <2>2. queue' \in Seq(Items) BY <1>8, <2>1 DEF EmitSentinel
  <2> QED BY <1>0, <1>8, <2>2 DEF EmitSentinel, TypeOK
<1> QED BY <1>3, <1>4, <1>5, <1>6, <1>7, <1>8 DEF EmitReturns

LEMMA HeadTail ==
  ASSUME TypeOK, queue # <<>>
  PROVE  Head(queue) \in Items /\ Tail(queue) \in Seq(Items)
<1>1. queue \in Seq(Items) BY DEF TypeOK
<1> QED BY <1>1

LEMMA PendingAppend ==
  ASSUME TypeOK, NEW s \in Submitters
  PROVE  Append(pending, s) \in Seq(Submitters)
<1>1. pending \in Seq(Submitters) BY DEF TypeOK
<1> QED BY <1>1

LEMMA TypeDrain ==
  ASSUME TypeOK, Drain
  PROVE  TypeOK'
<1> USE DEF DrainUnchanged, Move, gateVars, flagVars, drainVars, flushVars, callVars, sinkVars
<1>0. DrainPCs = DrainPCs \cup {"top", "get", "take", "emit", "judge", "answer", "final",
                   "finish", "settle", "terminal", "sweepTaken", "sweepQueue", "dead"}
  BY DEF DrainPCs
<1>1. CASE DrainTop BY <1>0, <1>1 DEF DrainTop, TypeOK
<1>2. CASE DrainGet
  <2> USE DEF GetUnchanged
  <2>1. CASE GetEmpty BY <1>0, <2>1 DEF GetEmpty, EmitOr, TypeOK
  <2>2. CASE GetMarker
    <3>1. queue' \in Seq(Items) BY <2>2, HeadTail DEF GetMarker, NextIs
    <3>2. markers' \subseteq Flushers BY <2>2 DEF GetMarker, NextIs
    <3> QED BY <1>0, <2>2, <3>1, <3>2 DEF GetMarker, TypeOK
  <2>3. CASE GetSentinel
    <3>1. queue' \in Seq(Items) BY <2>3, HeadTail DEF GetSentinel, NextIs
    <3> QED BY <1>0, <2>3, <3>1 DEF GetSentinel, TypeOK
  <2>4. CASE GetSubmission
    <3>1. queue' \in Seq(Items) BY <2>4, HeadTail DEF GetSubmission, NextIs
    <3>2. pending' \in Seq(Submitters) BY <2>4, PendingAppend DEF GetSubmission, NextIs
    <3>3. dpc' \in DrainPCs BY <1>0, <2>4 DEF GetSubmission
    <3> QED BY <2>4, <3>1, <3>2, <3>3 DEF GetSubmission, TypeOK
  <2> QED BY <1>2, <2>1, <2>2, <2>3, <2>4 DEF DrainGet
<1>3. CASE DrainFinal
  <2> USE DEF GetUnchanged
  <2>1. CASE FinalEmpty BY <1>0, <2>1 DEF FinalEmpty, EmitOr, TypeOK
  <2>2. CASE FinalMarker
    <3>1. queue' \in Seq(Items) BY <2>2, HeadTail DEF FinalMarker, NextIs
    <3>2. markers' \subseteq Flushers BY <2>2 DEF FinalMarker, NextIs, TypeOK
    <3> QED BY <1>0, <2>2, <3>1, <3>2 DEF FinalMarker, TypeOK
  <2>3. CASE FinalSentinel
    <3>1. queue' \in Seq(Items) BY <2>3, HeadTail DEF FinalSentinel, NextIs
    <3> QED BY <1>0, <2>3, <3>1 DEF FinalSentinel, TypeOK
  <2>4. CASE FinalSubmission
    <3>1. queue' \in Seq(Items) BY <2>4, HeadTail DEF FinalSubmission, NextIs
    <3>2. pending' \in Seq(Submitters) BY <2>4, PendingAppend DEF FinalSubmission, NextIs
    <3> QED BY <2>4, <3>1, <3>2 DEF FinalSubmission, TypeOK
  <2> QED BY <1>3, <2>1, <2>2, <2>3, <2>4 DEF DrainFinal
<1>4. CASE DrainTake
  <2>1. event' \in [Flushers -> BOOLEAN] BY <1>4, AnswerType DEF DrainTake
  <2>2. dpc' \in DrainPCs BY <1>0, <1>4 DEF DrainTake, EmitOr
  <2> QED BY <1>4, <2>1, <2>2 DEF DrainTake, TypeOK
<1>5. CASE DrainJudge
  <2>1. delivered' \in [Flushers -> BOOLEAN] BY <1>5 DEF DrainJudge, TypeOK
  <2> QED BY <1>0, <1>5, <2>1 DEF DrainJudge, TypeOK
<1>6. CASE DrainAnswer
  <2>1. event' \in [Flushers -> BOOLEAN] BY <1>6, AnswerType DEF DrainAnswer
  <2> QED BY <1>0, <1>6, <2>1 DEF DrainAnswer, TypeOK
<1>7. CASE RunFinish BY <1>0, <1>7 DEF RunFinish, TypeOK
<1>8. CASE RunSettle BY <1>0, <1>8 DEF RunSettle, TypeOK
<1>9. CASE RunTerminal
  <2>1. reason' \in Reasons BY <1>9 DEF RunTerminal, Reasons
  <2> QED BY <1>0, <1>9, <2>1 DEF RunTerminal, TypeOK
<1>10. CASE RunSweepTaken
  <2>1. event' \in [Flushers -> BOOLEAN] BY <1>10, AnswerType DEF RunSweepTaken
  <2> QED BY <1>0, <1>10, <2>1 DEF RunSweepTaken, TypeOK
<1>11. CASE RunSweepQueue
  <2>1. event' \in [Flushers -> BOOLEAN] BY <1>11, AnswerType DEF RunSweepQueue
  <2> QED BY <1>0, <1>11, <2>1 DEF RunSweepQueue, TypeOK
<1> QED BY <1>1, <1>2, <1>3, <1>4, <1>5, <1>6, <1>7, <1>8, <1>9, <1>10, <1>11, TypeEmit
        DEF Drain, DrainSteps

LEMMA TypeStep == TypeOK /\ [Next]_vars => TypeOK'
<1> SUFFICES ASSUME TypeOK, [Next]_vars PROVE TypeOK' OBVIOUS
<1>1. CASE \E s \in Submitters : Submit(s) BY <1>1, TypeSubmit
<1>2. CASE \E f \in Flushers : Flush(f) BY <1>2, TypeFlush
<1>3. CASE \E p \in Stoppers : Stop(p) BY <1>3, TypeStop
<1>4. CASE Drain BY <1>4, TypeDrain
<1>5. CASE UNCHANGED vars
  BY <1>5 DEF vars, TypeOK, gateVars, flagVars, markerVars, countVars, drainVars, flushVars,
              callVars, sinkVars
<1> QED BY <1>1, <1>2, <1>3, <1>4, <1>5 DEF Next, Terminated

\* Every reachable state of the worker is well typed: the counters count, the queue holds
\* submissions, markers and the sentinel only, and every thread is at a place of its code.
THEOREM TypeCorrect == Spec => []TypeOK
  BY TypeInit, TypeStep, PTL DEF Spec

----------------------------------------------------------------------------
(* The gate: one caller joins, against its own deadline                    *)

GateInv ==
    \A p \in Stoppers : Joining(p) =>
        /\ stopped
        /\ ~joinOwed
        /\ exitDeadline = Deadline(p)
        /\ \A q \in Stoppers \ {p} : ~Joining(q)

\* A step of a caller moves that caller only.
LEMMA GotoMoves ==
  ASSUME TypeOK, NEW c \in Callers, NEW there, Goto(c, there)
  PROVE  pc'[c] = there /\ \A d \in Callers \ {c} : pc'[d] = pc[d]
  BY DEF TypeOK, Goto

LEMMA GateKept ==
  ASSUME GateInv, UNCHANGED <<stopped, joinOwed, exitDeadline>>,
         \A p \in Stoppers : pc'[p] = pc[p]
  PROVE  GateInv'
  BY DEF GateInv, Joining, Deadline

\* A stopper that is already joining, or one that does not start to, keeps the gate.
LEMMA GateMove ==
  ASSUME TypeOK, GateInv, UNCHANGED <<stopped, joinOwed, exitDeadline>>,
         NEW p \in Stoppers, NEW there, Goto(p, there), Joining(p) \/ ~Joining(p)'
  PROVE  GateInv'
<1>1. pc'[p] = there /\ \A q \in Stoppers \ {p} : pc'[q] = pc[q]
  BY GotoMoves DEF Callers
<1> QED BY <1>1 DEF GateInv, Joining, Deadline

\* The one step that lets a stopper join: nobody else can be joining then.
LEMMA GateClaim ==
  ASSUME TypeOK, GateInv, NEW p \in Stoppers, ~Joining(p), ClaimStop(FALSE, Deadline(p)),
         Goto(p, IF Claims(FALSE) THEN "sentinel" ELSE "lost")
  PROVE  GateInv'
<1>1. pc'[p] = (IF Claims(FALSE) THEN "sentinel" ELSE "lost")
      /\ \A q \in Stoppers \ {p} : pc'[q] = pc[q]
  BY GotoMoves DEF Callers
<1>2. CASE Claims(FALSE)
  <2>1. \A q \in Stoppers : ~Joining(q) BY <1>2 DEF Claims, GateInv
  <2>2. stopped' /\ ~joinOwed' /\ exitDeadline' = Deadline(p) BY <1>2 DEF ClaimStop
  <2> QED BY <1>1, <1>2, <2>1, <2>2 DEF GateInv, Joining, Deadline
<1>3. CASE ~Claims(FALSE)
  <2>1. UNCHANGED <<joinOwed, exitDeadline>> /\ stopped' = stopped
    BY <1>3 DEF ClaimStop, Claims, TypeOK
  <2> QED BY <1>1, <1>3, <2>1 DEF GateInv, Joining, Deadline
<1> QED BY <1>2, <1>3

LEMMA GateStop ==
  ASSUME TypeOK, GateInv, NEW p \in Stoppers, Stop(p)
  PROVE  GateInv'
<1> USE DEF gateVars, Joining, At
<1>0. \A there : Goto(p, there) => pc'[p] = there BY GotoMoves DEF Callers
<1>1. CASE StopRetire(p) BY <1>1, GateClaim DEF StopRetire
<1>2. CASE StopClaimLate(p) BY <1>2, GateClaim DEF StopClaimLate
<1>3. CASE StopRetireLate(p) BY <1>0, <1>3, GateMove DEF StopRetireLate
<1>4. CASE StopLost(p) BY <1>0, <1>4, GateMove DEF StopLost
<1>5. CASE StopSentinel(p) BY <1>5, GateMove DEF StopSentinel
<1>6. CASE StopPutSentinel(p) BY <1>6, GateMove DEF StopPutSentinel
<1>7. CASE StopSetStop(p) BY <1>7, GateMove DEF StopSetStop
<1>8. CASE StopJoin(p) BY <1>8, GateMove DEF StopJoin
<1>9. CASE StopTimedOut(p) BY <1>9, GateMove DEF StopTimedOut
<1>10. CASE StopBlame(p) BY <1>10, GateMove DEF StopBlame
<1>11. CASE StopSettle(p) BY <1>11, GateMove DEF StopSettle
<1>12. CASE StopSweepTaken(p) BY <1>12, GateMove DEF StopSweepTaken
<1>13. CASE StopSweepQueue(p) BY <1>13, GateMove DEF StopSweepQueue
<1> QED BY <1>1, <1>2, <1>3, <1>4, <1>5, <1>6, <1>7, <1>8, <1>9, <1>10, <1>11, <1>12, <1>13
        DEF Stop

\* The drain thread leaves the callers' own state alone.
LEMMA DrainShape ==
  ASSUME Drain
  PROVE  DrainUnchanged
  BY DEF Drain, DrainSteps, DrainTop, DrainGet, GetEmpty, GetMarker, GetSentinel, GetSubmission,
         DrainFinal, FinalEmpty, FinalMarker, FinalSentinel, FinalSubmission, DrainTake,
         EmitBackoff, EmitSentinel, DrainJudge, DrainAnswer, RunFinish, RunSettle, RunTerminal,
         RunSweepTaken, RunSweepQueue, EmitReturns, EmitOk, EmitFail, EmitDie, EmitShutdown

\* The drain thread passes the gate only when nobody has, and then owes the join.
LEMMA GateDrain ==
  ASSUME TypeOK, GateInv, Drain
  PROVE  GateInv'
<1>1. \A p \in Stoppers : pc'[p] = pc[p] BY DrainShape DEF DrainUnchanged, callVars
<1>2. CASE EmitShutdown
  <2>1. PICK deadline : ClaimStop(TRUE, deadline) BY <1>2 DEF EmitShutdown
  <2>2. CASE Claims(TRUE)
    <3>1. ~stopped BY <2>2 DEF Claims
    <3>2. \A q \in Stoppers : ~Joining(q)' BY <1>1, <3>1 DEF GateInv, Joining
    <3> QED BY <3>2 DEF GateInv
  <2>3. CASE ~Claims(TRUE)
    <3>1. UNCHANGED <<stopped, joinOwed, exitDeadline>>
      BY <2>1, <2>3 DEF ClaimStop, Claims, TypeOK
    <3> QED BY <1>1, <3>1, GateKept
  <2> QED BY <2>2, <2>3
<1>3. CASE ~EmitShutdown
  <2>1. UNCHANGED <<stopped, joinOwed, exitDeadline>>
    BY <1>3 DEF Drain, DrainSteps, DrainTop, DrainGet, GetEmpty, GetMarker, GetSentinel,
         GetSubmission, DrainFinal, FinalEmpty, FinalMarker, FinalSentinel, FinalSubmission,
         DrainTake, EmitBackoff, EmitSentinel, DrainJudge, DrainAnswer, RunFinish, RunSettle,
         RunTerminal, RunSweepTaken, RunSweepQueue, EmitReturns, EmitOk, EmitFail, EmitDie,
         GetUnchanged, gateVars
  <2> QED BY <1>1, <2>1, GateKept
<1> QED BY <1>2, <1>3

LEMMA GateStep == TypeOK /\ GateInv /\ [Next]_vars => GateInv'
<1> SUFFICES ASSUME TypeOK, GateInv, [Next]_vars PROVE GateInv' OBVIOUS
<1>1. ASSUME NEW s \in Submitters, Submit(s) PROVE GateInv'
  <2>1. \A p \in Stoppers : pc'[p] = pc[p]
    BY <1>1, SubmitShape, GotoMoves, ThreadsAssumption DEF Callers
  <2>2. UNCHANGED <<stopped, joinOwed, exitDeadline>>
    BY <1>1 DEF Submit, SubmitRead, SubmitPut, SubmitRecheck, gateVars
  <2> QED BY <2>1, <2>2, GateKept
<1>2. ASSUME NEW f \in Flushers, Flush(f) PROVE GateInv'
  <2>1. \A p \in Stoppers : pc'[p] = pc[p]
    BY <1>2, FlushShape, GotoMoves, ThreadsAssumption DEF Callers
  <2>2. UNCHANGED <<stopped, joinOwed, exitDeadline>>
    BY <1>2, FlushShape DEF FlushUnchanged, gateVars
  <2> QED BY <2>1, <2>2, GateKept
<1>3. CASE UNCHANGED vars BY <1>3, GateKept DEF vars, gateVars, callVars
<1> QED BY <1>1, <1>2, <1>3, GateStop, GateDrain DEF Next, Terminated

\* At any moment at most one caller is joining the drain thread, and the deadline the drain
\* declines retries against is the one that caller recorded, whoever else calls shutdown(), from
\* whatever thread (claim_stop, stop).
THEOREM OneJoiner == Spec => []JoinerOwnsDeadline
<1>1. Init => GateInv BY DEF Init, GateInv, Joining, Callers
<1>2. GateInv => JoinerOwnsDeadline BY DEF GateInv, JoinerOwnsDeadline
<1> QED BY <1>1, <1>2, GateStep, TypeCorrect, PTL DEF Spec

----------------------------------------------------------------------------
(* Nobody is left waiting                                                  *)

\* The drain has left _drain, one way or another.
Ended == {"settle", "terminal", "sweepTaken", "sweepQueue", "dead"}

\* The two events say where the drain is.
FlagInv ==
    /\ finished <=> dpc \in Ended
    /\ dpc \in Ended \ {"settle"} => settled

\* The drain carries the markers it has registered, and one more while it is about to.
CarryInv ==
    /\ taken \subseteq markers
    /\ dpc # "take" => taken = markers
    /\ dpc \in Ended \cup {"top", "get", "finish"} => markers = {}

\* No marker is on the queue twice.
OnceEach(q) == \A i, j \in DOMAIN q : q[i] = q[j] /\ q[i] \in Flushers => i = j

\* A marker that is not answered is on the queue or with the drain, in one place, once.
MarkerInv ==
    /\ \A f \in QueuedMarkers : posted[f] /\ f \notin markers
    /\ \A f \in markers : posted[f]
    /\ \A f \in Flushers : posted[f] /\ ~event[f] => f \in QueuedMarkers \cup markers
    /\ OnceEach(queue)
    /\ \A f \in Flushers :
          /\ pc[f] \in {"idle", "alive", "stamp", "put", "expired"} => ~posted[f]
          /\ pc[f] = "wait" => posted[f]

Unanswered(f) == posted[f] /\ ~event[f]

\* A flush() that found `finished` clear after its put is answered by the drain's own sweep.
SweepInv ==
    \A f \in Flushers :
        pc[f] \in {"settled2", "settled3", "settled4", "wait"} /\ Unanswered(f) /\ finished =>
            \/ dpc \in {"settle", "terminal", "sweepTaken"}
            \/ dpc = "sweepQueue" /\ f \in QueuedMarkers

\* One that found `settled` clear too is answered by the sweep of the shutdown() that sets it, or
\* by _take_marker when its marker leaves the queue between the two halves of that sweep.
ExpiryInv ==
    \A f \in Flushers :
        pc[f] \in {"settled4", "wait"} /\ Unanswered(f) /\ settled /\ ~finished =>
            \/ \E p \in Stoppers : pc[p] = "sweepTaken"
            \/ f \in QueuedMarkers /\ \E p \in Stoppers : pc[p] = "sweepQueue"
            \/ dpc = "take" /\ f \in markers \ taken

WaiterInv == FlagInv /\ CarryInv /\ MarkerInv /\ SweepInv /\ ExpiryInv

LEMMA AppendFacts ==
  ASSUME NEW q \in Seq(Items), NEW x \in Items
  PROVE  /\ ToSet(Append(q, x)) = ToSet(q) \cup {x}
         /\ OnceEach(q) /\ (x \in Flushers => x \notin ToSet(q)) => OnceEach(Append(q, x))
<1>1. /\ DOMAIN Append(q, x) = 1 .. Len(q) + 1 /\ DOMAIN q = 1 .. Len(q) /\ Len(q) \in Nat
      /\ Append(q, x)[Len(q) + 1] = x
      /\ \A i \in 1 .. Len(q) : Append(q, x)[i] = q[i]
  OBVIOUS
<1>2. ToSet(Append(q, x)) = ToSet(q) \cup {x} BY <1>1 DEF ToSet
<1>3. ASSUME OnceEach(q), x \in Flushers => x \notin ToSet(q)
      PROVE  OnceEach(Append(q, x))
  BY <1>1, <1>3 DEF OnceEach, ToSet
<1> QED BY <1>2, <1>3

LEMMA TailFacts ==
  ASSUME NEW q \in Seq(Items), q # <<>>
  PROVE  /\ ToSet(q) = ToSet(Tail(q)) \cup {Head(q)}
         /\ OnceEach(q) => /\ OnceEach(Tail(q))
                           /\ Head(q) \in Flushers => Head(q) \notin ToSet(Tail(q))
<1>1. /\ DOMAIN q = 1 .. Len(q) /\ Len(q) \in Nat /\ Len(q) > 0
      /\ DOMAIN Tail(q) = 1 .. Len(q) - 1
      /\ Head(q) = q[1]
      /\ \A i \in 1 .. Len(q) - 1 : Tail(q)[i] = q[i + 1]
  OBVIOUS
<1>2. ToSet(q) = ToSet(Tail(q)) \cup {Head(q)}
  <2>1. ASSUME NEW y \in ToSet(q) PROVE y \in ToSet(Tail(q)) \cup {Head(q)}
    <3>1. PICK i \in 1 .. Len(q) : y = q[i] BY <1>1 DEF ToSet
    <3>2. CASE i = 1 BY <1>1, <3>1, <3>2
    <3>3. CASE i # 1
      <4>1. i - 1 \in 1 .. Len(q) - 1 /\ Tail(q)[i - 1] = y BY <1>1, <3>1, <3>3
      <4> QED BY <1>1, <4>1 DEF ToSet
    <3> QED BY <3>2, <3>3
  <2>2. ASSUME NEW y \in ToSet(Tail(q)) PROVE y \in ToSet(q)
    <3>1. PICK i \in 1 .. Len(q) - 1 : y = q[i + 1] BY <1>1 DEF ToSet
    <3> QED BY <1>1, <3>1 DEF ToSet
  <2> QED BY <1>1, <2>1, <2>2 DEF ToSet
<1>3. ASSUME OnceEach(q) PROVE OnceEach(Tail(q)) BY <1>1, <1>3 DEF OnceEach
<1>4. ASSUME OnceEach(q), Head(q) \in Flushers PROVE Head(q) \notin ToSet(Tail(q))
  BY <1>1, <1>4 DEF OnceEach, ToSet
<1> QED BY <1>2, <1>3, <1>4

\* What putting an item on the queue, or taking one off, does to the queued markers.
LEMMA QueuePut ==
  ASSUME TypeOK, NEW x \in Items, queue' = Append(queue, x)
  PROVE  /\ x \notin Flushers => QueuedMarkers' = QueuedMarkers
         /\ x \in Flushers => QueuedMarkers' = QueuedMarkers \cup {x}
         /\ OnceEach(queue) /\ (x \in Flushers => x \notin QueuedMarkers) => OnceEach(queue')
<1>1. queue \in Seq(Items) BY DEF TypeOK
<1>2. ToSet(queue') = ToSet(queue) \cup {x} BY <1>1, AppendFacts
<1>3. OnceEach(queue) /\ (x \in Flushers => x \notin ToSet(queue)) => OnceEach(queue')
  BY <1>1, AppendFacts
<1> QED BY <1>2, <1>3 DEF QueuedMarkers

LEMMA QueueGet ==
  ASSUME TypeOK, queue # <<>>, queue' = Tail(queue), OnceEach(queue)
  PROVE  /\ Head(queue) \notin Flushers => QueuedMarkers' = QueuedMarkers
         /\ Head(queue) \in Flushers =>
               QueuedMarkers' = QueuedMarkers \ {Head(queue)} /\ Head(queue) \in QueuedMarkers
         /\ OnceEach(queue')
<1>1. queue \in Seq(Items) BY DEF TypeOK
<1>2. ToSet(queue) = ToSet(queue') \cup {Head(queue)} BY <1>1, TailFacts
<1>3. /\ OnceEach(queue')
      /\ Head(queue) \in Flushers => Head(queue) \notin ToSet(queue')
  BY <1>1, TailFacts
<1> QED BY <1>2, <1>3 DEF QueuedMarkers

\* A step that moves nobody who flushes or stops, and no marker, keeps the invariant.
LEMMA WaiterKept ==
  ASSUME WaiterInv, UNCHANGED <<finished, settled, dpc, markers, taken, posted, event>>,
         QueuedMarkers' = QueuedMarkers, OnceEach(queue'),
         \A c \in Flushers \cup Stoppers : pc'[c] = pc[c]
  PROVE  WaiterInv'
<1>1. FlagInv' BY DEF WaiterInv, FlagInv
<1>2. CarryInv' BY DEF WaiterInv, CarryInv
<1>3. MarkerInv' BY DEF WaiterInv, MarkerInv, OnceEach
<1>4. SweepInv' BY DEF WaiterInv, SweepInv, Unanswered
<1>5. ExpiryInv' BY DEF WaiterInv, ExpiryInv, Unanswered
<1> QED BY <1>1, <1>2, <1>3, <1>4, <1>5 DEF WaiterInv

LEMMA WaiterSubmit ==
  ASSUME TypeOK, WaiterInv, NEW s \in Submitters, Submit(s)
  PROVE  WaiterInv'
<1>1. \A c \in Flushers \cup Stoppers : pc'[c] = pc[c]
  BY SubmitShape, GotoMoves, ThreadsAssumption DEF Callers
<1>2. UNCHANGED <<finished, settled, dpc, markers, taken, posted, event>>
  BY DEF Submit, SubmitRead, SubmitPut, SubmitRecheck, flagVars, markerVars, drainVars, flushVars
<1>3. OnceEach(queue) BY DEF WaiterInv, MarkerInv
<1>4. queue' = queue \/ queue' = Append(queue, s)
  BY DEF Submit, SubmitRead, SubmitPut, SubmitRecheck
<1>5. QueuedMarkers' = QueuedMarkers /\ OnceEach(queue')
  <2>1. s \in Items /\ s \notin Flushers BY ThreadsAssumption DEF Items
  <2>2. CASE queue' = queue BY <1>3, <2>2 DEF QueuedMarkers
  <2>3. CASE queue' = Append(queue, s) BY <1>3, <2>1, <2>3, QueuePut
  <2> QED BY <1>4, <2>2, <2>3
<1> QED BY <1>1, <1>2, <1>5, WaiterKept

\* A flush() that moves without putting its marker: only its own place matters.
LEMMA WaiterFlushMove ==
  ASSUME TypeOK, WaiterInv, NEW f \in Flushers, NEW there, Goto(f, there),
         UNCHANGED <<finished, settled, dpc, markers, taken, posted, event, queue>>,
         there \in {"idle", "alive", "stamp", "put", "expired"} => ~posted[f],
         there = "wait" => posted[f],
         there \in {"settled2", "settled3", "settled4", "wait"} /\ finished =>
             pc[f] \in {"settled2", "settled3", "settled4", "wait"},
         there \in {"settled4", "wait"} /\ settled /\ ~finished => pc[f] \in {"settled4", "wait"}
  PROVE  WaiterInv'
<1>1. pc'[f] = there /\ \A c \in (Flushers \cup Stoppers) \ {f} : pc'[c] = pc[c]
  BY GotoMoves DEF Callers
<1>2. QueuedMarkers' = QueuedMarkers /\ \A p \in Stoppers : pc'[p] = pc[p]
  BY <1>1, ThreadsAssumption DEF QueuedMarkers
<1>3. FlagInv' BY DEF WaiterInv, FlagInv
<1>4. CarryInv' BY DEF WaiterInv, CarryInv
<1>5. MarkerInv' BY <1>1, <1>2 DEF WaiterInv, MarkerInv, OnceEach
<1>6. SweepInv' BY <1>1, <1>2 DEF WaiterInv, SweepInv, Unanswered
<1>7. ExpiryInv' BY <1>1, <1>2 DEF WaiterInv, ExpiryInv, Unanswered
<1> QED BY <1>3, <1>4, <1>5, <1>6, <1>7 DEF WaiterInv

LEMMA WaiterFlush ==
  ASSUME TypeOK, WaiterInv, NEW f \in Flushers, Flush(f)
  PROVE  WaiterInv'
<1>0. UNCHANGED <<finished, settled, dpc, markers, taken, event>>
  BY FlushShape DEF FlushUnchanged, flagVars, drainVars
<1>a. pc[f] \in {"idle", "alive", "stamp", "put", "expired"} => ~posted[f]
  BY DEF WaiterInv, MarkerInv
<1>b. /\ finished <=> dpc \in Ended
      /\ ~Alive => finished
  BY DEF WaiterInv, FlagInv, Ended, Alive
<1> USE DEF At, Return
<1>1. CASE FlushGate(f) BY <1>0, <1>a, <1>1, WaiterFlushMove DEF FlushGate
<1>2. CASE FlushAlive(f) BY <1>0, <1>a, <1>2, WaiterFlushMove DEF FlushAlive
<1>3. CASE FlushStamp(f) BY <1>0, <1>a, <1>3, WaiterFlushMove DEF FlushStamp
<1>4. CASE FlushPut(f)
  <2>1. CASE ~Room
    <3>1. Goto(f, "settled1") /\ UNCHANGED <<queue, posted>> BY <1>4, <2>1 DEF FlushPut
    <3> QED BY <1>0, <3>1, WaiterFlushMove
  <2>2. CASE Room
    <3>1. /\ queue' = Append(queue, f) /\ posted' = [posted EXCEPT ![f] = TRUE]
          /\ Goto(f, "gaveUp1")
      BY <1>4, <2>2 DEF FlushPut
    <3>2. pc'[f] = "gaveUp1" /\ \A c \in (Flushers \cup Stoppers) \ {f} : pc'[c] = pc[c]
      BY <3>1, GotoMoves DEF Callers
    <3>3. /\ posted'[f] = TRUE /\ \A g \in Flushers \ {f} : posted'[g] = posted[g]
          /\ ~posted[f]
      BY <1>a, <1>4, <3>1 DEF TypeOK, FlushPut
    <3>4. f \in Items /\ f \notin QueuedMarkers /\ f \notin markers /\ OnceEach(queue)
      BY <3>3 DEF WaiterInv, MarkerInv, Items
    <3>5. QueuedMarkers' = QueuedMarkers \cup {f} /\ OnceEach(queue') BY <3>1, <3>4, QueuePut
    <3>6. FlagInv' /\ CarryInv' BY <1>0 DEF WaiterInv, FlagInv, CarryInv
    <3>7. MarkerInv'
      <4>1. \A g \in QueuedMarkers' : posted'[g] /\ g \notin markers'
        BY <1>0, <3>3, <3>4, <3>5 DEF WaiterInv, MarkerInv, QueuedMarkers
      <4>2. \A g \in markers' : posted'[g]
        BY <1>0, <3>3, <3>4 DEF WaiterInv, MarkerInv, TypeOK
      <4>3. \A g \in Flushers : posted'[g] /\ ~event'[g] => g \in QueuedMarkers' \cup markers'
        BY <1>0, <3>3, <3>5 DEF WaiterInv, MarkerInv
      <4>4. \A g \in Flushers :
              /\ pc'[g] \in {"idle", "alive", "stamp", "put", "expired"} => ~posted'[g]
              /\ pc'[g] = "wait" => posted'[g]
        BY <3>2, <3>3 DEF WaiterInv, MarkerInv
      <4> QED BY <3>5, <4>1, <4>2, <4>3, <4>4 DEF MarkerInv
    <3>8. SweepInv'
      BY <1>0, <3>2, <3>3, <3>5 DEF WaiterInv, SweepInv, Unanswered
    <3>9. ExpiryInv'
      <4>1. \A p \in Stoppers : pc'[p] = pc[p] BY <3>2, ThreadsAssumption
      <4> QED BY <1>0, <3>2, <3>3, <3>5, <4>1 DEF WaiterInv, ExpiryInv, Unanswered
    <3> QED BY <3>6, <3>7, <3>8, <3>9 DEF WaiterInv
  <2> QED BY <2>1, <2>2
<1>5. CASE FlushExpired(f) BY <1>0, <1>a, <1>5, WaiterFlushMove DEF FlushExpired
<1>6. CASE FlushGivenUp(f)
  <2>1. UNCHANGED <<posted, queue>> BY <1>6 DEF FlushGivenUp
  <2>2. \E there \in {"gaveUp2", "settled1", "failed", "done"} : Goto(f, there)
    BY <1>6 DEF FlushGivenUp, AfterGivenUp
  <2> QED BY <1>0, <2>1, <2>2, WaiterFlushMove
<1>7. CASE FlushSettled(f)
  <2>0. UNCHANGED <<posted, queue>> BY <1>7 DEF FlushSettled
  <2> USE DEF WhenSettled, WhenDraining
  <2>1. CASE At(f, "settled1") BY <1>0, <1>7, <2>0, <2>1, WaiterFlushMove DEF FlushSettled
  <2>2. CASE At(f, "settled2") BY <1>0, <1>7, <2>0, <2>2, WaiterFlushMove DEF FlushSettled
  <2>3. CASE At(f, "settled3") BY <1>0, <1>7, <2>0, <2>3, WaiterFlushMove DEF FlushSettled
  <2>4. CASE At(f, "settled4") BY <1>0, <1>7, <2>0, <2>4, WaiterFlushMove DEF FlushSettled
  <2> QED BY <1>7, <2>1, <2>2, <2>3, <2>4 DEF FlushSettled
<1>8. CASE FlushFailed(f) BY <1>0, <1>8, WaiterFlushMove DEF FlushFailed
<1>9. CASE FlushAnswered(f) BY <1>0, <1>9, WaiterFlushMove DEF FlushAnswered
<1>10. CASE FlushWait(f) BY <1>0, <1>10, WaiterFlushMove DEF FlushWait
<1>11. CASE FlushVerdict(f) BY <1>0, <1>11, WaiterFlushMove DEF FlushVerdict
<1> QED BY <1>1, <1>2, <1>3, <1>4, <1>5, <1>6, <1>7, <1>8, <1>9, <1>10, <1>11 DEF Flush

\* A stopper that moves outside its sweep: the queue gains at most the sentinel.
LEMMA WaiterStopMove ==
  ASSUME TypeOK, WaiterInv, NEW p \in Stoppers, NEW there, Goto(p, there),
         UNCHANGED <<finished, settled, dpc, markers, taken, posted, event>>,
         queue' = queue \/ queue' = Append(queue, SHUTDOWN),
         pc[p] \notin {"sweepTaken", "sweepQueue"}
  PROVE  WaiterInv'
<1>1. pc'[p] = there /\ \A c \in (Flushers \cup Stoppers) \ {p} : pc'[c] = pc[c]
  BY GotoMoves DEF Callers
<1>2. \A f \in Flushers : pc'[f] = pc[f] BY <1>1, ThreadsAssumption
<1>3. QueuedMarkers' = QueuedMarkers /\ OnceEach(queue')
  <2>1. SHUTDOWN \in Items /\ SHUTDOWN \notin Flushers BY ThreadsAssumption DEF Items, Callers
  <2>2. OnceEach(queue) BY DEF WaiterInv, MarkerInv
  <2>3. CASE queue' = queue BY <2>2, <2>3 DEF QueuedMarkers
  <2>4. CASE queue' = Append(queue, SHUTDOWN) BY <2>1, <2>2, <2>4, QueuePut
  <2> QED BY <2>3, <2>4
<1>4. FlagInv' /\ CarryInv' BY DEF WaiterInv, FlagInv, CarryInv
<1>5. MarkerInv' BY <1>2, <1>3 DEF WaiterInv, MarkerInv
<1>6. SweepInv' BY <1>2, <1>3 DEF WaiterInv, SweepInv, Unanswered
<1>7. ExpiryInv' BY <1>1, <1>2, <1>3 DEF WaiterInv, ExpiryInv, Unanswered
<1> QED BY <1>4, <1>5, <1>6, <1>7 DEF WaiterInv

\* What a sweep answers stays answered, and the rest is as it was.
LEMMA AnswerFacts ==
  ASSUME TypeOK, NEW marks, Answer(marks), NEW f \in Flushers
  PROVE  event'[f] <=> (event[f] \/ f \in marks)
  BY DEF Answer, TypeOK

LEMMA WaiterStop ==
  ASSUME TypeOK, WaiterInv, NEW p \in Stoppers, Stop(p)
  PROVE  WaiterInv'
<1>0. UNCHANGED <<dpc, markers, taken, posted>>
  BY StopShape DEF StopUnchanged, drainVars, flushVars
<1>f. \A there : Goto(p, there) =>
        /\ pc'[p] = there
        /\ \A f \in Flushers : pc'[f] = pc[f]
        /\ \A q \in Stoppers \ {p} : pc'[q] = pc[q]
  BY GotoMoves, ThreadsAssumption DEF Callers
<1> USE DEF At, flagVars
<1>1. CASE StopRetire(p) BY <1>0, <1>1, WaiterStopMove DEF StopRetire
<1>2. CASE StopRetireLate(p) BY <1>0, <1>2, WaiterStopMove DEF StopRetireLate
<1>3. CASE StopClaimLate(p) BY <1>0, <1>3, WaiterStopMove DEF StopClaimLate
<1>4. CASE StopLost(p) BY <1>0, <1>4, WaiterStopMove DEF StopLost
<1>5. CASE StopSentinel(p) BY <1>0, <1>5, WaiterStopMove DEF StopSentinel
<1>6. CASE StopPutSentinel(p) BY <1>0, <1>6, WaiterStopMove DEF StopPutSentinel
<1>7. CASE StopSetStop(p) BY <1>0, <1>7, WaiterStopMove DEF StopSetStop
<1>8. CASE StopJoin(p) BY <1>0, <1>8, WaiterStopMove DEF StopJoin
<1>9. CASE StopTimedOut(p) BY <1>0, <1>9, WaiterStopMove DEF StopTimedOut
<1>10. CASE StopBlame(p) BY <1>0, <1>10, WaiterStopMove DEF StopBlame
<1>11. CASE StopSettle(p)
  <2>1. /\ settled' = TRUE /\ UNCHANGED <<queue, finished, event>> /\ pc'[p] = "sweepTaken"
        /\ \A f \in Flushers : pc'[f] = pc[f]
    BY <1>f, <1>11 DEF StopSettle
  <2>2. QueuedMarkers' = QueuedMarkers BY <2>1 DEF QueuedMarkers
  <2>3. FlagInv' /\ CarryInv' BY <1>0, <2>1 DEF WaiterInv, FlagInv, CarryInv
  <2>4. MarkerInv' BY <1>0, <2>1, <2>2 DEF WaiterInv, MarkerInv
  <2>5. SweepInv' BY <1>0, <2>1, <2>2 DEF WaiterInv, SweepInv, Unanswered
  <2>6. ExpiryInv' BY <2>1 DEF ExpiryInv
  <2> QED BY <2>3, <2>4, <2>5, <2>6 DEF WaiterInv
<1>12. CASE StopSweepTaken(p)
  <2>1. /\ UNCHANGED <<queue, finished, settled>> /\ pc'[p] = "sweepQueue" /\ Answer(taken)
        /\ \A f \in Flushers : pc'[f] = pc[f]
    BY <1>f, <1>12 DEF StopSweepTaken
  <2>2. QueuedMarkers' = QueuedMarkers BY <2>1 DEF QueuedMarkers
  <2>3. \A f \in Flushers : event'[f] <=> (event[f] \/ f \in taken) BY <2>1, AnswerFacts
  <2>4. FlagInv' /\ CarryInv' BY <1>0, <2>1 DEF WaiterInv, FlagInv, CarryInv
  <2>5. MarkerInv' BY <1>0, <2>1, <2>2, <2>3 DEF WaiterInv, MarkerInv
  <2>6. SweepInv' BY <1>0, <2>1, <2>2, <2>3 DEF WaiterInv, SweepInv, Unanswered
  <2>7. ExpiryInv'
    <3> SUFFICES ASSUME NEW f \in Flushers, Unanswered(f)'
                 PROVE  \/ f \in QueuedMarkers' /\ \E q \in Stoppers : pc'[q] = "sweepQueue"
                        \/ dpc' = "take" /\ f \in markers' \ taken'
      BY DEF ExpiryInv
    <3>1. Unanswered(f) /\ f \notin taken BY <1>0, <2>3 DEF Unanswered
    <3>2. f \in QueuedMarkers \cup markers BY <3>1 DEF WaiterInv, MarkerInv, Unanswered
    <3>3. f \in markers => dpc = "take" BY <3>1 DEF WaiterInv, CarryInv
    <3> QED BY <1>0, <2>1, <2>2, <3>1, <3>2, <3>3
  <2> QED BY <2>4, <2>5, <2>6, <2>7 DEF WaiterInv
<1>13. CASE StopSweepQueue(p)
  <2>1. /\ UNCHANGED <<queue, finished, settled>> /\ Answer(QueuedMarkers)
        /\ \A f \in Flushers : pc'[f] = pc[f]
    BY <1>f, <1>13 DEF StopSweepQueue
  <2>2. QueuedMarkers' = QueuedMarkers BY <2>1 DEF QueuedMarkers
  <2>3. \A f \in Flushers : event'[f] <=> (event[f] \/ f \in QueuedMarkers)
    BY <2>1, AnswerFacts
  <2>4. FlagInv' /\ CarryInv' BY <1>0, <2>1 DEF WaiterInv, FlagInv, CarryInv
  <2>5. MarkerInv' BY <1>0, <2>1, <2>2, <2>3 DEF WaiterInv, MarkerInv
  <2>6. SweepInv' BY <1>0, <2>1, <2>2, <2>3 DEF WaiterInv, SweepInv, Unanswered
  <2>7. ExpiryInv'
    <3> SUFFICES ASSUME NEW f \in Flushers, pc'[f] \in {"settled4", "wait"}, Unanswered(f)',
                        settled', ~finished'
                 PROVE  \/ \E q \in Stoppers : pc'[q] = "sweepTaken"
                        \/ dpc' = "take" /\ f \in markers' \ taken'
      BY DEF ExpiryInv
    <3>1. Unanswered(f) /\ f \notin QueuedMarkers BY <1>0, <2>3 DEF Unanswered
    <3>2. \/ \E q \in Stoppers : pc[q] = "sweepTaken"
          \/ dpc = "take" /\ f \in markers \ taken
      BY <2>1, <3>1 DEF WaiterInv, ExpiryInv
    <3>3. \A q \in Stoppers : pc[q] = "sweepTaken" => pc'[q] = pc[q]
      BY <1>f, <1>13 DEF StopSweepQueue
    <3> QED BY <1>0, <3>2, <3>3
  <2> QED BY <2>4, <2>5, <2>6, <2>7 DEF WaiterInv
<1> QED BY <1>1, <1>2, <1>3, <1>4, <1>5, <1>6, <1>7, <1>8, <1>9, <1>10, <1>11, <1>12, <1>13
        DEF Stop

\* The drain at work: it stays inside _drain and carries the markers it had.
LEMMA WaiterDrainMove ==
  ASSUME TypeOK, WaiterInv, DrainUnchanged,
         UNCHANGED <<finished, settled, markers, taken, event>>,
         QueuedMarkers' = QueuedMarkers, OnceEach(queue'),
         dpc \notin Ended \cup {"take"}, dpc' \notin Ended \cup {"take"},
         dpc' \in {"top", "get", "finish"} => markers = {}
  PROVE  WaiterInv'
<1>1. UNCHANGED <<pc, posted>> BY DEF DrainUnchanged, callVars, flushVars
<1>2. FlagInv' BY DEF WaiterInv, FlagInv
<1>3. CarryInv' BY DEF WaiterInv, CarryInv
<1>4. MarkerInv' BY <1>1 DEF WaiterInv, MarkerInv
<1>5. SweepInv' BY <1>1, <1>2 DEF SweepInv, FlagInv
<1>6. ExpiryInv' BY <1>1 DEF WaiterInv, ExpiryInv, Unanswered
<1> QED BY <1>2, <1>3, <1>4, <1>5, <1>6 DEF WaiterInv

\* The drain takes a marker off the queue and is about to register it.
LEMMA WaiterGet ==
  ASSUME TypeOK, WaiterInv, DrainUnchanged, GetUnchanged, NextIs(Flushers),
         dpc \in {"get", "final"}, dpc' = "take",
         queue' = Tail(queue), markers' = markers \cup {Head(queue)}
  PROVE  WaiterInv'
<1> DEFINE m == Head(queue)
<1>1. UNCHANGED <<pc, posted, finished, settled, taken, event>>
  BY DEF DrainUnchanged, GetUnchanged, callVars, flushVars, flagVars
<1>2. m \in Flushers /\ queue # <<>> BY DEF NextIs
<1>3. /\ QueuedMarkers' = QueuedMarkers \ {m} /\ m \in QueuedMarkers
      /\ OnceEach(queue')
  BY <1>2, QueueGet DEF WaiterInv, MarkerInv
<1>4. taken = markers /\ posted[m] /\ m \notin markers
  BY <1>3 DEF WaiterInv, CarryInv, MarkerInv
<1>5. FlagInv' BY <1>1 DEF WaiterInv, FlagInv, Ended
<1>6. CarryInv' BY <1>1, <1>4 DEF CarryInv, Ended
<1> HIDE DEF m
<1>7. markers' = markers \cup {m} BY DEF m
<1>8. MarkerInv' BY <1>1, <1>3, <1>4, <1>7 DEF WaiterInv, MarkerInv
<1>9. SweepInv' BY <1>5 DEF SweepInv, FlagInv, Ended
<1>10. ExpiryInv'
  <2> SUFFICES ASSUME NEW f \in Flushers, pc'[f] \in {"settled4", "wait"}, Unanswered(f)',
                      settled', ~finished'
               PROVE  \/ \E p \in Stoppers : pc'[p] = "sweepTaken"
                      \/ f \in QueuedMarkers' /\ \E p \in Stoppers : pc'[p] = "sweepQueue"
                      \/ dpc' = "take" /\ f \in markers' \ taken'
    BY DEF ExpiryInv
  <2>1. CASE f = m BY <1>1, <1>4, <1>7, <2>1
  <2>2. CASE f # m BY <1>1, <1>3, <2>2 DEF WaiterInv, ExpiryInv, Unanswered
  <2> QED BY <2>1, <2>2
<1> QED BY <1>5, <1>6, <1>8, <1>9, <1>10 DEF WaiterInv

LEMMA WaiterDrainEmit ==
  ASSUME TypeOK, WaiterInv, EmitReturns \/ EmitBackoff \/ EmitShutdown \/ EmitSentinel
  PROVE  WaiterInv'
<1>1. OnceEach(queue) BY DEF WaiterInv, MarkerInv
<1>2. DrainUnchanged
  BY DEF EmitBackoff, EmitSentinel, EmitReturns, EmitOk, EmitFail, EmitDie, EmitShutdown
<1>3. UNCHANGED <<finished, settled, markers, taken, event>>
  BY DEF EmitBackoff, EmitSentinel, EmitReturns, EmitOk, EmitFail, EmitDie, EmitShutdown,
         flagVars
<1>4. QueuedMarkers' = QueuedMarkers /\ OnceEach(queue')
  <2>1. SHUTDOWN \in Items /\ SHUTDOWN \notin Flushers BY ThreadsAssumption DEF Items, Callers
  <2>2. queue' = queue \/ queue' = Append(queue, SHUTDOWN)
    BY DEF EmitBackoff, EmitSentinel, EmitReturns, EmitOk, EmitFail, EmitDie, EmitShutdown
  <2>3. CASE queue' = queue BY <1>1, <2>3 DEF QueuedMarkers
  <2>4. CASE queue' = Append(queue, SHUTDOWN) BY <1>1, <2>1, <2>4, QueuePut
  <2> QED BY <2>2, <2>3, <2>4
<1>5. dpc \notin Ended \cup {"take"}
  BY DEF EmitBackoff, EmitSentinel, EmitReturns, EmitOk, EmitFail, EmitDie, EmitShutdown, Ended
<1>6. /\ dpc' \notin Ended \cup {"take"}
      /\ dpc' \in {"top", "get", "finish"} => markers = {}
  BY DEF EmitBackoff, EmitSentinel, EmitReturns, EmitOk, EmitFail, EmitDie, EmitShutdown,
         Abandon, AfterEmit, Move, Ended
<1> QED BY <1>2, <1>3, <1>4, <1>5, <1>6, WaiterDrainMove

LEMMA WaiterDrain ==
  ASSUME TypeOK, WaiterInv, Drain
  PROVE  WaiterInv'
<1>0. DrainUnchanged /\ UNCHANGED <<pc, posted>>
  BY DrainShape DEF DrainUnchanged, callVars, flushVars
<1>q. OnceEach(queue) BY DEF WaiterInv, MarkerInv
<1>u. ASSUME queue' = queue PROVE QueuedMarkers' = QueuedMarkers /\ OnceEach(queue')
  BY <1>q, <1>u DEF QueuedMarkers
<1>d. SHUTDOWN \notin Flushers /\ Submitters \cap Flushers = {}
  BY ThreadsAssumption DEF Callers
<1>g. ASSUME queue # <<>>, Head(queue) \in Submitters \cup {SHUTDOWN}, queue' = Tail(queue)
      PROVE  QueuedMarkers' = QueuedMarkers /\ OnceEach(queue')
  BY <1>d, <1>g, <1>q, QueueGet
<1> USE DEF Move, flagVars, GetUnchanged
<1>1. CASE DrainTop
  <2>1. markers = {} BY <1>1 DEF DrainTop, WaiterInv, CarryInv
  <2> QED BY <1>0, <1>1, <1>u, <2>1, WaiterDrainMove DEF DrainTop, Ended
<1>2. CASE DrainGet
  <2>0. dpc = "get" /\ markers = {}
    BY <1>2 DEF DrainGet, GetEmpty, GetMarker, GetSentinel, GetSubmission, WaiterInv, CarryInv
  <2>1. CASE GetEmpty
    BY <1>0, <1>u, <2>0, <2>1, WaiterDrainMove DEF GetEmpty, EmitOr, Ended
  <2>2. CASE GetMarker BY <2>0, <2>2, WaiterGet DEF GetMarker
  <2>3. CASE GetSentinel
    BY <1>0, <1>g, <2>0, <2>3, WaiterDrainMove DEF GetSentinel, NextIs, Ended
  <2>4. CASE GetSubmission
    BY <1>0, <1>g, <2>0, <2>4, WaiterDrainMove DEF GetSubmission, NextIs, Ended
  <2> QED BY <1>2, <2>1, <2>2, <2>3, <2>4 DEF DrainGet
<1>3. CASE DrainFinal
  <2>1. CASE FinalEmpty
    BY <1>0, <1>u, <2>1, WaiterDrainMove DEF FinalEmpty, EmitOr, Ended
  <2>2. CASE FinalMarker BY <2>2, WaiterGet DEF FinalMarker
  <2>3. CASE FinalSentinel
    BY <1>0, <1>g, <2>3, WaiterDrainMove DEF FinalSentinel, NextIs, Ended
  <2>4. CASE FinalSubmission
    BY <1>0, <1>g, <2>4, WaiterDrainMove DEF FinalSubmission, NextIs, Ended
  <2> QED BY <1>3, <2>1, <2>2, <2>3, <2>4 DEF DrainFinal
<1>4. CASE DrainTake
  <2>1. /\ UNCHANGED <<finished, settled, markers, queue>> /\ dpc = "take"
        /\ dpc' \in {"final", "judge", "emit"}
        /\ taken' = taken \cup markers
    BY <1>4 DEF DrainTake, EmitOr
  <2>2. \A f \in Flushers : event'[f] <=> (event[f] \/ (settled /\ f \in markers \ taken))
    BY <1>4, AnswerFacts DEF DrainTake
  <2>3. taken' = markers' BY <2>1 DEF WaiterInv, CarryInv
  <2>4. QueuedMarkers' = QueuedMarkers /\ OnceEach(queue') BY <1>u, <2>1
  <2>5. FlagInv' BY <2>1 DEF WaiterInv, FlagInv, Ended
  <2>6. CarryInv' BY <2>1, <2>3 DEF CarryInv, Ended
  <2>7. MarkerInv' BY <1>0, <2>1, <2>2, <2>4 DEF WaiterInv, MarkerInv
  <2>8. SweepInv' BY <2>1, <2>5 DEF SweepInv, FlagInv, Ended
  <2>9. ExpiryInv' BY <1>0, <2>1, <2>2, <2>4 DEF WaiterInv, ExpiryInv, Unanswered
  <2> QED BY <2>5, <2>6, <2>7, <2>8, <2>9 DEF WaiterInv
<1>5. CASE DrainJudge BY <1>0, <1>5, <1>u, WaiterDrainMove DEF DrainJudge, Ended
<1>6. CASE DrainAnswer
  <2>1. /\ UNCHANGED <<finished, settled, queue>> /\ dpc = "answer"
        /\ dpc' \in {"finish", "top"}
        /\ taken' = taken \ markers /\ markers' = {}
    BY <1>6 DEF DrainAnswer
  <2>2. \A f \in Flushers : event'[f] <=> (event[f] \/ f \in markers)
    BY <1>6, AnswerFacts DEF DrainAnswer
  <2>3. taken' = {} BY <2>1 DEF WaiterInv, CarryInv
  <2>4. QueuedMarkers' = QueuedMarkers /\ OnceEach(queue') BY <1>u, <2>1
  <2>5. FlagInv' BY <2>1 DEF WaiterInv, FlagInv, Ended
  <2>6. CarryInv' BY <2>1, <2>3 DEF CarryInv, Ended
  <2>7. MarkerInv' BY <1>0, <2>1, <2>2, <2>4 DEF WaiterInv, MarkerInv
  <2>8. SweepInv' BY <2>1, <2>5 DEF SweepInv, FlagInv, Ended
  <2>9. ExpiryInv' BY <1>0, <2>1, <2>2, <2>4 DEF WaiterInv, ExpiryInv, Unanswered
  <2> QED BY <2>5, <2>6, <2>7, <2>8, <2>9 DEF WaiterInv
<1>7. CASE RunFinish
  <2>1. /\ UNCHANGED <<settled, queue, markers, taken, event>> /\ dpc = "finish"
        /\ dpc' = "settle" /\ finished'
    BY <1>7 DEF RunFinish
  <2>2. QueuedMarkers' = QueuedMarkers BY <1>u, <2>1
  <2>3. FlagInv' /\ CarryInv' BY <2>1 DEF WaiterInv, FlagInv, CarryInv, Ended
  <2>4. MarkerInv' BY <1>0, <2>1, <2>2 DEF WaiterInv, MarkerInv
  <2>5. SweepInv' /\ ExpiryInv' BY <2>1 DEF SweepInv, ExpiryInv
  <2> QED BY <2>3, <2>4, <2>5 DEF WaiterInv
<1>8. CASE RunSettle
  <2>1. /\ UNCHANGED <<finished, queue, markers, taken, event>> /\ dpc = "settle"
        /\ dpc' \in {"terminal", "sweepTaken"} /\ settled'
    BY <1>8 DEF RunSettle
  <2>2. QueuedMarkers' = QueuedMarkers BY <1>u, <2>1
  <2>3. FlagInv' /\ CarryInv' BY <2>1 DEF WaiterInv, FlagInv, CarryInv, Ended
  <2>4. MarkerInv' BY <1>0, <2>1, <2>2 DEF WaiterInv, MarkerInv
  <2>5. SweepInv' BY <2>1 DEF SweepInv
  <2>6. ExpiryInv' BY <2>1, <2>3 DEF ExpiryInv, FlagInv, Ended
  <2> QED BY <2>3, <2>4, <2>5, <2>6 DEF WaiterInv
<1>9. CASE RunTerminal
  <2>1. /\ UNCHANGED <<finished, settled, queue, markers, taken, event>> /\ dpc = "terminal"
        /\ dpc' = "sweepTaken"
    BY <1>9 DEF RunTerminal
  <2>2. QueuedMarkers' = QueuedMarkers BY <1>u, <2>1
  <2>3. FlagInv' /\ CarryInv' BY <2>1 DEF WaiterInv, FlagInv, CarryInv, Ended
  <2>4. MarkerInv' BY <1>0, <2>1, <2>2 DEF WaiterInv, MarkerInv
  <2>5. SweepInv' BY <2>1 DEF SweepInv
  <2>6. ExpiryInv' BY <2>1, <2>3 DEF ExpiryInv, FlagInv, Ended
  <2> QED BY <2>3, <2>4, <2>5, <2>6 DEF WaiterInv
<1>10. CASE RunSweepTaken
  <2>1. /\ UNCHANGED <<finished, settled, queue, markers, taken>> /\ dpc = "sweepTaken"
        /\ dpc' = "sweepQueue"
    BY <1>10 DEF RunSweepTaken
  <2>2. \A f \in Flushers : event'[f] <=> (event[f] \/ f \in taken)
    BY <1>10, AnswerFacts DEF RunSweepTaken
  <2>3. QueuedMarkers' = QueuedMarkers BY <1>u, <2>1
  <2>4. FlagInv' /\ CarryInv' BY <2>1 DEF WaiterInv, FlagInv, CarryInv, Ended
  <2>5. MarkerInv' BY <1>0, <2>1, <2>2, <2>3 DEF WaiterInv, MarkerInv
  <2>6. SweepInv'
    <3> SUFFICES ASSUME NEW f \in Flushers, Unanswered(f)'
                 PROVE  f \in QueuedMarkers'
      BY <2>1 DEF SweepInv
    <3>1. markers = {} BY <2>1 DEF WaiterInv, CarryInv, Ended
    <3> QED BY <1>0, <2>2, <2>3, <3>1 DEF WaiterInv, MarkerInv, Unanswered
  <2>7. ExpiryInv' BY <2>1, <2>4 DEF ExpiryInv, FlagInv, Ended
  <2> QED BY <2>4, <2>5, <2>6, <2>7 DEF WaiterInv
<1>11. CASE RunSweepQueue
  <2>1. /\ UNCHANGED <<finished, settled, queue, markers, taken>> /\ dpc = "sweepQueue"
        /\ dpc' = "dead"
    BY <1>11 DEF RunSweepQueue
  <2>2. \A f \in Flushers : event'[f] <=> (event[f] \/ f \in QueuedMarkers)
    BY <1>11, AnswerFacts DEF RunSweepQueue
  <2>3. QueuedMarkers' = QueuedMarkers BY <1>u, <2>1
  <2>4. FlagInv' /\ CarryInv' BY <2>1 DEF WaiterInv, FlagInv, CarryInv, Ended
  <2>5. MarkerInv' BY <1>0, <2>1, <2>2, <2>3 DEF WaiterInv, MarkerInv
  <2>6. SweepInv' BY <1>0, <2>1, <2>2 DEF WaiterInv, SweepInv, Unanswered
  <2>7. ExpiryInv' BY <2>1, <2>4 DEF ExpiryInv, FlagInv, Ended
  <2> QED BY <2>4, <2>5, <2>6, <2>7 DEF WaiterInv
<1> QED BY <1>1, <1>2, <1>3, <1>4, <1>5, <1>6, <1>7, <1>8, <1>9, <1>10, <1>11, WaiterDrainEmit
        DEF Drain, DrainSteps

LEMMA WaiterInit == Init => WaiterInv
<1> SUFFICES ASSUME Init PROVE WaiterInv OBVIOUS
<1>1. FlagInv /\ CarryInv /\ SweepInv /\ ExpiryInv
  BY DEF Init, FlagInv, CarryInv, SweepInv, ExpiryInv, Ended, Unanswered
<1>2. QueuedMarkers = {} /\ OnceEach(queue) BY DEF Init, QueuedMarkers, OnceEach, ToSet
<1>3. MarkerInv BY <1>2 DEF Init, MarkerInv, Callers
<1> QED BY <1>1, <1>3 DEF WaiterInv

LEMMA WaiterStep == TypeOK /\ WaiterInv /\ [Next]_vars => WaiterInv'
<1> SUFFICES ASSUME TypeOK, WaiterInv, [Next]_vars PROVE WaiterInv' OBVIOUS
<1>1. CASE UNCHANGED vars
  <2>1. UNCHANGED <<finished, settled, dpc, markers, taken, posted, event, pc, queue>>
    BY <1>1 DEF vars, flagVars, markerVars, drainVars, flushVars, callVars
  <2>2. QueuedMarkers' = QueuedMarkers /\ OnceEach(queue')
    BY <2>1 DEF QueuedMarkers, WaiterInv, MarkerInv
  <2> QED BY <2>1, <2>2, WaiterKept
<1> QED BY <1>1, WaiterSubmit, WaiterFlush, WaiterStop, WaiterDrain DEF Next, Terminated

\* However submissions, flushes, shutdowns, expiries, retries and the death of the thread
\* interleave, a flush() that waits with its event clear has a thread still to come that sets it
\* (_take_marker, _release_waiters, _run, stop).
THEOREM NoStranded == Spec => []NoStrandedWaiter
<1>1. TypeOK /\ WaiterInv => NoStrandedWaiter
  <2> SUFFICES ASSUME TypeOK, WaiterInv, NEW f \in Flushers, pc[f] = "wait", ~event[f]
               PROVE  \/ ~settled /\ Alive /\ f \in QueuedMarkers \cup markers
                      \/ dpc \in {"settle", "terminal", "sweepTaken"}
                      \/ dpc = "sweepQueue" /\ f \in QueuedMarkers
                      \/ \E p \in Stoppers : pc[p] = "sweepTaken"
                      \/ \E p \in Stoppers : pc[p] = "sweepQueue" /\ f \in QueuedMarkers
                      \/ dpc = "take" /\ f \in markers \ taken
    BY DEF NoStrandedWaiter, At
  <2>1. Unanswered(f) /\ f \in QueuedMarkers \cup markers
    BY DEF WaiterInv, MarkerInv, Unanswered
  <2>2. CASE finished BY <2>1, <2>2 DEF WaiterInv, SweepInv
  <2>3. CASE ~finished /\ settled BY <2>1, <2>3 DEF WaiterInv, ExpiryInv
  <2>4. CASE ~finished /\ ~settled BY <2>1, <2>4 DEF WaiterInv, FlagInv, Alive, Ended
  <2> QED BY <2>2, <2>3, <2>4
<1> QED BY <1>1, WaiterInit, WaiterStep, TypeCorrect, PTL DEF Spec

=============================================================================
