------------------------ MODULE WorkerDeliveryProofs ------------------------
(***************************************************************************)
(* Theorems about what happens to a submission in Worker: the sentinel     *)
(* that ends the loop, the reason a stop gives, the accounting of what the *)
(* final drain leaves behind, and the promise of a truthy flush().         *)
(***************************************************************************)
EXTENDS WorkerProofs, FiniteSetTheorems

----------------------------------------------------------------------------
(* The sentinel                                                            *)

SentinelOnce(q) == \A i, j \in DOMAIN q : q[i] = SHUTDOWN /\ q[j] = SHUTDOWN => i = j
SentinelQueued  == SHUTDOWN \in ToSet(queue)

\* A sentinel is owed by one thread at a time: the drain inside its own shutdown(), or the stopper
\* that passed the gate without taking a join over; and while it is owed none is queued.
SentinelInv ==
    /\ SentinelOnce(queue)
    /\ SentinelQueued \/ dpc = "rsentinel" => stopped
    /\ dpc = "rsentinel" =>
          /\ ~SentinelQueued
          /\ \A p \in Stoppers : /\ pc[p] # "putSentinel"
                                 /\ pc[p] = "sentinel" => joinTakenOver
    /\ \A p \in Stoppers :
          pc[p] = "putSentinel" \/ (pc[p] = "sentinel" /\ ~joinTakenOver) =>
              ~joinTakenOver /\ ~SentinelQueued

\* What putting an item on the queue, or taking one off, does to the sentinel.
LEMMA SentinelPut ==
  ASSUME TypeOK, NEW x \in Items, queue' = Append(queue, x)
  PROVE  /\ SentinelQueued' <=> SentinelQueued \/ x = SHUTDOWN
         /\ SentinelOnce(queue) /\ (x = SHUTDOWN => ~SentinelQueued) => SentinelOnce(queue')
<1>0. queue \in Seq(Items) BY DEF TypeOK
<1>1. /\ DOMAIN queue' = 1 .. Len(queue) + 1 /\ DOMAIN queue = 1 .. Len(queue)
      /\ Len(queue) \in Nat
      /\ queue'[Len(queue) + 1] = x
      /\ \A i \in 1 .. Len(queue) : queue'[i] = queue[i]
  BY <1>0
<1>2. ToSet(queue') = ToSet(queue) \cup {x} BY <1>0, AppendFacts
<1>3. SentinelQueued' <=> SentinelQueued \/ x = SHUTDOWN BY <1>2 DEF SentinelQueued
<1>4. ASSUME SentinelOnce(queue), x = SHUTDOWN => ~SentinelQueued
      PROVE  SentinelOnce(queue')
  BY <1>1, <1>4 DEF SentinelOnce, SentinelQueued, ToSet
<1> QED BY <1>3, <1>4

LEMMA SentinelGet ==
  ASSUME TypeOK, queue # <<>>, queue' = Tail(queue)
  PROVE  /\ SentinelQueued' => SentinelQueued
         /\ SentinelOnce(queue) => SentinelOnce(queue')
<1>0. queue \in Seq(Items) BY DEF TypeOK
<1>1. /\ DOMAIN queue = 1 .. Len(queue) /\ Len(queue) \in Nat /\ Len(queue) > 0
      /\ DOMAIN queue' = 1 .. Len(queue) - 1
      /\ \A i \in 1 .. Len(queue) - 1 : queue'[i] = queue[i + 1]
  BY <1>0
<1>2. ToSet(queue) = ToSet(queue') \cup {Head(queue)} BY <1>0, TailFacts
<1>3. SentinelQueued' => SentinelQueued BY <1>2 DEF SentinelQueued
<1>4. ASSUME SentinelOnce(queue) PROVE SentinelOnce(queue') BY <1>1, <1>4 DEF SentinelOnce
<1> QED BY <1>3, <1>4

\* What each thread does to the queue.
LEMMA SubmitQueue ==
  ASSUME NEW s \in Submitters, Submit(s)
  PROVE  queue' = queue \/ queue' = Append(queue, s)
  BY DEF Submit, SubmitRead, SubmitPut, SubmitRecheck

LEMMA FlushQueue ==
  ASSUME NEW f \in Flushers, Flush(f)
  PROVE  \/ UNCHANGED <<queue, posted>>
         \/ /\ pc[f] = "put" /\ queue' = Append(queue, f)
            /\ posted' = [posted EXCEPT ![f] = TRUE]
            /\ UNCHANGED <<seen, givenUp, result, owes>>
  BY DEF Flush, FlushGate, FlushAlive, FlushStamp, FlushPut, FlushExpired, FlushGivenUp,
         FlushSettled, FlushFailed, FlushAnswered, FlushWait, FlushVerdict, At

LEMMA DrainQueue ==
  ASSUME Drain, ~EmitSentinel
  PROVE  queue' = queue \/ (queue # <<>> /\ queue' = Tail(queue))
  BY DEF Drain, DrainSteps, DrainTop, DrainGet, GetEmpty, GetMarker, GetSentinel,
         GetSubmission, DrainFinal, FinalEmpty, FinalMarker, FinalSentinel, FinalSubmission,
         DrainTake, EmitBackoff, DrainJudge, DrainAnswer, RunFinish, RunSettle,
         RunTerminal, RunSweepTaken, RunSweepQueue, EmitReturns, EmitOk, EmitFail, EmitDie,
         EmitShutdown, NextIs

LEMMA SentinelKept ==
  ASSUME TypeOK, SentinelInv, UNCHANGED <<stopped, joinTakenOver>>,
         SentinelQueued' => SentinelQueued, SentinelOnce(queue'),
         dpc' = "rsentinel" => dpc = "rsentinel",
         \A p \in Stoppers : pc'[p] \in {"sentinel", "putSentinel"} => pc'[p] = pc[p]
  PROVE  SentinelInv'
  BY DEF SentinelInv

\* Passing the gate makes the caller owe the sentinel, unless it only takes the join over.
LEMMA SentinelClaim ==
  ASSUME TypeOK, GateInv, SentinelInv, NEW p \in Stoppers, ClaimStop(FALSE, Deadline(p)),
         Goto(p, IF Claims(FALSE) THEN "sentinel" ELSE "lost"), UNCHANGED <<queue, dpc>>
  PROVE  SentinelInv'
<1>1. pc'[p] = (IF Claims(FALSE) THEN "sentinel" ELSE "lost")
      /\ \A q \in Stoppers \ {p} : pc'[q] = pc[q]
  BY GotoMoves DEF Callers
<1>2. SentinelQueued' = SentinelQueued /\ SentinelOnce(queue')
  BY DEF SentinelInv, SentinelQueued
<1>3. CASE Claims(FALSE)
  <2>1. \A q \in Stoppers : ~Joining(q) BY <1>3 DEF Claims, GateInv
  <2>2. \A q \in Stoppers \ {p} : pc'[q] \notin {"sentinel", "putSentinel"}
    BY <1>1, <2>1 DEF Joining
  <2>3. stopped' /\ joinTakenOver' = (joinTakenOver \/ stopped) BY <1>3 DEF ClaimStop
  <2> QED BY <1>1, <1>2, <1>3, <2>2, <2>3 DEF SentinelInv
<1>4. CASE ~Claims(FALSE)
  <2>1. UNCHANGED <<stopped, joinTakenOver>> BY <1>4 DEF ClaimStop, Claims, TypeOK
  <2> QED BY <1>1, <1>2, <1>4, <2>1, SentinelKept
<1> QED BY <1>3, <1>4

LEMMA SentinelStop ==
  ASSUME TypeOK, GateInv, SentinelInv, NEW p \in Stoppers, Stop(p)
  PROVE  SentinelInv'
<1>0. dpc' = dpc BY StopShape DEF StopUnchanged, drainVars
<1>f. \A there : Goto(p, there) => pc'[p] = there /\ \A q \in Stoppers \ {p} : pc'[q] = pc[q]
  BY GotoMoves DEF Callers
<1>1. CASE StopRetire(p) BY <1>0, <1>1, SentinelClaim DEF StopRetire
<1>2. CASE StopClaimLate(p) BY <1>0, <1>2, SentinelClaim DEF StopClaimLate
<1>3. CASE StopSentinel(p)
  <2>1. /\ pc[p] = "sentinel" /\ UNCHANGED <<queue, stopped, joinTakenOver>>
        /\ pc'[p] \in {"setStop", "putSentinel"}
        /\ pc'[p] = "putSentinel" => ~joinTakenOver
        /\ \A q \in Stoppers \ {p} : pc'[q] = pc[q]
    BY <1>3, <1>f DEF StopSentinel, At, gateVars
  <2>2. SentinelQueued' = SentinelQueued BY <2>1 DEF SentinelQueued
  <2> QED BY <1>0, <2>1, <2>2 DEF SentinelInv
<1>4. CASE StopPutSentinel(p)
  <2>1. /\ pc[p] = "putSentinel" /\ UNCHANGED <<stopped, joinTakenOver>>
        /\ pc'[p] = "setStop" /\ \A q \in Stoppers \ {p} : pc'[q] = pc[q]
        /\ queue' = queue \/ queue' = Append(queue, SHUTDOWN)
    BY <1>4, <1>f DEF StopPutSentinel, At, gateVars
  <2>2. Joining(p) BY <2>1 DEF Joining
  <2>3. stopped /\ \A q \in Stoppers : pc'[q] \notin {"sentinel", "putSentinel"}
    BY <2>1, <2>2 DEF GateInv, Joining
  <2>4. dpc # "rsentinel" /\ ~SentinelQueued BY <2>1 DEF SentinelInv
  <2>5. SentinelOnce(queue')
    <3>1. SHUTDOWN \in Items BY DEF Items
    <3>2. CASE queue' = queue BY <3>2 DEF SentinelInv
    <3>3. CASE queue' = Append(queue, SHUTDOWN)
      BY <2>4, <3>1, <3>3, SentinelPut DEF SentinelInv
    <3> QED BY <2>1, <3>2, <3>3
  <2> QED BY <1>0, <2>1, <2>3, <2>4, <2>5 DEF SentinelInv
<1>5. CASE \/ StopRetireLate(p) \/ StopLost(p) \/ StopSetStop(p) \/ StopJoin(p)
           \/ StopTimedOut(p) \/ StopBlame(p) \/ StopSettle(p) \/ StopSweepTaken(p)
           \/ StopSweepQueue(p)
  <2>1. UNCHANGED <<queue, stopped, joinTakenOver>>
    BY <1>5 DEF StopRetireLate, StopLost, StopSetStop, StopJoin, StopTimedOut, StopBlame,
                StopSettle, StopSweepTaken, StopSweepQueue, gateVars
  <2>2. pc'[p] \notin {"sentinel", "putSentinel"} /\ \A q \in Stoppers \ {p} : pc'[q] = pc[q]
    BY <1>5, <1>f DEF StopRetireLate, StopLost, StopSetStop, StopJoin, StopTimedOut, StopBlame,
                StopSettle, StopSweepTaken, StopSweepQueue
  <2>3. SentinelQueued' = SentinelQueued /\ SentinelOnce(queue')
    BY <2>1 DEF SentinelInv, SentinelQueued
  <2> QED BY <1>0, <2>1, <2>2, <2>3, SentinelKept
<1> QED BY <1>1, <1>2, <1>3, <1>4, <1>5 DEF Stop

LEMMA SentinelDrain ==
  ASSUME TypeOK, GateInv, SentinelInv, Drain
  PROVE  SentinelInv'
<1>0. pc' = pc BY DrainShape DEF DrainUnchanged, callVars
<1>1. CASE EmitShutdown
  <2>0. SentinelQueued' = SentinelQueued /\ SentinelOnce(queue')
    BY <1>1 DEF EmitShutdown, SentinelInv, SentinelQueued
  <2>1. PICK deadline : ClaimStop(TRUE, deadline) BY <1>1 DEF EmitShutdown
  <2>2. CASE Claims(TRUE)
    <3>1. ~stopped /\ stopped' BY <2>1, <2>2 DEF Claims, ClaimStop
    <3>2. \A q \in Stoppers : pc[q] \notin {"sentinel", "putSentinel"}
      BY <3>1 DEF GateInv, Joining
    <3>3. ~SentinelQueued BY <3>1 DEF SentinelInv
    <3> QED BY <1>0, <2>0, <3>1, <3>2, <3>3 DEF SentinelInv
  <2>3. CASE ~Claims(TRUE)
    <3>1. UNCHANGED <<stopped, joinTakenOver>> BY <2>1, <2>3 DEF ClaimStop, Claims, TypeOK
    <3>2. dpc' = "emit" BY <1>1, <2>3 DEF EmitShutdown, Move
    <3> QED BY <1>0, <2>0, <3>1, <3>2, SentinelKept
  <2> QED BY <2>2, <2>3
<1>2. CASE EmitSentinel
  <2>1. /\ dpc = "rsentinel" /\ dpc' = "emit" /\ UNCHANGED <<stopped, joinTakenOver>>
        /\ queue' = queue \/ queue' = Append(queue, SHUTDOWN)
    BY <1>2 DEF EmitSentinel, Move, gateVars
  <2>2. SentinelOnce(queue')
    <3>1. SHUTDOWN \in Items BY DEF Items
    <3>2. CASE queue' = queue BY <3>2 DEF SentinelInv
    <3>3. CASE queue' = Append(queue, SHUTDOWN)
      BY <2>1, <3>1, <3>3, SentinelPut DEF SentinelInv
    <3> QED BY <2>1, <3>2, <3>3
  <2> QED BY <1>0, <2>1, <2>2 DEF SentinelInv
<1>3. CASE ~EmitShutdown /\ ~EmitSentinel
  <2>1. UNCHANGED <<stopped, joinTakenOver>> /\ dpc' # "rsentinel"
    BY <1>3 DEF Drain, DrainSteps, DrainTop, DrainGet, GetEmpty, GetMarker, GetSentinel,
         GetSubmission, DrainFinal, FinalEmpty, FinalMarker, FinalSentinel, FinalSubmission,
         DrainTake, EmitBackoff, DrainJudge, DrainAnswer, RunFinish, RunSettle,
         RunTerminal, RunSweepTaken, RunSweepQueue, EmitReturns, EmitOk, EmitFail, EmitDie,
         GetUnchanged, gateVars, Move, EmitOr, Abandon, AfterEmit
  <2>2. (SentinelQueued' => SentinelQueued) /\ SentinelOnce(queue')
    <3>1. CASE queue' = queue BY <3>1 DEF SentinelInv, SentinelQueued
    <3>2. CASE queue # <<>> /\ queue' = Tail(queue) BY <3>2, SentinelGet DEF SentinelInv
    <3> QED BY <1>3, <3>1, <3>2, DrainQueue
  <2> QED BY <1>0, <2>1, <2>2, SentinelKept
<1> QED BY <1>1, <1>2, <1>3

\* A submission or a marker joins the queue, or nothing does.
LEMMA SentinelOther ==
  ASSUME TypeOK, SentinelInv, NEW x \in Submitters \cup Flushers,
         queue' = queue \/ queue' = Append(queue, x)
  PROVE  SentinelQueued' = SentinelQueued /\ SentinelOnce(queue')
<1>1. x \in Items /\ x # SHUTDOWN BY ThreadsAssumption DEF Items, Callers
<1>2. CASE queue' = queue BY <1>2 DEF SentinelInv, SentinelQueued
<1>3. CASE queue' = Append(queue, x) BY <1>1, <1>3, SentinelPut DEF SentinelInv, SentinelQueued
<1> QED BY <1>2, <1>3

LEMMA SentinelStep == TypeOK /\ GateInv /\ SentinelInv /\ [Next]_vars => SentinelInv'
<1> SUFFICES ASSUME TypeOK, GateInv, SentinelInv, [Next]_vars PROVE SentinelInv' OBVIOUS
<1>1. ASSUME NEW s \in Submitters, Submit(s) PROVE SentinelInv'
  <2>1. \A p \in Stoppers : pc'[p] = pc[p]
    BY <1>1, SubmitShape, GotoMoves, ThreadsAssumption DEF Callers
  <2>2. UNCHANGED <<stopped, joinTakenOver, dpc>>
    BY <1>1 DEF Submit, SubmitRead, SubmitPut, SubmitRecheck, gateVars, drainVars
  <2>3. SentinelQueued' = SentinelQueued /\ SentinelOnce(queue')
    BY <1>1, SubmitQueue, SentinelOther
  <2> QED BY <2>1, <2>2, <2>3, SentinelKept
<1>2. ASSUME NEW f \in Flushers, Flush(f) PROVE SentinelInv'
  <2>1. \A p \in Stoppers : pc'[p] = pc[p]
    BY <1>2, FlushShape, GotoMoves, ThreadsAssumption DEF Callers
  <2>2. UNCHANGED <<stopped, joinTakenOver, dpc>>
    BY <1>2, FlushShape DEF FlushUnchanged, gateVars, drainVars
  <2>3. queue' = queue \/ queue' = Append(queue, f) BY <1>2, FlushQueue
  <2>4. SentinelQueued' = SentinelQueued /\ SentinelOnce(queue') BY <2>3, SentinelOther
  <2> QED BY <2>1, <2>2, <2>4, SentinelKept
<1>3. CASE UNCHANGED vars
  BY <1>3, SentinelKept DEF vars, gateVars, drainVars, callVars, SentinelInv, SentinelQueued
<1> QED BY <1>1, <1>2, <1>3, SentinelStop, SentinelDrain DEF Next, Terminated

LEMMA SentinelInit == Init => SentinelInv
  BY DEF Init, SentinelInv, SentinelOnce, SentinelQueued, ToSet, Callers

LEMMA GateInit == Init => GateInv
  BY DEF Init, GateInv, Joining, Callers

\* Whoever stops the worker, in whatever order, from the drain thread or any other, and whoever
\* takes the join over, two sentinels are never queued at once: no copy is left to strand behind
\* the final drain (claim_stop, stop).
THEOREM SentinelQueuedOnce == Spec => []OneSentinel
<1>1. TypeOK /\ SentinelInv => OneSentinel
  <2> SUFFICES ASSUME TypeOK, SentinelInv PROVE OneSentinel OBVIOUS
  <2> DEFINE S == {i \in DOMAIN queue : queue[i] = SHUTDOWN}
  <2>1. \A i, j \in S : i = j BY DEF SentinelInv, SentinelOnce
  <2>2. CASE S = {} BY <2>2, FS_EmptySet DEF OneSentinel
  <2>3. CASE S # {}
    <3>1. PICK i : i \in S BY <2>3
    <3>2. S = {i} BY <2>1, <3>1
    <3>3. Cardinality(S) = 1 BY <3>2, FS_Singleton
    <3> QED BY <3>3 DEF OneSentinel
  <2> QED BY <2>2, <2>3
<1> QED BY <1>1, SentinelInit, SentinelStep, GateInit, GateStep, TypeCorrect, PTL DEF Spec

----------------------------------------------------------------------------
(* Why the drain was given up on                                           *)

BlameInv ==
    /\ reason = "died" => finished
    /\ \A p \in Stoppers : pc[p] = "settle" => reason # "none"
    /\ settled /\ ~finished => reason = "ShutdownTimeout"

LEMMA BlameStop ==
  ASSUME TypeOK, WaiterInv, BlameInv, NEW p \in Stoppers, Stop(p)
  PROVE  BlameInv'
<1>f. \A there : Goto(p, there) => pc'[p] = there /\ \A q \in Stoppers \ {p} : pc'[q] = pc[q]
  BY GotoMoves DEF Callers
<1>1. CASE StopBlame(p)
  <2>1. /\ UNCHANGED <<finished, settled>>
        /\ reason' = IF reason = "none" THEN "ShutdownTimeout" ELSE reason
    BY <1>1 DEF StopBlame, flagVars
  <2> QED BY <2>1 DEF BlameInv
<1>2. CASE StopSettle(p)
  <2>1. /\ UNCHANGED <<finished, reason>> /\ pc[p] = "settle"
        /\ \A q \in Stoppers : pc'[q] = "settle" => pc[q] = "settle"
    BY <1>2, <1>f DEF StopSettle, At
  <2>2. reason \in {"ShutdownTimeout", "died"} BY <2>1 DEF BlameInv, TypeOK, Reasons
  <2> QED BY <2>1, <2>2 DEF BlameInv
<1>3. CASE ~StopBlame(p) /\ ~StopSettle(p)
  <2>1. UNCHANGED <<finished, settled, reason>>
    BY <1>3 DEF Stop, StopRetire, StopRetireLate, StopClaimLate, StopLost, StopSentinel,
                StopPutSentinel, StopSetStop, StopJoin, StopTimedOut, StopSweepTaken,
                StopSweepQueue, flagVars
  <2>2. PICK there \in CallPCs : Goto(p, there) BY StopShape
  <2>3. there # "settle"
    <3>1. pc'[p] = there BY <1>f, <2>2
    <3>2. CASE StopRetire(p) \/ StopClaimLate(p)
      <4>1. Goto(p, IF Claims(FALSE) THEN "sentinel" ELSE "lost")
        BY <3>2 DEF StopRetire, StopClaimLate
      <4>2. pc'[p] = (IF Claims(FALSE) THEN "sentinel" ELSE "lost")
        BY <4>1, GotoMoves DEF Callers
      <4> QED BY <3>1, <4>2
    <3>3. CASE StopRetireLate(p) \/ StopLost(p) \/ StopSentinel(p) \/ StopPutSentinel(p)
      BY <1>f, <3>1, <3>3 DEF StopRetireLate, StopLost, StopSentinel, StopPutSentinel
    <3>4. CASE StopSetStop(p) \/ StopJoin(p) \/ StopTimedOut(p) \/ StopSweepTaken(p)
               \/ StopSweepQueue(p)
      BY <1>f, <3>1, <3>4 DEF StopSetStop, StopJoin, StopTimedOut, StopSweepTaken,
                              StopSweepQueue
    <3> QED BY <1>3, <3>2, <3>3, <3>4 DEF Stop
  <2>4. \A q \in Stoppers : pc'[q] = "settle" => pc[q] = "settle" BY <1>f, <2>2, <2>3
  <2> QED BY <2>1, <2>4 DEF BlameInv
<1> QED BY <1>1, <1>2, <1>3

LEMMA BlameDrain ==
  ASSUME TypeOK, WaiterInv, BlameInv, Drain
  PROVE  BlameInv'
<1>0. pc' = pc BY DrainShape DEF DrainUnchanged, callVars
<1>1. CASE RunFinish
  BY <1>0, <1>1 DEF RunFinish, BlameInv
<1>2. CASE RunSettle
  <2>1. finished BY <1>2 DEF RunSettle, WaiterInv, FlagInv, Ended
  <2> QED BY <1>0, <1>2, <2>1 DEF RunSettle, BlameInv
<1>3. CASE RunTerminal
  <2>1. finished BY <1>3 DEF RunTerminal, WaiterInv, FlagInv, Ended
  <2> QED BY <1>0, <1>3, <2>1 DEF RunTerminal, BlameInv, flagVars
<1>4. CASE ~RunFinish /\ ~RunSettle /\ ~RunTerminal
  <2>1. UNCHANGED <<finished, settled, reason>>
    BY <1>4 DEF Drain, DrainSteps, DrainTop, DrainGet, GetEmpty, GetMarker, GetSentinel,
         GetSubmission, DrainFinal, FinalEmpty, FinalMarker, FinalSentinel, FinalSubmission,
         DrainTake, EmitBackoff, EmitSentinel, DrainJudge, DrainAnswer,
         RunSweepTaken, RunSweepQueue, EmitReturns, EmitOk, EmitFail, EmitDie, EmitShutdown,
         GetUnchanged, flagVars
  <2> QED BY <1>0, <2>1 DEF BlameInv
<1> QED BY <1>1, <1>2, <1>3, <1>4

LEMMA BlameStep == TypeOK /\ WaiterInv /\ BlameInv /\ [Next]_vars => BlameInv'
<1> SUFFICES ASSUME TypeOK, WaiterInv, BlameInv, [Next]_vars PROVE BlameInv' OBVIOUS
<1>1. ASSUME NEW s \in Submitters, Submit(s) PROVE BlameInv'
  <2>1. \A p \in Stoppers : pc'[p] = pc[p]
    BY <1>1, SubmitShape, GotoMoves, ThreadsAssumption DEF Callers
  <2>2. UNCHANGED <<finished, settled, reason>>
    BY <1>1 DEF Submit, SubmitRead, SubmitPut, SubmitRecheck, flagVars, countVars
  <2> QED BY <2>1, <2>2 DEF BlameInv
<1>2. ASSUME NEW f \in Flushers, Flush(f) PROVE BlameInv'
  <2>1. \A p \in Stoppers : pc'[p] = pc[p]
    BY <1>2, FlushShape, GotoMoves, ThreadsAssumption DEF Callers
  <2>2. UNCHANGED <<finished, settled, reason>>
    BY <1>2, FlushShape DEF FlushUnchanged, flagVars, countVars
  <2> QED BY <2>1, <2>2 DEF BlameInv
<1>3. CASE UNCHANGED vars BY <1>3 DEF vars, flagVars, countVars, callVars, BlameInv
<1> QED BY <1>1, <1>2, <1>3, BlameStop, BlameDrain DEF Next, Terminated

LEMMA BlameInit == Init => BlameInv
  BY DEF Init, BlameInv, Callers

\* flush() reads `settled` without `finished` as "abandoned": only a shutdown() that ran out of
\* time on a live drain leaves the pair so, and it has already said why; neither the drain's own
\* end nor the death of the thread passes through it (stop, _run, _terminal_failure, _given_up).
THEOREM AbandonedMeansExpired == Spec => []GivenUpMeansExpired
<1>1. BlameInv => GivenUpMeansExpired BY DEF BlameInv, GivenUpMeansExpired
<1> QED BY <1>1, BlameInit, BlameStep, WaiterInit, WaiterStep, TypeCorrect, PTL DEF Spec

----------------------------------------------------------------------------
(* What the final drain leaves behind                                      *)

\* Whatever makes the drain close was done by a caller that had moved the count first.
RetiredInv ==
    /\ stop \/ closing \/ SentinelQueued \/ dpc = "rsentinel" => retired
    /\ \A p \in Stoppers : pc[p] # "idle" => retired

\* Where _run and _final_drain stand, and when pending is known to be empty.
RunInv ==
    /\ dpc \in {"top", "get"} => ~closing
    /\ dpc = "final" => closing
    /\ dpc \in Ended \cup {"finish"} => closing \/ dying
    /\ dpc = "judge" => pending = <<>>
    /\ dpc \in Ended \cup {"finish", "answer"} /\ ~dying => pending = <<>>
    /\ dpc \in {"sweepTaken", "sweepQueue", "dead"} /\ dying => reason = "died"

\* The final drain has found the queue empty and will not look again.
Drained ==
    /\ closing /\ ~dying
    /\ dpc \in Ended \cup {"emit", "backoff", "rsentinel", "judge", "answer", "finish"}

\* A submission put after that look is counted, or will be by its second read of the count.
CountInv ==
    /\ \A s \in Submitters : pc[s] = "put" /\ sawRetired[s] => s \in undeliverable
    /\ Drained => \A s \in ToSet(queue) \cap Submitters :
                      pc[s] = "recheck" \/ s \in undeliverable

LossInv == RetiredInv /\ RunInv /\ CountInv

LEMMA RetiredStep ==
  TypeOK /\ SentinelInv /\ RetiredInv /\ RunInv /\ [Next]_vars => RetiredInv'
<1> SUFFICES ASSUME TypeOK, SentinelInv, RetiredInv, RunInv, [Next]_vars PROVE RetiredInv'
  OBVIOUS
<1>1. ASSUME NEW s \in Submitters, Submit(s) PROVE RetiredInv'
  <2>1. \A p \in Stoppers : pc'[p] = pc[p]
    BY <1>1, SubmitShape, GotoMoves, ThreadsAssumption DEF Callers
  <2>2. UNCHANGED <<retired, stop, closing, dpc>>
    BY <1>1 DEF Submit, SubmitRead, SubmitPut, SubmitRecheck, flagVars, drainVars
  <2>3. SentinelQueued' = SentinelQueued BY <1>1, SubmitQueue, SentinelOther
  <2> QED BY <2>1, <2>2, <2>3 DEF RetiredInv
<1>2. ASSUME NEW f \in Flushers, Flush(f) PROVE RetiredInv'
  <2>1. \A p \in Stoppers : pc'[p] = pc[p]
    BY <1>2, FlushShape, GotoMoves, ThreadsAssumption DEF Callers
  <2>2. UNCHANGED <<retired, stop, closing, dpc>>
    BY <1>2, FlushShape DEF FlushUnchanged, flagVars, drainVars
  <2>3. queue' = queue \/ queue' = Append(queue, f) BY <1>2, FlushQueue
  <2>4. SentinelQueued' = SentinelQueued BY <2>3, SentinelOther
  <2> QED BY <2>1, <2>2, <2>4 DEF RetiredInv
<1>3. ASSUME NEW p \in Stoppers, Stop(p) PROVE RetiredInv'
  <2>1. retired'
    <3>1. CASE StopRetire(p) \/ StopRetireLate(p) BY <3>1 DEF StopRetire, StopRetireLate
    <3>2. CASE ~StopRetire(p) /\ ~StopRetireLate(p)
      <4>1. retired' = retired /\ pc[p] # "idle"
        BY <1>3, <3>2 DEF Stop, StopClaimLate, StopLost, StopSentinel, StopPutSentinel,
           StopSetStop, StopJoin, StopTimedOut, StopBlame, StopSettle, StopSweepTaken,
           StopSweepQueue, At
      <4> QED BY <4>1 DEF RetiredInv
    <3> QED BY <3>1, <3>2
  <2> QED BY <2>1 DEF RetiredInv
<1>4. ASSUME Drain PROVE RetiredInv'
  <2>0. pc' = pc BY <1>4, DrainShape DEF DrainUnchanged, callVars
  <2>1. CASE EmitShutdown
    <3>1. retired' BY <2>1 DEF EmitShutdown
    <3> QED BY <3>1 DEF RetiredInv
  <2>2. CASE EmitSentinel
    <3>1. retired' BY <2>2 DEF EmitSentinel, RetiredInv
    <3> QED BY <3>1 DEF RetiredInv
  <2>3. CASE GetSentinel
    <3>1. queue \in Seq(Items) /\ queue # <<>> BY <2>3 DEF TypeOK, GetSentinel, NextIs
    <3>2. Head(queue) \in ToSet(queue) BY <3>1, TailFacts
    <3>3. Head(queue) = SHUTDOWN BY <2>3 DEF GetSentinel, NextIs
    <3>4. retired BY <3>2, <3>3 DEF RetiredInv, SentinelQueued
    <3>5. retired' BY <2>3, <3>4 DEF GetSentinel, GetUnchanged
    <3> QED BY <3>5 DEF RetiredInv
  <2>4. CASE ~EmitShutdown /\ ~EmitSentinel /\ ~GetSentinel
    <3>1. UNCHANGED <<retired, stop>> /\ dpc' # "rsentinel" /\ closing' \in {closing, stop}
      BY <1>4, <2>4 DEF Drain, DrainSteps, DrainTop, DrainGet, GetEmpty, GetMarker,
         GetSubmission, DrainFinal, FinalEmpty, FinalMarker, FinalSentinel, FinalSubmission,
         DrainTake, EmitBackoff, DrainJudge, DrainAnswer, RunFinish, RunSettle,
         RunTerminal, RunSweepTaken, RunSweepQueue, EmitReturns, EmitOk, EmitFail, EmitDie,
         GetUnchanged, flagVars, Move, EmitOr, Abandon, AfterEmit
    <3>2. SentinelQueued' => SentinelQueued
      <4>1. CASE queue' = queue BY <4>1 DEF SentinelQueued
      <4>2. CASE queue # <<>> /\ queue' = Tail(queue) BY <4>2, SentinelGet
      <4> QED BY <1>4, <2>4, <4>1, <4>2, DrainQueue
    <3> QED BY <2>0, <3>1, <3>2 DEF RetiredInv
  <2> QED BY <2>1, <2>2, <2>3, <2>4
<1>5. CASE UNCHANGED vars
  BY <1>5 DEF vars, flagVars, drainVars, callVars, RetiredInv, SentinelQueued
<1> QED BY <1>1, <1>2, <1>3, <1>4, <1>5 DEF Next, Terminated

LEMMA RunDrain ==
  ASSUME TypeOK, RunInv, Drain
  PROVE  RunInv'
<1> USE DEF Move, Ended
<1>1. CASE DrainTop BY <1>1 DEF DrainTop, RunInv
<1>2. CASE DrainGet
  <2>1. /\ dpc = "get" /\ dpc' \in {"top", "emit", "take", "final"}
        /\ dpc' = "top" => closing' = closing
        /\ dpc' = "final" => closing'
    BY <1>2 DEF DrainGet, GetEmpty, GetMarker, GetSentinel, GetSubmission, EmitOr
  <2> QED BY <2>1 DEF RunInv
<1>3. CASE DrainFinal
  <2>1. /\ dpc = "final" /\ dpc' \in {"final", "emit", "take", "judge"}
        /\ closing' = closing
        /\ dpc' = "judge" => pending' = <<>>
    BY <1>3 DEF DrainFinal, FinalEmpty, FinalMarker, FinalSentinel, FinalSubmission, EmitOr
  <2> QED BY <2>1 DEF RunInv
<1>4. CASE DrainTake BY <1>4 DEF DrainTake, EmitOr, RunInv
<1>5. CASE EmitOk \/ EmitFail \/ EmitBackoff
  <2>1. /\ dpc' \in {"emit", "backoff", "judge", "top"}
        /\ dpc' = "judge" => pending' = <<>>
        /\ dpc' = "top" => ~closing
        /\ closing' = closing
    BY <1>5 DEF EmitOk, EmitFail, EmitBackoff, Abandon, AfterEmit
  <2> QED BY <2>1 DEF RunInv
<1>6. CASE EmitDie BY <1>6 DEF EmitDie, RunInv
<1>7. CASE EmitShutdown \/ EmitSentinel
  <2>1. dpc' \in {"emit", "rsentinel"} BY <1>7 DEF EmitShutdown, EmitSentinel
  <2> QED BY <2>1 DEF RunInv
<1>8. CASE DrainJudge BY <1>8 DEF DrainJudge, RunInv
<1>9. CASE DrainAnswer BY <1>9 DEF DrainAnswer, RunInv
<1>10. CASE RunFinish BY <1>10 DEF RunFinish, RunInv
<1>11. CASE RunSettle BY <1>11 DEF RunSettle, RunInv
<1>12. CASE RunTerminal BY <1>12 DEF RunTerminal, RunInv
<1>13. CASE RunSweepTaken BY <1>13 DEF RunSweepTaken, RunInv
<1>14. CASE RunSweepQueue BY <1>14 DEF RunSweepQueue, RunInv
<1> QED BY <1>1, <1>2, <1>3, <1>4, <1>5, <1>6, <1>7, <1>8, <1>9, <1>10, <1>11, <1>12, <1>13,
           <1>14 DEF Drain, DrainSteps, EmitReturns

LEMMA RunStep == TypeOK /\ RunInv /\ [Next]_vars => RunInv'
<1> SUFFICES ASSUME TypeOK, RunInv, [Next]_vars PROVE RunInv' OBVIOUS
<1>1. ASSUME NEW s \in Submitters, Submit(s) PROVE RunInv'
  BY <1>1 DEF Submit, SubmitRead, SubmitPut, SubmitRecheck, drainVars, countVars, RunInv, Ended
<1>2. ASSUME NEW f \in Flushers, Flush(f) PROVE RunInv'
  <2>1. UNCHANGED <<drainVars, reason>> BY <1>2, FlushShape DEF FlushUnchanged, countVars
  <2> QED BY <2>1 DEF drainVars, RunInv, Ended
<1>3. ASSUME NEW p \in Stoppers, Stop(p) PROVE RunInv'
  <2>1. UNCHANGED drainVars BY <1>3, StopShape DEF StopUnchanged
  <2>2. reason = "died" => reason' = "died"
    BY <1>3 DEF Stop, StopRetire, StopRetireLate, StopClaimLate, StopLost, StopSentinel,
         StopPutSentinel, StopSetStop, StopJoin, StopTimedOut, StopBlame, StopSettle,
         StopSweepTaken, StopSweepQueue
  <2> QED BY <2>1, <2>2 DEF drainVars, RunInv, Ended
<1>4. CASE UNCHANGED vars BY <1>4 DEF vars, drainVars, countVars, RunInv, Ended
<1> QED BY <1>1, <1>2, <1>3, <1>4, RunDrain DEF Next, Terminated

\* A step that puts no submission on the queue and counts none.
LEMMA CountKept ==
  ASSUME TypeOK, CountInv, UNCHANGED <<sawRetired, undeliverable>>,
         \A s \in Submitters : pc'[s] = pc[s],
         Drained' => /\ Drained
                     /\ ToSet(queue') \cap Submitters \subseteq ToSet(queue) \cap Submitters
  PROVE  CountInv'
  BY DEF CountInv

\* The item that joins or leaves the queue is not a submission.
LEMMA NotSubmissionPut ==
  ASSUME TypeOK, NEW x \in Flushers \cup {SHUTDOWN}, queue' = queue \/ queue' = Append(queue, x)
  PROVE  ToSet(queue') \cap Submitters = ToSet(queue) \cap Submitters
<1>1. x \in Items /\ x \notin Submitters BY ThreadsAssumption DEF Items, Callers
<1>2. queue \in Seq(Items) BY DEF TypeOK
<1>3. CASE queue' = queue BY <1>3
<1>4. CASE queue' = Append(queue, x)
  <2>1. ToSet(queue') = ToSet(queue) \cup {x} BY <1>1, <1>2, <1>4, AppendFacts
  <2> QED BY <1>1, <2>1
<1> QED BY <1>3, <1>4

LEMMA CountSubmit ==
  ASSUME TypeOK, LossInv, NEW s \in Submitters, Submit(s)
  PROVE  CountInv'
<1>f. \A there : Goto(s, there) => pc'[s] = there /\ \A q \in Submitters \ {s} : pc'[q] = pc[q]
  BY GotoMoves DEF Callers
<1>0. UNCHANGED <<closing, dying, dpc, retired>> /\ (Drained' => retired)
  BY DEF Submit, SubmitRead, SubmitPut, SubmitRecheck, drainVars, Drained, LossInv, RetiredInv
<1>d. Drained' = Drained BY <1>0 DEF Drained
<1>t. sawRetired \in [Submitters -> BOOLEAN] BY DEF TypeOK
<1>1. CASE SubmitRead(s)
  <2>1. /\ pc'[s] = "put" /\ \A q \in Submitters \ {s} : pc'[q] = pc[q]
        /\ sawRetired' = [sawRetired EXCEPT ![s] = retired]
        /\ undeliverable' = IF retired THEN undeliverable \cup {s} ELSE undeliverable
        /\ queue' = queue
        /\ pc[s] = "idle"
    BY <1>1, <1>f DEF SubmitRead, At
  <2>2. ASSUME NEW q \in Submitters, pc'[q] = "put", sawRetired'[q]
        PROVE  q \in undeliverable'
    <3>1. CASE q = s BY <1>t, <2>1, <2>2, <3>1
    <3>2. CASE q # s BY <1>t, <2>1, <2>2, <3>2 DEF LossInv, CountInv
    <3> QED BY <3>1, <3>2
  <2>3. ASSUME Drained', NEW q \in ToSet(queue') \cap Submitters
        PROVE  pc'[q] = "recheck" \/ q \in undeliverable'
    <3>1. pc[q] = "recheck" \/ q \in undeliverable BY <1>d, <2>1, <2>3 DEF LossInv, CountInv
    <3> QED BY <2>1, <3>1
  <2> QED BY <2>2, <2>3 DEF CountInv
<1>2. CASE SubmitPut(s)
  <2>1. /\ pc'[s] # "put" /\ \A q \in Submitters \ {s} : pc'[q] = pc[q]
        /\ UNCHANGED <<sawRetired, undeliverable>> /\ pc[s] = "put"
    BY <1>2, <1>f DEF SubmitPut, At
  <2>2. ASSUME Drained', NEW q \in ToSet(queue') \cap Submitters
        PROVE  pc'[q] = "recheck" \/ q \in undeliverable'
    <3>1. s \in Items /\ queue \in Seq(Items) BY DEF Items, TypeOK
    <3>2. CASE q = s
      <4>1. CASE Room
        BY <1>2, <1>f, <2>1, <3>2, <4>1 DEF SubmitPut, LossInv, CountInv
      <4>2. CASE ~Room
        <5>1. queue' = queue BY <1>2, <4>2 DEF SubmitPut
        <5> QED BY <1>d, <2>1, <2>2, <3>2, <5>1 DEF LossInv, CountInv
      <4> QED BY <4>1, <4>2
    <3>3. CASE q # s
      <4>1. ToSet(queue') \subseteq ToSet(queue) \cup {s}
        BY <3>1, AppendFacts, SubmitQueue
      <4> QED BY <1>d, <2>1, <2>2, <3>3, <4>1 DEF LossInv, CountInv
    <3> QED BY <3>2, <3>3
  <2> QED BY <2>1, <2>2 DEF LossInv, CountInv
<1>3. CASE SubmitRecheck(s)
  <2>1. /\ pc'[s] = "done" /\ \A q \in Submitters \ {s} : pc'[q] = pc[q]
        /\ UNCHANGED <<sawRetired, queue>>
        /\ undeliverable' = IF retired THEN undeliverable \cup {s} ELSE undeliverable
    BY <1>3, <1>f DEF SubmitRecheck
  <2> QED BY <1>0, <1>d, <2>1 DEF LossInv, CountInv
<1> QED BY <1>1, <1>2, <1>3 DEF Submit

LEMMA CountDrain ==
  ASSUME TypeOK, LossInv, Drain
  PROVE  CountInv'
<1>0. UNCHANGED <<pc, sawRetired, undeliverable>>
  BY DrainShape DEF DrainUnchanged, callVars
<1> USE DEF Move, Ended
<1>q. ASSUME UNCHANGED queue, Drained' => Drained PROVE CountInv'
  BY <1>0, <1>q, CountKept DEF LossInv
<1>n. ASSUME ~Drained' PROVE CountInv' BY <1>0, <1>n, CountKept DEF LossInv
<1>1. CASE DrainTop
  <2>1. ~Drained' BY <1>1 DEF DrainTop, Drained
  <2> QED BY <1>n, <2>1
<1>2. CASE DrainGet
  <2>1. /\ dpc = "get" /\ dpc' \in {"top", "emit", "take", "final"}
        /\ dpc' = "emit" => closing' = closing
    BY <1>2 DEF DrainGet, GetEmpty, GetMarker, GetSentinel, GetSubmission, EmitOr
  <2>2. ~Drained' BY <2>1 DEF Drained, LossInv, RunInv
  <2> QED BY <1>n, <2>2
<1>3. CASE DrainFinal
  <2>1. CASE FinalEmpty
    <3>1. ToSet(queue') = {} BY <2>1 DEF FinalEmpty, ToSet
    <3> QED BY <1>0, <3>1 DEF LossInv, CountInv
  <2>2. CASE ~FinalEmpty
    <3>1. ~Drained'
      BY <1>3, <2>2 DEF DrainFinal, FinalMarker, FinalSentinel, FinalSubmission, Drained
    <3> QED BY <1>n, <3>1
  <2> QED BY <2>1, <2>2
<1>4. CASE DrainTake
  <2>1. ~Drained' BY <1>4 DEF DrainTake, Drained
  <2> QED BY <1>n, <2>1
<1>5. CASE EmitReturns
  BY <1>5, <1>q DEF EmitReturns, EmitOk, EmitFail, EmitDie, Abandon, AfterEmit, Drained
<1>6. CASE EmitBackoff \/ EmitShutdown
  <2>1. /\ UNCHANGED <<queue, closing, dying>> /\ dpc \in {"emit", "backoff"}
    BY <1>6 DEF EmitBackoff, EmitShutdown
  <2>2. Drained' => Drained BY <2>1 DEF Drained
  <2> QED BY <1>q, <2>1, <2>2
<1>7. CASE EmitSentinel
  <2>1. Drained' => Drained BY <1>7 DEF EmitSentinel, Drained
  <2>2. queue' = queue \/ queue' = Append(queue, SHUTDOWN) BY <1>7 DEF EmitSentinel
  <2>3. ToSet(queue') \cap Submitters = ToSet(queue) \cap Submitters
    BY <2>2, NotSubmissionPut
  <2> QED BY <1>0, <2>1, <2>3, CountKept DEF LossInv
<1>8. CASE DrainJudge \/ DrainAnswer
  BY <1>8, <1>q DEF DrainJudge, DrainAnswer, Drained
<1>9. CASE RunFinish \/ RunSettle \/ RunTerminal \/ RunSweepTaken \/ RunSweepQueue
  BY <1>9, <1>q DEF RunFinish, RunSettle, RunTerminal, RunSweepTaken, RunSweepQueue, Drained
<1> QED BY <1>1, <1>2, <1>3, <1>4, <1>5, <1>6, <1>7, <1>8, <1>9 DEF Drain, DrainSteps

LEMMA LossStep == TypeOK /\ SentinelInv /\ LossInv /\ [Next]_vars => LossInv'
<1> SUFFICES ASSUME TypeOK, SentinelInv, LossInv, [Next]_vars PROVE LossInv' OBVIOUS
<1>0. RetiredInv' /\ RunInv' BY RetiredStep, RunStep DEF LossInv
<1>1. ASSUME NEW f \in Flushers, Flush(f) PROVE CountInv'
  <2>1. \A s \in Submitters : pc'[s] = pc[s]
    BY <1>1, FlushShape, GotoMoves, ThreadsAssumption DEF Callers
  <2>2. UNCHANGED <<sawRetired, undeliverable, closing, dying, dpc>>
    BY <1>1, FlushShape DEF FlushUnchanged, drainVars, countVars
  <2>3. queue' = queue \/ queue' = Append(queue, f) BY <1>1, FlushQueue
  <2>4. ToSet(queue') \cap Submitters = ToSet(queue) \cap Submitters
    BY <2>3, NotSubmissionPut
  <2> QED BY <2>1, <2>2, <2>4, CountKept DEF LossInv, Drained
<1>2. ASSUME NEW p \in Stoppers, Stop(p) PROVE CountInv'
  <2>1. \A s \in Submitters : pc'[s] = pc[s]
    BY <1>2, StopShape, GotoMoves, ThreadsAssumption DEF Callers
  <2>2. UNCHANGED <<sawRetired, undeliverable, closing, dying, dpc>>
    BY <1>2, StopShape DEF StopUnchanged, drainVars
  <2>3. queue' = queue \/ queue' = Append(queue, SHUTDOWN)
    BY <1>2 DEF Stop, StopRetire, StopRetireLate, StopClaimLate, StopLost, StopSentinel,
         StopPutSentinel, StopSetStop, StopJoin, StopTimedOut, StopBlame, StopSettle,
         StopSweepTaken, StopSweepQueue
  <2>4. ToSet(queue') \cap Submitters = ToSet(queue) \cap Submitters
    BY <2>3, NotSubmissionPut
  <2> QED BY <2>1, <2>2, <2>4, CountKept DEF LossInv, Drained
<1>3. ASSUME UNCHANGED vars PROVE CountInv'
  <2>1. UNCHANGED <<queue, pc, sawRetired, undeliverable, closing, dying, dpc>>
    BY <1>3 DEF vars, countVars, drainVars, callVars
  <2>2. Drained' = Drained BY <2>1 DEF Drained
  <2> QED BY <2>1, <2>2, CountKept DEF LossInv
<1>4. CountInv'
  BY <1>1, <1>2, <1>3, CountSubmit, CountDrain DEF Next, Terminated
<1> QED BY <1>0, <1>4 DEF LossInv

LEMMA LossInit == Init => LossInv
  BY DEF Init, LossInv, RetiredInv, RunInv, CountInv, Drained, SentinelQueued, ToSet, Ended,
         Callers

\* When the drain thread has ended without being killed, it has settled every batch it took, and
\* whatever a returned submit() left on the queue is counted in submitted_after_shutdown: the
\* second read of the retirement count closes the window between the first read and the put,
\* wherever the final drain's last look falls in it (submit, _final_drain, _run).
THEOREM LossIsCounted == Spec => []NoSilentLoss
<1>1. LossInv => NoSilentLoss
  <2> SUFFICES ASSUME LossInv, dpc = "dead", reason # "died"
               PROVE  /\ pending = <<>>
                      /\ \A s \in ToSet(queue) \cap Submitters :
                            At(s, "done") => s \in undeliverable
    BY DEF NoSilentLoss, Alive
  <2>1. ~dying BY DEF LossInv, RunInv
  <2>2. closing /\ pending = <<>> BY <2>1 DEF LossInv, RunInv, Ended
  <2>3. Drained BY <2>1, <2>2 DEF Drained, Ended
  <2> QED BY <2>2, <2>3 DEF LossInv, CountInv, At
<1> QED BY <1>1, LossInit, LossStep, SentinelInit, SentinelStep, GateInit, GateStep,
           TypeCorrect, PTL DEF Spec

----------------------------------------------------------------------------
(* What a truthy flush() answers for                                       *)

Accepted(s) == pc[s] \in {"recheck", "done"}

\* A submission is on its way, or answered for, only after its put.
AcceptedInv ==
    /\ \A s \in Backlog : Accepted(s)
    /\ \A f \in Flushers : \A s \in owes[f] : Accepted(s)

\* Since the stamp, what a flush() answers for is delivered or on its way, or a batch has failed.
LedgerInv ==
    \A f \in Flushers :
        /\ seen[f] <= failed
        /\ failed > seen[f] \/ owes[f] \subseteq ToSet(sunk) \cup Backlog

\* What a marker answers for stands before it on the queue, and is off the queue when it is.
Ahead(q, due) == \A i, j \in DOMAIN q : q[i] \in Flushers /\ q[j] \in due[q[i]] => j < i

AheadInv ==
    /\ Ahead(queue, owes)
    /\ \A f \in markers : owes[f] \cap ToSet(queue) = {}

\* A verdict of delivered, and the ok a flush() reads from it, are about a marker that was posted.
VerdictInv ==
    \A f \in Flushers :
        delivered[f] \/ result[f] = "ok" => posted[f] /\ owes[f] \subseteq ToSet(sunk)

PromiseInv == AcceptedInv /\ LedgerInv /\ AheadInv /\ VerdictInv

LEMMA ToSetConcat ==
  ASSUME NEW S, NEW q \in Seq(S), NEW r \in Seq(S)
  PROVE  ToSet(q \o r) = ToSet(q) \cup ToSet(r)
<1>1. /\ DOMAIN q = 1 .. Len(q) /\ DOMAIN r = 1 .. Len(r) /\ Len(q) \in Nat /\ Len(r) \in Nat
      /\ DOMAIN (q \o r) = 1 .. Len(q) + Len(r)
      /\ \A i \in 1 .. Len(q) : (q \o r)[i] = q[i]
      /\ \A i \in 1 .. Len(r) : (q \o r)[Len(q) + i] = r[i]
      /\ \A i \in Len(q) + 1 .. Len(q) + Len(r) : (q \o r)[i] = r[i - Len(q)]
  OBVIOUS
<1>2. ASSUME NEW y \in ToSet(q \o r) PROVE y \in ToSet(q) \cup ToSet(r)
  <2>1. PICK i \in 1 .. Len(q) + Len(r) : y = (q \o r)[i] BY <1>1 DEF ToSet
  <2>2. CASE i <= Len(q) BY <1>1, <2>1, <2>2 DEF ToSet
  <2>3. CASE i > Len(q)
    <3>1. i - Len(q) \in 1 .. Len(r) /\ y = r[i - Len(q)] BY <1>1, <2>1, <2>3
    <3> QED BY <1>1, <3>1 DEF ToSet
  <2> QED BY <1>1, <2>2, <2>3
<1>3. ASSUME NEW y \in ToSet(q) PROVE y \in ToSet(q \o r)
  <2>1. PICK i \in 1 .. Len(q) : y = q[i] BY <1>1 DEF ToSet
  <2>2. i \in 1 .. Len(q) + Len(r) BY <1>1
  <2> QED BY <1>1, <2>1, <2>2 DEF ToSet
<1>4. ASSUME NEW y \in ToSet(r) PROVE y \in ToSet(q \o r)
  <2>1. PICK i \in 1 .. Len(r) : y = r[i] BY <1>1 DEF ToSet
  <2>2. Len(q) + i \in 1 .. Len(q) + Len(r) BY <1>1
  <2> QED BY <1>1, <2>1, <2>2 DEF ToSet
<1> QED BY <1>2, <1>3, <1>4

LEMMA ToSetAppend ==
  ASSUME NEW S, NEW q \in Seq(S), NEW x \in S
  PROVE  ToSet(Append(q, x)) = ToSet(q) \cup {x}
<1>1. /\ DOMAIN Append(q, x) = 1 .. Len(q) + 1 /\ DOMAIN q = 1 .. Len(q) /\ Len(q) \in Nat
      /\ Append(q, x)[Len(q) + 1] = x
      /\ \A i \in 1 .. Len(q) : Append(q, x)[i] = q[i]
  OBVIOUS
<1> QED BY <1>1 DEF ToSet

\* What a put, and what a take, does to the backlog.
LEMMA BacklogPut ==
  ASSUME TypeOK, NEW x \in Items, queue' = Append(queue, x), pending' = pending
  PROVE  Backlog' = Backlog \cup ({x} \cap Submitters)
<1>1. queue \in Seq(Items) BY DEF TypeOK
<1>2. ToSet(queue') = ToSet(queue) \cup {x} BY <1>1, AppendFacts
<1> QED BY <1>2 DEF Backlog

LEMMA BacklogGet ==
  ASSUME TypeOK, queue # <<>>, queue' = Tail(queue),
         \/ Head(queue) \in Submitters /\ pending' = Append(pending, Head(queue))
         \/ Head(queue) \notin Submitters /\ pending' = pending
  PROVE  Backlog' = Backlog
<1>1. queue \in Seq(Items) /\ pending \in Seq(Submitters) BY DEF TypeOK
<1>2. ToSet(queue) = ToSet(queue') \cup {Head(queue)} BY <1>1, TailFacts
<1>3. CASE Head(queue) \in Submitters /\ pending' = Append(pending, Head(queue))
  <2>1. ToSet(pending') = ToSet(pending) \cup {Head(queue)} BY <1>1, <1>3, ToSetAppend
  <2> QED BY <1>2, <1>3, <2>1 DEF Backlog
<1>4. CASE Head(queue) \notin Submitters /\ pending' = pending BY <1>2, <1>4 DEF Backlog
<1> QED BY <1>3, <1>4

\* What the stoppers do to the queue.
LEMMA StopQueue ==
  ASSUME NEW p \in Stoppers, Stop(p)
  PROVE  queue' = queue \/ queue' = Append(queue, SHUTDOWN)
  BY DEF Stop, StopRetire, StopRetireLate, StopClaimLate, StopLost, StopSentinel,
         StopPutSentinel, StopSetStop, StopJoin, StopTimedOut, StopBlame, StopSettle,
         StopSweepTaken, StopSweepQueue

\* What the drain does to the queue and the batch: nothing, take the head, queue its own sentinel,
\* deliver the batch or abandon it.
LEMMA DrainMoves ==
  ASSUME TypeOK, Drain
  PROVE  \/ UNCHANGED <<queue, pending, sunk, failed, lost>>
         \/ /\ queue # <<>> /\ queue' = Tail(queue)
            /\ \/ Head(queue) \in Submitters /\ pending' = Append(pending, Head(queue))
               \/ Head(queue) \notin Submitters /\ pending' = pending
            /\ UNCHANGED <<sunk, failed, lost>>
         \/ queue' = Append(queue, SHUTDOWN) /\ UNCHANGED <<pending, sunk, failed, lost>>
         \/ EmitOk
         \/ /\ Abandon /\ UNCHANGED <<queue, sunk>>
            /\ dpc \in {"emit", "backoff"}
<1>d. SHUTDOWN \notin Submitters /\ Submitters \cap Flushers = {}
  BY ThreadsAssumption DEF Callers
<1>1. CASE DrainGet
  <2>0. UNCHANGED <<sunk, failed, lost>>
    BY <1>1 DEF DrainGet, GetEmpty, GetMarker, GetSentinel, GetSubmission, GetUnchanged, sinkVars
  <2> QED BY <1>1, <1>d, <2>0
    DEF DrainGet, GetEmpty, GetMarker, GetSentinel, GetSubmission, NextIs
<1>2. CASE DrainFinal
  <2>0. UNCHANGED <<sunk, failed, lost>>
    BY <1>2 DEF DrainFinal, FinalEmpty, FinalMarker, FinalSentinel, FinalSubmission,
                GetUnchanged, sinkVars
  <2> QED BY <1>2, <1>d, <2>0
    DEF DrainFinal, FinalEmpty, FinalMarker, FinalSentinel, FinalSubmission, NextIs
<1>3. CASE EmitSentinel BY <1>3 DEF EmitSentinel, sinkVars
<1>4. CASE EmitFail \/ EmitBackoff BY <1>4 DEF EmitFail, EmitBackoff
<1>5. CASE EmitDie \/ EmitShutdown BY <1>5 DEF EmitDie, EmitShutdown, sinkVars
<1>6. CASE DrainTop \/ DrainTake \/ DrainJudge \/ DrainAnswer
  BY <1>6 DEF DrainTop, DrainTake, DrainJudge, DrainAnswer, sinkVars
<1>7. CASE RunFinish \/ RunSettle \/ RunTerminal \/ RunSweepTaken \/ RunSweepQueue
  BY <1>7 DEF RunFinish, RunSettle, RunTerminal, RunSweepTaken, RunSweepQueue, sinkVars
<1> QED BY <1>1, <1>2, <1>3, <1>4, <1>5, <1>6, <1>7 DEF Drain, DrainSteps, EmitReturns

\* The drain takes a batch out of the backlog only by settling it.
LEMMA DrainBacklog ==
  ASSUME TypeOK, Drain
  PROVE  \/ Backlog' = Backlog /\ UNCHANGED <<sunk, failed, lost>>
         \/ EmitOk
         \/ /\ Abandon /\ UNCHANGED <<queue, sunk>>
            /\ dpc \in {"emit", "backoff"}
<1>1. SHUTDOWN \in Items /\ SHUTDOWN \notin Submitters
  BY ThreadsAssumption DEF Items, Callers
<1>2. UNCHANGED <<queue, pending>> => Backlog' = Backlog BY DEF Backlog
<1>3. queue' = Append(queue, SHUTDOWN) /\ UNCHANGED pending => Backlog' = Backlog
  BY <1>1, BacklogPut
<1> QED BY <1>2, <1>3, BacklogGet, DrainMoves

\* The backlog grows only by a put of a submitter that is thereby accepted; nobody is unaccepted.
LEMMA BacklogStep ==
  ASSUME TypeOK, [Next]_vars
  PROVE  /\ \A s \in Submitters : Accepted(s) => Accepted(s)'
         /\ \A s \in Backlog' : s \in Backlog \/ Accepted(s)'
<1>0. Backlog \subseteq Submitters BY DEF Backlog, TypeOK, ToSet
<1>1. ASSUME NEW s \in Submitters, Submit(s)
      PROVE  /\ \A q \in Submitters : Accepted(q) => Accepted(q)'
             /\ \A q \in Backlog' : q \in Backlog \/ Accepted(q)'
  <2>f. \A there : Goto(s, there) => pc'[s] = there /\ \A q \in Submitters \ {s} : pc'[q] = pc[q]
    BY GotoMoves DEF Callers
  <2>1. CASE SubmitRead(s)
    <3>1. UNCHANGED <<queue, pending>> BY <2>1 DEF SubmitRead, drainVars
    <3>2. Backlog' = Backlog BY <3>1 DEF Backlog
    <3> QED BY <2>1, <2>f, <3>2 DEF SubmitRead, Accepted, At
  <2>2. CASE SubmitPut(s)
    <3>1. pc'[s] \in {"recheck", "done"} /\ \A q \in Submitters \ {s} : pc'[q] = pc[q]
      BY <2>2, <2>f DEF SubmitPut
    <3>2. pending' = pending BY <2>2 DEF SubmitPut, drainVars
    <3>3. s \in Items BY DEF Items
    <3>4. Backlog' \subseteq Backlog \cup {s}
      <4>1. CASE queue' = queue BY <3>2, <4>1 DEF Backlog
      <4>2. CASE queue' = Append(queue, s) BY <3>2, <3>3, <4>2, BacklogPut
      <4> QED BY <1>1, <4>1, <4>2, SubmitQueue
    <3> QED BY <3>1, <3>4 DEF Accepted
  <2>3. CASE SubmitRecheck(s)
    <3>1. UNCHANGED <<queue, pending>> BY <2>3 DEF SubmitRecheck, drainVars
    <3>2. Backlog' = Backlog BY <3>1 DEF Backlog
    <3> QED BY <2>3, <2>f, <3>2 DEF SubmitRecheck, Accepted, At
  <2> QED BY <1>1, <2>1, <2>2, <2>3 DEF Submit
<1>2. ASSUME NEW f \in Flushers, Flush(f)
      PROVE  Backlog' = Backlog /\ \A s \in Submitters : pc'[s] = pc[s]
  <2>1. \A s \in Submitters : pc'[s] = pc[s]
    BY <1>2, FlushShape, GotoMoves, ThreadsAssumption DEF Callers
  <2>2. pending' = pending BY <1>2, FlushShape DEF FlushUnchanged, drainVars
  <2>3. f \in Items /\ f \notin Submitters BY ThreadsAssumption DEF Items
  <2>4. CASE queue' = queue BY <2>1, <2>2, <2>4 DEF Backlog
  <2>5. CASE queue' = Append(queue, f) BY <2>1, <2>2, <2>3, <2>5, BacklogPut
  <2> QED BY <1>2, <2>4, <2>5, FlushQueue
<1>3. ASSUME NEW p \in Stoppers, Stop(p)
      PROVE  Backlog' = Backlog /\ \A s \in Submitters : pc'[s] = pc[s]
  <2>1. \A s \in Submitters : pc'[s] = pc[s]
    BY <1>3, StopShape, GotoMoves, ThreadsAssumption DEF Callers
  <2>2. pending' = pending BY <1>3, StopShape DEF StopUnchanged, drainVars
  <2>3. SHUTDOWN \in Items /\ SHUTDOWN \notin Submitters
    BY ThreadsAssumption DEF Items, Callers
  <2>4. CASE queue' = queue BY <2>1, <2>2, <2>4 DEF Backlog
  <2>5. CASE queue' = Append(queue, SHUTDOWN) BY <2>1, <2>2, <2>3, <2>5, BacklogPut
  <2> QED BY <1>3, <2>4, <2>5, StopQueue
<1>4. ASSUME Drain PROVE Backlog' \subseteq Backlog /\ pc' = pc
  <2>1. pc' = pc BY <1>4, DrainShape DEF DrainUnchanged, callVars
  <2>2. CASE Backlog' = Backlog BY <2>1, <2>2
  <2>3. CASE pending' = <<>> /\ queue' = queue BY <2>1, <2>3 DEF Backlog, ToSet
  <2> QED BY <1>4, <2>2, <2>3, DrainBacklog DEF EmitOk, Abandon, AfterEmit
<1>5. CASE UNCHANGED vars
  BY <1>5 DEF vars, drainVars, callVars, Backlog, Accepted
<1> QED BY <1>0, <1>1, <1>2, <1>3, <1>4, <1>5 DEF Next, Terminated, Accepted

\* The stamp is the one step that changes what a flush() answers for.
LEMMA OwesStep ==
  ASSUME TypeOK, [Next]_vars
  PROVE  \/ UNCHANGED <<owes, seen>>
         \/ \E f \in Flushers : FlushStamp(f)
<1>1. ASSUME NEW s \in Submitters, Submit(s) PROVE UNCHANGED <<owes, seen>>
  BY <1>1 DEF Submit, SubmitRead, SubmitPut, SubmitRecheck, markerVars, flushVars
<1>2. ASSUME NEW f \in Flushers, Flush(f), ~FlushStamp(f) PROVE UNCHANGED <<owes, seen>>
  BY <1>2 DEF Flush, FlushGate, FlushAlive, FlushPut, FlushExpired, FlushGivenUp,
              FlushSettled, FlushFailed, FlushAnswered, FlushWait, FlushVerdict
<1>3. ASSUME NEW p \in Stoppers, Stop(p) PROVE UNCHANGED <<owes, seen>>
  BY <1>3, StopShape DEF StopUnchanged, flushVars
<1>4. ASSUME Drain PROVE UNCHANGED <<owes, seen>>
  BY <1>4, DrainShape DEF DrainUnchanged, callVars, flushVars
<1>5. CASE UNCHANGED vars BY <1>5 DEF vars, callVars, flushVars, markerVars
<1> QED BY <1>1, <1>2, <1>3, <1>4, <1>5 DEF Next, Terminated

LEMMA AcceptedStep ==
  ASSUME TypeOK, AcceptedInv, [Next]_vars
  PROVE  AcceptedInv'
<1>0. Backlog \subseteq Submitters BY DEF Backlog, TypeOK, ToSet
<1>1. \A s \in Submitters : Accepted(s) => Accepted(s)' BY BacklogStep
<1>2. \A s \in Backlog' : Accepted(s)' BY <1>0, <1>1, BacklogStep DEF AcceptedInv
<1>3. ASSUME NEW f \in Flushers, NEW s \in owes'[f] PROVE Accepted(s)'
  <2>0. owes \in [Flushers -> SUBSET Submitters] BY DEF TypeOK
  <2>1. CASE UNCHANGED owes BY <1>1, <1>3, <2>0, <2>1 DEF AcceptedInv
  <2>2. CASE \E g \in Flushers : FlushStamp(g)
    <3>1. PICK g \in Flushers : owes' = [owes EXCEPT ![g] = Backlog] BY <2>2 DEF FlushStamp
    <3>2. s \in Backlog \/ s \in owes[f] BY <1>3, <2>0, <3>1
    <3>3. s \in Submitters BY <1>0, <2>0, <3>2
    <3>4. Accepted(s) BY <3>2 DEF AcceptedInv
    <3> QED BY <1>1, <3>3, <3>4
  <2> QED BY <2>1, <2>2, OwesStep
<1> QED BY <1>2, <1>3 DEF AcceptedInv

LEMMA LedgerKept ==
  ASSUME LedgerInv, UNCHANGED <<owes, seen, failed>>,
         ToSet(sunk) \cup Backlog \subseteq ToSet(sunk') \cup Backlog'
  PROVE  LedgerInv'
  BY DEF LedgerInv

LEMMA LedgerStep ==
  ASSUME TypeOK, LedgerInv, [Next]_vars
  PROVE  LedgerInv'
<1>1. ASSUME NEW s \in Submitters, Submit(s) PROVE LedgerInv'
  <2>1. UNCHANGED <<owes, seen, failed, sunk, pending>>
    BY <1>1 DEF Submit, SubmitRead, SubmitPut, SubmitRecheck, markerVars, countVars, flushVars,
                sinkVars, drainVars
  <2>2. Backlog \subseteq Backlog'
    <3>1. s \in Items BY DEF Items
    <3>2. CASE queue' = queue BY <2>1, <3>2 DEF Backlog
    <3>3. CASE queue' = Append(queue, s) BY <2>1, <3>1, <3>3, BacklogPut
    <3> QED BY <1>1, <3>2, <3>3, SubmitQueue
  <2> QED BY <2>1, <2>2, LedgerKept
<1>2. ASSUME NEW f \in Flushers, Flush(f) PROVE LedgerInv'
  <2>1. UNCHANGED <<failed, sunk, pending>>
    BY <1>2, FlushShape DEF FlushUnchanged, countVars, sinkVars, drainVars
  <2>2. Backlog' = Backlog
    <3>1. f \in Items /\ f \notin Submitters BY ThreadsAssumption DEF Items
    <3>2. CASE queue' = queue BY <2>1, <3>2 DEF Backlog
    <3>3. CASE queue' = Append(queue, f) BY <2>1, <3>1, <3>3, BacklogPut
    <3> QED BY <1>2, <3>2, <3>3, FlushQueue
  <2>3. CASE UNCHANGED <<owes, seen>> BY <2>1, <2>2, <2>3, LedgerKept
  <2>4. CASE \E g \in Flushers : FlushStamp(g)
    <3>0. /\ owes \in [Flushers -> SUBSET Submitters] /\ seen \in [Flushers -> Nat]
          /\ failed \in Nat
      BY DEF TypeOK
    <3>1. PICK g \in Flushers : /\ owes' = [owes EXCEPT ![g] = Backlog]
                                /\ seen' = [seen EXCEPT ![g] = failed]
      BY <2>4 DEF FlushStamp
    <3>2. ASSUME NEW h \in Flushers
          PROVE  /\ seen'[h] <= failed'
                 /\ failed' > seen'[h] \/ owes'[h] \subseteq ToSet(sunk') \cup Backlog'
      <4>1. CASE h = g BY <2>1, <2>2, <3>0, <3>1, <4>1
      <4>2. CASE h # g BY <2>1, <2>2, <3>0, <3>1, <4>2 DEF LedgerInv
      <4> QED BY <4>1, <4>2
    <3> QED BY <3>2 DEF LedgerInv
  <2> QED BY <2>3, <2>4, OwesStep
<1>3. ASSUME NEW p \in Stoppers, Stop(p) PROVE LedgerInv'
  <2>1. UNCHANGED <<owes, seen, failed, sunk, pending>>
    BY <1>3, StopShape DEF StopUnchanged, flushVars, sinkVars, drainVars
  <2>2. Backlog' = Backlog
    <3>1. SHUTDOWN \in Items /\ SHUTDOWN \notin Submitters
      BY ThreadsAssumption DEF Items, Callers
    <3>2. CASE queue' = queue BY <2>1, <3>2 DEF Backlog
    <3>3. CASE queue' = Append(queue, SHUTDOWN) BY <2>1, <3>1, <3>3, BacklogPut
    <3> QED BY <1>3, <3>2, <3>3, StopQueue
  <2> QED BY <2>1, <2>2, LedgerKept
<1>4. ASSUME Drain PROVE LedgerInv'
  <2>0. UNCHANGED <<owes, seen>> BY <1>4, DrainShape DEF DrainUnchanged, callVars, flushVars
  <2>1. CASE Backlog' = Backlog /\ UNCHANGED <<sunk, failed, lost>> BY <2>0, <2>1, LedgerKept
  <2>2. CASE EmitOk
    <3>1. sunk \in Seq(Submitters) /\ pending \in Seq(Submitters) BY DEF TypeOK
    <3>2. ToSet(sunk') = ToSet(sunk) \cup ToSet(pending)
      BY <2>2, <3>1, ToSetConcat DEF EmitOk
    <3>3. UNCHANGED <<queue, failed>> BY <2>2 DEF EmitOk
    <3>4. ToSet(sunk) \cup Backlog \subseteq ToSet(sunk') \cup Backlog'
      BY <3>2, <3>3 DEF Backlog
    <3> QED BY <2>0, <3>3, <3>4, LedgerKept
  <2>3. CASE Abandon
    <3>1. failed' = failed + 1 /\ failed \in Nat BY <2>3 DEF Abandon, TypeOK
    <3>2. seen \in [Flushers -> Nat] BY DEF TypeOK
    <3> QED BY <2>0, <3>1, <3>2 DEF LedgerInv
  <2> QED BY <1>4, <2>1, <2>2, <2>3, DrainBacklog
<1>5. CASE UNCHANGED vars
  <2>1. UNCHANGED <<owes, seen, failed, sunk, pending, queue>>
    BY <1>5 DEF vars, markerVars, countVars, callVars, flushVars, sinkVars, drainVars
  <2>2. Backlog' = Backlog BY <2>1 DEF Backlog
  <2> QED BY <2>1, <2>2, LedgerKept
<1> QED BY <1>1, <1>2, <1>3, <1>4, <1>5 DEF Next, Terminated

\* What a put, and what a take, does to the order of the queue.
LEMMA AheadPut ==
  ASSUME NEW q \in Seq(Items), NEW due \in [Flushers -> SUBSET Submitters], Ahead(q, due),
         NEW x \in Items, \A f \in Flushers : x \notin due[f]
  PROVE  Ahead(Append(q, x), due)
<1>1. /\ DOMAIN Append(q, x) = 1 .. Len(q) + 1 /\ DOMAIN q = 1 .. Len(q) /\ Len(q) \in Nat
      /\ Append(q, x)[Len(q) + 1] = x
      /\ \A i \in 1 .. Len(q) : Append(q, x)[i] = q[i]
  OBVIOUS
<1> SUFFICES ASSUME NEW i \in 1 .. Len(q) + 1, NEW j \in 1 .. Len(q) + 1,
                    Append(q, x)[i] \in Flushers, Append(q, x)[j] \in due[Append(q, x)[i]]
             PROVE  j < i
  BY <1>1 DEF Ahead
<1>2. j # Len(q) + 1 BY <1>1
<1>3. CASE i = Len(q) + 1 BY <1>1, <1>2, <1>3
<1>4. CASE i # Len(q) + 1
  <2>1. i \in 1 .. Len(q) /\ j \in 1 .. Len(q) BY <1>1, <1>2, <1>4
  <2> QED BY <1>1, <2>1 DEF Ahead
<1> QED BY <1>3, <1>4

LEMMA AheadTail ==
  ASSUME NEW q \in Seq(Items), q # <<>>, NEW due, Ahead(q, due)
  PROVE  /\ Ahead(Tail(q), due)
         /\ Head(q) \in Flushers => due[Head(q)] \cap ToSet(Tail(q)) = {}
<1>1. /\ DOMAIN q = 1 .. Len(q) /\ Len(q) \in Nat /\ Len(q) > 0
      /\ DOMAIN Tail(q) = 1 .. Len(q) - 1
      /\ Head(q) = q[1]
      /\ \A i \in 1 .. Len(q) - 1 : Tail(q)[i] = q[i + 1] /\ i + 1 \in 1 .. Len(q)
  OBVIOUS
<1>2. Ahead(Tail(q), due)
  <2> SUFFICES ASSUME NEW i \in 1 .. Len(q) - 1, NEW j \in 1 .. Len(q) - 1,
                      Tail(q)[i] \in Flushers, Tail(q)[j] \in due[Tail(q)[i]]
               PROVE  j < i
    BY <1>1 DEF Ahead
  <2>1. j + 1 < i + 1 BY <1>1 DEF Ahead
  <2> QED BY <1>1, <2>1
<1>3. ASSUME Head(q) \in Flushers, NEW y \in due[Head(q)], y \in ToSet(Tail(q)) PROVE FALSE
  <2>1. PICK j \in 1 .. Len(q) - 1 : y = q[j + 1] BY <1>1, <1>3 DEF ToSet
  <2>2. j + 1 < 1 BY <1>1, <1>3, <2>1 DEF Ahead
  <2> QED BY <1>1, <2>1, <2>2
<1> QED BY <1>2, <1>3

\* An item that no flush() answers for joins the queue.
LEMMA AheadKept ==
  ASSUME TypeOK, AheadInv, UNCHANGED <<owes, markers>>, NEW x \in Items,
         \A f \in Flushers : x \notin owes[f],
         queue' = queue \/ queue' = Append(queue, x)
  PROVE  AheadInv'
<1>0. /\ queue \in Seq(Items) /\ owes \in [Flushers -> SUBSET Submitters]
      /\ markers \subseteq Flushers
  BY DEF TypeOK
<1>1. CASE queue' = queue BY <1>1 DEF AheadInv
<1>2. CASE queue' = Append(queue, x)
  <2>1. Ahead(queue', owes) BY <1>0, <1>2, AheadPut DEF AheadInv
  <2>2. ToSet(queue') = ToSet(queue) \cup {x} BY <1>0, <1>2, AppendFacts
  <2>3. \A f \in markers : owes[f] \cap ToSet(queue') = {} BY <1>0, <2>2 DEF AheadInv
  <2> QED BY <2>1, <2>3 DEF AheadInv
<1> QED BY <1>1, <1>2

\* The head of the queue leaves it, and is with the drain if it is a marker.
LEMMA AheadGet ==
  ASSUME TypeOK, AheadInv, UNCHANGED owes, queue # <<>>, queue' = Tail(queue),
         markers' \subseteq markers \cup ({Head(queue)} \cap Flushers)
  PROVE  AheadInv'
<1>0. queue \in Seq(Items) BY DEF TypeOK
<1>1. /\ Ahead(queue', owes)
      /\ Head(queue) \in Flushers => owes[Head(queue)] \cap ToSet(queue') = {}
  BY <1>0, AheadTail DEF AheadInv
<1>2. ToSet(queue) = ToSet(queue') \cup {Head(queue)} BY <1>0, TailFacts
<1>3. \A f \in markers' : owes[f] \cap ToSet(queue') = {} BY <1>1, <1>2 DEF AheadInv
<1> QED BY <1>1, <1>3 DEF AheadInv

LEMMA AheadDrain ==
  ASSUME TypeOK, AheadInv, Drain
  PROVE  AheadInv'
<1>0. UNCHANGED owes BY DrainShape DEF DrainUnchanged, callVars, flushVars
<1>d. SHUTDOWN \in Items /\ \A f \in Flushers : SHUTDOWN \notin owes[f]
  BY ThreadsAssumption DEF Items, Callers, TypeOK
<1>1. CASE DrainGet
  <2>1. CASE GetEmpty BY <1>0, <2>1 DEF GetEmpty, AheadInv
  <2>2. CASE GetMarker BY <1>0, <2>2, AheadGet DEF GetMarker, NextIs
  <2>3. CASE GetSentinel BY <1>0, <2>3, AheadGet DEF GetSentinel, NextIs
  <2>4. CASE GetSubmission BY <1>0, <2>4, AheadGet DEF GetSubmission, NextIs
  <2> QED BY <1>1, <2>1, <2>2, <2>3, <2>4 DEF DrainGet
<1>2. CASE DrainFinal
  <2>1. CASE FinalEmpty BY <1>0, <2>1 DEF FinalEmpty, AheadInv
  <2>2. CASE FinalMarker BY <1>0, <2>2, AheadGet DEF FinalMarker, NextIs
  <2>3. CASE FinalSentinel BY <1>0, <2>3, AheadGet DEF FinalSentinel, NextIs
  <2>4. CASE FinalSubmission BY <1>0, <2>4, AheadGet DEF FinalSubmission, NextIs
  <2> QED BY <1>2, <2>1, <2>2, <2>3, <2>4 DEF DrainFinal
<1>3. CASE EmitSentinel
  <2>1. UNCHANGED markers /\ (queue' = queue \/ queue' = Append(queue, SHUTDOWN))
    BY <1>3 DEF EmitSentinel
  <2> QED BY <1>0, <1>d, <2>1, AheadKept
<1>4. CASE ~DrainGet /\ ~DrainFinal /\ ~EmitSentinel
  <2>1. UNCHANGED queue /\ (UNCHANGED markers \/ markers' = {})
    BY <1>4 DEF Drain, DrainSteps, DrainTop, DrainTake, EmitBackoff, DrainJudge, DrainAnswer,
         RunFinish, RunSettle, RunTerminal, RunSweepTaken, RunSweepQueue, EmitReturns, EmitOk,
         EmitFail, EmitDie, EmitShutdown
  <2> QED BY <1>0, <2>1 DEF AheadInv
<1> QED BY <1>1, <1>2, <1>3, <1>4

LEMMA AheadStep ==
  ASSUME TypeOK, WaiterInv, AcceptedInv, AheadInv, [Next]_vars
  PROVE  AheadInv'
<1>0. owes \in [Flushers -> SUBSET Submitters] /\ markers \subseteq Flushers BY DEF TypeOK
<1>1. ASSUME NEW s \in Submitters, Submit(s) PROVE AheadInv'
  <2>1. UNCHANGED <<owes, markers>>
    BY <1>1 DEF Submit, SubmitRead, SubmitPut, SubmitRecheck, flushVars, drainVars
  <2>2. s \in Items BY DEF Items
  <2>3. CASE SubmitPut(s)
    <3>1. \A f \in Flushers : s \notin owes[f]
      BY <2>3 DEF SubmitPut, At, AcceptedInv, Accepted
    <3> QED BY <1>1, <2>1, <2>2, <3>1, AheadKept, SubmitQueue
  <2>4. CASE ~SubmitPut(s)
    <3>1. UNCHANGED queue BY <1>1, <2>4 DEF Submit, SubmitRead, SubmitRecheck
    <3> QED BY <2>1, <3>1 DEF AheadInv
  <2> QED BY <2>3, <2>4
<1>2. ASSUME NEW f \in Flushers, Flush(f) PROVE AheadInv'
  <2>1. UNCHANGED markers BY <1>2, FlushShape DEF FlushUnchanged, drainVars
  <2>2. f \in Items /\ \A g \in Flushers : f \notin owes[g]
    BY <1>0, ThreadsAssumption DEF Items
  <2>3. CASE FlushStamp(f)
    <3>1. /\ owes' = [owes EXCEPT ![f] = Backlog] /\ UNCHANGED queue /\ pc[f] = "stamp"
      BY <2>3 DEF FlushStamp, At
    <3>2. ~posted[f] BY <3>1 DEF WaiterInv, MarkerInv
    <3>3. f \notin QueuedMarkers /\ f \notin markers BY <3>2 DEF WaiterInv, MarkerInv
    <3>4. \A i \in DOMAIN queue : queue[i] # f BY <3>3 DEF QueuedMarkers, ToSet
    <3>5. \A g \in Flushers \ {f} : owes'[g] = owes[g] BY <1>0, <3>1
    <3>6. Ahead(queue', owes') BY <3>1, <3>4, <3>5 DEF AheadInv, Ahead
    <3>7. \A g \in markers' : owes'[g] \cap ToSet(queue') = {}
      BY <1>0, <2>1, <3>1, <3>3, <3>5 DEF AheadInv
    <3> QED BY <3>6, <3>7 DEF AheadInv
  <2>4. CASE ~FlushStamp(f)
    <3>1. UNCHANGED owes
      BY <1>2, <2>4 DEF Flush, FlushGate, FlushAlive, FlushPut, FlushExpired, FlushGivenUp,
              FlushSettled, FlushFailed, FlushAnswered, FlushWait, FlushVerdict
    <3>2. queue' = queue \/ queue' = Append(queue, f) BY <1>2, FlushQueue
    <3> QED BY <2>1, <2>2, <3>1, <3>2, AheadKept
  <2> QED BY <2>3, <2>4
<1>3. ASSUME NEW p \in Stoppers, Stop(p) PROVE AheadInv'
  <2>1. UNCHANGED <<owes, markers>> BY <1>3, StopShape DEF StopUnchanged, flushVars, drainVars
  <2>2. SHUTDOWN \in Items /\ \A f \in Flushers : SHUTDOWN \notin owes[f]
    BY <1>0, ThreadsAssumption DEF Items, Callers
  <2> QED BY <1>3, <2>1, <2>2, AheadKept, StopQueue
<1>4. CASE UNCHANGED vars
  BY <1>4 DEF vars, callVars, flushVars, drainVars, AheadInv
<1> QED BY <1>1, <1>2, <1>3, <1>4, AheadDrain DEF Next, Terminated

LEMMA VerdictKept ==
  ASSUME TypeOK, VerdictInv, UNCHANGED <<delivered, result, posted, owes>>,
         ToSet(sunk) \subseteq ToSet(sunk')
  PROVE  VerdictInv'
  BY DEF VerdictInv

\* When the drain judges its markers, what they answer for is neither pending nor queued.
LEMMA VerdictJudge ==
  ASSUME TypeOK, WaiterInv, RunInv, PromiseInv, DrainJudge
  PROVE  VerdictInv'
<1>0. UNCHANGED <<result, posted, owes, sunk>>
  BY DEF DrainJudge, DrainUnchanged, callVars, flushVars, sinkVars
<1>1. pending = <<>> BY DEF DrainJudge, RunInv
<1>2. ASSUME NEW f \in markers, failed = seen[f] PROVE posted[f] /\ owes[f] \subseteq ToSet(sunk)
  <2>1. f \in Flushers BY DEF TypeOK
  <2>2. posted[f] BY DEF WaiterInv, MarkerInv
  <2>3. owes[f] \cap ToSet(queue) = {} BY DEF PromiseInv, AheadInv
  <2>4. failed \in Nat BY DEF TypeOK
  <2>5. ~(failed > seen[f]) BY <1>2, <2>4
  <2>6. owes[f] \subseteq ToSet(sunk) \cup Backlog BY <2>1, <2>5 DEF PromiseInv, LedgerInv
  <2>7. Backlog = ToSet(queue) \cap Submitters BY <1>1 DEF Backlog, ToSet
  <2> QED BY <2>2, <2>3, <2>6, <2>7
<1>3. ASSUME NEW f \in Flushers, delivered'[f] \/ result'[f] = "ok"
      PROVE  posted'[f] /\ owes'[f] \subseteq ToSet(sunk')
  <2>1. delivered'[f] = IF f \in markers THEN failed = seen[f] ELSE delivered[f]
    BY DEF DrainJudge
  <2>2. CASE result'[f] = "ok" BY <1>0, <2>2 DEF PromiseInv, VerdictInv
  <2>3. CASE f \in markers /\ delivered'[f] BY <1>0, <1>2, <2>1, <2>3
  <2>4. CASE f \notin markers /\ delivered'[f]
    BY <1>0, <2>1, <2>4 DEF PromiseInv, VerdictInv
  <2> QED BY <1>3, <2>2, <2>3, <2>4
<1> QED BY <1>3 DEF VerdictInv

LEMMA VerdictStep ==
  ASSUME TypeOK, WaiterInv, RunInv, PromiseInv, [Next]_vars
  PROVE  VerdictInv'
<1>0. VerdictInv BY DEF PromiseInv
<1>1. ASSUME NEW s \in Submitters, Submit(s) PROVE VerdictInv'
  <2>1. UNCHANGED <<delivered, result, posted, owes, sunk>>
    BY <1>1 DEF Submit, SubmitRead, SubmitPut, SubmitRecheck, markerVars, flushVars, sinkVars
  <2> QED BY <1>0, <2>1, VerdictKept
<1>2. ASSUME NEW f \in Flushers, Flush(f) PROVE VerdictInv'
  <2>0. /\ owes \in [Flushers -> SUBSET Submitters] /\ posted \in [Flushers -> BOOLEAN]
        /\ result \in [Flushers -> Results]
    BY DEF TypeOK
  <2>1. UNCHANGED <<delivered, sunk>> BY <1>2, FlushShape DEF FlushUnchanged, sinkVars
  <2>2. CASE FlushStamp(f)
    <3>1. /\ pc[f] = "stamp" /\ UNCHANGED <<posted, result>>
          /\ owes' = [owes EXCEPT ![f] = Backlog]
      BY <2>2 DEF FlushStamp, At
    <3>2. ~posted[f] BY <3>1 DEF WaiterInv, MarkerInv
    <3>3. ~delivered[f] /\ result[f] # "ok" BY <1>0, <3>2 DEF VerdictInv
    <3>4. \A g \in Flushers \ {f} : owes'[g] = owes[g] BY <2>0, <3>1
    <3> QED BY <1>0, <2>1, <3>1, <3>3, <3>4 DEF VerdictInv
  <2>3. CASE FlushVerdict(f)
    <3>1. /\ UNCHANGED <<posted, owes>>
          /\ result' = [result EXCEPT ![f] = IF delivered[f] THEN "ok" ELSE "abandoned"]
      BY <2>3 DEF FlushVerdict, Return
    <3>2. \A g \in Flushers : result'[g] = "ok" => result[g] = "ok" \/ delivered[g]
      BY <2>0, <3>1
    <3> QED BY <1>0, <2>1, <3>1, <3>2 DEF VerdictInv
  <2>4. CASE FlushPut(f)
    <3>1. /\ UNCHANGED <<result, owes>>
          /\ posted' = posted \/ posted' = [posted EXCEPT ![f] = TRUE]
      BY <2>4 DEF FlushPut
    <3>2. \A g \in Flushers : posted[g] => posted'[g] BY <2>0, <3>1
    <3> QED BY <1>0, <2>1, <3>1, <3>2 DEF VerdictInv
  <2>5. CASE ~FlushStamp(f) /\ ~FlushVerdict(f) /\ ~FlushPut(f)
    <3>1. UNCHANGED <<posted, owes>>
      BY <1>2, <2>5 DEF Flush, FlushGate, FlushAlive, FlushExpired, FlushGivenUp,
              FlushSettled, FlushFailed, FlushAnswered, FlushWait
    <3>2. \/ UNCHANGED result
          \/ \E why \in Results \ {"ok"} : result' = [result EXCEPT ![f] = why]
      BY <1>2, <2>5 DEF Flush, FlushGate, FlushAlive, FlushExpired, FlushGivenUp, AfterGivenUp,
              FlushSettled, FlushFailed, FlushAnswered, FlushWait, Return, Results
    <3>3. \A g \in Flushers : result'[g] = "ok" => result[g] = "ok" BY <2>0, <3>2
    <3> QED BY <1>0, <2>1, <3>1, <3>3 DEF VerdictInv
  <2> QED BY <2>2, <2>3, <2>4, <2>5
<1>3. ASSUME NEW p \in Stoppers, Stop(p) PROVE VerdictInv'
  <2>1. UNCHANGED <<delivered, result, posted, owes, sunk>>
    BY <1>3, StopShape DEF StopUnchanged, flushVars, sinkVars
  <2> QED BY <1>0, <2>1, VerdictKept
<1>4. ASSUME Drain PROVE VerdictInv'
  <2>0. UNCHANGED <<result, posted, owes>>
    BY <1>4, DrainShape DEF DrainUnchanged, callVars, flushVars
  <2>1. CASE DrainJudge BY <2>1, VerdictJudge
  <2>2. CASE ~DrainJudge
    <3>1. UNCHANGED delivered
      BY <1>4, <2>2 DEF Drain, DrainSteps, DrainTop, DrainGet, GetEmpty, GetMarker, GetSentinel,
         GetSubmission, DrainFinal, FinalEmpty, FinalMarker, FinalSentinel, FinalSubmission,
         DrainTake, EmitBackoff, EmitSentinel, DrainAnswer, RunFinish, RunSettle,
         RunTerminal, RunSweepTaken, RunSweepQueue, EmitReturns, EmitOk, EmitFail, EmitDie,
         EmitShutdown, GetUnchanged
    <3>2. ToSet(sunk) \subseteq ToSet(sunk')
      <4>1. sunk \in Seq(Submitters) /\ pending \in Seq(Submitters) BY DEF TypeOK
      <4>2. CASE EmitOk BY <4>1, <4>2, ToSetConcat DEF EmitOk
      <4>3. CASE UNCHANGED sunk BY <4>3
      <4> QED BY <1>4, <4>2, <4>3, DrainBacklog
    <3> QED BY <1>0, <2>0, <3>1, <3>2, VerdictKept
  <2> QED BY <2>1, <2>2
<1>5. CASE UNCHANGED vars
  <2>1. UNCHANGED <<delivered, result, posted, owes, sunk>>
    BY <1>5 DEF vars, markerVars, callVars, flushVars, sinkVars
  <2> QED BY <1>0, <2>1, VerdictKept
<1> QED BY <1>1, <1>2, <1>3, <1>4, <1>5 DEF Next, Terminated

LEMMA PromiseStep ==
  TypeOK /\ WaiterInv /\ LossInv /\ PromiseInv /\ [Next]_vars => PromiseInv'
  BY AcceptedStep, LedgerStep, AheadStep, VerdictStep DEF PromiseInv, LossInv

LEMMA PromiseInit == Init => PromiseInv
  BY DEF Init, PromiseInv, AcceptedInv, LedgerInv, AheadInv, VerdictInv, Ahead, Backlog, ToSet

\* A truthy flush() is true for any number of submitters, flushes and stoppers, any queue bound,
\* batch size and number of retries: every submission that was accepted and unsettled when its
\* marker was stamped has been carried by an emit that returned (flush, _drain, _final_drain,
\* _nothing_lost_since).
THEOREM FlushTells == Spec => []FlushKeepsPromise
<1>1. PromiseInv => FlushKeepsPromise BY DEF PromiseInv, VerdictInv, FlushKeepsPromise
<1> QED BY <1>1, PromiseInit, PromiseStep, LossInit, LossStep, SentinelInit, SentinelStep,
           GateInit, GateStep, WaiterInit, WaiterStep, TypeCorrect, PTL DEF Spec

=============================================================================
