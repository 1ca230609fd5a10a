------------------------------- MODULE Worker -------------------------------
(***************************************************************************)
(* The background worker of src/log_foundry/worker.py: a bounded queue, the *)
(* daemon thread that drains it into a sink, and the three calls other      *)
(* threads make on it, submit(), flush() and stop() (the last through       *)
(* shutdown()).  The sink is external: an emit may return, raise, end the   *)
(* thread, call shutdown() itself, or never return.                         *)
(*                                                                         *)
(* One step is one access to state another thread can see: an operation on  *)
(* the queue, a critical section, a read or a write of a threading.Event.   *)
(* Accesses are joined in one step only where the second cannot be told     *)
(* from the first by any other thread; the comments say where.              *)
(*                                                                         *)
(* Clocks are not modelled.  A call with a finite timeout is a member of    *)
(* Bounded and may find its deadline passed at any moment.                  *)
(***************************************************************************)
EXTENDS Integers, Sequences, FiniteSets, SequencesExt

CONSTANTS
    Submitters,     \* threads that call submit(), once each; names the submission too
    Flushers,       \* threads that call flush(), once each; names its marker too
    Stoppers,       \* threads that call shutdown(), once each
    LateStoppers,   \* the ones that met this worker as a late worker
    Bounded,        \* the flush() and shutdown() calls with a finite timeout
    MaxQueue,       \* max_queue; 0 is queue.Queue's "unbounded"
    BatchSize,      \* batch_size
    MaxRetries,     \* max_retries
    Reentrant,      \* whether the sink's emit may call shutdown()
    SHUTDOWN,       \* the sentinel _SHUTDOWN
    DrainThread,    \* the drain thread, as the caller of a shutdown() made by its sink
    None            \* Python's None

Callers == Submitters \cup Flushers \cup Stoppers

ASSUME ThreadsAssumption ==
    /\ Submitters \cap Flushers = {}
    /\ Submitters \cap Stoppers = {}
    /\ Flushers \cap Stoppers = {}
    /\ {SHUTDOWN, DrainThread, None} \cap Callers = {}
    /\ SHUTDOWN # None /\ DrainThread # None
    /\ LateStoppers \subseteq Stoppers
    /\ Bounded \subseteq Flushers \cup Stoppers

ASSUME SizesAssumption ==
    /\ MaxQueue \in Nat
    /\ BatchSize \in Nat
    /\ MaxRetries \in Nat
    /\ Reentrant \in BOOLEAN

VARIABLES
    retired,        \* _lifecycle_state.retirements > self._epoch
    queue,          \* _queue
    stop,           \* _stop is set
    finished,       \* _drain_finished is set
    settled,        \* _drain_settled is set
    stopped,        \* _stopped
    exitDeadline,   \* _exit_deadline: the caller whose deadline it is, or None
    joinOwed,       \* _join_owed
    joinTakenOver,  \* _join_taken_over
    failed,         \* failed_batches
    dropped,        \* the submissions counted in dropped
    undeliverable,  \* the submissions counted in submitted_after_shutdown
    reason,         \* stopped_reason
    taken,          \* _taken_markers
    event,          \* marker.event is set
    delivered,      \* marker.delivered
    seen,           \* marker.seen_failures
    dpc,            \* where the drain thread is
    pending,        \* _run's pending
    markers,        \* the markers the drain has taken off the queue and not answered
    closing,        \* the drain is in _final_drain
    attempt,        \* _emit's attempt
    dying,          \* a BaseException is ending the drain thread
    pc,             \* where each caller is
    sawRetired,     \* submit's local `retired`
    posted,         \* flush's marker is on the queue
    givenUp,        \* flush's local `given_up`
    result,         \* flush's FlushResult
    sunk,           \* history: the submissions a returned emit carried, in order
    lost,           \* history: the submissions of batches counted in failed_batches
    owes            \* history: what flush() must see delivered, see FlushStamp

gateVars   == <<stopped, exitDeadline, joinOwed, joinTakenOver>>
flagVars   == <<stop, finished, settled>>
markerVars == <<taken, event, delivered, seen>>
countVars  == <<failed, dropped, undeliverable, reason>>
drainVars  == <<dpc, pending, markers, closing, attempt, dying>>
flushVars  == <<posted, givenUp, result, owes>>
sinkVars   == <<sunk, lost>>
callVars   == <<pc, sawRetired, flushVars>>
vars == <<retired, queue, gateVars, flagVars, markerVars, countVars, drainVars,
          callVars, sinkVars>>

----------------------------------------------------------------------------
Items    == Submitters \cup Flushers \cup {SHUTDOWN}
Results  == {"ok", "retired", "thread-died", "queue-full", "timed-out", "abandoned", "none"}
Reasons  == {"none", "ShutdownTimeout", "died"}
DrainPCs == {"top", "get", "take", "emit", "backoff", "rsentinel", "judge", "answer",
             "final", "finish", "settle", "terminal", "sweepTaken", "sweepQueue", "dead"}
CallPCs  == {"idle", "done",
             "put", "recheck",
             "alive", "stamp", "gaveUp1", "gaveUp2", "settled1", "settled2", "settled3",
             "settled4", "expired", "failed", "answered", "verdict", "wait",
             "claim", "lost", "sentinel", "putSentinel", "setStop", "join", "timedOut",
             "blame", "settle", "sweepTaken", "sweepQueue"}

Room  == MaxQueue = 0 \/ Len(queue) < MaxQueue
Alive == dpc # "dead"

\* Faulty variant: a call without a timeout records a deadline too.
Deadline_Always(c) == c

Deadline(c) == IF c \in Bounded THEN c ELSE None

At(c, here)    == pc[c] = here
Goto(c, there) == pc' = [pc EXCEPT ![c] = there]

Init ==
    /\ retired = FALSE
    /\ queue = <<>>
    /\ stop = FALSE
    /\ finished = FALSE
    /\ settled = FALSE
    /\ stopped = FALSE
    /\ exitDeadline = None
    /\ joinOwed = FALSE
    /\ joinTakenOver = FALSE
    /\ failed = 0
    /\ dropped = {}
    /\ undeliverable = {}
    /\ reason = "none"
    /\ taken = {}
    /\ event = [f \in Flushers |-> FALSE]
    /\ delivered = [f \in Flushers |-> FALSE]
    /\ seen = [f \in Flushers |-> 0]
    /\ dpc = "top"
    /\ pending = <<>>
    /\ markers = {}
    /\ closing = FALSE
    /\ attempt = 0
    /\ dying = FALSE
    /\ pc = [c \in Callers |-> "idle"]
    /\ sawRetired = [s \in Submitters |-> FALSE]
    /\ posted = [f \in Flushers |-> FALSE]
    /\ givenUp = [f \in Flushers |-> FALSE]
    /\ result = [f \in Flushers |-> "none"]
    /\ sunk = <<>>
    /\ lost = {}
    /\ owes = [f \in Flushers |-> {}]

----------------------------------------------------------------------------
(* submit(events)                                                          *)

\* The unlocked read of the retirement count, and _count_undeliverable().
SubmitRead(s) ==
    /\ At(s, "idle")
    /\ sawRetired' = [sawRetired EXCEPT ![s] = retired]
    /\ undeliverable' = IF retired THEN undeliverable \cup {s} ELSE undeliverable
    /\ Goto(s, "put")
    /\ UNCHANGED <<retired, queue, gateVars, flagVars, markerVars, failed, dropped, reason,
                   drainVars, flushVars, sinkVars>>

\* put_nowait.  A full queue drops the submission and returns.
SubmitPut(s) ==
    /\ At(s, "put")
    /\ IF Room
       THEN /\ queue' = Append(queue, s)
            /\ Goto(s, IF sawRetired[s] THEN "done" ELSE "recheck")
            /\ UNCHANGED dropped
       ELSE /\ dropped' = dropped \cup {s}
            /\ Goto(s, "done")
            /\ UNCHANGED queue
    /\ UNCHANGED <<retired, gateVars, flagVars, markerVars, failed, undeliverable, reason,
                   drainVars, sawRetired, flushVars, sinkVars>>

\* Faulty variant: the second read is forgotten.
SubmitRecheck_Forgotten(s) ==
    /\ At(s, "recheck")
    /\ Goto(s, "done")
    /\ UNCHANGED <<retired, queue, gateVars, flagVars, markerVars, countVars,
                   drainVars, sawRetired, flushVars, sinkVars>>

\* The count is read again after the put.
SubmitRecheck(s) ==
    /\ At(s, "recheck")
    /\ undeliverable' = IF retired THEN undeliverable \cup {s} ELSE undeliverable
    /\ Goto(s, "done")
    /\ UNCHANGED <<retired, queue, gateVars, flagVars, markerVars, failed, dropped, reason,
                   drainVars, sawRetired, flushVars, sinkVars>>

Submit(s) == SubmitRead(s) \/ SubmitPut(s) \/ SubmitRecheck(s)

----------------------------------------------------------------------------
(* flush(timeout)                                                          *)

Return(f, why) == Goto(f, "done") /\ result' = [result EXCEPT ![f] = why]

FlushUnchanged == UNCHANGED <<retired, gateVars, flagVars, taken, event, delivered, countVars,
                              drainVars, sawRetired, sinkVars>>

FlushGate(f) ==
    /\ At(f, "idle")
    /\ IF retired THEN Return(f, "retired") ELSE Goto(f, "alive") /\ UNCHANGED result
    /\ FlushUnchanged /\ UNCHANGED <<queue, seen, posted, givenUp, owes>>

FlushAlive(f) ==
    /\ At(f, "alive")
    /\ IF Alive THEN Goto(f, "stamp") /\ UNCHANGED result ELSE Return(f, "thread-died")
    /\ FlushUnchanged /\ UNCHANGED <<queue, seen, posted, givenUp, owes>>

\* The accepted submissions no emit has settled yet.
Backlog == ToSet(pending) \cup (ToSet(queue) \cap Submitters)

\* _FlushMarker(self.failed_batches), under the lock.  This is the moment the call's promise
\* counts from: what is accepted and unsettled now is what an ok result must find delivered.
FlushStamp(f) ==
    /\ At(f, "stamp")
    /\ seen' = [seen EXCEPT ![f] = failed]
    /\ owes' = [owes EXCEPT ![f] = Backlog]
    /\ Goto(f, "put")
    /\ FlushUnchanged /\ UNCHANGED <<queue, posted, givenUp, result>>

\* One turn of _put_marker's loop: the put, or Full and a look at whether to go on.
FlushPut(f) ==
    /\ At(f, "put")
    /\ IF Room
       THEN /\ queue' = Append(queue, f)
            /\ posted' = [posted EXCEPT ![f] = TRUE]
            /\ Goto(f, "gaveUp1")
       ELSE Goto(f, "settled1") /\ UNCHANGED <<queue, posted>>
    /\ FlushUnchanged /\ UNCHANGED <<seen, givenUp, result, owes>>

\* Faulty variant: the loop ends only with the room or the drain.
FlushExpired_NoDeadline(f) ==
    /\ At(f, "expired")
    /\ Goto(f, "put")
    /\ FlushUnchanged /\ UNCHANGED <<queue, seen, posted, givenUp, result, owes>>

\* _put_marker's deadline test: out of time, or round again.
FlushExpired(f) ==
    /\ At(f, "expired")
    /\ \/ Goto(f, "put")
       \/ f \in Bounded /\ Goto(f, "gaveUp1")
    /\ FlushUnchanged /\ UNCHANGED <<queue, seen, posted, givenUp, result, owes>>

\* _given_up() reads two events, one after the other: settled, and if set, finished.
AfterGivenUp(f, answer) ==
    /\ givenUp' = [givenUp EXCEPT ![f] = answer]
    /\ CASE posted[f]             -> Goto(f, "settled1") /\ UNCHANGED result
         [] ~posted[f] /\ answer  -> Return(f, "abandoned")
         [] ~posted[f] /\ ~answer -> Goto(f, "failed") /\ UNCHANGED result

FlushGivenUp(f) ==
    /\ \/ /\ At(f, "gaveUp1")
          /\ IF settled THEN Goto(f, "gaveUp2") /\ UNCHANGED <<givenUp, result>>
                        ELSE AfterGivenUp(f, FALSE)
       \/ /\ At(f, "gaveUp2")
          /\ AfterGivenUp(f, ~finished)
    /\ FlushUnchanged /\ UNCHANGED <<queue, seen, posted, owes>>

\* _settled() reads finished, then settled and finished (_given_up), then is_alive().
WhenSettled(f)  == Goto(f, IF posted[f] THEN "answered" ELSE "gaveUp1")
WhenDraining(f) == Goto(f, IF posted[f] THEN "wait" ELSE "expired")

FlushSettled(f) ==
    /\ \/ At(f, "settled1") /\ IF finished THEN WhenSettled(f) ELSE Goto(f, "settled2")
       \/ At(f, "settled2") /\ Goto(f, IF settled THEN "settled3" ELSE "settled4")
       \/ At(f, "settled3") /\ IF ~finished THEN WhenSettled(f) ELSE Goto(f, "settled4")
       \/ At(f, "settled4") /\ IF ~Alive THEN WhenSettled(f) ELSE WhenDraining(f)
    /\ FlushUnchanged /\ UNCHANGED <<queue, seen, posted, givenUp, result, owes>>

\* The marker was never queued and the drain was not given up on.  A thread that is not alive
\* has set finished, so reading finished stands for both tests.
FlushFailed(f) ==
    /\ At(f, "failed")
    /\ Return(f, IF finished THEN "thread-died" ELSE "queue-full")
    /\ FlushUnchanged /\ UNCHANGED <<queue, seen, posted, givenUp, owes>>

\* answered = marker.event.is_set(), on the settled branch.
FlushAnswered(f) ==
    /\ At(f, "answered")
    /\ IF event[f] THEN Goto(f, "verdict") /\ UNCHANGED result
                   ELSE Return(f, IF givenUp[f] THEN "abandoned" ELSE "thread-died")
    /\ FlushUnchanged /\ UNCHANGED <<queue, seen, posted, givenUp, owes>>

\* marker.event.wait(remaining).
FlushWait(f) ==
    /\ At(f, "wait")
    /\ \/ event[f] /\ Goto(f, "verdict") /\ UNCHANGED result
       \/ ~event[f] /\ f \in Bounded /\ Return(f, "timed-out")
    /\ FlushUnchanged /\ UNCHANGED <<queue, seen, posted, givenUp, owes>>

\* The read of marker.delivered both branches end with.
FlushVerdict(f) ==
    /\ At(f, "verdict")
    /\ Return(f, IF delivered[f] THEN "ok" ELSE "abandoned")
    /\ FlushUnchanged /\ UNCHANGED <<queue, seen, posted, givenUp, owes>>

Flush(f) ==
    \/ FlushGate(f) \/ FlushAlive(f) \/ FlushStamp(f) \/ FlushPut(f) \/ FlushExpired(f)
    \/ FlushGivenUp(f) \/ FlushSettled(f) \/ FlushFailed(f) \/ FlushAnswered(f)
    \/ FlushWait(f) \/ FlushVerdict(f)

----------------------------------------------------------------------------
(* claim_stop(deadline), one critical section                              *)

Claims(onDrainThread) == ~stopped \/ (joinOwed /\ ~onDrainThread)

\* Faulty variant: a caller that loses the gate records its deadline as well.
ClaimStop_LoserRecords(onDrainThread, deadline) ==
    /\ stopped' = TRUE
    /\ exitDeadline' = deadline
    /\ IF Claims(onDrainThread)
       THEN /\ joinTakenOver' = (joinTakenOver \/ stopped)
            /\ joinOwed' = (~stopped /\ onDrainThread)
       ELSE UNCHANGED <<joinTakenOver, joinOwed>>

ClaimStop(onDrainThread, deadline) ==
    /\ stopped' = TRUE
    /\ IF Claims(onDrainThread)
       THEN /\ exitDeadline' = deadline
            /\ joinTakenOver' = (joinTakenOver \/ stopped)
            /\ joinOwed' = (~stopped /\ onDrainThread)
       ELSE UNCHANGED <<exitDeadline, joinTakenOver, joinOwed>>

(* _release_waiters(): the markers the drain has taken, then the markers    *)
(* still queued.  Each snapshot is joined with the event.set() calls it     *)
(* leads to: an event is only ever set, so setting it late is a longer wait. *)
Answer(marks) == event' = [f \in Flushers |-> event[f] \/ f \in marks]
QueuedMarkers == ToSet(queue) \cap Flushers

(* shutdown() -> stop(timeout)                                             *)

StopUnchanged == UNCHANGED <<failed, dropped, undeliverable, taken, delivered, seen, drainVars,
                             sawRetired, flushVars, sinkVars>>

\* _shutdown_worker's critical section: the count, the claim and the stop event.
StopRetire(p) ==
    /\ At(p, "idle")
    /\ p \notin LateStoppers
    /\ retired' = TRUE
    /\ stop' = TRUE
    /\ ClaimStop(FALSE, Deadline(p))
    /\ Goto(p, IF Claims(FALSE) THEN "sentinel" ELSE "lost")
    /\ StopUnchanged /\ UNCHANGED <<queue, finished, settled, event, reason>>

\* A late worker is retired by the second move of the count...
StopRetireLate(p) ==
    /\ At(p, "idle")
    /\ p \in LateStoppers
    /\ retired' = TRUE
    /\ Goto(p, "claim")
    /\ StopUnchanged /\ UNCHANGED <<queue, gateVars, flagVars, event, reason>>

\* ... and stop() claims for itself, the stop event still clear.
StopClaimLate(p) ==
    /\ At(p, "claim")
    /\ ClaimStop(FALSE, Deadline(p))
    /\ Goto(p, IF Claims(FALSE) THEN "sentinel" ELSE "lost")
    /\ StopUnchanged /\ UNCHANGED <<retired, queue, flagVars, event, reason>>

\* A caller that lost the gate waits for the drain to settle, within its own timeout.
StopLost(p) ==
    /\ At(p, "lost")
    /\ settled \/ p \in Bounded
    /\ Goto(p, "done")
    /\ StopUnchanged /\ UNCHANGED <<retired, queue, gateVars, flagVars, event, reason>>

\* Faulty variant: the caller that takes the join over queues a sentinel of its own.
StopSentinel_TakerToo(p) ==
    /\ At(p, "sentinel")
    /\ Goto(p, IF finished THEN "setStop" ELSE "putSentinel")
    /\ StopUnchanged /\ UNCHANGED <<retired, queue, gateVars, flagVars, event, reason>>

\* Whether the sentinel is needed, then put_nowait(_SHUTDOWN); a full queue skips it.
StopSentinel(p) ==
    /\ At(p, "sentinel")
    /\ Goto(p, IF finished \/ joinTakenOver THEN "setStop" ELSE "putSentinel")
    /\ StopUnchanged /\ UNCHANGED <<retired, queue, gateVars, flagVars, event, reason>>

StopPutSentinel(p) ==
    /\ At(p, "putSentinel")
    /\ queue' = IF Room THEN Append(queue, SHUTDOWN) ELSE queue
    /\ Goto(p, "setStop")
    /\ StopUnchanged /\ UNCHANGED <<retired, gateVars, flagVars, event, reason>>

StopSetStop(p) ==
    /\ At(p, "setStop")
    /\ stop' = TRUE
    /\ Goto(p, "join")
    /\ StopUnchanged /\ UNCHANGED <<retired, queue, gateVars, finished, settled, event, reason>>

\* Faulty variant: the timeout is not passed to join().
StopJoin_NoTimeout(p) ==
    /\ At(p, "join")
    /\ ~Alive /\ Goto(p, "sweepTaken")
    /\ StopUnchanged /\ UNCHANGED <<retired, queue, gateVars, flagVars, event, reason>>

\* _thread.join(timeout).
StopJoin(p) ==
    /\ At(p, "join")
    /\ \/ ~Alive /\ Goto(p, "sweepTaken")
       \/ p \in Bounded /\ Goto(p, "timedOut")
    /\ StopUnchanged /\ UNCHANGED <<retired, queue, gateVars, flagVars, event, reason>>

\* is_alive() after the join; if so the expiry branch.
StopTimedOut(p) ==
    /\ At(p, "timedOut")
    /\ Goto(p, IF Alive THEN "blame" ELSE "sweepTaken")
    /\ StopUnchanged /\ UNCHANGED <<retired, queue, gateVars, flagVars, event, reason>>

StopBlame(p) ==
    /\ At(p, "blame")
    /\ reason' = IF reason = "none" THEN "ShutdownTimeout" ELSE reason
    /\ Goto(p, "settle")
    /\ StopUnchanged /\ UNCHANGED <<retired, queue, gateVars, flagVars, event>>

StopSettle(p) ==
    /\ At(p, "settle")
    /\ settled' = TRUE
    /\ Goto(p, "sweepTaken")
    /\ StopUnchanged /\ UNCHANGED <<retired, queue, gateVars, stop, finished, event, reason>>

StopSweepTaken(p) ==
    /\ At(p, "sweepTaken")
    /\ Answer(taken)
    /\ Goto(p, "sweepQueue")
    /\ StopUnchanged /\ UNCHANGED <<retired, queue, gateVars, flagVars, reason>>

\* Faulty variant: only the markers the drain has taken are released.
StopSweepQueue_Skipped(p) ==
    /\ At(p, "sweepQueue")
    /\ Goto(p, "done")
    /\ StopUnchanged /\ UNCHANGED <<retired, queue, gateVars, flagVars, event, reason>>

StopSweepQueue(p) ==
    /\ At(p, "sweepQueue")
    /\ Answer(QueuedMarkers)
    /\ Goto(p, "done")
    /\ StopUnchanged /\ UNCHANGED <<retired, queue, gateVars, flagVars, reason>>

Stop(p) ==
    \/ StopRetire(p) \/ StopRetireLate(p) \/ StopClaimLate(p) \/ StopLost(p)
    \/ StopSentinel(p) \/ StopPutSentinel(p) \/ StopSetStop(p) \/ StopJoin(p)
    \/ StopTimedOut(p) \/ StopBlame(p) \/ StopSettle(p)
    \/ StopSweepTaken(p) \/ StopSweepQueue(p)

----------------------------------------------------------------------------
(* The drain thread: _run, _drain, _final_drain, _emit                     *)

Move(there) == dpc' = there

DrainUnchanged == UNCHANGED <<dropped, undeliverable, seen, callVars>>

\* while not self._stop.is_set()
DrainTop ==
    /\ dpc = "top"
    /\ closing' = stop
    /\ Move(IF stop THEN "final" ELSE "get")
    /\ DrainUnchanged
    /\ UNCHANGED <<retired, queue, gateVars, flagVars, taken, event, delivered, failed, reason,
                   pending, markers, attempt, dying, sinkVars>>

\* Faulty variant: an elapsed interval emits nothing.
EmitOr_NoInterval(next, batch) == next

\* _emit_pending does nothing when nothing is pending.
EmitOr(next, batch) == IF batch = <<>> THEN next ELSE "emit"

\* The head of the queue is an item of this kind.
NextIs(kind) == queue # <<>> /\ Head(queue) \in kind

\* _queue.get(timeout), and what _drain does with the item before anyone else can look.
GetUnchanged == UNCHANGED <<retired, gateVars, flagVars, taken, event, delivered, failed, reason,
                            attempt, dying, sinkVars>>

\* Empty: the flush interval has elapsed.
GetEmpty ==
    /\ dpc = "get"
    /\ queue = <<>>
    /\ Move(EmitOr("top", pending))
    /\ DrainUnchanged /\ GetUnchanged /\ UNCHANGED <<queue, pending, markers, closing>>

\* A marker is about to be taken.
GetMarker ==
    /\ dpc = "get"
    /\ NextIs(Flushers)
    /\ queue' = Tail(queue)
    /\ markers' = {Head(queue)}
    /\ Move("take")
    /\ DrainUnchanged /\ GetUnchanged /\ UNCHANGED <<pending, closing>>

\* The sentinel ends the loop.
GetSentinel ==
    /\ dpc = "get"
    /\ NextIs({SHUTDOWN})
    /\ queue' = Tail(queue)
    /\ closing' = TRUE
    /\ Move("final")
    /\ DrainUnchanged /\ GetUnchanged /\ UNCHANGED <<pending, markers>>

\* A submission joins the batch, and a full batch or an elapsed interval emits it.
GetSubmission ==
    /\ dpc = "get"
    /\ NextIs(Submitters)
    /\ queue' = Tail(queue)
    /\ pending' = Append(pending, Head(queue))
    /\ \/ Move("emit")
       \/ Len(pending') < BatchSize /\ Move("top")
    /\ DrainUnchanged /\ GetUnchanged /\ UNCHANGED <<markers, closing>>

DrainGet == GetEmpty \/ GetMarker \/ GetSentinel \/ GetSubmission

\* _final_drain's get_nowait loop.
FinalEmpty ==
    /\ dpc = "final"
    /\ queue = <<>>
    /\ Move(EmitOr("judge", pending))
    /\ DrainUnchanged /\ GetUnchanged /\ UNCHANGED <<queue, pending, markers, closing>>

FinalMarker ==
    /\ dpc = "final"
    /\ NextIs(Flushers)
    /\ queue' = Tail(queue)
    /\ markers' = markers \cup {Head(queue)}
    /\ Move("take")
    /\ DrainUnchanged /\ GetUnchanged /\ UNCHANGED <<pending, closing>>

FinalSentinel ==
    /\ dpc = "final"
    /\ NextIs({SHUTDOWN})
    /\ queue' = Tail(queue)
    /\ DrainUnchanged /\ GetUnchanged /\ UNCHANGED <<dpc, pending, markers, closing>>

FinalSubmission ==
    /\ dpc = "final"
    /\ NextIs(Submitters)
    /\ queue' = Tail(queue)
    /\ pending' = Append(pending, Head(queue))
    /\ DrainUnchanged /\ GetUnchanged /\ UNCHANGED <<dpc, markers, closing>>

DrainFinal == FinalEmpty \/ FinalMarker \/ FinalSentinel \/ FinalSubmission

\* Faulty variant: a marker taken after an expired shutdown() has swept is not answered.
DrainTake_NoSettledRead ==
    /\ dpc = "take"
    /\ taken' = taken \cup markers
    /\ Move(IF closing THEN "final" ELSE EmitOr("judge", pending))
    /\ DrainUnchanged
    /\ UNCHANGED <<retired, queue, gateVars, flagVars, event, delivered, failed, reason,
                   pending, markers, closing, attempt, dying, sinkVars>>

\* _take_marker: the registration and the read of settled are one critical section.
DrainTake ==
    /\ dpc = "take"
    /\ taken' = taken \cup markers
    /\ Answer(IF settled THEN markers \ taken ELSE {})
    /\ Move(IF closing THEN "final" ELSE EmitOr("judge", pending))
    /\ DrainUnchanged
    /\ UNCHANGED <<retired, queue, gateVars, flagVars, delivered, failed, reason,
                   pending, markers, closing, attempt, dying, sinkVars>>

\* Faulty variant: no pending.clear().
AfterEmit_NoClear ==
    /\ attempt' = 0
    /\ Move(IF closing \/ markers # {} THEN "judge" ELSE "top")
    /\ UNCHANGED pending

\* _emit has returned: pending.clear(), the next call counts its attempts from zero, and on to
\* the markers or round again.
AfterEmit ==
    /\ pending' = <<>>
    /\ attempt' = 0
    /\ Move(IF closing \/ markers # {} THEN "judge" ELSE "top")

\* sink.emit(batch) returned.
EmitOk ==
    /\ dpc = "emit"
    /\ sunk' = sunk \o pending
    /\ AfterEmit
    /\ DrainUnchanged
    /\ UNCHANGED <<retired, queue, gateVars, flagVars, taken, event, delivered, failed, reason,
                   markers, closing, dying, lost>>

\* _emit counts the batch in failed_batches and returns as it does on success.
Abandon ==
    /\ failed' = failed + 1
    /\ lost' = lost \cup ToSet(pending)
    /\ AfterEmit

\* sink.emit(batch) raised an Exception.
EmitFail ==
    /\ dpc = "emit"
    /\ IF attempt >= MaxRetries THEN Abandon
                                ELSE /\ Move("backoff")
                                     /\ UNCHANGED <<failed, lost, pending, attempt>>
    /\ DrainUnchanged
    /\ UNCHANGED <<retired, queue, gateVars, flagVars, taken, event, delivered, reason,
                   markers, closing, dying, sunk>>

\* After the backoff, the stop's deadline is read: with one recorded, the next attempt may be
\* predicted to overrun it and is declined.
EmitBackoff ==
    /\ dpc = "backoff"
    /\ \/ /\ attempt' = attempt + 1
          /\ Move("emit")
          /\ UNCHANGED <<failed, lost, pending>>
       \/ /\ exitDeadline # None
          /\ Abandon
    /\ DrainUnchanged
    /\ UNCHANGED <<retired, queue, gateVars, flagVars, taken, event, delivered, reason,
                   markers, closing, dying, sunk>>

\* sink.emit(batch) raised a BaseException: no clear, no verdict; the finally clauses answer the
\* markers and the thread ends.
EmitDie ==
    /\ dpc = "emit"
    /\ dying' = TRUE
    /\ Move(IF markers # {} THEN "answer" ELSE "finish")
    /\ DrainUnchanged
    /\ UNCHANGED <<retired, queue, gateVars, flagVars, taken, event, delivered, failed, reason,
                   pending, markers, closing, attempt, sinkVars>>

\* sink.emit calls shutdown(): the critical section of StopRetire, on the drain thread, with a
\* timeout or without one.
EmitShutdown ==
    /\ Reentrant
    /\ dpc = "emit"
    /\ retired' = TRUE
    /\ stop' = TRUE
    /\ \E deadline \in {DrainThread, None} : ClaimStop(TRUE, deadline)
    /\ Move(IF Claims(TRUE) THEN "rsentinel" ELSE "emit")
    /\ DrainUnchanged
    /\ UNCHANGED <<queue, finished, settled, taken, event, delivered, failed, reason,
                   pending, markers, closing, attempt, dying, sinkVars>>

\* stop() on the drain thread queues the sentinel (finished is clear here: only this thread sets
\* it), sets the stop event and returns into the sink without joining.
EmitSentinel ==
    /\ dpc = "rsentinel"
    /\ queue' = IF Room THEN Append(queue, SHUTDOWN) ELSE queue
    /\ stop' = TRUE
    /\ Move("emit")
    /\ DrainUnchanged
    /\ UNCHANGED <<retired, gateVars, finished, settled, taken, event, delivered, failed, reason,
                   pending, markers, closing, attempt, dying, sinkVars>>

\* Faulty variant: an emit that gave up answers like one that delivered.
DrainJudge_Trusting ==
    /\ dpc = "judge"
    /\ delivered' = [f \in Flushers |-> f \in markers \/ delivered[f]]
    /\ Move("answer")
    /\ DrainUnchanged
    /\ UNCHANGED <<retired, queue, gateVars, flagVars, taken, event, failed, reason,
                   pending, markers, closing, attempt, dying, sinkVars>>

\* marker.delivered = self._nothing_lost_since(marker).  Only this thread writes failed_batches,
\* so _final_drain's markers are judged together.
DrainJudge ==
    /\ dpc = "judge"
    /\ delivered' = [f \in Flushers |-> IF f \in markers THEN failed = seen[f] ELSE delivered[f]]
    /\ Move("answer")
    /\ DrainUnchanged
    /\ UNCHANGED <<retired, queue, gateVars, flagVars, taken, event, failed, reason,
                   pending, markers, closing, attempt, dying, sinkVars>>

\* marker.event.set() and _release_marker(marker).
DrainAnswer ==
    /\ dpc = "answer"
    /\ Answer(markers)
    /\ taken' = taken \ markers
    /\ markers' = {}
    /\ Move(IF closing \/ dying THEN "finish" ELSE "top")
    /\ DrainUnchanged
    /\ UNCHANGED <<retired, queue, gateVars, flagVars, delivered, failed, reason,
                   pending, closing, attempt, dying, sinkVars>>

\* Faulty variant: the two events are set in the other order.
RunFinish_SettledFirst ==
    /\ dpc = "finish"
    /\ settled' = TRUE
    /\ Move("settle")
    /\ DrainUnchanged
    /\ UNCHANGED <<retired, queue, gateVars, stop, finished, taken, event, delivered, failed,
                   reason, pending, markers, closing, attempt, dying, sinkVars>>

\* _run's inner finally: _drain_finished first, then _drain_settled.
RunFinish ==
    /\ dpc = "finish"
    /\ finished' = TRUE
    /\ Move("settle")
    /\ DrainUnchanged
    /\ UNCHANGED <<retired, queue, gateVars, stop, settled, taken, event, delivered, failed,
                   reason, pending, markers, closing, attempt, dying, sinkVars>>

RunSettle ==
    /\ dpc = "settle"
    /\ settled' = TRUE
    /\ Move(IF dying THEN "terminal" ELSE "sweepTaken")
    /\ DrainUnchanged
    /\ UNCHANGED <<retired, queue, gateVars, stop, finished, taken, event, delivered, failed,
                   reason, pending, markers, closing, attempt, dying, sinkVars>>

\* _terminal_failure.
RunTerminal ==
    /\ dpc = "terminal"
    /\ reason' = "died"
    /\ Move("sweepTaken")
    /\ DrainUnchanged
    /\ UNCHANGED <<retired, queue, gateVars, flagVars, taken, event, delivered, failed,
                   pending, markers, closing, attempt, dying, sinkVars>>

\* Faulty variant: the thread ends without releasing the markers still queued.
RunSweepQueue_Skipped ==
    /\ dpc = "sweepQueue"
    /\ Move("dead")
    /\ DrainUnchanged
    /\ UNCHANGED <<retired, queue, gateVars, flagVars, taken, event, delivered, failed, reason,
                   pending, markers, closing, attempt, dying, sinkVars>>

\* _run's outer finally, after which the thread has ended.
RunSweepTaken ==
    /\ dpc = "sweepTaken"
    /\ Answer(taken)
    /\ Move("sweepQueue")
    /\ DrainUnchanged
    /\ UNCHANGED <<retired, queue, gateVars, flagVars, taken, delivered, failed, reason,
                   pending, markers, closing, attempt, dying, sinkVars>>

RunSweepQueue ==
    /\ dpc = "sweepQueue"
    /\ Answer(QueuedMarkers)
    /\ Move("dead")
    /\ DrainUnchanged
    /\ UNCHANGED <<retired, queue, gateVars, flagVars, taken, delivered, failed, reason,
                   pending, markers, closing, attempt, dying, sinkVars>>

EmitReturns == EmitOk \/ EmitFail \/ EmitDie

\* The drain thread's own code, which the interpreter keeps running; the sink's is EmitReturns.
DrainSteps ==
    \/ DrainTop \/ DrainGet \/ DrainFinal \/ DrainTake \/ EmitBackoff \/ EmitSentinel
    \/ DrainJudge \/ DrainAnswer \/ RunFinish \/ RunSettle \/ RunTerminal
    \/ RunSweepTaken \/ RunSweepQueue

Drain == DrainSteps \/ EmitReturns \/ EmitShutdown

----------------------------------------------------------------------------
\* No call is in hand and the drain thread has ended.
Terminated ==
    /\ ~Alive
    /\ \A c \in Callers : At(c, "idle") \/ At(c, "done")
    /\ UNCHANGED vars

Next ==
    \/ \E s \in Submitters : Submit(s)
    \/ \E f \in Flushers : Flush(f)
    \/ \E p \in Stoppers : Stop(p)
    \/ Drain
    \/ Terminated

Spec == Init /\ [][Next]_vars

\* A running thread keeps running and a wait with a deadline ends.  Nothing makes a thread call
\* submit(), flush() or shutdown() in the first place, and nothing makes an emit return.
Started(c) == ~At(c, "idle")

SubmittersRun == \A s \in Submitters : WF_vars(Started(s) /\ Submit(s))

WaitersRun ==
    /\ \A f \in Flushers : WF_vars(Started(f) /\ Flush(f))
    /\ \A p \in Stoppers : WF_vars(Started(p) /\ Stop(p))

DrainRuns == WF_vars(DrainSteps)

\* An assumption on the sink that two of the properties make: its emit() always comes back.
SinkReturns == WF_vars(EmitReturns)

\* The clock that _put_marker's loop reads is monotonic and read on every turn, so a call that
\* keeps coming to the test is out of time at one of them.
OutOfTime(f) == FlushExpired(f) /\ pc'[f] = "gaveUp1"

ClockRuns == \A f \in Flushers \cap Bounded : SF_vars(OutOfTime(f))

----------------------------------------------------------------------------
(* Properties                                                              *)

\* The type invariant.
TypeOK ==
    /\ retired \in BOOLEAN
    /\ queue \in Seq(Items)
    /\ stop \in BOOLEAN /\ finished \in BOOLEAN /\ settled \in BOOLEAN
    /\ stopped \in BOOLEAN
    /\ exitDeadline \in Bounded \cup {DrainThread, None}
    /\ joinOwed \in BOOLEAN /\ joinTakenOver \in BOOLEAN
    /\ failed \in Nat
    /\ dropped \subseteq Submitters
    /\ undeliverable \subseteq Submitters
    /\ reason \in Reasons
    /\ taken \subseteq Flushers
    /\ event \in [Flushers -> BOOLEAN]
    /\ delivered \in [Flushers -> BOOLEAN]
    /\ seen \in [Flushers -> Nat]
    /\ dpc \in DrainPCs
    /\ pending \in Seq(Submitters)
    /\ markers \subseteq Flushers
    /\ closing \in BOOLEAN
    /\ attempt \in Nat
    /\ dying \in BOOLEAN
    /\ pc \in [Callers -> CallPCs]
    /\ sawRetired \in [Submitters -> BOOLEAN]
    /\ posted \in [Flushers -> BOOLEAN]
    /\ givenUp \in [Flushers -> BOOLEAN]
    /\ result \in [Flushers -> Results]
    /\ sunk \in Seq(Submitters)
    /\ lost \subseteq Submitters
    /\ owes \in [Flushers -> SUBSET Submitters]

\* A truthy flush() is true: every submission that was accepted and unsettled when the marker was
\* stamped has been carried by an emit that returned.  (flush: "ok=True ... means the sink took
\* them".)  The retries, the other flushes, an expiring shutdown() that answers the marker and a
\* dying thread all stand between the stamp and the verdict.
FlushKeepsPromise ==
    \A f \in Flushers : result[f] = "ok" => owes[f] \subseteq ToSet(sunk)

\* A waiting flush() is never left behind: while its event is clear the drain will still come to
\* its marker, or the drain has ended and has yet to sweep, or an expired shutdown() has yet to
\* sweep, or the drain is just about to register the marker and will then see settled.  (The
\* claims of flush, _take_marker and _release_waiters about a timeout=None call.)
NoStrandedWaiter ==
    \A f \in Flushers : At(f, "wait") /\ ~event[f] =>
        \/ ~settled /\ Alive /\ f \in QueuedMarkers \cup markers
        \/ dpc \in {"settle", "terminal", "sweepTaken"}
        \/ dpc = "sweepQueue" /\ f \in QueuedMarkers
        \/ \E p \in Stoppers : At(p, "sweepTaken")
        \/ \E p \in Stoppers : At(p, "sweepQueue") /\ f \in QueuedMarkers
        \/ dpc = "take" /\ f \in markers \ taken

\* No submission is lost in silence: once the drain thread has ended, what a returned submit()
\* left on the queue is counted in submitted_after_shutdown, unless the thread was killed, and
\* then stopped_reason says so; only a killed thread keeps a batch it never settled.  (submit's
\* second read of the count: "It closes the window rather than narrowing it".)
NoSilentLoss ==
    ~Alive /\ reason # "died" =>
        /\ pending = <<>>
        /\ \A s \in ToSet(queue) \cap Submitters : At(s, "done") => s \in undeliverable

\* `settled` without `finished` says that a shutdown() gave up on a live drain, and nothing else:
\* flush() reads the pair to tell "abandoned" from "thread-died".
GivenUpMeansExpired ==
    settled /\ ~finished => reason = "ShutdownTimeout"

\* One lost submission is counted in one place: an item the full queue refused cannot also be
\* stranded in it (submit: "counting it in both fields would double-report one loss").
LossCountedOnce ==
    dropped \cap undeliverable = {}

\* The stoppers past the gate and not yet returned.
Joining(p) == pc[p] \in {"sentinel", "putSentinel", "setStop", "join", "timedOut", "blame",
                         "settle", "sweepTaken", "sweepQueue"}

\* One caller joins the drain thread, and the deadline the retries are declined against is that
\* caller's own (claim_stop, stop).
JoinerOwnsDeadline ==
    \A p \in Stoppers : Joining(p) =>
        /\ exitDeadline = Deadline(p)
        /\ \A q \in Stoppers \ {p} : ~Joining(q)

\* The sentinel is queued at most once: a second copy would strand behind the final drain
\* (claim_stop's take-over of the join).
OneSentinel ==
    Cardinality({i \in DOMAIN queue : queue[i] = SHUTDOWN}) <= 1

\* The submissions of a queue, in its order.
SubmissionsOf(q) ==
    LET Upto[n \in Nat] ==
            IF n = 0 THEN <<>>
            ELSE IF q[n] \in Submitters THEN Append(Upto[n - 1], q[n]) ELSE Upto[n - 1]
    IN  Upto[Len(q)]

\* The abstract state: pending and then the queue's submissions are one backlog, and of a
\* FlushResult only its truth counts.
Pipe    == pending \o SubmissionsOf(queue)
Outcome == [f \in Flushers |-> CASE result[f] = "none" -> "none"
                                 [] result[f] = "ok"   -> "ok"
                                 [] OTHER              -> "failed"]

Contract == INSTANCE Delivery WITH
    Submissions <- Submitters,
    Flushes     <- Flushers,
    backlog     <- Pipe,
    refused     <- dropped,
    answersFor  <- owes,
    outcome     <- Outcome

\* The worker implements Delivery: submissions leave in the order they were accepted, each once,
\* a batch as a whole to the sink or to the losses, whatever is retried, flushed, stopped or
\* killed; and a truthy flush() answers for what was there when it began.
ImplementsDelivery == Contract!Spec

\* An unbounded flush() that waits on a wedged sink returns once any shutdown() has given up on
\* the drain.
SettledReleasesFlush ==
    \A f \in Flushers \ Bounded : (settled /\ At(f, "wait")) ~> At(f, "done")

\* A call with a finite timeout returns, whatever the sink does: a shutdown() that joins a wedged
\* drain, and a flush() that waits for one, or that cannot even put its marker because the queue
\* behind the wedged emit stays full or is filled again before every try (_put_marker), as long as
\* the clock goes on.
BoundedCallsReturn ==
    ClockRuns => \A c \in Bounded : Started(c) ~> At(c, "done")

\* With a sink that comes back, every call returns.
AllCallsReturn ==
    SinkReturns => \A c \in Callers : Started(c) ~> At(c, "done")

\* With a sink that comes back, everything accepted is settled, by size, by time, by a flush() or
\* by a stop, unless it is among what NoSilentLoss accounts for when the thread has ended.
AcceptedIsSettled ==
    SinkReturns => \A s \in Submitters : (s \in Backlog) ~> (s \notin Backlog \/ ~Alive)

=============================================================================
