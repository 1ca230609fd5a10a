------------------------------- MODULE NatsSink -------------------------------
(***************************************************************************)
(* NATSSink: emit(), flush() and close() run one at a time, each as a       *)
(* coroutine on the sink's event loop, where the driver's own tasks run     *)
(* between any two awaits.                                                  *)
(*                                                                         *)
(* The driver and the server are external.  A core publish puts its bytes   *)
(* into the driver's buffer, which a flusher moves to the connection; a     *)
(* PING goes to the connection directly.  The server takes what is on the   *)
(* connection in order, and a PING's turn is the PONG.  A connection that   *)
(* is lost takes with it what it carried; the buffer stays.                 *)
(*                                                                         *)
(* Time is abstract: a wait may end at its deadline whenever it has not     *)
(* been answered, and a probe that is not answered is old at some point.    *)
(***************************************************************************)
EXTENDS Integers, Sequences, FiniteSets, Lists

CONSTANTS
    Batch,          \* the events of one emit()
    MaxCalls,       \* bound: emit() and flush() calls
    MaxReconnects   \* bound: connections lost

ASSUME NatsAssumption == Batch \in Nat \ {0} /\ MaxCalls \in Nat /\ MaxReconnects \in Nat

VARIABLES
    jetstream,      \* _jetstream
    probing,        \* _probing(): a client of the sink's own
    up,             \* client.is_connected
    reconnects,     \* client.stats["reconnects"]
    buffer,         \* the driver's pending buffer
    wire,           \* what the connection carries; 0 is a PING
    processed,      \* the events the server has processed
    probe,          \* _probe
    stuck,          \* _stuck: the abandoned publishes that have not ended
    run,            \* where the coroutine is; "none" when the lock is free
    doing,          \* the call it serves
    calls,          \* calls so far
    next,           \* the position in the batch
    published,      \* published: the events of this call that may reach the server
    unreturned,     \* abandoned: the one whose publish did not return in time
    counted,        \* how often losses().failed has counted each event
    returned,       \* history: the calls of emit() that returned
    since,          \* history: the reconnects when this call began to publish
    crossed,        \* history: the calls with a reconnect between a publish and the confirmation
    stopping,       \* _closing
    stopped         \* _closed

driverVars == <<up, reconnects, buffer, wire, processed>>
latchVars  == <<probe, stuck>>
runVars    == <<run, doing, calls, next, published, unreturned>>
natsLedger == <<counted, returned, since, crossed>>
natsVars   == <<jetstream, probing, driverVars, latchVars, runVars, natsLedger, stopping, stopped>>

Ids == 1..(MaxCalls * Batch)
Of(c) == {(c - 1) * Batch + i : i \in 1..Batch}
Event == (calls - 1) * Batch + next

\* A probe: the task's state, the reconnects when it was sent, and whether the latch holds by now.
NoProbe == [task |-> "none", at |-> 0, old |-> FALSE]
Pending(p) == p.task \in {"created", "waiting"}

NatsInit ==
    /\ jetstream \in BOOLEAN /\ probing \in BOOLEAN
    /\ up = TRUE /\ reconnects = 0 /\ buffer = <<>> /\ wire = <<>> /\ processed = {}
    /\ probe = NoProbe /\ stuck = {}
    /\ run = "none" /\ doing = "none" /\ calls = 0 /\ next = 1 /\ published = {} /\ unreturned = {}
    /\ counted = [e \in Ids |-> 0] /\ returned = {} /\ since = 0 /\ crossed = {}
    /\ stopping = FALSE /\ stopped = FALSE

Fail(S) == counted' = [e \in Ids |-> counted[e] + IF e \in S THEN 1 ELSE 0]
Leave(ok) ==
    /\ run' = "none" /\ doing' = "none" /\ next' = 1 /\ published' = {} /\ unreturned' = {}
    /\ returned' = IF ok /\ doing = "emit" THEN returned \cup {calls} ELSE returned

----------------------------------------------------------------------------
(* The latches and the probe                                               *)

\* _latched: the outstanding probe is old and unanswered on the connection it was sent on.
Latched == Pending(probe) /\ probe.old /\ probe.at = reconnects

\* _outstanding_probe: one that is over, or of an earlier connection, is discarded.
Outstanding == Pending(probe) /\ probe.at = reconnects

\* _send_probe, in place of a probe that was discarded: a PONG for that one answers nobody.
SendProbe(old) ==
    /\ probe' = [task |-> "created", at |-> reconnects, old |-> old]
    /\ wire' = Keep(wire, Ids)
    /\ UNCHANGED <<up, reconnects, buffer, processed>>

\* _await_probe: the three conditions of an answer.
Answered == probe.task = "answered" /\ up /\ probe.at = reconnects

\* _refuse_outside_the_lock, _refuse_under_the_lock, _refuse_while_stuck.
Refusing == stopped \/ stopping \/ Latched \/ stuck # {}

----------------------------------------------------------------------------
(* emit                                                                    *)

NatsBegin(what) ==
    /\ run = "none" /\ calls < MaxCalls
    /\ calls' = calls + 1
    /\ IF Refusing THEN UNCHANGED <<run, doing>>
       ELSE /\ doing' = what
            /\ run' = CASE what = "emit"            -> "check"
                        [] what = "flush" /\ probing -> "confirming"
                        [] OTHER                     -> "bare"
    /\ UNCHANGED <<jetstream, probing, driverVars, latchVars, next, published, unreturned, natsLedger,
                   stopping, stopped>>

NatsEmit  == NatsBegin("emit")
NatsFlush == NatsBegin("flush")

\* _emit_on_loop: the flag, and then the round trip, for a client of the sink's own.
EmitCheck ==
    /\ run = "check"
    /\ IF ~up THEN Leave(FALSE) /\ UNCHANGED <<driverVars, probe, since>>
       ELSE /\ run' = IF probing THEN "liveness" ELSE "publish"
            /\ IF probing /\ ~Outstanding THEN SendProbe(FALSE) ELSE UNCHANGED <<driverVars, probe>>
            /\ since' = reconnects
            /\ UNCHANGED <<doing, next, published, unreturned, returned>>
    /\ UNCHANGED <<jetstream, probing, stuck, calls, counted, crossed, stopping, stopped>>

\* The round trip is answered, and the flag read again; or the wait ends without it.
EmitLiveness ==
    /\ run = "liveness"
    /\ IF Answered THEN run' = "publish" /\ since' = reconnects
                        /\ UNCHANGED <<doing, next, published, unreturned, returned>>
                   ELSE Leave(FALSE) /\ UNCHANGED since
    /\ UNCHANGED <<jetstream, probing, driverVars, latchVars, calls, counted, crossed, stopping,
                   stopped>>

Publishing == run = "publish" /\ next <= Batch

\* A publish that returns: its bytes are in the buffer, or, with JetStream, acknowledged.
PublishOk ==
    /\ Publishing
    /\ IF jetstream THEN up /\ processed' = processed \cup {Event} /\ UNCHANGED buffer
                    ELSE buffer' = Append(buffer, Event) /\ UNCHANGED processed
    /\ published' = published \cup {Event} /\ next' = next + 1
    /\ UNCHANGED <<jetstream, probing, up, reconnects, wire, latchVars, run, doing, calls, unreturned,
                   natsLedger, stopping, stopped>>

\* One that raises, or whose event does not encode.
PublishRaises ==
    /\ Publishing
    /\ Fail({Event}) /\ next' = next + 1
    /\ UNCHANGED <<jetstream, probing, driverVars, latchVars, run, doing, calls, published, unreturned,
                   returned, since, crossed, stopping, stopped>>

\* _publish_bounded: one the driver does not return from within the budget is left to itself, and
\* counted as published; the events after it are not attempted.
PublishAbandon ==
    /\ Publishing
    /\ buffer' = Append(buffer, Event)
    /\ published' = published \cup {Event} /\ unreturned' = {Event} /\ stuck' = stuck \cup {Event}
    /\ next' = next + 1 /\ run' = "tally"
    /\ UNCHANGED <<jetstream, probing, up, reconnects, wire, processed, probe, doing, calls,
                   natsLedger, stopping, stopped>>

\* The end of the loop, or of the budget.
PublishEnd ==
    /\ run = "publish"
    /\ run' = "tally"
    /\ UNCHANGED <<jetstream, probing, driverVars, latchVars, doing, calls, next, published, unreturned,
                   natsLedger, stopping, stopped>>

\* What _publish_all counts: the events it did not attempt, and the abandoned one where no
\* confirmation will judge it.
Tally ==
    /\ run = "tally"
    /\ IF published = {} THEN Leave(FALSE) /\ UNCHANGED counted
       ELSE /\ Fail({e \in Of(calls) : e >= Event} \cup (IF jetstream \/ ~probing THEN unreturned ELSE {}))
            /\ IF probing /\ ~jetstream
               THEN run' = "confirming" /\ UNCHANGED <<doing, next, published, unreturned, returned>>
               ELSE Leave(TRUE)
    /\ UNCHANGED <<jetstream, probing, driverVars, latchVars, calls, since, crossed, stopping, stopped>>

----------------------------------------------------------------------------
(* The confirmation: _confirm, for emit, flush and close                   *)

\* Without an answer an emit() counts what it published and returns; the others raise.
Unconfirmed ==
    /\ Fail(published)
    /\ Leave(TRUE)
    /\ stopped' = (stopped \/ doing = "close")

Confirming == run = "confirming" /\ (doing = "close" \/ up)

\* The flag, before the confirmation.
ConfirmDown ==
    /\ run = "confirming" /\ doing # "close" /\ ~up
    /\ Unconfirmed
    /\ UNCHANGED <<jetstream, probing, driverVars, latchVars, calls, since, crossed, stopping>>

\* Faulty variant: the PING is sent without waiting for the buffer.
Drained_Skipped ==
    /\ Confirming
    /\ run' = "confirm"
    /\ UNCHANGED <<jetstream, probing, driverVars, latchVars, doing, calls, next, published, unreturned,
                   natsLedger, stopping, stopped>>

\* _drained: the buffer is empty, so that no PING can overtake it.  A probe that was there before
\* is waited out first.
Drained ==
    /\ Confirming /\ buffer = <<>>
    /\ run' = IF Outstanding THEN "older" ELSE "confirm"
    /\ UNCHANGED <<jetstream, probing, driverVars, latchVars, doing, calls, next, published, unreturned,
                   natsLedger, stopping, stopped>>

\* It does not drain in time: a probe is left behind, which is old already.
DrainExpires ==
    /\ Confirming /\ buffer # <<>>
    /\ IF Outstanding \/ doing = "close" THEN UNCHANGED <<driverVars, probe>> ELSE SendProbe(TRUE)
    /\ Unconfirmed
    /\ UNCHANGED <<jetstream, probing, stuck, calls, since, crossed, stopping>>

OlderProbe ==
    /\ run = "older"
    /\ IF Answered THEN run' = "confirm" /\ UNCHANGED <<counted, returned, doing, next, published,
                                                        unreturned, stopped>>
                   ELSE Unconfirmed
    /\ UNCHANGED <<jetstream, probing, driverVars, latchVars, calls, since, crossed, stopping>>

\* The PING that confirms.
SendConfirm ==
    /\ run = "confirm"
    /\ SendProbe(FALSE) /\ run' = "confirmed"
    /\ UNCHANGED <<jetstream, probing, stuck, doing, calls, next, published, unreturned,
                   natsLedger, stopping, stopped>>

\* Its answer, or the end of the wait for it.
Confirmed ==
    /\ run = "confirmed"
    /\ IF Answered
       THEN /\ Leave(TRUE) /\ UNCHANGED counted
            /\ stopped' = (stopped \/ doing = "close")
            /\ crossed' = IF doing = "emit" /\ since # reconnects THEN crossed \cup {calls}
                                                             ELSE crossed
       ELSE Unconfirmed /\ UNCHANGED crossed
    /\ UNCHANGED <<jetstream, probing, driverVars, latchVars, calls, since, stopping>>

----------------------------------------------------------------------------
(* flush of an injected client, close, and the backstop                    *)

\* _flush_client: the driver's own call, answered, raised or abandoned.
FlushClient ==
    /\ run = "bare"
    /\ Leave(TRUE)
    /\ UNCHANGED <<jetstream, probing, driverVars, latchVars, calls, counted, since, crossed,
                   stopping, stopped>>

\* close, before the lock.
NatsClose ==
    /\ ~stopping /\ stopping' = TRUE
    /\ UNCHANGED <<jetstream, probing, driverVars, latchVars, runVars, natsLedger, stopped>>

\* _close_on_loop: the round trip, or at once the end, which cancels every task.
CloseOnLoop ==
    /\ stopping /\ ~stopped /\ run = "none"
    /\ IF probing /\ ~Latched /\ stuck = {} /\ up
       THEN run' = "confirming" /\ doing' = "close" /\ UNCHANGED stopped
       ELSE stopped' = TRUE /\ UNCHANGED <<run, doing>>
    /\ UNCHANGED <<jetstream, probing, driverVars, latchVars, calls, next, published, unreturned,
                   natsLedger, stopping>>

\* _run, _abandon_loop: no answer from the loop; the call raises and the sink is closed.
Wedged ==
    /\ run # "none"
    /\ Leave(FALSE) /\ stopped' = TRUE
    /\ UNCHANGED <<jetstream, probing, driverVars, latchVars, calls, counted, since, crossed, stopping>>

----------------------------------------------------------------------------
(* External: the driver's tasks and the server                             *)

\* The probe's task runs: the PING is written, or the driver returns without one.
ProbeStart ==
    /\ probe.task = "created"
    /\ probe' = [probe EXCEPT !.task = IF up THEN "waiting" ELSE "hollow"]
    /\ wire' = IF up THEN Append(wire, 0) ELSE wire
    /\ UNCHANGED <<up, reconnects, buffer, processed>>

\* The driver gives up on a PONG that cannot come any more.
ProbeEnds ==
    /\ probe.task = "waiting" /\ ~up
    /\ probe' = [probe EXCEPT !.task = "hollow"]
    /\ UNCHANGED driverVars

ProbeAges ==
    /\ Pending(probe) /\ ~probe.old
    /\ probe' = [probe EXCEPT !.old = TRUE]
    /\ UNCHANGED driverVars

Flusher ==
    /\ up /\ buffer # <<>>
    /\ wire' = Append(wire, Head(buffer)) /\ buffer' = Tail(buffer)
    /\ UNCHANGED <<up, reconnects, processed, probe>>

Server ==
    /\ up /\ wire # <<>>
    /\ wire' = Tail(wire)
    /\ IF Head(wire) = 0
       THEN /\ probe' = IF probe.task = "waiting" /\ probe.at = reconnects
                        THEN [probe EXCEPT !.task = "answered"] ELSE probe
            /\ UNCHANGED processed
       ELSE processed' = processed \cup {Head(wire)} /\ UNCHANGED probe
    /\ UNCHANGED <<up, reconnects, buffer>>

Lost ==
    /\ up /\ reconnects < MaxReconnects
    /\ up' = FALSE /\ wire' = <<>>
    /\ UNCHANGED <<reconnects, buffer, processed, probe>>

Reconnect ==
    /\ ~up
    /\ up' = TRUE /\ reconnects' = reconnects + 1
    /\ UNCHANGED <<buffer, wire, processed, probe>>

External ==
    /\ ProbeStart \/ ProbeEnds \/ ProbeAges \/ Flusher \/ Server \/ Lost \/ Reconnect
    /\ UNCHANGED <<jetstream, probing, stuck, runVars, natsLedger, stopping, stopped>>

\* An abandoned publish ends after all: _unstick.
Unstick ==
    /\ \E e \in stuck : stuck' = stuck \ {e}
    /\ UNCHANGED <<jetstream, probing, driverVars, probe, runVars, natsLedger, stopping, stopped>>

NatsNext ==
    \/ NatsEmit \/ NatsFlush \/ EmitCheck \/ EmitLiveness
    \/ PublishOk \/ PublishRaises \/ PublishAbandon \/ PublishEnd \/ Tally
    \/ ConfirmDown \/ Drained \/ DrainExpires \/ OlderProbe \/ SendConfirm \/ Confirmed
    \/ FlushClient \/ NatsClose \/ CloseOnLoop \/ Wedged \/ External \/ Unstick

NatsSpec == NatsInit /\ [][NatsNext]_natsVars

----------------------------------------------------------------------------
(* Properties                                                              *)

\* Once an emit() has returned, each of its events was processed by the server or is counted in
\* losses().failed, and counted once: by the publish that raised, as not attempted, as abandoned, or
\* as not confirmed.  Of an injected core client, which is never asked, that is not claimed, and
\* neither of a call during which the driver reconnected (ConfirmedOrCounted).
CountedOnce ==
    \A c \in returned : \A e \in Of(c) :
        /\ counted[e] <= 1
        /\ (probing \/ jetstream) /\ c \notin crossed => e \in processed \/ counted[e] = 1

\* The same of every call.  ("SPEC-061 FR-003 leaves every core batch either confirmed or counted
\* before emit returns", nats.py.)
ConfirmedOrCounted ==
    \A c \in returned : probing /\ ~jetstream => \A e \in Of(c) : e \in processed \/ counted[e] = 1

=============================================================================
