------------------------------ MODULE Lifecycle ------------------------------
(***************************************************************************)
(* Who owns the process's sinks: src/log_foundry/_lifecycle.py, with the    *)
(* calls that reach it, configure(sink=...), a level call outside a span, a *)
(* span that ends, and shutdown().  One worker is built in a process, once; *)
(* it appears here by what Worker shows of it: an answered flush() means    *)
(* that the drain was outside every emit after the call began, and stop()   *)
(* returns when the thread has ended, when the drain is settled, or when    *)
(* its own timeout expires.                                                 *)
(*                                                                         *)
(* A step is one critical section of _state._lock or of the worker's lock,  *)
(* or one access made outside them.  Nothing here forks: every sink belongs *)
(* to this process, so release() is never refused.                          *)
(***************************************************************************)
EXTENDS Integers, FiniteSets

CONSTANTS
    Sinks,          \* the sink objects
    FirstSink,      \* the sink the configuration names at the start
    Loggers,        \* level calls outside a span
    Tracers,        \* spans that end
    Stoppers,       \* shutdown() calls
    Bounded,        \* the ones with a finite timeout
    Configures,     \* how many times configure(sink=...) is called, on one thread
    Threadless,     \* whether the platform may refuse a closer thread
    Interrupts,     \* whether a KeyboardInterrupt may land in _close_owed
    Configure,      \* the configure() thread, as the owner of a close it started
    None            \* Python's None

ASSUME LifecycleAssumption ==
    /\ FirstSink \in Sinks
    /\ None \notin Sinks /\ None \notin Nat
    /\ Bounded \subseteq Stoppers
    /\ IsFiniteSet(Stoppers)
    /\ Loggers \cap Tracers = {} /\ Loggers \cap Stoppers = {} /\ Tracers \cap Stoppers = {}
    /\ Configure \notin Stoppers
    /\ Configures \in Nat
    /\ Threadless \in BOOLEAN /\ Interrupts \in BOOLEAN

VARIABLES
    config,         \* _config.sink
    retirements,    \* _state.retirements
    running,        \* _state._shutdown_running
    late,           \* _state._late_worker is registered
    owed,           \* _state._owed
    closing,        \* the keys of _closing_now
    closes,         \* the closes handed to a thread, or run inline, and not over
    stopEvent,      \* the event _state._stop is bound to
    isSet,          \* the events that are set
    signal,         \* each sink's log_foundry_stop_signal
    epoch,          \* worker._epoch, None while there is no worker
    sink,           \* worker.sink
    holds,          \* worker._held
    gate,           \* worker._stopped
    settled,        \* worker._drain_settled is set
    workerEvent,    \* worker._stop
    thread,         \* worker._thread: "none", "alive" or "dead"
    inside,         \* the sink the drain thread is emitting to, or None
    backlog,        \* the worker has work
    fence,          \* the marker of retarget's flush(): "none", "posted" or "answered"
    cpc,            \* where configure() is
    calls,          \* configure() calls made
    new,            \* _swap_sink's new_sink
    previous,       \* retarget's old
    fenced,         \* retarget's drained, and then whether its verdict is "fenced"
    pc,             \* where each logger, tracer and stopper is
    target,         \* the sink a level call read from the configuration
    branch,         \* "worker" or "bare" in the first pass of _close_owed, "second" in the second
    taken,          \* _close_owed's undischarged
    waited,         \* whether the first pass found closes registered by others
    dirty,          \* history: sinks the drain wrote to since their last close was handed over
    leaked,         \* history: sinks left open because no closer thread could start
    builtIn,        \* history: the shutdown() calls the worker was built within
    expired         \* history: the shutdown() that joins gave up on the drain

ownerVars  == <<retirements, running, late, owed>>
closeVars  == <<closing, closes, leaked>>
signalVars == <<stopEvent, isSet, signal>>
workerVars == <<epoch, sink, holds, workerEvent, builtIn>>
drainVars  == <<thread, inside, backlog, settled, gate>>
swapVars   == <<cpc, calls, new, previous, fenced, fence>>
callVars   == <<pc, target>>
stopVars   == <<branch, taken, waited, expired>>
vars == <<config, ownerVars, closeVars, signalVars, workerVars, drainVars, swapVars, callVars,
          stopVars, dirty>>

Threads == Loggers \cup Tracers \cup Stoppers

----------------------------------------------------------------------------
At(t, here)    == pc[t] = here
Goto(t, there) == pc' = [pc EXCEPT ![t] = there]

\* The worker delivers, and a shutdown() has not moved the count past its epoch.
Live == epoch # None /\ retirements <= epoch

\* _state.held: a live drain thread may be inside, or a close is registered.
Held(s) == (thread = "alive" /\ s \in holds) \/ s \in closing

\* Faulty variant: asks for a live worker, which a shutdown() ends on entry, not for a running drain.
InFlight_LiveOnly(s) == (Live /\ sink = s) \/ s \in closing

\* _state.in_flight: the drain is delivering there, or a close is registered.
InFlight(s) == (epoch # None /\ sink = s /\ ~settled) \/ s \in closing

\* The worker swapped it out without a confirmed fence.
HoldsUnfenced(s) == epoch # None /\ s # sink /\ s \in holds

\* refresh_stop_signal: an event that is set is replaced.  Events are numbered as they are made.
RefreshStopSignal == stopEvent' = IF stopEvent \in isSet THEN stopEvent + 1 ELSE stopEvent

\* _offer_orphan_signal.
OfferOrphanSignal(s) ==
    IF InFlight(s) THEN UNCHANGED <<stopEvent, signal>>
                   ELSE /\ RefreshStopSignal
                        /\ signal' = [signal EXCEPT ![s] = stopEvent']

Close(s, by, joined) == [sink |-> s, by |-> by, joined |-> joined]
SinksOf(cs) == {c.sink : c \in cs}

\* Hands these closes to threads of their own, registered already or here.  A thread that does
\* not start leaves its sink open: the registration is discharged and nobody owes the close.
Release(cs) ==
    \E refused \in SUBSET {c \in cs : ~c.joined} :
        /\ refused # {} => Threadless
        /\ closes' = closes \cup (cs \ refused)
        /\ closing' = (closing \cup SinksOf(cs)) \ SinksOf(refused)
        /\ leaked' = (leaked \ SinksOf(cs)) \cup SinksOf(refused)
        /\ dirty' = dirty \ SinksOf(cs \ refused)

Init ==
    /\ config = FirstSink
    /\ retirements = 0 /\ running = 0 /\ late = FALSE /\ owed = {}
    /\ closing = {} /\ closes = {} /\ leaked = {}
    /\ stopEvent = 1 /\ isSet = {} /\ signal = [s \in Sinks |-> 0]
    /\ epoch = None /\ sink = None /\ holds = {} /\ workerEvent = 0 /\ builtIn = {}
    /\ thread = "none" /\ inside = None /\ backlog = FALSE /\ settled = FALSE /\ gate = FALSE
    /\ cpc = "idle" /\ calls = 0 /\ new = None /\ previous = None /\ fenced = FALSE
    /\ fence = "none"
    /\ pc = [t \in Threads |-> "idle"]
    /\ target = [l \in Loggers |-> None]
    /\ branch = [p \in Stoppers |-> "worker"]
    /\ taken = [p \in Stoppers |-> {}]
    /\ waited = [p \in Stoppers |-> FALSE]
    /\ dirty = {} /\ expired = FALSE

----------------------------------------------------------------------------
(* A level call outside a span: _ensure_sink, _note_orphan_emit.  The emit  *)
(* itself runs on the caller's thread and changes nothing here.             *)

LogRead(l) ==
    /\ At(l, "idle")
    /\ target' = [target EXCEPT ![l] = config]
    /\ Goto(l, "note")
    /\ UNCHANGED <<config, ownerVars, closeVars, signalVars, workerVars, drainVars, swapVars,
                   stopVars, dirty>>

\* The unlocked test: a recorded sink and a signal that is not set need nothing.
LogNote(l) ==
    /\ At(l, "note")
    /\ Goto(l, IF target[l] \in owed /\ stopEvent \notin isSet THEN "done" ELSE "arm")
    /\ UNCHANGED <<config, ownerVars, closeVars, signalVars, workerVars, drainVars, swapVars,
                   target, stopVars, dirty>>

LogArm(l) ==
    /\ At(l, "arm")
    /\ OfferOrphanSignal(target[l])
    /\ owed' = owed \cup {target[l]}
    /\ Goto(l, "done")
    /\ UNCHANGED <<config, retirements, running, late, closeVars, isSet, workerVars, drainVars,
                   swapVars, target, stopVars, dirty>>

Log(l) == LogRead(l) \/ LogNote(l) \/ LogArm(l)

----------------------------------------------------------------------------
(* A span that ends: _get_worker, then submit                              *)

\* The shutdown() calls between raising _shutdown_running and lowering it.
RunningBare == {p \in Stoppers : branch[p] = "bare" /\ pc[p] \in {"take", "hand", "lower",
                                                                 "unwind"}}

\* The worker is built over the sink the configuration names now, under the lock; a tracer that
\* finds one built leaves everything alone.
GetWorker(t) ==
    /\ At(t, "idle")
    /\ Goto(t, "submit")
    /\ IF epoch = None
       THEN /\ epoch' = retirements
            /\ sink' = config
            /\ holds' = {config}
            /\ RefreshStopSignal
            /\ workerEvent' = stopEvent'
            /\ signal' = [signal EXCEPT ![config] = stopEvent']
            /\ thread' = "alive"
            /\ owed' = owed \cup {config}
            /\ late' = (running > 0)
            /\ builtIn' = RunningBare
       ELSE UNCHANGED <<workerVars, stopEvent, signal, thread, owed, late>>
    /\ UNCHANGED <<config, retirements, running, closeVars, isSet, inside, backlog, settled, gate,
                   swapVars, target, stopVars, dirty>>

Submit(t) ==
    /\ At(t, "submit")
    /\ backlog' = TRUE
    /\ Goto(t, "done")
    /\ UNCHANGED <<config, ownerVars, closeVars, signalVars, workerVars, thread, inside, settled,
                   gate, swapVars, target, stopVars, dirty>>

Trace(t) == GetWorker(t) \/ Submit(t)

----------------------------------------------------------------------------
(* The drain thread, as the owner sees it                                  *)

DrainUnchanged == UNCHANGED <<config, ownerVars, closeVars, signalVars, workerVars, gate, callVars,
                              stopVars>>

\* self.sink.emit(batch): the attribute is read again for every attempt.
DrainEnter ==
    /\ thread = "alive" /\ inside = None /\ backlog
    /\ inside' = sink
    /\ dirty' = dirty \cup {sink}
    /\ DrainUnchanged /\ UNCHANGED <<thread, backlog, settled, swapVars>>

\* The emit returns or raises: the batch is over, or there is more to do.
DrainLeave ==
    /\ inside # None
    /\ inside' = None
    /\ backlog' \in BOOLEAN
    /\ DrainUnchanged /\ UNCHANGED <<thread, settled, swapVars, dirty>>

DrainAnswer ==
    /\ thread = "alive" /\ inside = None
    /\ fence = "posted"
    /\ fence' = "answered"
    /\ DrainUnchanged
    /\ UNCHANGED <<thread, inside, backlog, settled, cpc, calls, new, previous, fenced, dirty>>

\* Faulty variant: only an expired join settles the drain.
DrainEnd_Unsettled ==
    /\ thread = "alive"
    /\ inside # None \/ workerEvent \in isSet
    /\ thread' = "dead"
    /\ inside' = None
    /\ DrainUnchanged /\ UNCHANGED <<backlog, settled, swapVars, dirty>>

\* The stop event was seen and the final drain is over, or a BaseException ended the thread.
\* (_run sets the settled event in its finally, before the thread is dead.  Here both are one step:
\* a join that expires between the two is one that expires before it.)
DrainEnd ==
    /\ thread = "alive"
    /\ inside # None \/ workerEvent \in isSet
    /\ thread' = "dead"
    /\ inside' = None
    /\ settled' = TRUE
    /\ DrainUnchanged /\ UNCHANGED <<backlog, swapVars, dirty>>

Drain == DrainEnter \/ DrainLeave \/ DrainAnswer \/ DrainEnd

----------------------------------------------------------------------------
(* configure(sink=...): _rebind, then _swap_sink with Worker.retarget       *)

SwapUnchanged == UNCHANGED <<retirements, running, late, isSet, epoch, workerEvent, builtIn,
                             drainVars, callVars, stopVars>>

CfgRebind ==
    /\ cpc = "idle" /\ calls < Configures
    /\ \E s \in Sinks : new' = s /\ config' = s
    /\ calls' = calls + 1
    /\ cpc' = "swap"
    /\ SwapUnchanged
    /\ UNCHANGED <<owed, closeVars, stopEvent, signal, sink, holds, previous, fenced, fence, dirty>>

\* Faulty variant: a thread that outlives its retirement is not asked about.
Stale_IgnoresTheDrain == {s \in owed : s # new /\ ~(Live /\ s = sink) /\ s \notin closing}

\* The owed sinks neither delivered to nor about to be, and that nothing may be inside.
Stale == {s \in owed : s # new /\ ~(Live /\ s = sink) /\ ~Held(s)}

\* _swap_sink's first critical section.  The joins at its end are bounded and change nothing.
CfgSwap ==
    /\ cpc = "swap"
    /\ IF ~Live /\ owed = {}
       THEN cpc' = "idle" /\ UNCHANGED <<owed, closeVars, stopEvent, signal, dirty>>
       ELSE /\ Release({Close(s, Configure, FALSE) : s \in Stale})
            /\ IF Live THEN /\ owed' = owed \ Stale
                            /\ cpc' = "retarget"
                            /\ UNCHANGED <<stopEvent, signal>>
                       ELSE /\ owed' = (owed \ Stale) \cup {new}
                            /\ OfferOrphanSignal(new)
                            /\ cpc' = "idle"
    /\ SwapUnchanged
    /\ UNCHANGED <<config, sink, holds, calls, new, previous, fenced, fence>>

\* retarget: declined by a retired worker, trivially fenced, or on to the first flush().
CfgRetarget ==
    /\ cpc = "retarget"
    /\ previous' = sink
    /\ fenced' = (Live /\ sink = new)
    /\ IF Live /\ sink # new THEN cpc' = "flush1" /\ fence' = "posted"
                             ELSE cpc' = "adopt"  /\ UNCHANGED fence
    /\ SwapUnchanged
    /\ UNCHANGED <<config, owed, closeVars, stopEvent, signal, sink, holds, calls, new, dirty>>

\* A flush() returns: truthy only if the drain has answered, falsy for any of its reasons.
FlushReturns(then, otherwise) ==
    /\ fenced' \in BOOLEAN
    /\ fenced' => fence = "answered"
    /\ fence' = "none"
    /\ cpc' = IF fenced' THEN then ELSE otherwise

CfgFlush ==
    /\ \/ cpc = "flush1" /\ FlushReturns("reassign", "reassign")
       \/ cpc = "flush2" /\ FlushReturns("unhold", "adopt")
    /\ SwapUnchanged
    /\ UNCHANGED <<config, owed, closeVars, stopEvent, signal, sink, holds, calls, new, previous,
                   dirty>>

\* The second critical section of retarget.  The sink is still previous: one thread configures.
CfgReassign ==
    /\ cpc = "reassign"
    /\ IF Live THEN sink' = new /\ holds' = holds \cup {new} /\ cpc' = "offer" /\ UNCHANGED fenced
               ELSE cpc' = "adopt" /\ fenced' = FALSE /\ UNCHANGED <<sink, holds>>
    /\ SwapUnchanged
    /\ UNCHANGED <<config, owed, closeVars, stopEvent, signal, calls, new, previous, fence, dirty>>

\* offer_stop_signal, and the fencing flush() if the first one was truthy.
CfgOffer ==
    /\ cpc = "offer"
    /\ signal' = [signal EXCEPT ![new] = workerEvent]
    /\ IF fenced THEN cpc' = "flush2" /\ fence' = "posted" ELSE cpc' = "adopt" /\ UNCHANGED fence
    /\ SwapUnchanged
    /\ UNCHANGED <<config, owed, closeVars, stopEvent, sink, holds, calls, new, previous, fenced,
                   dirty>>

CfgUnhold ==
    /\ cpc = "unhold"
    /\ holds' = holds \ {previous}
    /\ cpc' = "adopt"
    /\ SwapUnchanged
    /\ UNCHANGED <<config, owed, closeVars, stopEvent, signal, sink, calls, new, previous, fenced,
                   fence, dirty>>

\* _swap_sink's second critical section: the new sink is armed whatever the verdict, and a fenced
\* one's previous sink is released unless something else may be inside it.
FencedOut == fenced /\ previous # new /\ ~Held(previous)

\* Faulty variant: a swap that was not fenced does not arm the new sink.
CfgAdopt_FencedOnly ==
    /\ cpc = "adopt"
    /\ owed' = (owed \cup (IF fenced THEN {new} ELSE {})) \ (IF FencedOut THEN {previous} ELSE {})
    /\ IF FencedOut THEN Release({Close(previous, Configure, FALSE)})
                    ELSE UNCHANGED <<closeVars, dirty>>
    /\ cpc' = "idle"
    /\ SwapUnchanged
    /\ UNCHANGED <<config, stopEvent, signal, sink, holds, calls, new, previous, fenced, fence>>

CfgAdopt ==
    /\ cpc = "adopt"
    /\ owed' = (owed \cup {new}) \ (IF FencedOut THEN {previous} ELSE {})
    /\ IF FencedOut THEN Release({Close(previous, Configure, FALSE)})
                    ELSE UNCHANGED <<closeVars, dirty>>
    /\ cpc' = "idle"
    /\ SwapUnchanged
    /\ UNCHANGED <<config, stopEvent, signal, sink, holds, calls, new, previous, fenced, fence>>

Swap == CfgRebind \/ CfgSwap \/ CfgRetarget \/ CfgFlush \/ CfgReassign \/ CfgOffer \/ CfgUnhold
        \/ CfgAdopt

----------------------------------------------------------------------------
(* shutdown(): _shutdown_worker and _close_owed                            *)

\* The first critical section: the count, the worker, the claim and the stop event.
StopBegin(p) ==
    /\ At(p, "idle")
    /\ retirements' = retirements + 1
    /\ isSet' = isSet \cup {stopEvent}
    /\ IF epoch = None
       THEN /\ running' = running + 1
            /\ branch' = [branch EXCEPT ![p] = "bare"]
            /\ Goto(p, "take")
            /\ UNCHANGED gate
       ELSE /\ gate' = TRUE
            /\ Goto(p, IF gate THEN "lost" ELSE "ask")
            /\ UNCHANGED <<running, branch>>
    /\ UNCHANGED <<config, late, owed, closeVars, stopEvent, signal, workerVars, thread, inside,
                   backlog, settled, swapVars, target, taken, waited, expired, dirty>>

StopUnchanged == UNCHANGED <<config, stopEvent, signal, workerVars, thread, inside, backlog,
                             swapVars, target>>

\* Faulty variant: a late worker is stopped without a second move of the count.
StopRetireLate_NoSecondMove(p) ==
    /\ At(p, "retire")
    /\ Goto(p, "claim")
    /\ StopUnchanged
    /\ UNCHANGED <<ownerVars, closeVars, isSet, gate, settled, stopVars, dirty>>

\* A late worker is retired and then claimed for, in two steps.
StopRetireLate(p) ==
    /\ At(p, "retire")
    /\ retirements' = retirements + 1
    /\ Goto(p, "claim")
    /\ StopUnchanged
    /\ UNCHANGED <<running, late, owed, closeVars, isSet, gate, settled, stopVars, dirty>>

StopClaimLate(p) ==
    /\ At(p, "claim")
    /\ gate' = TRUE
    /\ Goto(p, IF gate THEN "lost" ELSE "ask")
    /\ StopUnchanged
    /\ UNCHANGED <<ownerVars, closeVars, isSet, settled, stopVars, dirty>>

\* The caller that won the gate sets the worker's own event and joins; one that lost it waits for
\* the drain to settle.  An expired join settles a drain that is still running.
StopAsk(p) ==
    /\ At(p, "ask")
    /\ isSet' = isSet \cup {workerEvent}
    /\ Goto(p, "join")
    /\ StopUnchanged /\ UNCHANGED <<ownerVars, closeVars, gate, settled, stopVars, dirty>>

\* Faulty variant: nothing is closed after a late worker was stopped.
StopJoin_NoSecondPass(p) ==
    /\ At(p, "join") /\ thread = "dead"
    /\ Goto(p, IF branch[p] = "second" THEN "done" ELSE "take")
    /\ StopUnchanged /\ UNCHANGED <<ownerVars, closeVars, isSet, gate, settled, stopVars, dirty>>

StopJoin(p) ==
    /\ \/ At(p, "join") /\ thread = "dead" /\ UNCHANGED <<settled, expired>>
       \/ /\ At(p, "join") /\ thread = "alive" /\ p \in Bounded
          /\ settled' = TRUE /\ expired' = TRUE
       \/ At(p, "lost") /\ (settled \/ p \in Bounded) /\ UNCHANGED <<settled, expired>>
    /\ Goto(p, "take")
    /\ StopUnchanged
    /\ UNCHANGED <<ownerVars, closeVars, isSet, gate, branch, taken, waited, dirty>>

\* Faulty variant: takes a sink that somebody is closing already.
StopTake_Everything(p) ==
    /\ At(p, "take")
    /\ owed' = {}
    /\ closing' = closing \cup owed
    /\ taken' = [taken EXCEPT ![p] = {Close(s, p, ~HoldsUnfenced(s)) : s \in owed}]
    /\ waited' = [waited EXCEPT ![p] = IF branch[p] = "second" THEN @ ELSE closing # {}]
    /\ Goto(p, "hand")
    /\ StopUnchanged
    /\ UNCHANGED <<retirements, running, late, closes, leaked, isSet, gate, settled, branch,
                   expired, dirty>>

\* _close_owed's take: out of the record and into the registry, in one critical section.
StopTake(p) ==
    LET free == {s \in owed : ~Held(s)}
    IN  /\ At(p, "take")
        /\ owed' = owed \ free
        /\ closing' = closing \cup free
        /\ taken' = [taken EXCEPT ![p] = {Close(s, p, ~HoldsUnfenced(s)) : s \in free}]
        /\ waited' = [waited EXCEPT ![p] = IF branch[p] = "second" THEN @ ELSE closing # {}]
        /\ Goto(p, "hand")
        /\ StopUnchanged
        /\ UNCHANGED <<retirements, running, late, closes, leaked, isSet, gate, settled, branch,
                       expired, dirty>>

\* Each close goes to a thread, or runs inline: joined either way, unless the worker holds its
\* sink unfenced.
StopHand(p) ==
    /\ At(p, "hand")
    /\ \E c \in taken[p] :
          /\ Release({c})
          /\ taken' = [taken EXCEPT ![p] = @ \ {c}]
    /\ StopUnchanged
    /\ UNCHANGED <<ownerVars, isSet, gate, settled, pc, branch, waited, expired>>

\* Faulty variant: the sinks are put back, the registrations not discharged.
StopInterrupt_StaysRegistered(p) ==
    /\ Interrupts
    /\ At(p, "hand") /\ taken[p] # {}
    /\ owed' = owed \cup SinksOf(taken[p])
    /\ UNCHANGED closing
    /\ taken' = [taken EXCEPT ![p] = {}]
    /\ Goto(p, "unwind")
    /\ StopUnchanged
    /\ UNCHANGED <<retirements, running, late, closes, leaked, isSet, gate, settled, branch,
                   waited, expired, dirty>>

\* A BaseException on the calling thread: what was not handed over is put back.
StopInterrupt(p) ==
    /\ Interrupts
    /\ At(p, "hand") /\ taken[p] # {}
    /\ owed' = owed \cup SinksOf(taken[p])
    /\ closing' = closing \ SinksOf(taken[p])
    /\ taken' = [taken EXCEPT ![p] = {}]
    /\ Goto(p, "unwind")
    /\ StopUnchanged
    /\ UNCHANGED <<retirements, running, late, closes, leaked, isSet, gate, settled, branch,
                   waited, expired, dirty>>

Joined(p) == taken[p] = {} /\ \A c \in closes : ~(c.by = p /\ c.joined)

\* The closes it joined are over.  Its waits for the others' and for detached closers are bounded
\* by the closer grace and change nothing.
StopWait(p) ==
    /\ At(p, "hand") /\ Joined(p)
    /\ CASE branch[p] = "bare"                  -> Goto(p, "lower") /\ UNCHANGED branch
         [] branch[p] = "worker" /\ waited[p]   -> /\ Goto(p, "take")
                                                   /\ branch' = [branch EXCEPT ![p] = "second"]
         [] OTHER                               -> Goto(p, "done") /\ UNCHANGED branch
    /\ StopUnchanged
    /\ UNCHANGED <<ownerVars, closeVars, isSet, gate, settled, taken, waited, expired,
                   dirty>>

\* The no-worker branch's last critical section: it takes the late worker and lowers the depth.
StopLower(p) ==
    /\ At(p, "lower")
    /\ running' = running - 1
    /\ late' = FALSE
    /\ branch' = [branch EXCEPT ![p] = "second"]
    /\ Goto(p, CASE late -> "retire" [] ~late /\ waited[p] -> "take" [] OTHER -> "done")
    /\ StopUnchanged
    /\ UNCHANGED <<retirements, owed, closeVars, isSet, gate, settled, taken, waited, expired,
                   dirty>>

\* Faulty variant: an interrupted call on the worker's branch lowers a depth it did not raise.
StopUnwind_AlwaysLowers(p) ==
    /\ At(p, "unwind") /\ Joined(p)
    /\ running' = running - 1 /\ late' = FALSE
    /\ Goto(p, "raised")
    /\ StopUnchanged
    /\ UNCHANGED <<retirements, owed, closeVars, isSet, gate, settled, stopVars, dirty>>

\* The same section in the `finally` of an interrupted call, which then leaves with the exception.
StopUnwind(p) ==
    /\ At(p, "unwind") /\ Joined(p)
    /\ IF branch[p] = "bare" THEN running' = running - 1 /\ late' = FALSE
                             ELSE UNCHANGED <<running, late>>
    /\ Goto(p, "raised")
    /\ StopUnchanged
    /\ UNCHANGED <<retirements, owed, closeVars, isSet, gate, settled, stopVars, dirty>>

Stop(p) ==
    \/ StopBegin(p) \/ StopRetireLate(p) \/ StopClaimLate(p) \/ StopAsk(p) \/ StopJoin(p)
    \/ StopTake(p) \/ StopHand(p) \/ StopInterrupt(p) \/ StopWait(p) \/ StopLower(p)
    \/ StopUnwind(p)

\* sink.close() returns or raises, and _finish_closing discharges the registration.
CloseEnd ==
    /\ \E c \in closes :
          /\ closes' = closes \ {c}
          /\ closing' = closing \ {c.sink}
    /\ UNCHANGED <<config, ownerVars, leaked, signalVars, workerVars, drainVars, swapVars, callVars,
                   stopVars, dirty>>

----------------------------------------------------------------------------
\* Whoever began has ended; the rest need not be called.
Terminated ==
    /\ \A t \in Threads : pc[t] \in {"idle", "done", "raised"}
    /\ cpc = "idle" /\ closes = {}
    /\ UNCHANGED vars

Next ==
    \/ \E l \in Loggers : Log(l)
    \/ \E t \in Tracers : Trace(t)
    \/ \E p \in Stoppers : Stop(p)
    \/ Drain \/ Swap \/ CloseEnd \/ Terminated

Spec == Init /\ [][Next]_vars

\* Threads are scheduled, a sink's emit() and close() come back, and a drain that was asked to end
\* does (AllCallsReturn of Worker).  An interrupt need not come, nor a shutdown() or a span.
Fairness ==
    /\ WF_vars(CloseEnd) /\ WF_vars(DrainLeave)
    /\ WF_vars(workerEvent \in isSet /\ DrainEnd)
    /\ \A p \in Stoppers : WF_vars(pc[p] # "idle" /\ Stop(p))

----------------------------------------------------------------------------
(* Properties                                                              *)

CallPCs == {"idle", "note", "arm", "submit", "ask", "join", "lost", "take", "hand", "lower",
            "retire", "claim", "unwind", "raised", "done"}
SwapPCs == {"idle", "swap", "retarget", "flush1", "reassign", "offer", "flush2", "unhold", "adopt"}
Closes  == [sink : Sinks, by : Stoppers \cup {Configure}, joined : BOOLEAN]

\* Every variable but the depth of running shutdown() calls.
Typed ==
    /\ config \in Sinks
    /\ retirements \in Nat /\ late \in BOOLEAN
    /\ owed \subseteq Sinks /\ closing \subseteq Sinks /\ leaked \subseteq Sinks
    /\ closes \subseteq Closes
    /\ stopEvent \in Nat /\ isSet \subseteq Nat /\ signal \in [Sinks -> Nat]
    /\ epoch \in Nat \cup {None} /\ sink \in Sinks \cup {None} /\ holds \subseteq Sinks
    /\ workerEvent \in Nat /\ builtIn \subseteq Stoppers
    /\ thread \in {"none", "alive", "dead"} /\ inside \in Sinks \cup {None}
    /\ backlog \in BOOLEAN /\ settled \in BOOLEAN /\ gate \in BOOLEAN
    /\ cpc \in SwapPCs /\ calls \in Nat
    /\ new \in Sinks \cup {None} /\ previous \in Sinks \cup {None} /\ fenced \in BOOLEAN
    /\ fence \in {"none", "posted", "answered"}
    /\ pc \in [Threads -> CallPCs] /\ target \in [Loggers -> Sinks \cup {None}]
    /\ branch \in [Stoppers -> {"worker", "bare", "second"}]
    /\ taken \in [Stoppers -> SUBSET Closes] /\ waited \in [Stoppers -> BOOLEAN]
    /\ dirty \subseteq Sinks /\ expired \in BOOLEAN

\* The type invariant.  That the depth is never lowered below zero takes the counting of the calls
\* that raised it.
TypeOK == Typed /\ running \in Nat

\* Two close() calls never run on one sink at once, whoever decided them.  (sinks/base.py documents
\* tolerance for a sequential second close, "never two at once".)
OneCloseAtATime ==
    \A c, d \in closes : c.sink = d.sink => c = d

\* A sink is never taken for closing while the drain is inside it, or may still enter it.
NeverClosedUnderDrain ==
    [][\A s \in closing' \ closing : thread = "alive" => inside # s /\ sink # s]_vars

\* A sink the drain has written to is owed a close, or being closed, until it has been closed;
\* between retarget's reassignment and the record, the swap itself remembers it.
NobodyForgotten ==
    \A s \in dirty :
        \/ s \in owed \cup closing \cup leaked
        \/ s = new /\ cpc \in {"offer", "flush2", "unhold", "adopt"}

\* A registration is discharged by somebody: a close that runs, or a caller that will hand it over.
RegistrationsDischarged ==
    closing = SinksOf(closes) \cup UNION {SinksOf(taken[p]) : p \in Stoppers}

\* A worker built while shutdown() calls were running is retired once they have all returned.
LateWorkerRetired ==
    builtIn # {} /\ (\A p \in builtIn : At(p, "done")) => ~Live

\* The sink being delivered to holds the event that the worker's own stop will set, so that a
\* shutdown() cuts its backoff short.
DrainKeepsSignal ==
    thread = "alive" /\ ~settled /\ cpc # "offer" => signal[sink] = workerEvent

\* While no sink is swapped and no deadline expires, nothing the drain delivered is left behind:
\* once the calls that stopped it have returned, every sink it wrote to was taken for closing after
\* the last write, whenever the worker was built.  ("This worker's build arms its sink, and the
\* closer's second pass closes it after this worker's drain", worker.py:386-388.)
ClosedBehindTheDrain ==
    gate /\ ~expired /\ calls = 0 /\ thread = "dead" /\ (\A p \in Stoppers : At(p, "done"))
    => dirty \cap owed = {}

\* The same of one shutdown() that nothing overlaps, before, during or after the drain.
ClosedBehindOneStop ==
    gate /\ ~expired /\ calls = 0 /\ thread = "dead"
    /\ (\E p \in Stoppers : At(p, "done") /\ \A q \in Stoppers \ {p} : At(q, "idle"))
    => dirty \cap owed = {}

\* A shutdown() returns, or leaves with the exception that interrupted it, if the sinks do.
ShutdownReturns ==
    \A p \in Stoppers : ~At(p, "idle") ~> pc[p] \in {"done", "raised"}

=============================================================================
