-------------------------------- MODULE Spans --------------------------------
(***************************************************************************)
(* Traced calls, level calls and in-span flushes: decorator.py, context.py  *)
(* and api.py.  An execution context (a thread, a task) has its own span    *)
(* stack, baggage and adopted trace, copied when a context is spawned; the  *)
(* Span objects are shared by every copy.  A span's events sit in a list    *)
(* object, which a close or a sweep swaps for a new one and hands to the    *)
(* worker; the worker reads a list once.                                    *)
(*                                                                         *)
(* The interpreter may switch at any call.  `events.append(e)` on a value   *)
(* that is at hand is one step; the load and the store of a detach are two. *)
(***************************************************************************)
EXTENDS Naturals, Sequences, FiniteSets

CONSTANTS
    Contexts,       \* execution contexts
    Main,           \* the one that exists at the start
    Spans,          \* the Span objects
    Logs,           \* level calls
    Keys,           \* baggage keys
    Inbound,        \* inbound trace contexts
    WithParent,     \* the ones that name a parent span
    MaxDepth,       \* bound: traced calls open in one context
    MaxSweeps,      \* bound: flush() calls
    MaxContinues,   \* bound: continue_trace() calls
    MaxResets,      \* bound: reset_context() calls
    Faults,         \* whether building a span, an event or a worker may fail
    None            \* Python's None

ASSUME SpansAssumption ==
    /\ Main \in Contexts
    /\ None \notin Contexts \cup Spans \cup Inbound \cup Logs
    /\ None \notin Spans \X Nat /\ None \notin Seq(Seq(Spans)) /\ None \notin Seq(SUBSET Keys)
    /\ None \notin (Spans \cup Inbound) \X (Spans \cup Inbound \cup {None})
    /\ Spans \cap Inbound = {} /\ Logs \cap Inbound = {}
    /\ WithParent \subseteq Inbound
    /\ MaxDepth \in Nat /\ MaxSweeps \in Nat /\ MaxContinues \in Nat
    /\ MaxResets \in Nat
    /\ Faults \in BOOLEAN

VARIABLES
    stack,          \* _span_stack of each context
    baggage,        \* _baggage of each context, by its keys
    adopted,        \* _adopted of each context
    frames,         \* the traced calls open in each context: what _begin returned
    live,           \* the contexts that exist
    pc,             \* where each context is
    local,          \* the span a call of this context works on
    item,           \* the level call or the inbound context it works on
    ref,            \* the list object it has loaded
    idx,            \* the sweep's position in the stack
    opened,         \* the spans that were created
    trace,          \* span.trace_id; a fresh id is named by its span
    parent,         \* span.parent_span_id
    closed,         \* span.closed
    swept,          \* span.swept
    gen,            \* which list span.events is bound to
    lock,           \* the holder of _sweep_lock
    at,             \* the list each event was appended to
    tag,            \* each event's trace_id and parent_span_id
    fields,         \* each event's baggage fields
    queue,          \* the lists submitted to the worker and not read
    delivered,      \* how often each event was read by the worker, or emitted directly
    counted,        \* the events counted in in_span_lost or orphan_lost
    sweeps,         \* flush() calls made
    continues,      \* continue_trace() calls made
    shared,         \* history: spans that a second context knows
    sealed,         \* history: spans whose close has detached their list, or has given up
    overtaken,      \* history: level calls that had read the flag of a span when its close set it
    ambient,        \* history: keys and traces set while no traced call held a scope
    resets          \* reset_context() calls made

ctxVars   == <<stack, baggage, adopted, frames, live, ambient>>
localVars == <<local, item, ref, idx>>
spanVars  == <<opened, trace, parent, closed, swept, gen, shared>>
eventVars == <<at, tag, fields>>
outVars   == <<queue, delivered, counted>>
countVars == <<sweeps, continues, resets>>
sealVars  == <<sealed, overtaken>>
vars == <<ctxVars, localVars, spanVars, eventVars, outVars, countVars, sealVars, pc, lock>>

----------------------------------------------------------------------------
StartOf(s) == <<"start", s>>
EndOf(s)   == <<"end", s>>
LogOf(l)   == <<"log", l>>
Boundary   == {StartOf(s) : s \in Spans} \cup {EndOf(s) : s \in Spans}
Events     == Boundary \cup {LogOf(l) : l \in Logs}
Traces     == Spans \cup Inbound

At(c, here)    == pc[c] = here
Goto(c, there) == pc' = [pc EXCEPT ![c] = there]

\* current_span
CurrentSpan(c) == IF stack[c] = <<>> THEN None ELSE stack[c][Len(stack[c])]

\* The list that span.events is bound to, and what is in it.
ListOf(s)   == <<s, gen[s]>>
Content(ls) == {e \in Events : at[e] = ls}

\* What build_event copies from the span into each of its events.
IdsOf(s) == <<trace[s], parent[s]>>

\* The two halves of an adopted context.
AdoptedIds(i) == <<i, IF i \in WithParent THEN i ELSE None>>

\* A call that returns forgets its local variables.
Forget(c) ==
    /\ local' = [local EXCEPT ![c] = None] /\ item' = [item EXCEPT ![c] = None]
    /\ ref' = [ref EXCEPT ![c] = None] /\ idx' = [idx EXCEPT ![c] = 0]

Top(c)    == frames[c][Len(frames[c])]
Scoped(c) == \E i \in DOMAIN frames[c] : frames[c][i].scope # None

Init ==
    /\ stack = [c \in Contexts |-> <<>>]
    /\ baggage = [c \in Contexts |-> {}] /\ adopted = [c \in Contexts |-> None]
    /\ frames = [c \in Contexts |-> <<>>]
    /\ live = {Main}
    /\ pc = [c \in Contexts |-> "run"]
    /\ local = [c \in Contexts |-> None] /\ item = [c \in Contexts |-> None]
    /\ ref = [c \in Contexts |-> None] /\ idx = [c \in Contexts |-> 0]
    /\ opened = {} /\ trace = [s \in Spans |-> s] /\ parent = [s \in Spans |-> None]
    /\ closed = [s \in Spans |-> FALSE] /\ swept = [s \in Spans |-> FALSE]
    /\ gen = [s \in Spans |-> 1]
    /\ lock = None
    /\ at = [e \in Events |-> None] /\ tag = [e \in Events |-> None]
    /\ fields = [e \in Events |-> {}]
    /\ queue = <<>> /\ delivered = [e \in Events |-> 0] /\ counted = {}
    /\ sweeps = 0 /\ continues = 0
    /\ shared = {} /\ sealed = {} /\ overtaken = {}
    /\ ambient = [c \in Contexts |-> {}] /\ resets = 0

----------------------------------------------------------------------------
(* A traced call opens: _begin, _open_span                                 *)

\* Faulty variant: an adopted context is taken for granted.
InheritedIds_AdoptedAlways(c, s) ==
    LET outer == CurrentSpan(c)
    IN  IF outer # None THEN <<trace[outer], outer>> ELSE AdoptedIds(adopted[c])

\* _open_span: the trace and the parent that a new span inherits.
InheritedIds(c, s) ==
    LET outer == CurrentSpan(c)
    IN  CASE outer # None                      -> <<trace[outer], outer>>
          [] outer = None /\ adopted[c] # None -> AdoptedIds(adopted[c])
          [] OTHER                             -> <<s, None>>

\* What _begin keeps if one of its three steps fails.
Outcomes == {"all"} \cup (IF Faults THEN {"nothing", "scope", "span"} ELSE {})

OpenSpan(c, s) ==
    LET ids == InheritedIds(c, s)
    IN  /\ opened' = opened \cup {s}
        /\ trace' = [trace EXCEPT ![s] = ids[1]]
        /\ parent' = [parent EXCEPT ![s] = ids[2]]
        /\ at' = [at EXCEPT ![StartOf(s)] = ListOf(s)]
        /\ tag' = [tag EXCEPT ![StartOf(s)] = ids]

\* The scope is taken first, and only with no span open.
Begin(c) ==
    /\ c \in live /\ At(c, "run") /\ Len(frames[c]) < MaxDepth
    /\ \E kept \in Outcomes, s \in Spans \ opened :
         LET made == kept \in {"span", "all"}
         IN  /\ frames' = [frames EXCEPT ![c] = Append(@,
                    [span  |-> IF made THEN s ELSE None,
                     token |-> IF kept = "all" THEN <<stack[c]>> ELSE None,
                     scope |-> IF kept = "nothing" \/ CurrentSpan(c) # None THEN None
                                                                           ELSE <<baggage[c]>>])]
             /\ IF made THEN OpenSpan(c, s) ELSE UNCHANGED <<opened, trace, parent, at, tag>>
             /\ stack' = IF kept = "all" THEN [stack EXCEPT ![c] = Append(@, s)] ELSE stack
    /\ UNCHANGED <<baggage, adopted, live, ambient, localVars, closed, swept, gen, shared, fields,
                   outVars, countVars, sealVars, pc, lock>>

----------------------------------------------------------------------------
(* A traced call ends: _end, _close_span, _flush                           *)

CloseUnchanged == UNCHANGED <<ctxVars, item, idx, opened, trace, parent, swept, shared, countVars>>

\* `span.events.append(end_event(...))` loads the list before the event is built.
EndLoad(c) ==
    /\ c \in live /\ At(c, "run") /\ frames[c] # <<>>
    /\ IF Top(c).span = None
       THEN Goto(c, "release") /\ UNCHANGED <<local, ref>>
       ELSE /\ local' = [local EXCEPT ![c] = Top(c).span]
            /\ ref' = [ref EXCEPT ![c] = ListOf(Top(c).span)]
            /\ Goto(c, "end")
    /\ CloseUnchanged
    /\ UNCHANGED <<closed, gen, eventVars, outVars, sealVars, lock>>

EndAppend(c) ==
    /\ At(c, "end")
    /\ at' = [at EXCEPT ![EndOf(local[c])] = ref[c]]
    /\ tag' = [tag EXCEPT ![EndOf(local[c])] = IdsOf(local[c])]
    /\ Goto(c, "close")
    /\ CloseUnchanged
    /\ UNCHANGED <<local, ref, closed, gen, fields, outVars, sealVars, lock>>

\* backfill_baggage: the boundary events of the list the span has now.
Backfill(s, keys) ==
    fields' = [e \in Events |->
                 IF e \in Boundary /\ at[e] = ListOf(s) THEN fields[e] \cup keys ELSE fields[e]]

\* The contexts inside a level call that will append to the span.
Appending(s) == {d \in Contexts : pc[d] \in {"build", "append"} /\ local[d] = s}

EndClose(c) ==
    /\ At(c, "close")
    /\ Backfill(local[c], baggage[c])
    /\ closed' = [closed EXCEPT ![local[c]] = TRUE]
    /\ overtaken' = overtaken \cup {LogOf(item[d]) : d \in Appending(local[c])}
    /\ Goto(c, "worker")
    /\ CloseUnchanged
    /\ UNCHANGED <<local, ref, gen, at, tag, outVars, sealed, lock>>

\* _get_worker may fail to start a thread; what the list holds is then counted.
EndWorker(c) ==
    /\ At(c, "worker")
    /\ \/ Goto(c, "detach") /\ UNCHANGED <<counted, sealed>>
       \/ /\ Faults
          /\ counted' = counted \cup Content(ListOf(local[c]))
          /\ sealed' = sealed \cup {local[c]}
          /\ Goto(c, "release")
    /\ CloseUnchanged
    /\ UNCHANGED <<local, ref, closed, gen, eventVars, queue, delivered, overtaken, lock>>

\* Faulty variant: the close does not take the lock.
EndDetach_NoLock(c) ==
    /\ At(c, "detach")
    /\ ref' = [ref EXCEPT ![c] = ListOf(local[c])]
    /\ Goto(c, "swap")
    /\ CloseUnchanged
    /\ UNCHANGED <<local, closed, gen, eventVars, outVars, sealVars, lock>>

EndDetach(c) ==
    /\ At(c, "detach") /\ lock = None
    /\ lock' = c
    /\ ref' = [ref EXCEPT ![c] = ListOf(local[c])]
    /\ Goto(c, "swap")
    /\ CloseUnchanged
    /\ UNCHANGED <<local, closed, gen, eventVars, outVars, sealVars>>

EndSwap(c) ==
    /\ At(c, "swap")
    /\ gen' = [gen EXCEPT ![local[c]] = @ + 1]
    /\ lock' = None
    /\ sealed' = sealed \cup {local[c]}
    /\ Goto(c, "submit")
    /\ CloseUnchanged
    /\ UNCHANGED <<local, ref, closed, eventVars, outVars, overtaken>>

EndSubmit(c) ==
    /\ At(c, "submit")
    /\ queue' = Append(queue, ref[c])
    /\ Goto(c, "release")
    /\ CloseUnchanged
    /\ UNCHANGED <<local, ref, closed, gen, eventVars, delivered, counted, sealVars, lock>>

\* Faulty variant: pop_span is called with no token, and wipes the stack.
PopSpan_Unchecked(c) ==
    stack' = [stack EXCEPT ![c] = IF Top(c).token = None THEN <<>> ELSE Top(c).token[1]]

\* pop_span, for a span that was pushed.
PopSpan(c) ==
    IF Top(c).token = None THEN UNCHANGED stack
                           ELSE stack' = [stack EXCEPT ![c] = Top(c).token[1]]

\* Faulty variant: the adopted context stays.
PopBaggageScope_KeepsAdopted(c) ==
    /\ UNCHANGED adopted
    /\ IF Top(c).scope = None THEN UNCHANGED baggage
                              ELSE baggage' = [baggage EXCEPT ![c] = Top(c).scope[1]]

\* pop_baggage_scope, for a scope that was taken: baggage is restored, an adopted trace is not.
PopBaggageScope(c) ==
    IF Top(c).scope = None
    THEN UNCHANGED <<adopted, baggage>>
    ELSE /\ adopted' = [adopted EXCEPT ![c] = None]
         /\ baggage' = [baggage EXCEPT ![c] = Top(c).scope[1]]

EndRelease(c) ==
    /\ At(c, "release")
    /\ PopSpan(c) /\ PopBaggageScope(c)
    /\ frames' = [frames EXCEPT ![c] = SubSeq(@, 1, Len(@) - 1)]
    /\ Goto(c, "run")
    /\ Forget(c)
    /\ UNCHANGED <<live, ambient, spanVars, eventVars, outVars, countVars, sealVars, lock>>

End(c) ==
    \/ EndLoad(c) \/ EndAppend(c) \/ EndClose(c) \/ EndWorker(c) \/ EndDetach(c) \/ EndSwap(c)
    \/ EndSubmit(c) \/ EndRelease(c)

----------------------------------------------------------------------------
(* A level call: api._log                                                  *)

LogUnchanged == UNCHANGED <<ctxVars, spanVars, countVars, sealVars, lock>>

\* Faulty variant: the closed flag is not read.
Joinable_AnySpan(s) == s # None

Joinable(s) == s # None /\ ~closed[s]

\* Level calls that were not made yet.
Unlogged == {l \in Logs : /\ \A d \in Contexts : item[d] # l
                          /\ tag[LogOf(l)] = None /\ delivered[LogOf(l)] = 0
                          /\ LogOf(l) \notin counted}

\* The current span and its flag are read before the event is built.
LogRead(c) ==
    /\ c \in live /\ At(c, "run")
    /\ \E l \in Unlogged : item' = [item EXCEPT ![c] = l]
    /\ local' = [local EXCEPT ![c] = CurrentSpan(c)]
    /\ Goto(c, IF Joinable(CurrentSpan(c)) THEN "build" ELSE "orphan")
    /\ LogUnchanged
    /\ UNCHANGED <<ref, idx, eventVars, outVars>>

LogBuild(c) ==
    /\ At(c, "build")
    /\ \/ /\ tag' = [tag EXCEPT ![LogOf(item[c])] = IdsOf(local[c])]
          /\ fields' = [fields EXCEPT ![LogOf(item[c])] = baggage[c]]
          /\ Goto(c, "append")
          /\ UNCHANGED <<localVars, counted>>
       \/ /\ Faults
          /\ counted' = counted \cup {LogOf(item[c])}
          /\ Goto(c, "run") /\ Forget(c)
          /\ UNCHANGED <<tag, fields>>
    /\ LogUnchanged
    /\ UNCHANGED <<at, queue, delivered>>

LogAppend(c) ==
    /\ At(c, "append")
    /\ at' = [at EXCEPT ![LogOf(item[c])] = ListOf(local[c])]
    /\ Goto(c, "run") /\ Forget(c)
    /\ LogUnchanged
    /\ UNCHANGED <<tag, fields, outVars>>

\* A span of its own, emitted on the caller's thread: delivered, or counted.
LogOrphan(c) ==
    /\ At(c, "orphan")
    /\ \/ /\ delivered' = [delivered EXCEPT ![LogOf(item[c])] = @ + 1]
          /\ UNCHANGED counted
       \/ /\ counted' = counted \cup {LogOf(item[c])}
          /\ UNCHANGED delivered
    /\ Goto(c, "run") /\ Forget(c)
    /\ LogUnchanged
    /\ UNCHANGED <<eventVars, queue>>

Log(c) == LogRead(c) \/ LogBuild(c) \/ LogAppend(c) \/ LogOrphan(c)

----------------------------------------------------------------------------
(* flush() inside a span: _sweep_open_spans, under the lock                *)

SweepUnchanged == UNCHANGED <<ctxVars, opened, trace, parent, closed, shared, at, tag, delivered,
                              counted, continues, resets, sealVars>>

SweepBegin(c) ==
    /\ c \in live /\ At(c, "run") /\ sweeps < MaxSweeps
    /\ lock = None
    /\ lock' = c
    /\ sweeps' = sweeps + 1
    /\ idx' = [idx EXCEPT ![c] = 1]
    /\ Goto(c, "sweep")
    /\ SweepUnchanged
    /\ UNCHANGED <<local, item, ref, swept, gen, fields, queue>>

\* Faulty variant: the boundary events leave as they were built.
SweepBackfill_Skipped(s, keys) == UNCHANGED fields

SweepBackfill(s, keys) == Backfill(s, keys)

\* Faulty variant: the sweep leaves no mark.
Mark_Skipped(s) == UNCHANGED swept

Mark(s) == swept' = [swept EXCEPT ![s] = TRUE]

\* One span of the stack.  The worker is resolved before anything is detached, and one that cannot
\* be built ends the sweep with the events where they were.
SweepSpan(c) ==
    /\ At(c, "sweep") /\ idx[c] \in DOMAIN stack[c]
    /\ LET s == stack[c][idx[c]]
       IN  \/ /\ Content(ListOf(s)) = {}
              /\ Mark(s)
              /\ idx' = [idx EXCEPT ![c] = @ + 1]
              /\ UNCHANGED <<local, item, ref, fields, lock, pc>>
           \/ /\ Content(ListOf(s)) # {} /\ Faults
              /\ lock' = None
              /\ Goto(c, "run") /\ Forget(c)
              /\ UNCHANGED <<swept, fields>>
           \/ /\ Content(ListOf(s)) # {}
              /\ SweepBackfill(s, baggage[c])
              /\ Mark(s)
              /\ local' = [local EXCEPT ![c] = s]
              /\ Goto(c, "sweepLoad")
              /\ UNCHANGED <<item, ref, idx, lock>>
    /\ SweepUnchanged
    /\ UNCHANGED <<gen, queue, sweeps>>

SweepLoad(c) ==
    /\ At(c, "sweepLoad")
    /\ ref' = [ref EXCEPT ![c] = ListOf(local[c])]
    /\ Goto(c, "sweepSwap")
    /\ SweepUnchanged
    /\ UNCHANGED <<local, item, idx, swept, gen, fields, queue, sweeps, lock>>

SweepSwap(c) ==
    /\ At(c, "sweepSwap")
    /\ gen' = [gen EXCEPT ![local[c]] = @ + 1]
    /\ Goto(c, "sweepSubmit")
    /\ SweepUnchanged
    /\ UNCHANGED <<local, item, idx, ref, swept, fields, queue, sweeps, lock>>

SweepSubmit(c) ==
    /\ At(c, "sweepSubmit")
    /\ queue' = Append(queue, ref[c])
    /\ idx' = [idx EXCEPT ![c] = @ + 1]
    /\ Goto(c, "sweep")
    /\ SweepUnchanged
    /\ UNCHANGED <<local, item, ref, swept, gen, fields, sweeps, lock>>

SweepEnd(c) ==
    /\ At(c, "sweep") /\ idx[c] \notin DOMAIN stack[c]
    /\ lock' = None
    /\ Goto(c, "run") /\ Forget(c)
    /\ SweepUnchanged
    /\ UNCHANGED <<swept, gen, fields, queue, sweeps>>

Sweep(c) == SweepBegin(c) \/ SweepSpan(c) \/ SweepLoad(c) \/ SweepSwap(c) \/ SweepSubmit(c)
            \/ SweepEnd(c)

\* The worker reads a list it was given, with whatever was appended to it by then.
WorkerTake ==
    /\ queue # <<>>
    /\ queue' = Tail(queue)
    /\ delivered' = [e \in Events |-> IF at[e] = Head(queue) THEN delivered[e] + 1 ELSE delivered[e]]
    /\ UNCHANGED <<ctxVars, localVars, spanVars, eventVars, counted, countVars, sealVars, pc, lock>>

----------------------------------------------------------------------------
(* The context of a call: continue_trace, set_baggage, reset_context, and a *)
(* task or a thread that runs in a copy of it                              *)

Merge(c, keys) ==
    /\ baggage' = [baggage EXCEPT ![c] = @ \cup keys]
    /\ ambient' = IF Scoped(c) THEN ambient ELSE [ambient EXCEPT ![c] = @ \cup keys]

SetBaggage(c) ==
    /\ c \in live /\ At(c, "run")
    /\ \E k \in Keys \ baggage[c] : Merge(c, {k})
    /\ UNCHANGED <<stack, adopted, frames, live, localVars, spanVars, eventVars, outVars, countVars,
                   sealVars, pc, lock>>

IsRoot(s) == s # None /\ parent[s] = None

\* The baggage header of continue_trace: absent or unusable, or a key.
Headers == {{}} \cup {{k} : k \in Keys}

\* A valid inbound context.  A root span that was flushed refuses it; the baggage header is merged
\* either way.  (With an invalid context or none, continue_trace is a SetBaggage, or nothing.)
ContinueCheck(c) ==
    /\ c \in live /\ At(c, "run") /\ continues < MaxContinues
    /\ continues' = continues + 1
    /\ IF IsRoot(CurrentSpan(c)) /\ swept[CurrentSpan(c)]
       THEN /\ \E keys \in Headers : Merge(c, keys)
            /\ UNCHANGED <<item, pc>>
       ELSE /\ \E i \in Inbound : item' = [item EXCEPT ![c] = i]
            /\ Goto(c, "adopt")
            /\ UNCHANGED <<baggage, ambient>>
    /\ UNCHANGED <<stack, adopted, frames, live, local, ref, idx, spanVars, eventVars, outVars,
                   sweeps, resets, sealVars, lock>>

\* _reparent_current_span: an open root span moves, with what it has buffered.
Reparent(s, i) ==
    IF IsRoot(s)
    THEN /\ trace' = [trace EXCEPT ![s] = AdoptedIds(i)[1]]
         /\ parent' = [parent EXCEPT ![s] = AdoptedIds(i)[2]]
         /\ tag' = [e \in Events |-> IF at[e] = ListOf(s) THEN AdoptedIds(i) ELSE tag[e]]
    ELSE UNCHANGED <<trace, parent, tag>>

ContinueAdopt(c) ==
    /\ At(c, "adopt")
    /\ adopted' = [adopted EXCEPT ![c] = item[c]]
    /\ Reparent(CurrentSpan(c), item[c])
    /\ \E keys \in Headers :
          /\ baggage' = [baggage EXCEPT ![c] = @ \cup keys]
          /\ ambient' = IF Scoped(c) THEN ambient
                                     ELSE [ambient EXCEPT ![c] = @ \cup keys \cup {item[c]}]
    /\ Goto(c, "run") /\ Forget(c)
    /\ UNCHANGED <<stack, frames, live, opened, closed, swept, gen, shared, at, fields, outVars,
                   countVars, sealVars, lock>>

ResetContext(c) ==
    /\ c \in live /\ At(c, "run") /\ resets < MaxResets
    /\ adopted' = [adopted EXCEPT ![c] = None]
    /\ baggage' = [baggage EXCEPT ![c] = {}]
    /\ resets' = resets + 1
    /\ UNCHANGED <<stack, frames, live, ambient, localVars, spanVars, eventVars, outVars, sweeps,
                   continues, sealVars, pc, lock>>

Spawn(c) ==
    /\ c \in live /\ At(c, "run")
    /\ \E d \in Contexts \ live :
          /\ live' = live \cup {d}
          /\ stack' = [stack EXCEPT ![d] = stack[c]]
          /\ baggage' = [baggage EXCEPT ![d] = baggage[c]]
          /\ adopted' = [adopted EXCEPT ![d] = adopted[c]]
          /\ ambient' = [ambient EXCEPT ![d] = baggage[c] \cup {adopted[c]}]
    /\ shared' = shared \cup {stack[c][i] : i \in DOMAIN stack[c]}
    /\ UNCHANGED <<frames, localVars, opened, trace, parent, closed, swept, gen, eventVars, outVars,
                   countVars, sealVars, pc, lock>>

Context(c) == SetBaggage(c) \/ ContinueCheck(c) \/ ContinueAdopt(c) \/ ResetContext(c) \/ Spawn(c)

----------------------------------------------------------------------------
Terminated ==
    /\ \A c \in Contexts : At(c, "run") /\ frames[c] = <<>>
    /\ queue = <<>> /\ lock = None
    /\ UNCHANGED vars

Next ==
    \/ \E c \in Contexts : Begin(c) \/ End(c) \/ Log(c) \/ Sweep(c) \/ Context(c)
    \/ WorkerTake \/ Terminated

Spec == Init /\ [][Next]_vars

----------------------------------------------------------------------------
(* Properties                                                              *)

PCs == {"run", "end", "close", "worker", "detach", "swap", "submit", "release", "build", "append",
        "orphan", "sweep", "sweepLoad", "sweepSwap", "sweepSubmit", "adopt"}
Lists == Spans \X Nat

TypeOK ==
    /\ stack \in [Contexts -> Seq(Spans)] /\ live \subseteq Contexts
    /\ baggage \in [Contexts -> SUBSET Keys] /\ adopted \in [Contexts -> Inbound \cup {None}]
    /\ pc \in [Contexts -> PCs] /\ local \in [Contexts -> Spans \cup {None}]
    /\ item \in [Contexts -> Logs \cup Inbound \cup {None}]
    /\ ref \in [Contexts -> Lists \cup {None}] /\ idx \in [Contexts -> Nat]
    /\ opened \subseteq Spans /\ trace \in [Spans -> Traces]
    /\ parent \in [Spans -> Traces \cup {None}]
    /\ closed \in [Spans -> BOOLEAN] /\ swept \in [Spans -> BOOLEAN] /\ gen \in [Spans -> Nat]
    /\ lock \in Contexts \cup {None}
    /\ at \in [Events -> Lists \cup {None}] /\ tag \in [Events -> (Traces \X (Traces \cup {None})) \cup {None}]
    /\ fields \in [Events -> SUBSET Keys]
    /\ queue \in Seq(Lists)
    /\ delivered \in [Events -> Nat] /\ counted \subseteq Events

\* No event reaches the worker twice, although a sweep and a close, or two sweeps from contexts
\* that share a span, detach the same attribute.
DeliveredOnce == \A e \in Events : delivered[e] <= 1

\* On its way: in the list of a span that a traced call will still close, in the hands of a detach,
\* or submitted.
InHand(ls)    == \E c \in Contexts : ref[c] = ls /\ pc[c] \in {"swap", "submit", "sweepSwap",
                                                            "sweepSubmit"}
WillClose(s)  == s \notin sealed /\ \E c \in Contexts : \E i \in DOMAIN frames[c] :
                                        frames[c][i].span = s
OnItsWay(e) ==
    \/ InHand(at[e]) \/ (\E i \in DOMAIN queue : queue[i] = at[e])
    \/ \E s \in Spans : WillClose(s) /\ at[e] = ListOf(s)

\* An event that was buffered is delivered, on its way, or counted as lost; only a level call that
\* read the flag before the close of a span it shares, and appended after it, may be neither.
LostOnlyLate ==
    \A e \in Events : at[e] # None /\ (\A s \in Spans : e # EndOf(s)) =>
        delivered[e] > 0 \/ e \in counted \/ e \in overtaken \/ OnItsWay(e)

\* Every span.end arrives, is on its way or is counted.  ("The span stays **open**: its events go
\* now and its ``span.end`` arrives later in its own batch", decorator.py:376-377.)
EndArrives ==
    \A s \in Spans : at[EndOf(s)] # None =>
        delivered[EndOf(s)] > 0 \/ EndOf(s) \in counted \/ OnItsWay(EndOf(s))

\* All events of one span carry one trace id and one parent, handed over or not, as long as one
\* context uses the span: an adoption never splits a span between two traces.
OneTracePerSpan ==
    \A s \in opened \ shared : \A e \in Events :
        at[e] # None /\ at[e][1] = s => tag[e] = IdsOf(s)

\* The boundary events handed over with a level call's event carry the baggage it carries.
BoundaryComplete ==
    resets = 0 => \A i \in DOMAIN queue : queue[i][1] \notin shared =>
        \A e, f \in Content(queue[i]) : f \in Boundary => fields[e] \subseteq fields[f]

\* Nothing a traced request set, baggage or an adopted trace, is there once the request is over.
NothingLeaks ==
    \A c \in Contexts : ~Scoped(c) => /\ baggage[c] \subseteq ambient[c]
                                      /\ adopted[c] \in ambient[c] \cup {None}

\* The span of a traced call stays on its context's stack until the call ends, whatever failed in
\* the calls inside it.
StaysOnStack ==
    \A c \in Contexts : \A i \in DOMAIN frames[c] :
        frames[c][i].token # None =>
            \E j \in DOMAIN stack[c] : stack[c][j] = frames[c][i].span
=============================================================================
