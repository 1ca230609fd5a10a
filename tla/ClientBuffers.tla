---------------------------- MODULE ClientBuffers ----------------------------
(***************************************************************************)
(* The two sinks whose client keeps what emit() gave it: GooglePubSubSink,  *)
(* with a list of publish futures, and KafkaSink, with the producer's own   *)
(* queue and its delivery callbacks.  emit() may run on several threads (a  *)
(* level call outside a span delivers on its own), flush() and close() on   *)
(* others.  What becomes of a publish is external.                          *)
(*                                                                         *)
(* The closed check that begins an emit() is of the batch; the steps after  *)
(* it interleave with a close().  The locks are short: one step each.       *)
(***************************************************************************)
EXTENDS Integers, Sequences, FiniteSets, SequencesExt, Lists

CONSTANTS
    Emitters, Flushers, Closers,    \* threads inside emit(), flush() and close()
    PerBatch,       \* the events in the batch of each emitter
    MaxPending,     \* GooglePubSubSink.max_pending
    Unboundable     \* publishes whose future takes no timeout

\* A thread stands for one call: emit(), flush() or close().
ASSUME BuffersAssumption ==
    /\ PerBatch \in [Emitters -> Nat] /\ MaxPending \in Nat
    /\ Emitters \cap Flushers = {} /\ Emitters \cap Closers = {} /\ Flushers \cap Closers = {}

VARIABLES
    client,         \* which of the two
    verdict,        \* of each publish: "none" before it, then "refused", "open", or
                    \* "settled", which is delivered or failed
    futures,        \* _futures; for Kafka the producer's queue
    hold,           \* the futures a thread has taken off the list
    at,             \* where each thread is
    turn,           \* the event of its batch an emit() is at
    isClosed,       \* _closed
    judged,         \* how often a publish was confirmed, or counted in losses().failed
    late            \* history: the publishes made after close() had set _closed

bufferVars == <<client, verdict, futures, hold, at, turn, isClosed, judged, late>>

Threads   == Emitters \cup Flushers \cup Closers
Publishes == UNION {{<<t, i>> : i \in 1..PerBatch[t]} : t \in Emitters}
Settled(p) == verdict[p] = "settled"

BuffersInit ==
    /\ client \in {"pubsub", "kafka"}
    /\ verdict = [p \in Publishes |-> "none"]
    /\ futures = <<>> /\ hold = [t \in Threads |-> <<>>]
    /\ at = [t \in Threads |-> "idle"] /\ turn = [t \in Emitters |-> 1]
    /\ isClosed = FALSE /\ judged = [p \in Publishes |-> 0] /\ late = {}

Goto(t, place) == at' = [at EXCEPT ![t] = place]
Keeps(t, list)  == hold' = [hold EXCEPT ![t] = list]
\* _resolve: a future that settled is confirmed or counted.
Judge(S) == judged' = [p \in Publishes |-> judged[p] + IF p \in S THEN 1 ELSE 0]
In(list) == ToSet(list)
Without(list, S) == Keep(list, In(list) \ S)

----------------------------------------------------------------------------
(* emit()                                                                  *)

\* The closed check of the batch.
BeginEmit(t) ==
    /\ t \in Emitters /\ at[t] = "idle"
    /\ Goto(t, IF isClosed THEN "raised" ELSE "publish")
    /\ UNCHANGED <<client, verdict, futures, hold, turn, isClosed, judged, late>>

Current(t) == <<t, turn[t]>>
Loop(t) == at[t] = "publish" /\ turn[t] <= PerBatch[t]
Advance(t) == turn' = [turn EXCEPT ![t] = @ + 1]

\* publish() or produce() refuses the event.
RefusePublish(t) ==
    /\ t \in Emitters /\ Loop(t)
    /\ verdict' = [verdict EXCEPT ![Current(t)] = "refused"]
    /\ Advance(t)
    /\ UNCHANGED <<client, futures, hold, at, isClosed, judged, late>>

\* client.publish: the future is the thread's until it is appended.
Publish(t) ==
    /\ t \in Emitters /\ Loop(t) /\ client = "pubsub"
    /\ verdict' = [verdict EXCEPT ![Current(t)] = "open"]
    /\ Keeps(t, <<Current(t)>>) /\ Goto(t, "append")
    /\ UNCHANGED <<client, futures, turn, isClosed, judged, late>>

\* The append, unless a close() has swapped the list out: then the publish is counted.
AppendFuture(t) ==
    /\ t \in Emitters /\ at[t] = "append"
    /\ IF isClosed
       THEN Judge(In(hold[t])) /\ UNCHANGED futures
       ELSE futures' = futures \o hold[t] /\ UNCHANGED judged
    /\ Keeps(t, <<>>) /\ Advance(t) /\ Goto(t, "publish")
    /\ UNCHANGED <<client, verdict, isClosed, late>>

\* Whether a future has settled, for one that says so.
Reaped == {p \in In(futures) : Settled(p)}

AllRefused(t) == \A i \in 1..PerBatch[t] : verdict[<<t, i>>] = "refused"
Verdict(t) == IF t \in Emitters /\ AllRefused(t) THEN "raised" ELSE "returned"

\* _reap: what has settled is resolved, and the oldest beyond max_pending are taken off.
Reap(t) ==
    /\ t \in Emitters /\ client = "pubsub" /\ at[t] = "publish" /\ turn[t] > PerBatch[t]
    /\ LET open   == Without(futures, Reaped)
           excess == IF Len(open) > MaxPending THEN Len(open) - MaxPending ELSE 0
       IN  /\ futures' = SubSeq(open, excess + 1, Len(open))
           /\ Keeps(t, SubSeq(open, 1, excess))
           /\ Goto(t, IF excess = 0 THEN Verdict(t) ELSE "overflow")
    /\ Judge(Reaped)
    /\ UNCHANGED <<client, verdict, turn, isClosed, late>>

----------------------------------------------------------------------------
(* Waiting for futures                                                     *)

Waiting == {"overflow", "flush", "drain"}
Boundable(t) == In(hold[t]) \ Unboundable

\* _resolve_within: one future of the list settles in time.
ResolveOne(t) ==
    /\ at[t] \in Waiting
    /\ \E p \in Boundable(t) :
          Settled(p) /\ Judge({p}) /\ Keeps(t, Without(hold[t], {p}))
    /\ UNCHANGED <<client, verdict, futures, at, turn, isClosed, late>>

\* The end of the overflow wait and of the flush: by then everything has settled, or the deadline
\* or the stop signal has come, and what settled meanwhile is resolved (_classify_remainder).
EndWait(t) ==
    /\ at[t] \in {"overflow", "flush"}
    /\ LET now == {p \in Boundable(t) : Settled(p)}
           left == Without(hold[t], now)
       IN  /\ Judge(now) /\ Keeps(t, left)
           /\ Goto(t, CASE left # <<>> /\ at[t] = "flush"    -> "flushback"
                        [] left # <<>> /\ at[t] = "overflow" -> "back"
                        [] left = <<>> /\ at[t] = "overflow" -> Verdict(t)
                        [] OTHER                             -> "returned")
    /\ UNCHANGED <<client, verdict, futures, turn, isClosed, late>>

\* Faulty variant: what is left goes back on the list of a closed sink.
PutBack_Unchecked(t) ==
    /\ at[t] \in {"back", "flushback"}
    /\ futures' = hold[t] \o futures /\ Keeps(t, <<>>)
    /\ Goto(t, IF at[t] = "back" THEN Verdict(t) ELSE "raised")
    /\ UNCHANGED <<client, verdict, turn, isClosed, judged, late>>

\* What is left goes back to the front of the list, or, when the sink was closed meanwhile, is
\* drained here, since nobody else will.
PutBack(t) ==
    /\ at[t] \in {"back", "flushback"}
    /\ IF isClosed
       THEN Goto(t, "drain") /\ UNCHANGED <<futures, hold>>
       ELSE /\ futures' = hold[t] \o futures /\ Keeps(t, <<>>)
            /\ Goto(t, IF at[t] = "back" THEN Verdict(t) ELSE "raised")
    /\ UNCHANGED <<client, verdict, turn, isClosed, judged, late>>

After(t) == CASE t \in Emitters -> Verdict(t) [] t \in Flushers -> "raised" [] OTHER -> "returned"

\* Faulty variant: the drain has no deadline.
DrainExpire_Unbounded(t) ==
    /\ at[t] = "drain" /\ \A p \in Boundable(t) : Settled(p)
    /\ Judge(Boundable(t)) /\ Keeps(t, Without(hold[t], Boundable(t)))
    /\ Goto(t, IF In(hold[t]) \subseteq Boundable(t) THEN After(t) ELSE "unbounded")
    /\ UNCHANGED <<client, verdict, futures, turn, isClosed, late>>

\* _drain_pending: at the deadline what has not settled is counted; a future that takes no timeout
\* is waited for however long it takes.
DrainExpire(t) ==
    /\ at[t] = "drain"
    /\ Judge(Boundable(t)) /\ Keeps(t, Without(hold[t], Boundable(t)))
    /\ Goto(t, IF In(hold[t]) \subseteq Boundable(t) THEN After(t) ELSE "unbounded")
    /\ UNCHANGED <<client, verdict, futures, turn, isClosed, late>>

DrainUnbounded(t) ==
    /\ at[t] = "unbounded"
    /\ \A p \in In(hold[t]) : Settled(p)
    /\ Judge(In(hold[t])) /\ Keeps(t, <<>>) /\ Goto(t, After(t))
    /\ UNCHANGED <<client, verdict, futures, turn, isClosed, late>>

\* flush: the whole list is taken.  The closed check is made before the lock is taken; a close()
\* that comes in between leaves an empty list, with which the flush returns as if it had come first.
BeginFlush(t) ==
    /\ t \in Flushers /\ at[t] = "idle" /\ client = "pubsub"
    /\ IF isClosed THEN Goto(t, "raised") /\ UNCHANGED <<futures, hold>>
       ELSE /\ futures' = <<>> /\ Keeps(t, futures)
            /\ Goto(t, IF futures = <<>> THEN "returned" ELSE "flush")
    /\ UNCHANGED <<client, verdict, turn, isClosed, judged, late>>

\* close: the flag and the swap in one critical section.
BeginClose(t) ==
    /\ t \in Closers /\ at[t] = "idle" /\ client = "pubsub"
    /\ isClosed' = TRUE
    /\ futures' = <<>> /\ Keeps(t, futures) /\ Goto(t, "drain")
    /\ UNCHANGED <<client, verdict, turn, judged, late>>

----------------------------------------------------------------------------
(* KafkaSink                                                               *)

\* poll and flush serve the callbacks of what has settled: _on_delivery.
Served == {p \in In(futures) : Settled(p)}

\* produce, then poll(0).
Produce(t) ==
    /\ t \in Emitters /\ Loop(t) /\ client = "kafka"
    /\ verdict' = [verdict EXCEPT ![Current(t)] = "open"]
    /\ futures' = Append(Without(futures, Served), Current(t))
    /\ Judge(Served)
    /\ late' = IF isClosed THEN late \cup {Current(t)} ELSE late
    /\ Advance(t)
    /\ UNCHANGED <<client, hold, at, isClosed>>

\* The poll(0) behind an event that was produced raises: its exception is the call's.
PollRaises(t) ==
    /\ t \in Emitters /\ client = "kafka" /\ at[t] = "publish"
    /\ turn[t] > 1 /\ verdict[<<t, turn[t] - 1>>] # "refused"
    /\ Goto(t, "raised")
    /\ UNCHANGED <<client, verdict, futures, hold, turn, isClosed, judged, late>>

KafkaReturn(t) ==
    /\ t \in Emitters /\ client = "kafka" /\ at[t] = "publish" /\ turn[t] > PerBatch[t]
    /\ Goto(t, Verdict(t))
    /\ UNCHANGED <<client, verdict, futures, hold, turn, isClosed, judged, late>>

KafkaFlush(t) ==
    /\ t \in Flushers /\ client = "kafka" /\ at[t] = "idle"
    /\ Goto(t, IF isClosed THEN "raised" ELSE "serve")
    /\ UNCHANGED <<client, verdict, futures, hold, turn, isClosed, judged, late>>

\* close, under its own lock: a second one waits for the first, and returns.
KafkaClose(t) ==
    /\ t \in Closers /\ client = "kafka" /\ at[t] = "idle"
    /\ \A c \in Closers : at[c] # "serve"
    /\ isClosed' = TRUE /\ Goto(t, IF isClosed THEN "returned" ELSE "serve")
    /\ UNCHANGED <<client, verdict, futures, hold, turn, judged, late>>

\* producer.flush(timeout): callbacks are served until the queue is empty or the time is up.
Serve(t) ==
    /\ at[t] = "serve" /\ Served # {}
    /\ futures' = Without(futures, Served) /\ Judge(Served)
    /\ UNCHANGED <<client, verdict, hold, at, turn, isClosed, late>>

\* Its end: a flush() raises for what remains, a close() counts it (_flush_bounded); or
\* producer.flush raises, and either call with it, nothing counted.
KafkaEnd(t) ==
    /\ at[t] = "serve"
    /\ \/ /\ Goto(t, IF futures = <<>> \/ t \in Closers THEN "returned" ELSE "raised")
          /\ Judge(IF t \in Closers THEN In(futures) ELSE {})
       \/ Goto(t, "raised") /\ Judge({})
    /\ UNCHANGED <<client, verdict, futures, hold, turn, isClosed, late>>

----------------------------------------------------------------------------
(* The whole                                                               *)

\* External: the destination answers, or the client gives up.
SettlePublish(p) ==
    /\ verdict[p] = "open"
    /\ verdict' = [verdict EXCEPT ![p] = "settled"]
    /\ UNCHANGED <<client, futures, hold, at, turn, isClosed, judged, late>>

ThreadStep(t) ==
    \/ RefusePublish(t) \/ Publish(t) \/ AppendFuture(t) \/ Reap(t)
    \/ ResolveOne(t) \/ EndWait(t) \/ PutBack(t) \/ DrainExpire(t) \/ DrainUnbounded(t)
    \/ Produce(t) \/ PollRaises(t) \/ KafkaReturn(t) \/ Serve(t) \/ KafkaEnd(t)

Call(t) == BeginEmit(t) \/ BeginFlush(t) \/ BeginClose(t) \/ KafkaFlush(t) \/ KafkaClose(t)

BuffersNext ==
    \/ \E t \in Threads : ThreadStep(t) \/ Call(t)
    \/ \E p \in Publishes : SettlePublish(p)

BuffersSpec == BuffersInit /\ [][BuffersNext]_bufferVars

Idle == \A t \in Threads : at[t] \in {"idle", "returned", "raised"}

----------------------------------------------------------------------------
(* Properties                                                              *)

\* How many hold the future of a publish: the list and the threads.
Owners(p) ==
    (IF p \in In(futures) THEN 1 ELSE 0) + Cardinality({t \in Threads : p \in In(hold[t])})

NoCloseRaised == \A c \in Closers : at[c] # "raised"

\* No publish is forgotten and none is judged twice, whatever emit(), flush() and close() do at the
\* same time.  Pub/Sub: a publish that was made has one owner until it is judged, once, and a closed
\* sink's list is empty, so that the owner is a thread that will judge it.  Kafka: when close()
\* returns, every message produced before it began was answered for by a callback or counted,
\* unless the producer raised out of the one that set the flag.
\* (A message produced by an emit() that close() overtook is the documented exception.)
NoPublishForgotten ==
    /\ client = "pubsub" =>
          /\ isClosed => futures = <<>>
          /\ \A p \in Publishes :
                judged[p] + Owners(p) = IF verdict[p] \in {"none", "refused"} THEN 0 ELSE 1
    /\ client = "kafka" /\ (\E c \in Closers : at[c] = "returned") /\ NoCloseRaised =>
          \A p \in Publishes \ late : verdict[p] \notin {"none", "refused"} => judged[p] > 0

\* A close() that has begun ends, and does so without an answer from the destination unless it holds
\* a future that takes no timeout: Pub/Sub's drain has a deadline, and so has the producer.flush
\* that Kafka's holds its lock across.
CloseEnds ==
    \A c \in Closers :
        at[c] \in {"drain", "serve"} ~>
            \/ at[c] \in {"returned", "raised"}
            \/ \E p \in In(hold[c]) \cap Unboundable : verdict[p] = "open"

=============================================================================
