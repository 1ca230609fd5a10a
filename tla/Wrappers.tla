------------------------------- MODULE Wrappers -------------------------------
(***************************************************************************)
(* The wrapper sinks as a tree: a MultiSink whose children are              *)
(* FilteringSinks and TransformSinks, each over a sink of its own, and the  *)
(* worker above it that hands a batch over again after a raise.             *)
(*                                                                         *)
(* The inner sinks are external and keep the contract of Sink.emit: a call  *)
(* that raises has delivered nothing.  A predicate or a transform may       *)
(* answer differently when it is asked again.  One thread calls, so a call  *)
(* interleaves with nothing; its steps are those after which a child may    *)
(* raise.                                                                   *)
(***************************************************************************)
EXTENDS Integers, FiniteSets

CONSTANTS
    Fan,            \* the number of children
    BatchEvents,    \* the events of the batch
    MaxTries        \* emit() calls the worker makes for the batch

ASSUME WrappersAssumption == Fan \in Nat /\ BatchEvents # {} /\ MaxTries \in Nat \ {0}

VARIABLES
    op,             \* the call in hand: "none", "emit", "flush", "close"
    child,          \* the loop's position
    kept,           \* kept (forwarded): the events for the inner sink; {} before the child is asked
    failures,       \* failures: the events whose predicate or transform raised
    took,           \* the children that returned from this call
    swallowed,      \* the children whose exception this call caught
    tries,          \* emit() calls so far
    outcome,        \* of the last call: "none", "returned", "raised"
    given,          \* history: how often the inner sink of a child delivered an event
    filtered,       \* history: the events a child filtered out in a call that counts
    charged,        \* _dropped of each child, by event
    absorbed,       \* _absorbed of the MultiSink, by child and event
    holding         \* the children whose inner sink still buffers something

fanVars == <<op, child, kept, failures, took, swallowed, tries, outcome, given, filtered, charged,
             absorbed, holding>>

Kids == 1..Fan
Zero == [k \in Kids |-> [e \in BatchEvents |-> 0]]
Add(counts, k, S) ==
    [counts EXCEPT ![k] = [e \in BatchEvents |-> counts[k][e] + IF e \in S THEN 1 ELSE 0]]

FanInit ==
    /\ op = "none" /\ child = 1 /\ kept = {} /\ failures = {}
    /\ took = {} /\ swallowed = {} /\ tries = 0 /\ outcome = "none"
    /\ given = Zero /\ filtered = Zero /\ charged = Zero /\ absorbed = Zero
    /\ holding = {}

counters == <<given, filtered, charged, absorbed>>

----------------------------------------------------------------------------
(* emit                                                                    *)

\* MultiSink.emit begins; Worker._emit calls it again after an exception.
FanBegin ==
    /\ op = "none" /\ outcome # "returned" /\ tries < MaxTries
    /\ op' = "emit" /\ child' = 1 /\ took' = {} /\ swallowed' = {}
    /\ tries' = tries + 1 /\ outcome' = "none"
    /\ UNCHANGED <<kept, failures, counters, holding>>

Asking == op = "emit" /\ child \in Kids /\ kept = {}

\* The child returns: it counts its drops.
ChildReturns(through, drops) ==
    /\ took' = took \cup {child} /\ child' = child + 1
    /\ given' = Add(given, child, through)
    /\ charged' = Add(charged, child, drops)
    /\ filtered' = Add(filtered, child, BatchEvents \ (through \cup drops))
    /\ kept' = {} /\ failures' = {}
    /\ UNCHANGED <<op, swallowed, tries, outcome, absorbed>>

\* The child raises, having counted nothing: the MultiSink goes on to the next one.
ChildRaises ==
    /\ swallowed' = swallowed \cup {child} /\ child' = child + 1
    /\ kept' = {} /\ failures' = {}
    /\ UNCHANGED <<op, took, tries, outcome, counters, holding>>

\* FilteringSink._passes: yes or no for each event, or an exception of the predicate.
Passes == [BatchEvents -> {"yes", "no", "raise"}]

\* TransformSink._apply: a dict, None, or an exception, of the transform or for what is no dict.
Apply == [BatchEvents -> {"yes", "no", "raise"}]

\* The loop both wrappers have.  If the test of every event raised, so does the call; if nothing
\* passed, the inner sink is not called.
Sieve(answer) ==
    LET pass == {e \in BatchEvents : answer[e] = "yes"}
        fail == {e \in BatchEvents : answer[e] = "raise"}
    IN  CASE fail = BatchEvents -> ChildRaises
          [] pass # {} -> /\ kept' = pass /\ failures' = fail
                          /\ UNCHANGED <<op, child, took, swallowed, tries, outcome, counters, holding>>
          [] OTHER     -> ChildReturns({}, fail) /\ UNCHANGED holding

\* FilteringSink: the first child.
FilterEmit == Asking /\ child = 1 /\ \E answer \in Passes : Sieve(answer)

\* TransformSink: the others.
TransformEmit == Asking /\ child > 1 /\ \E answer \in Apply : Sieve(answer)

\* External: the inner sink takes what is forwarded, and may buffer it.
InnerTakes ==
    /\ op = "emit" /\ kept # {}
    /\ ChildReturns(kept, failures)
    /\ holding' \in {holding, holding \cup {child}}

\* External: it raises, and the wrapper above it does too.
InnerRaises ==
    /\ op = "emit" /\ kept # {}
    /\ ChildRaises

\* Faulty variant: the MultiSink raises if any of its children did.
FanEnd_AnyFailure ==
    /\ op = "emit" /\ child > Fan
    /\ op' = "none"
    /\ outcome' = IF swallowed # {} THEN "raised" ELSE "returned"
    /\ UNCHANGED <<child, kept, failures, took, swallowed, tries, counters, holding>>

\* The end of the loop: it raises if every child did, so that the worker tries again, and counts
\* the batch for each child that did otherwise.
FanEnd ==
    /\ op = "emit" /\ child > Fan
    /\ op' = "none"
    /\ IF took = {} /\ swallowed # {}
       THEN outcome' = "raised" /\ UNCHANGED absorbed
       ELSE /\ outcome' = "returned"
            /\ absorbed' = [k \in Kids |-> [e \in BatchEvents |->
                              absorbed[k][e] + IF k \in swallowed THEN 1 ELSE 0]]
    /\ UNCHANGED <<child, kept, failures, took, swallowed, tries, given, filtered, charged, holding>>

----------------------------------------------------------------------------
(* flush and close                                                         *)

AskBegin ==
    /\ op = "none" /\ outcome = "returned"
    /\ op' \in {"flush", "close"} /\ child' = 1 /\ took' = {} /\ swallowed' = {} /\ outcome' = "none"
    /\ UNCHANGED <<kept, failures, tries, counters, holding>>

\* The inner sink of a child empties what it buffers, or raises: flush_sink, and the inner close().
Empty ==
    /\ \/ took' = took \cup {child} /\ holding' = holding \ {child} /\ UNCHANGED swallowed
       \/ swallowed' = swallowed \cup {child} /\ UNCHANGED <<took, holding>>
    /\ child' = child + 1
    /\ UNCHANGED <<op, kept, failures, tries, outcome, counters>>

FilterFlush    == op = "flush" /\ child \in Kids \cap {1} /\ Empty
TransformFlush == op = "flush" /\ child \in Kids \ {1} /\ Empty
FilterClose    == op = "close" /\ child \in Kids \cap {1} /\ Empty
TransformClose == op = "close" /\ child \in Kids \ {1} /\ Empty

\* MultiSink.flush raises the first exception it met, its close none.
AskEnd ==
    /\ op \in {"flush", "close"} /\ child > Fan
    /\ op' = IF op = "close" THEN "over" ELSE "asked"
    /\ outcome' = IF op = "flush" /\ swallowed # {} THEN "raised" ELSE "returned"
    /\ UNCHANGED <<child, kept, failures, took, swallowed, tries, counters, holding>>

FanNext ==
    \/ FanBegin \/ FilterEmit \/ TransformEmit \/ InnerTakes \/ InnerRaises \/ FanEnd
    \/ AskBegin \/ FilterFlush \/ TransformFlush \/ FilterClose \/ TransformClose \/ AskEnd

FanSpec == FanInit /\ [][FanNext]_fanVars

FanOver == op \in {"asked", "over"} \/ (op = "none" /\ outcome = "raised" /\ tries = MaxTries)

----------------------------------------------------------------------------
(* Properties                                                              *)

\* MultiSink.losses: what the children report and what it absorbed for them.
LossesOf(k, e) == charged[k][e] + absorbed[k][e]

Ends(k, e) == given[k][e] + filtered[k][e] + LossesOf(k, e)

\* When MultiSink.emit returns, each event has met with exactly one end at each child, over all the
\* calls the worker made: its sink delivered it, it was filtered, it was counted in the child's
\* `dropped`, or the MultiSink counted it for a child it caught.  A call that raises has left no
\* trace at any child.  And a flush() or a close() asks every child, and returns with nothing held
\* but by a child that raised.
FanOutAccounts ==
    /\ op = "none" /\ outcome = "returned" => \A k \in Kids, e \in BatchEvents : Ends(k, e) = 1
    /\ op = "none" /\ outcome = "raised"   => \A k \in Kids, e \in BatchEvents : Ends(k, e) = 0
    /\ op \in {"asked", "over"} => holding \subseteq swallowed
    /\ op = "asked" /\ outcome = "returned" => holding = {}

=============================================================================
