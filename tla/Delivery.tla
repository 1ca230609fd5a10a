------------------------------ MODULE Delivery ------------------------------
(***************************************************************************)
(* What the worker promises the threads that log, with no threads, queue,  *)
(* markers or flags in it: a first-in first-out backlog of accepted         *)
(* submissions that leaves from the front, a batch at a time, each batch    *)
(* to the sink or to the losses; and flush() calls, each with the           *)
(* submissions it answers for.                                              *)
(*                                                                         *)
(* External to the code: it is the contract the docstrings of Worker.submit *)
(* and Worker.flush describe, which Worker is shown to implement.           *)
(***************************************************************************)
EXTENDS Naturals, Sequences, SequencesExt

CONSTANTS Submissions, Flushes

VARIABLES
    backlog,    \* accepted, in order, and not settled
    sunk,       \* delivered, in order
    lost,       \* abandoned with their batch
    refused,    \* never accepted
    answersFor, \* for each flush() call, the submissions it answers for
    outcome     \* for each flush() call, "none" while it runs, then "ok" or "failed"

abstractVars == <<backlog, sunk, lost, refused, answersFor, outcome>>

Known == ToSet(backlog) \cup ToSet(sunk) \cup lost \cup refused

Init ==
    /\ backlog = <<>> /\ sunk = <<>> /\ lost = {} /\ refused = {}
    /\ answersFor = [f \in Flushes |-> {}]
    /\ outcome = [f \in Flushes |-> "none"]

Accept(s) ==
    /\ s \notin Known
    /\ backlog' = Append(backlog, s)
    /\ UNCHANGED <<sunk, lost, refused, answersFor, outcome>>

Refuse(s) ==
    /\ s \notin Known
    /\ refused' = refused \cup {s}
    /\ UNCHANGED <<backlog, sunk, lost, answersFor, outcome>>

Oldest(n) == SubSeq(backlog, 1, n)
Rest(n)   == SubSeq(backlog, n + 1, Len(backlog))

Deliver(n) ==
    /\ sunk' = sunk \o Oldest(n)
    /\ backlog' = Rest(n)
    /\ UNCHANGED <<lost, refused, answersFor, outcome>>

Lose(n) ==
    /\ lost' = lost \cup ToSet(Oldest(n))
    /\ backlog' = Rest(n)
    /\ UNCHANGED <<sunk, refused, answersFor, outcome>>

\* A flush() answers for the whole backlog.
Begin(f) ==
    /\ outcome[f] = "none"
    /\ answersFor[f] = {}
    /\ answersFor' = [answersFor EXCEPT ![f] = ToSet(backlog)]
    /\ UNCHANGED <<backlog, sunk, lost, refused, outcome>>

\* It may fail for any reason, and succeeds only when all of that was delivered.
End(f, verdict) ==
    /\ outcome[f] = "none"
    /\ verdict = "ok" => answersFor[f] \subseteq ToSet(sunk)
    /\ outcome' = [outcome EXCEPT ![f] = verdict]
    /\ UNCHANGED <<backlog, sunk, lost, refused, answersFor>>

Next ==
    \/ \E s \in Submissions : Accept(s) \/ Refuse(s)
    \/ \E n \in 1 .. Len(backlog) : Deliver(n) \/ Lose(n)
    \/ \E f \in Flushes : Begin(f) \/ \E verdict \in {"ok", "failed"} : End(f, verdict)

Spec == Init /\ [][Next]_abstractVars

=============================================================================
