------------------------------- MODULE MCEmit -------------------------------
(***************************************************************************)
(* The record sinks and the HTTP sinks as one instance: the kind of sink,   *)
(* chosen in the initial state, says whose actions the behavior takes.      *)
(***************************************************************************)
EXTENDS RecordSinks, HttpSinks

ASSUME KindsAssumption == RecordKinds \cap HttpKinds = {}

vars == <<emitVars, recordVars, httpVars>>

NoRecord ==
    /\ todo = <<>> /\ sent = 0 /\ tried = FALSE /\ unknown = FALSE /\ recoverable = FALSE
    /\ owned = TRUE /\ closed = FALSE /\ conn = "up" /\ breaks = 0 /\ wasted = 0
NoHttp ==
    /\ limit = 0 /\ budget = 0 /\ refusedAt = 0 /\ reductions = 0 /\ index = 1 /\ chunks = 0
    /\ backend = "none" /\ refusedAlone = {}

Init == \/ RecordInit /\ NoHttp
        \/ HttpInit /\ NoRecord

Record == kind \in RecordKinds /\ RecordNext /\ UNCHANGED httpVars
Http   == kind \in HttpKinds /\ HttpNext /\ UNCHANGED recordVars
Done   == Over /\ UNCHANGED vars
Next   == Record \/ Http \/ Done

\* The emitting thread goes on: neither the server nor close() is waited for.
Fairness ==
    /\ WF_vars(kind \in RecordKinds /\ RecordStep /\ UNCHANGED httpVars)
    /\ WF_vars(Http)

Spec == Init /\ [][Next]_vars /\ Fairness

\* However the destination answers, an emit() ends: the attempts of a request and the halvings of the
\* budget are bounded, and a halving that did not shrink the chunk would be one of finitely many.
EmitEnds == (call = "send") ~> (call # "send")

=============================================================================
