-------------------------------- MODULE Emit --------------------------------
(***************************************************************************)
(* What one emit() of a delivering sink has in common with every other: the *)
(* encode step (sinks/_encode.py), the deferral that counts a drop only if  *)
(* the call returns (sinks/_deferral.py), and the worker that hands the     *)
(* same batch over again after a raise (Worker._emit).  The modules of the  *)
(* sinks add what happens in between.                                       *)
(*                                                                         *)
(* The destination is external.  A request it answers is acknowledged; one  *)
(* whose answer never comes may have landed all the same.                   *)
(***************************************************************************)
EXTENDS Integers, Sequences, FiniteSets, SequencesExt, Lists

CONSTANTS
    Size,           \* the number of events in the batch
    MaxLoad,        \* bound: the size of the largest event
    MaxEmits,       \* emit() calls the worker makes for one batch: its max_retries + 1
    MaxRetries      \* the sink's max_retries

ASSUME EmitAssumption ==
    /\ Size \in Nat \ {0} /\ MaxLoad \in Nat
    /\ MaxEmits \in Nat \ {0} /\ MaxRetries \in Nat

VARIABLES
    kind,           \* which sink it is
    load,           \* the encoded size of each event; 0 for one whose encoding raises
    call,           \* where the emit() is
    emits,          \* the emit() calls made so far
    entries,        \* the events of the request in hand, {} between requests
    attempt,        \* the send loop's attempt
    delivered,      \* the local that decides between a return and a raise
    pending,        \* the Deferral: events whose drop is not counted yet
    dropped,        \* how often losses().dropped has counted each event
    failed,         \* the events losses().failed counted in this call
    acked,          \* history: the events the destination acknowledged in this call
    decided,        \* history: the events of this call settled without an acknowledgement: too
                    \* large for the destination, or answered with a verdict nobody can read
    landed,         \* history: the events it stored in this call
    stored,         \* history: the events it stored in earlier calls
    abandoned,      \* history: the events given up on in this call that a retry might deliver
    declined        \* history: the events this sink is not meant for (SentrySink.min_level)

callVars  == <<call, emits>>
sendVars  == <<entries, attempt, delivered>>
lossVars  == <<pending, dropped, failed>>
wireVars  == <<acked, decided, landed, stored, abandoned, declined>>
emitVars  == <<kind, load, callVars, sendVars, lossVars, wireVars>>

Events == 1..Size
InOrder(S) == Keep([i \in Events |-> i], S)

\* The weights w of the events of S together.
Weigh(w, S) ==
    LET sum[n \in 0..Size] == IF n = 0 THEN 0 ELSE sum[n - 1] + IF n \in S THEN w[n] ELSE 0
    IN  sum[Size]

EmitInit ==
    /\ load \in [Events -> 0..MaxLoad]
    /\ call = "idle" /\ emits = 0
    /\ entries = {} /\ attempt = 0 /\ delivered = 0
    /\ pending = {} /\ dropped = [e \in Events |-> 0] /\ failed = {}
    /\ acked = {} /\ decided = {} /\ landed = {} /\ stored = {} /\ abandoned = {}
    /\ declined = {}

----------------------------------------------------------------------------
(* The encode step and the deferral                                        *)

\* encode_events: an event whose encoding raises is left out, and goes to the deferral.
Encoded == {e \in Events : load[e] > 0}
Unencodable == Events \ Encoded

\* A call begins: what it leaves out is pending, nothing is counted.
Enter(drops) ==
    /\ call = "idle"
    /\ call' = "send" /\ emits' = emits + 1
    /\ pending' = drops
    /\ entries' = {} /\ attempt' = 0 /\ delivered' = 0
    /\ failed' = {} /\ acked' = {} /\ decided' = {} /\ landed' = {} /\ abandoned' = {}
    /\ UNCHANGED <<kind, load, dropped, stored>>

\* Faulty variant: the drops are counted when they are decided.
Exit_Always(how) ==
    /\ call' = how
    /\ dropped' = [e \in Events |-> dropped[e] + IF e \in pending THEN 1 ELSE 0]
    /\ pending' = {}

\* __exit__: the drops are counted on a normal return, and forgotten on an exception.
Exit(how) ==
    /\ call' = how
    /\ dropped' = IF how = "returned"
                  THEN [e \in Events |-> dropped[e] + IF e \in pending THEN 1 ELSE 0]
                  ELSE dropped
    /\ pending' = {}

\* A call refused before it sends anything: the sink is closed.
Refuse ==
    /\ call = "idle"
    /\ call' = "raised" /\ emits' = emits + 1
    /\ failed' = {} /\ acked' = {} /\ decided' = {} /\ landed' = {} /\ abandoned' = {}
    /\ UNCHANGED <<kind, load, sendVars, pending, dropped, stored, declined>>

\* Worker._emit: an exception is answered with another emit() of the same batch, up to a bound.
Retry ==
    /\ call \in {"raised", "escaped"} /\ emits < MaxEmits
    /\ call' = "idle"
    /\ stored' = stored \cup landed /\ landed' = {}
    /\ UNCHANGED <<kind, load, emits, sendVars, lossVars, acked, decided, abandoned, declined>>

Over == call = "returned" \/ (call \in {"raised", "escaped"} /\ emits = MaxEmits)

\* losses(): an event it reports, as dropped or as failed.
Losses(e) == e \in failed \/ dropped[e] > 0

----------------------------------------------------------------------------
(* What the sinks promise                                                  *)

\* A call that returns has lost nothing silently: each event of the batch reached the destination,
\* in this call or an earlier one, or is in losses().  (The second obligation of Sink.emit,
\* sinks/base.py: a sink that absorbs a failure and returns is a sink the worker believes.)
Accounted ==
    call = "returned" =>
        \A e \in Events : e \in stored \cup landed \cup declined \/ Losses(e)

\* A sink raises only if none of the batch was acknowledged or settled by a verdict, since the
\* worker sends all of it again; and it returns without either only if no event was given up on
\* that another call might deliver.  It can go by the answers alone: what landed unanswered is the
\* matter of RetryDuplicatesNothing.  ("escaped" is an exception of foreign code that no sink
\* catches: it may leave a call at any point.)
RaiseIsTotal ==
    /\ call = "raised" => acked \cup decided = {}
    /\ call = "returned" /\ acked \cup decided = {} => abandoned = {}

\* The worker's retry after a raise stores no event a second time: what an earlier call stored is
\* not stored again.  ("A retry there cannot duplicate anything", sinks/base.py of Sink.emit.)
RetryDuplicatesNothing == stored \cap landed = {}

\* However often the worker hands a batch over, an event is counted in losses().dropped once at
\* most, and not by a call that delivered it.
DroppedOnce ==
    \A e \in Events : dropped[e] <= 1 /\ (dropped[e] = 1 /\ call = "returned" => e \notin acked)

=============================================================================
