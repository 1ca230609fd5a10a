------------------------------ MODULE HttpSinks ------------------------------
(***************************************************************************)
(* HTTPSink and the sinks built on it.  One emit() renders the batch, cuts  *)
(* it into requests against a byte budget, halves the budget when the       *)
(* destination answers 413, and settles each request by its status and its  *)
(* body.  The destination is external: it refuses a body over its limit     *)
(* and may answer anything, or nothing, otherwise.                          *)
(*                                                                         *)
(* losses().failed counts a lost request once; here `failed` holds the      *)
(* events of the requests it counted.  `delivered` is the local `settled`.  *)
(***************************************************************************)
EXTENDS Emit

CONSTANTS
    HttpKinds,      \* the sinks of an instance
    MaxRendered,    \* bound: the size of all the events of an HTTP sink's batch together
    MaxBatchBytes,  \* max_batch_bytes
    MaxBatchCount,  \* max_batch_count
    EventCeiling,   \* MAX_EVENT_BYTES of DatadogSink
    MaxReductions,  \* MAX_BUDGET_REDUCTIONS
    Limits          \* the body sizes at which a destination may begin to refuse

ASSUME HttpAssumption ==
    /\ MaxBatchBytes \in Nat \ {0} /\ MaxBatchCount \in Nat \ {0}
    /\ MaxRendered \in Nat /\ EventCeiling \in Nat /\ MaxReductions \in Nat /\ Limits \subseteq Nat

VARIABLES
    limit,          \* the destination's limit on one request body
    budget,         \* the byte budget of a request
    refusedAt,      \* the smallest body refused in this call, 0 before any (refused_at)
    reductions,     \* halvings of the budget made in this call
    index,          \* the first item not settled yet
    chunks,         \* the requests settled one way or the other
    backend,        \* SentrySink: the backend selected for this call
    refusedAlone    \* history: the events refused in a request of their own

localHttpVars == <<budget, refusedAt, reductions, index, chunks, backend>>
httpVars      == <<limit, localHttpVars, refusedAlone>>

HttpInit ==
    /\ EmitInit
    /\ kind \in HttpKinds
    /\ limit \in Limits
    /\ Weigh(load, Events) <= MaxRendered
    /\ kind = "sentry" => \A e \in Events : load[e] <= 1
    /\ budget = 0 /\ refusedAt = 0 /\ reductions = 0 /\ index = 1 /\ chunks = 0
    /\ backend = "none" /\ refusedAlone = {}

----------------------------------------------------------------------------
(* Sizes: what an item is charged, and what the body then weighs           *)

Grouped == {"loki", "otlp"}                 \* records grouped by stream or resource
Arrays  == {"datadog", "honeycomb"}         \* body_format = "json_array"
Wrapper == 2                                \* the empty request of a grouped body
Framing == 1                                \* what one group costs
GroupOf(e) == e % 2

Total(S) == Weigh(load, S)

\* The brackets that a grouped body has before its first record.
GroupedReserve == Wrapper

\* Faulty variant: the brackets of a JSON array are charged to nobody.
BodyReserve_None == IF kind \in Grouped THEN GroupedReserve ELSE 0

\* _body_reserve: what no item is charged for.
BodyReserve == CASE kind \in Arrays -> 1 [] kind \in Grouped -> GroupedReserve [] OTHER -> 0

\* _item_size: the rendered event, its separator, and the framing of a group it may be alone in.
GroupedItemSize(e) == load[e] + 1 + Framing
ItemSize(e) == IF kind \in Grouped THEN GroupedItemSize(e) ELSE load[e] + 1

\* _body: groups, documents one after the other, an array, or lines.
StreamsBody(S) ==
    Wrapper + Framing * Cardinality({GroupOf(e) : e \in S}) + Total(S) + Cardinality(S) - 1
RequestBody(S) == StreamsBody(S)
SplunkBody(S)  == Total(S)
BodySize(S) ==
    CASE kind = "loki"     -> StreamsBody(S)
      [] kind = "otlp"     -> RequestBody(S)
      [] kind = "splunk"   -> SplunkBody(S)
      [] kind \in Arrays   -> Total(S) + Cardinality(S) + 1
      [] OTHER             -> Total(S) + Cardinality(S)

AtLeast1(n) == IF n < 1 THEN 1 ELSE n
Smaller(m, n) == IF m < n THEN m ELSE n

\* _chunk_budget
ChunkBudget == AtLeast1(MaxBatchBytes - BodyReserve)

\* _event_ceiling: of the request, and of the destination where it publishes one.
Ceiling == IF kind = "datadog" THEN Smaller(ChunkBudget, EventCeiling) ELSE ChunkBudget

\* _items: an event that does not render, or is over the ceiling, is left out.
Fits(e) == load[e] > 0 /\ ItemSize(e) <= Ceiling
Items   == InOrder({e \in Events : Fits(e)})

\* _take: the items from start on that a request takes, one at least.
Take(start, bytes) ==
    LET Sized(end) == Weigh([e \in Events |-> ItemSize(e)], {Items[i] : i \in start..end})
        ends == {end \in start..Len(Items) :
                    end = start \/ (end - start < MaxBatchCount /\ Sized(end) <= bytes)}
    IN  {Items[i] : i \in start..(CHOOSE end \in ends : \A o \in ends : o <= end)}

----------------------------------------------------------------------------
(* emit()                                                                  *)

Kept == <<kind, load, emits, stored, declined, limit>>

HttpEmit ==
    /\ kind # "sentry"
    /\ Enter({e \in Events : ~Fits(e)})
    /\ budget' = ChunkBudget /\ refusedAt' = 0 /\ reductions' = 0 /\ index' = 1 /\ chunks' = 0
    /\ UNCHANGED <<declined, limit, backend, refusedAlone>>

\* The request in hand is over: settled or not, the index moves past it.
Settle(S, settled) ==
    /\ entries' = {} /\ attempt' = 0
    /\ index' = index + Cardinality(S)
    /\ chunks' = chunks + 1
    /\ delivered' = IF settled THEN delivered + 1 ELSE delivered
    /\ UNCHANGED <<Kept, call, dropped, budget, reductions, backend>>

\* Faulty variant: an item is taken to be refused by its share of a refused body.
KnownRefused_Any(chunk) ==
    kind # "gzip" /\ refusedAt > 0 /\ Cardinality(chunk) = 1

\* _known_refused: a lone item no smaller than a body that was refused.  Compressed bodies do not
\* compare.
KnownRefused(chunk) ==
    /\ kind # "gzip" /\ refusedAt > 0 /\ Cardinality(chunk) = 1
    /\ BodySize(chunk) >= refusedAt

\* _drop_refused
DropRefused(chunk) == pending' = pending \cup chunk /\ decided' = decided \cup chunk

\* The head of emit's loop: the next chunk is sent, or dropped unsent.
NextChunk ==
    /\ call = "send" /\ kind # "sentry" /\ entries = {} /\ index <= Len(Items)
    /\ LET chunk == Take(index, budget)
       IN  IF KnownRefused(chunk)
           THEN /\ DropRefused(chunk) /\ Settle(chunk, TRUE)
                /\ UNCHANGED <<failed, acked, landed, abandoned, refusedAt, refusedAlone>>
           ELSE /\ entries' = chunk /\ attempt' = 0
                /\ UNCHANGED <<Kept, call, delivered, lossVars, acked, decided, landed, abandoned,
                               localHttpVars, refusedAlone>>

\* Faulty variant: the refused body's own size stays the budget, and no halving is counted.
Halve_Never ==
    /\ budget' = AtLeast1(Smaller(budget, BodySize(entries)))
    /\ UNCHANGED reductions

\* Half of what was refused.
Halve ==
    /\ budget' = AtLeast1(Smaller(budget, BodySize(entries)) \div 2)
    /\ reductions' = reductions + 1

\* _abandon_unreduced: the halvings are spent.
AbandonUnreduced ==
    /\ failed' = failed \cup entries /\ abandoned' = abandoned \cup entries
    /\ Settle(entries, FALSE)
    /\ UNCHANGED <<pending, acked, decided, landed, refusedAlone>>

\* A 413: the budget is halved and the items are cut anew; a lone item is dropped.
TooLarge ==
    /\ refusedAt' = IF refusedAt = 0 THEN BodySize(entries) ELSE Smaller(refusedAt, BodySize(entries))
    /\ IF Cardinality(entries) > 1 /\ reductions < MaxReductions
       THEN /\ Halve
            /\ entries' = {} /\ attempt' = 0
            /\ UNCHANGED <<Kept, call, delivered, lossVars, acked, decided, landed, abandoned,
                           index, chunks, backend, refusedAlone>>
       ELSE IF Cardinality(entries) = 1
       THEN /\ DropRefused(entries) /\ Settle(entries, TRUE)
            /\ refusedAlone' = refusedAlone \cup entries
            /\ UNCHANGED <<failed, acked, landed, abandoned>>
       ELSE AbandonUnreduced

----------------------------------------------------------------------------
(* _send and _attempt                                                      *)

Refused == IF kind = "gzip" THEN BOOLEAN ELSE {BodySize(entries) > limit}

\* A connection error, a 429 or a 5xx: the next attempt.  The request may have been handled.
AttemptAgain ==
    /\ attempt < MaxRetries /\ attempt' = attempt + 1
    /\ landed' \in {landed, landed \cup entries}
    /\ UNCHANGED <<Kept, call, entries, delivered, lossVars, acked, decided, abandoned,
                   localHttpVars, refusedAlone>>

\* _abandon: the attempts are spent, the status is final, or an error's body is over the limit on
\* responses (OTLP).
Abandon ==
    /\ failed' = failed \cup entries /\ abandoned' = abandoned \cup entries
    /\ landed' \in {landed, landed \cup entries}
    /\ Settle(entries, FALSE)
    /\ UNCHANGED <<pending, acked, decided, refusedAt, refusedAlone>>

\* A 2xx whose body says that all of it was stored, or says nothing.
AcceptedWhole ==
    /\ acked' = acked \cup entries /\ landed' = landed \cup entries
    /\ Settle(entries, TRUE)
    /\ UNCHANGED <<lossVars, decided, abandoned, refusedAt, refusedAlone>>

\* A 2xx whose body rejects some of the events: settled unless it rejects them all.
RejectedSome(rejects) ==
    /\ failed' = failed \cup rejects /\ abandoned' = abandoned \cup rejects
    /\ acked' = acked \cup (entries \ rejects) /\ landed' = landed \cup (entries \ rejects)
    /\ Settle(entries, rejects # entries)
    /\ UNCHANGED <<pending, decided, refusedAt, refusedAlone>>

\* A 2xx whose body cannot be adjudicated: the events may be there, so they are counted and the
\* chunk is settled (_abandon_unadjudicated).
UnreadVerdict ==
    /\ failed' = failed \cup entries /\ abandoned' = abandoned \cup entries
    /\ decided' = decided \cup entries
    /\ landed' \in {landed, landed \cup entries}
    /\ Settle(entries, TRUE)
    /\ UNCHANGED <<pending, acked, refusedAt, refusedAlone>>

Answerable == call = "send" /\ kind # "sentry" /\ entries # {}

\* HTTPSink, and the platforms that read no body.
PlainResponse ==
    /\ Answerable /\ kind \in {"ndjson", "gzip", "splunk", "datadog", "loki"}
    /\ FALSE \in Refused
    /\ AcceptedWhole

\* ElasticsearchSink._parse_bulk_response
BulkResponse ==
    /\ Answerable /\ kind = "es" /\ FALSE \in Refused
    /\ \/ AcceptedWhole
       \/ \E rejects \in (SUBSET entries) \ {{}} : RejectedSome(rejects)
       \/ UnreadVerdict

\* HoneycombSink._handle_response
StatusesResponse ==
    /\ Answerable /\ kind = "honeycomb" /\ FALSE \in Refused
    /\ \/ AcceptedWhole
       \/ \E rejects \in (SUBSET entries) \ {{}} : RejectedSome(rejects)
       \/ UnreadVerdict

\* OTLPSink._handle_response: a body that is not JSON is taken for success; a partialSuccess that
\* cannot be read, or a body over the limit, is not.
PartialSuccess ==
    /\ Answerable /\ kind = "otlp" /\ FALSE \in Refused
    /\ \/ AcceptedWhole
       \/ \E rejects \in (SUBSET entries) \ {{}} : RejectedSome(rejects)
       \/ UnreadVerdict

PayloadTooLarge == Answerable /\ TRUE \in Refused /\ TooLarge

\* The answers that are no 2xx and no 413.
NoAnswer == Answerable /\ (AttemptAgain \/ Abandon)

----------------------------------------------------------------------------
(* SentrySink: an event at a time, by its SDK or as an envelope            *)

\* _select_backend: what _client_can_deliver says of the SDK's client at that moment, and the DSN.
SelectBackend == {"sdk", "http", "none"}

\* _qualifies: an event below min_level is not for this sink, in this call or a later one.
Qualifies == declined' \in IF emits = 0 THEN SUBSET Events ELSE {declined}

SentryEmit ==
    /\ kind = "sentry"
    /\ Enter({})
    /\ Qualifies
    /\ backend' \in SelectBackend
    /\ index' = 1 /\ chunks' = 0 /\ UNCHANGED <<limit, budget, refusedAt, reductions, refusedAlone>>

\* The next qualifying event is captured; with no backend it is given up on uncounted.
SentryNext ==
    /\ call = "send" /\ kind = "sentry" /\ entries = {} /\ index <= Size
    /\ IF index \in declined
       THEN /\ index' = index + 1
            /\ UNCHANGED <<Kept, call, sendVars, lossVars, acked, decided, landed, abandoned,
                           budget, refusedAt, reductions, chunks, backend, refusedAlone>>
       ELSE IF backend = "none"
       THEN /\ abandoned' = abandoned \cup {index} /\ Settle({index}, FALSE)
            /\ UNCHANGED <<lossVars, acked, decided, landed, refusedAt, refusedAlone>>
       ELSE /\ entries' = {index} /\ attempt' = 0
            /\ UNCHANGED <<Kept, call, delivered, lossVars, acked, decided, landed, abandoned,
                           localHttpVars, refusedAlone>>

\* _post_envelope: the HTTPSink inside tries again.
PostEnvelope == backend = "http" /\ (\A e \in entries : load[e] > 0) /\ AttemptAgain

\* _capture: captured, or counted as failed or as a transport error.  Only the envelope is retried.
Capture ==
    /\ call = "send" /\ kind = "sentry" /\ entries # {}
    /\ \/ (\A e \in entries : load[e] > 0) /\ AcceptedWhole
       \/ Abandon
       \/ PostEnvelope

----------------------------------------------------------------------------
(* The end                                                                 *)

HttpDone == IF kind = "sentry" THEN index > Size ELSE index > Len(Items)

\* Faulty variant: a call of which any request was lost raises.
HttpRaises_AnyLoss == delivered < chunks

\* emit's last test: requests, and none of them settled.
HttpRaises == chunks > 0 /\ delivered = 0

HttpFinish ==
    /\ call = "send" /\ entries = {} /\ HttpDone
    /\ Exit(IF HttpRaises THEN "raised" ELSE "returned")
    /\ UNCHANGED <<kind, load, emits, sendVars, failed, wireVars, httpVars>>

\* An exception _send does not catch: the opener's own.
HttpEscape ==
    /\ Answerable
    /\ Exit("escaped")
    /\ entries' = {}
    /\ UNCHANGED <<kind, load, emits, attempt, delivered, failed, wireVars, httpVars>>

HttpRetry == Retry /\ UNCHANGED httpVars

HttpNext ==
    \/ HttpEmit \/ NextChunk \/ PlainResponse \/ BulkResponse \/ StatusesResponse \/ PartialSuccess
    \/ PayloadTooLarge \/ NoAnswer \/ SentryEmit \/ SentryNext \/ Capture
    \/ HttpFinish \/ HttpEscape \/ HttpRetry

----------------------------------------------------------------------------
(* Properties                                                              *)

\* An event is dropped as too large only if it is: over the sink's own ceiling, or in a request of
\* its own over the destination's limit.  What the sink infers from a larger request that was
\* refused must not cost an event that would have been taken.
NoInventedLoss ==
    kind \in HttpKinds =>
        \A e \in Events :
            e \in pending \/ dropped[e] > 0 =>
                \/ ~Fits(e)
                \/ IF kind = "gzip" THEN e \in refusedAlone ELSE BodySize({e}) > limit

\* The sizes charged to the items bound the body they make: no request is over max_batch_bytes.
RequestFits ==
    kind \in HttpKinds \ {"sentry"} /\ entries # {} => BodySize(entries) <= MaxBatchBytes

=============================================================================
