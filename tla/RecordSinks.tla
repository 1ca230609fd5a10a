----------------------------- MODULE RecordSinks -----------------------------
(***************************************************************************)
(* The sinks that send a batch as requests of their own client: the AWS     *)
(* sinks, Event Hubs, ClickHouse, Postgres, MongoDB, Redis, SQLite,         *)
(* RabbitMQ, the sockets (syslog, Logstash) and the plain file.  One emit() *)
(* encodes the batch, cuts it into requests, sends each with the retries of *)
(* its sink, and decides between a return and a raise.                      *)
(*                                                                         *)
(* One step is one call of the client.  The clients are external: a call    *)
(* may be acknowledged, answered in part, or raise, and one that raises may *)
(* have landed.                                                             *)
(***************************************************************************)
EXTENDS Emit

CONSTANTS
    RecordKinds,    \* the sinks of an instance
    MaxRecord,      \* the largest event the destination takes
    MaxBytes,       \* bytes in one request
    MaxCount,       \* events in one request
    MaxBreaks       \* bound: connections the server drops

ASSUME RecordAssumption ==
    MaxRecord \in Nat /\ MaxBytes \in Nat /\ MaxCount \in Nat \ {0} /\ MaxBreaks \in Nat

VARIABLES
    todo,           \* the requests still to send
    sent,           \* the size of the request in hand when it was first sent
    tried,          \* a request has been sent in this call
    unknown,        \* Kinesis, Firehose: an answer nobody could read
    recoverable,    \* SQS: a loss a retry might make good
    owned,          \* the client or connection is the sink's own
    closed,         \* _closed
    conn,           \* the connection: "up", "dead" (nobody has noticed) or "none"
    breaks,         \* the connections dropped so far
    wasted          \* history: attempts made on an owned connection that was dead

localVars  == <<todo, sent, tried, unknown, recoverable>>
connVars   == <<conn, breaks, wasted>>
recordVars == <<localVars, owned, closed, connVars>>

\* A sink takes no lock, or its close() waits for an emit() that runs.
Locked     == {"eventhubs", "clickhouse", "postgres", "sqlite", "rabbitmq", "tcp", "udp", "file"}
Borrows    == {"postgres", "rabbitmq", "mongodb", "redis"}
Connected  == {"postgres", "rabbitmq", "tcp"}
Unsized    == {"clickhouse", "postgres", "sqlite", "redis", "rabbitmq", "tcp", "file"}

\* Sinks whose call may end in an exception they do not catch: five catch less than Exception, and
\* the AWS sinks read an answer outside their try.
Narrow     == {"sqlite", "eventhubs", "tcp", "udp", "file", "kinesis", "firehose", "sns", "sqs"}

RecordInit ==
    /\ EmitInit
    /\ kind \in RecordKinds
    /\ kind \in Unsized => \A e \in Events : load[e] <= 1
    /\ todo = <<>> /\ sent = 0 /\ tried = FALSE /\ unknown = FALSE /\ recoverable = FALSE
    /\ owned \in IF kind \in Borrows THEN BOOLEAN ELSE {TRUE}
    /\ closed = FALSE /\ conn = "up" /\ breaks = 0 /\ wasted = 0

----------------------------------------------------------------------------
(* Cutting a batch into requests                                           *)

SizeOf(S) == Weigh(load, S)

\* Cut fills one request after the other, in order: by count, and by bytes if sized.
Room(chunk, e, sized) ==
    Cardinality(chunk) < MaxCount /\ (sized => SizeOf(chunk) + load[e] <= MaxBytes)
AddToLast(cs, e) == [cs EXCEPT ![Len(cs)] = @ \cup {e}]
Cut(S, sized) ==
    LET cut[e \in 0..Size] ==
            IF e = 0 THEN <<>>
            ELSE IF e \notin S THEN cut[e - 1]
            ELSE IF cut[e - 1] # <<>> /\ Room(Last(cut[e - 1]), e, sized)
            THEN AddToLast(cut[e - 1], e)
            ELSE Append(cut[e - 1], {e})
    IN  cut[Size]

\* chunk_items and chunk_list.
ChunkItems(S) == Cut(S, TRUE)
ChunkList(S)  == Cut(S, FALSE)

\* The EventDataBatches of _send_batch: an event that does not fit ends the batch it was offered
\* to, and one that does not fit an empty batch leaves that empty batch behind.
HubBatches(S) ==
    LET offered[e \in 0..Size] ==
            IF e = 0 THEN <<>>
            ELSE IF e \notin S THEN offered[e - 1]
            ELSE IF load[e] > MaxRecord THEN Append(offered[e - 1], {})
            ELSE IF offered[e - 1] # <<>> /\ SizeOf(Last(offered[e - 1])) + load[e] <= MaxRecord
            THEN AddToLast(offered[e - 1], e)
            ELSE Append(offered[e - 1], {e})
    IN  Keep(offered[Size], (SUBSET Events) \ {{}})

Whole(S)   == IF S = {} THEN <<>> ELSE <<S>>
Singles(S) == [i \in DOMAIN InOrder(S) |-> {InOrder(S)[i]}]

\* What the destination could never take is left out, wherever a limit is known.
Fitting   == {e \in Encoded : load[e] <= MaxRecord}
Oversized == Encoded \ Fitting

\* What each sink with such a limit makes of a batch.
KinesisRecords  == ChunkItems(Fitting)
FirehoseRecords == ChunkItems(Fitting)
SnsBodies       == ChunkItems(Fitting)
MongoDocuments  == Whole(Fitting)
Sendable        == Singles(IF kind = "udp" THEN Fitting ELSE Encoded)

----------------------------------------------------------------------------
(* The beginning of an emit(), one for each sink                           *)

Start(chunks, drops) ==
    /\ Enter(drops)
    /\ todo' = chunks /\ sent' = 0 /\ tried' = FALSE
    /\ unknown' = FALSE /\ recoverable' = FALSE
    /\ UNCHANGED <<declined, owned, closed, connVars>>

KinesisEmit == kind = "kinesis" /\ Start(KinesisRecords, Unencodable \cup Oversized)

FirehoseEmit == kind = "firehose" /\ Start(FirehoseRecords, Unencodable \cup Oversized)

SnsEmit == kind = "sns" /\ Start(SnsBodies, Unencodable \cup Oversized)

\* SQSSink._chunks.  _group_id or _dedup_id may raise for any event of a FIFO queue; if one did for
\* all of them, and nothing was dropped for another reason, its exception is the call's.
SqsChunks(noId) ==
    LET big == Oversized \ noId
        ok  == Fitting \ noId
    IN  IF noId # {} /\ ok \cup big \cup Unencodable = {}
        THEN Refuse /\ UNCHANGED recordVars
        ELSE Start(ChunkItems(ok), Unencodable \cup big \cup noId)

SqsEmit == kind = "sqs" /\ \E noId \in SUBSET Encoded : SqsChunks(noId)

\* The lock is held from here to the end of the call.
HubsEmit ==
    /\ kind = "eventhubs" /\ ~closed
    /\ Start(HubBatches(Encoded), Unencodable \cup Oversized)

ClickHouseEmit == kind = "clickhouse" /\ ~closed /\ Start(ChunkList(Encoded), Unencodable)

PostgresEmit == kind = "postgres" /\ ~closed /\ Start(Whole(Encoded), Unencodable)

SqliteEmit == kind = "sqlite" /\ ~closed /\ Start(Whole(Encoded), Unencodable)

MongoEmit ==
    /\ kind = "mongodb" /\ ~closed
    /\ Start(MongoDocuments, Unencodable \cup Oversized)

RedisEmit == kind = "redis" /\ ~closed /\ Start(Whole(Encoded), Unencodable)

RabbitEmit == kind = "rabbitmq" /\ ~closed /\ Start(Singles(Encoded), Unencodable)

\* SocketTransport.send_all.  A datagram has a limit, a stream none.  Either sink may use either; here
\* SyslogSink sends datagrams and LogstashSink over a stream.
SendAll(drops) == ~closed /\ Start(Sendable, drops)

SyslogEmit == kind = "udp" /\ SendAll(Unencodable \cup Oversized)

LogstashEmit == kind = "tcp" /\ SendAll(Unencodable)

FileEmit == kind = "file" /\ ~closed /\ Start(Whole(Encoded), Unencodable)

\* A batch for a closed sink is refused, and nothing is counted.
RefuseClosed == closed /\ Refuse /\ UNCHANGED recordVars

Begin ==
    \/ KinesisEmit \/ FirehoseEmit \/ SnsEmit \/ SqsEmit \/ HubsEmit \/ ClickHouseEmit
    \/ PostgresEmit \/ SqliteEmit \/ MongoEmit \/ RedisEmit \/ RabbitEmit
    \/ SyslogEmit \/ LogstashEmit \/ FileEmit \/ RefuseClosed

NextRequest ==
    /\ call = "send" /\ entries = {} /\ todo # <<>>
    /\ entries' = Head(todo) /\ todo' = Tail(todo)
    /\ sent' = Cardinality(Head(todo)) /\ attempt' = 0 /\ tried' = TRUE
    /\ UNCHANGED <<kind, load, callVars, delivered, lossVars, wireVars, unknown, recoverable,
                   owned, closed, connVars>>

----------------------------------------------------------------------------
(* One call of the client                                                  *)

Sending(k) == kind = k /\ call = "send" /\ entries # {}

\* The call is over: acc was acknowledged, land may have been stored although no answer says so,
\* got is added to delivered and left is what the next attempt sends.
Outcome(acc, land, got, left) ==
    /\ entries' = left
    /\ attempt' = IF left = {} THEN 0 ELSE attempt + 1
    /\ delivered' = delivered + got
    /\ acked' = acked \cup acc
    /\ landed' = landed \cup acc \cup land
    /\ UNCHANGED <<kind, load, callVars, pending, dropped, stored, declined, todo, sent, tried, owned,
                   closed>>

\* lost goes to losses().failed; a retry might deliver again, a part of it.
Lose(lost, again) ==
    /\ failed' = failed \cup lost
    /\ abandoned' = abandoned \cup again

\* What giving up on left adds to losses().failed: Postgres and Redis charge the whole batch.
Charge(left) == IF kind \in {"postgres", "redis"} THEN Events ELSE left

\* What is left waits for the next attempt, or is given up on after the last.
RetryOrGiveUp(acc, land, left, got) ==
    IF attempt < MaxRetries
    THEN Outcome(acc, land, 0, left) /\ Lose({}, {})
    ELSE Outcome(acc, land, got, {}) /\ Lose(Charge(left), left)

\* An owned client that was closed answers no more (Redis and MongoDB close without a lock).
Answering == ~(closed /\ owned)

\* What a call that raised may have stored.  A part of a request is told from the whole of it only
\* by MongoDB, which rejects on a retry what it has.
MayLand == IF ~Answering THEN {{}} ELSE IF kind = "mongodb" THEN SUBSET entries ELSE {{}, entries}

NoFlags == UNCHANGED <<decided, unknown, recoverable>>

\* Faulty variant: a positional answer of the wrong length is paired as far as it goes.
Unadjudicated_Paired ==
    /\ \E land \in MayLand :
          Outcome({}, land, sent, {}) /\ Lose({}, {})
    /\ NoFlags

\* adjudicate_positional: an answer of another length, or of another shape, describes nothing.
\* The records are given up on, and may be there: outcome None.
Unadjudicated ==
    /\ \E land \in MayLand : Outcome({}, land, 0, {}) /\ Lose(entries, entries)
    /\ decided' = decided \cup entries
    /\ unknown' = TRUE /\ UNCHANGED recoverable

\* The two positional answers of AWS: accepted, an exception, a verdict for each record.
PositionalSend ==
    \/ /\ \/ Outcome(entries, {}, sent, {}) /\ Lose({}, {})
          \/ \E land \in MayLand :
                RetryOrGiveUp({}, land, entries, sent - Cardinality(entries))
          \/ \E bad \in (SUBSET entries) \ {{}} :
                RetryOrGiveUp(entries \ bad, {}, bad, sent - Cardinality(bad))
       /\ NoFlags
    \/ Unadjudicated

KinesisSend == Sending("kinesis") /\ PositionalSend /\ UNCHANGED connVars

FirehoseSend == Sending("firehose") /\ PositionalSend /\ UNCHANGED connVars

\* SNS names the failed entries by their ids.
SnsSend ==
    /\ Sending("sns")
    /\ \/ Outcome(entries, {}, sent, {}) /\ Lose({}, {})
       \/ \E land \in MayLand : RetryOrGiveUp({}, land, entries, sent - Cardinality(entries))
       \/ \E bad \in (SUBSET entries) \ {{}} :
             RetryOrGiveUp(entries \ bad, {}, bad, sent - Cardinality(bad))
    /\ NoFlags /\ UNCHANGED connVars

\* An SQS answer: faults are the sender's and final, slow is what a retry may deliver.
SqsAnswer(faults, slow) ==
    LET acc == entries \ (faults \cup slow)
    IN  IF slow = {} \/ attempt < MaxRetries
        THEN Outcome(acc, {}, Cardinality(acc), slow) /\ Lose(faults, {}) /\ NoFlags
        ELSE /\ Outcome(acc, {}, Cardinality(acc), {}) /\ Lose(faults \cup slow, slow)
             /\ recoverable' = TRUE /\ UNCHANGED <<decided, unknown>>

SqsSend ==
    /\ Sending("sqs")
    /\ \/ \E faults \in SUBSET entries : \E slow \in SUBSET (entries \ faults) :
             SqsAnswer(faults, slow)
       \/ /\ \E land \in MayLand : RetryOrGiveUp({}, land, entries, 0)
          /\ recoverable' = (recoverable \/ attempt = MaxRetries)
          /\ UNCHANGED <<decided, unknown>>
    /\ UNCHANGED connVars

\* A request that is answered as a whole.
WholeSend ==
    /\ \/ Answering /\ Outcome(entries, {}, 1, {}) /\ Lose({}, {})
       \/ \E land \in MayLand : RetryOrGiveUp({}, land, entries, 0)
    /\ NoFlags /\ UNCHANGED connVars

HubsSend == Sending("eventhubs") /\ WholeSend

ClickHouseSend == Sending("clickhouse") /\ WholeSend

RedisSend == Sending("redis") /\ WholeSend

\* One transaction and no retry.
SqliteSend ==
    /\ Sending("sqlite")
    /\ \/ Outcome(entries, {}, 1, {}) /\ Lose({}, {})
       \/ \E land \in MayLand : Outcome({}, land, 0, {}) /\ Lose(Events, entries)
    /\ NoFlags /\ UNCHANGED connVars

\* Lines are written one after the other: an OSError leaves a prefix of them in the file.
FileSend ==
    /\ Sending("file")
    /\ \/ Outcome(entries, {}, 1, {}) /\ Lose({}, {})
       \/ \E n \in 0..Len(InOrder(entries)) :
             /\ Outcome({}, {InOrder(entries)[i] : i \in 1..n}, 0, {})
             /\ Lose(Events, entries)
    /\ NoFlags /\ UNCHANGED connVars

\* An unordered insert stores what it can and names the rest.  What an earlier attempt of the call
\* stored has its _id already, and is rejected.
MongoSend ==
    /\ Sending("mongodb")
    /\ \/ Answering /\ entries \cap landed = {}
             /\ Outcome(entries, {}, sent, {}) /\ Lose({}, {})
       \/ /\ Answering
          /\ \E rejects \in (SUBSET entries) \ {{}} :
                /\ entries \cap landed \subseteq rejects
                /\ Outcome(entries \ rejects, {}, sent - Cardinality(rejects), {})
                /\ Lose(rejects, rejects)
       \/ \E land \in MayLand : RetryOrGiveUp({}, land, entries, 0)
    /\ NoFlags /\ UNCHANGED connVars

----------------------------------------------------------------------------
(* Sinks with a connection of their own                                    *)

\* A connection that is gone is opened again at the top of the attempt, if the server lets it and it
\* is the sink's own.
Opened == IF conn = "none" /\ owned THEN {"up", "none"} ELSE {conn}
ReconnectIfBroken == Opened
ActiveChannel     == Opened
TheSocket         == Opened

\* Faulty variant: the connection is kept after a failure.
Reset_Never(c) == {c}

\* An owned connection is thrown away after any failure, a borrowed one kept.
Reset(c) == {IF owned THEN "none" ELSE c}
RabbitReset(c) == Reset(c)

\* psycopg marks a connection that turned out to be dead as closed; an error of the statement
\* leaves one that works as it is.
MarkBroken(c) == IF c = "up" THEN {"up", "none"} ELSE {"none"}

\* What a failed attempt may make of the connection it was made on.
Failed(c) ==
    CASE kind = "postgres" -> MarkBroken(c) [] kind = "rabbitmq" -> RabbitReset(c) [] OTHER -> Reset(c)

\* An attempt on one of the connections Open: only one that is up can answer.  A permanent error is
\* not tried again.
ConnSend(Open, permanent) ==
    \E c \in Open :
        \/ /\ c = "up"
           /\ Outcome(entries, {}, 1, {}) /\ Lose({}, {})
           /\ conn' = c /\ UNCHANGED wasted /\ NoFlags
        \/ /\ \E land \in IF c = "up" THEN MayLand ELSE {{}} :
                 \/ RetryOrGiveUp({}, land, entries, 0)
                 \/ permanent /\ Outcome({}, {}, 0, {}) /\ Lose(entries, entries)
           /\ conn' \in Failed(c)
           /\ wasted' = IF owned /\ c = "dead" THEN wasted + 1 ELSE wasted
           /\ NoFlags

PostgresSend == Sending("postgres") /\ ConnSend(ReconnectIfBroken, FALSE) /\ UNCHANGED breaks

RabbitSend == Sending("rabbitmq") /\ ConnSend(ActiveChannel, FALSE) /\ UNCHANGED breaks

\* An errno that no retry changes ends the attempts.
SendOneTcp == Sending("tcp") /\ ConnSend(TheSocket, TRUE) /\ UNCHANGED breaks

SendOneUdp == Sending("udp") /\ ConnSend(TheSocket, TRUE) /\ UNCHANGED breaks

\* The server drops the connection; the next attempt notices.
Break ==
    /\ kind \in Connected /\ conn = "up" /\ ~closed /\ breaks < MaxBreaks
    /\ conn' = "dead" /\ breaks' = breaks + 1
    /\ UNCHANGED <<emitVars, localVars, owned, closed, wasted>>

Send ==
    \/ KinesisSend \/ FirehoseSend \/ SnsSend \/ SqsSend \/ HubsSend \/ ClickHouseSend
    \/ RedisSend \/ SqliteSend \/ FileSend \/ MongoSend \/ PostgresSend \/ RabbitSend
    \/ SendOneTcp \/ SendOneUdp

----------------------------------------------------------------------------
(* The end of an emit(), and close()                                       *)

\* Whether a call that sent all its requests raises: nothing got through, none of it may have
\* landed unread (Kinesis, Firehose), and a retry could help (SQS).
Raises ==
    /\ tried /\ delivered = 0
    /\ kind \in {"kinesis", "firehose"} => ~unknown
    /\ kind = "sqs" => recoverable

Finish ==
    /\ call = "send" /\ entries = {} /\ todo = <<>>
    /\ Exit(IF Raises THEN "raised" ELSE "returned")
    /\ UNCHANGED <<kind, load, emits, sendVars, failed, wireVars, recordVars>>

\* An exception the sink does not catch, from the request or from reading its answer.
Escape ==
    /\ call = "send" /\ entries # {} /\ kind \in Narrow
    /\ Exit("escaped")
    /\ entries' = {} /\ todo' = <<>>
    /\ \E land \in MayLand : landed' = landed \cup land
    /\ UNCHANGED <<kind, load, emits, attempt, delivered, failed, acked, decided, stored, abandoned,
                   declined, sent, tried, unknown, recoverable, owned, closed, connVars>>

\* close() waits for the lock, if there is one.  The AWS sinks have nothing to close.
CloseSink(k) ==
    /\ kind = k /\ ~closed
    /\ kind \in Locked => call # "send"
    /\ closed' = TRUE
    /\ UNCHANGED <<emitVars, localVars, owned, connVars>>

HubsClose       == CloseSink("eventhubs")
ClickHouseClose == CloseSink("clickhouse")
PostgresClose   == CloseSink("postgres")
SqliteClose     == CloseSink("sqlite")
MongoClose      == CloseSink("mongodb")
RedisClose      == CloseSink("redis")
RabbitClose     == CloseSink("rabbitmq")
TransportClose  == CloseSink("tcp") \/ CloseSink("udp")
FileClose       == CloseSink("file")

Close ==
    \/ HubsClose \/ ClickHouseClose \/ PostgresClose \/ SqliteClose \/ MongoClose \/ RedisClose
    \/ RabbitClose \/ TransportClose \/ FileClose

WorkerRetry == Retry /\ UNCHANGED recordVars

RecordStep == Begin \/ NextRequest \/ Send \/ Finish \/ Escape \/ WorkerRetry
RecordNext == RecordStep \/ Break \/ Close

----------------------------------------------------------------------------
(* Properties                                                              *)

\* A connection the server dropped costs a sink that owns it one attempt and no more: the failure
\* throws it away and the next attempt, be it of the same batch or of a later one, opens another
\* (PostgresSink._reconnect_if_broken, RabbitMQSink._reset, SocketTransport._reset).
StaleConnection == wasted <= breaks

=============================================================================
