-------------------------- MODULE TelemetryConsumer --------------------------
(***************************************************************************)
(* The telemetry consumer of services/streaming: a group of processes that *)
(* read partitions of the vehicle-event log, buffer validated telemetry,   *)
(* write a batch in one database transaction and then commit offsets by    *)
(* hand.  Trip events may be consumed by the same process; each one is     *)
(* applied in a transaction of its own, after a flush of the buffer.       *)
(*                                                                         *)
(* One step of a consumer runs from one await of the coroutine to the next *)
(* or is finer than that.  The broker (log, group membership, committed    *)
(* offsets) and the database are external: they are modelled from how the  *)
(* consumer uses them.                                                     *)
(***************************************************************************)
EXTENDS Integers, Sequences, FiniteSets

CONSTANTS
  Consumer,            \* processes that may join the consumer group
  TelemetryPartition,  \* partitions of vehicle.telemetry.v1
  TripPartition,       \* partitions of vehicle.trip-events.v1; {} unless subscribed
  BatchSize,           \* StreamingConfig.batch_size
  FromBeginning,       \* auto_offset_reset is "earliest" (TRUE) or "latest" (FALSE)
  MaxRecords,          \* bound: records published per partition
  MaxFaults,           \* bound: crashes, rebalances, failed commits, lost acknowledgements
  MaxStops,            \* bound: shutdowns
  None                 \* no consumer, no partition

ASSUME ConsumerAssumption ==
  /\ TelemetryPartition \cap TripPartition = {}
  /\ BatchSize \in Nat \ {0}
  /\ FromBeginning \in BOOLEAN
  /\ MaxRecords \in Nat
  /\ MaxFaults \in Nat
  /\ MaxStops \in Nat
  /\ None \notin Consumer

Partition == TelemetryPartition \cup TripPartition

\* A record is its topic-partition and its offset; what the payload says is
\* irrelevant here except for whether it validates.
Record == Partition \X Nat

NotCommitted == -1

VARIABLES
  \* The broker
  endOffset,   \* end of each partition's log
  malformed,   \* published records that fail validation
  committed,   \* committed offset of the group, or NotCommitted
  owner,       \* consumer each partition is assigned to, or None
  position,    \* in-memory position of each partition's owner
  \* The processes
  pc,          \* where each consumer's loop is waiting
  then,        \* where it goes once the flush in progress is over
  fetched,     \* records returned by getmany and not routed yet
  routing,     \* partition whose records are being routed
  buffer,      \* TelemetryBatchWriter._buffer
  batch,       \* rows taken out of the buffer for the write in progress
  \* The database and the outcome of each record
  durable,     \* telemetry records stored at least once
  duplicated,  \* telemetry records stored more than once
  applied,     \* trip events applied
  rejected,    \* records counted as invalid and skipped
  \* History
  dropped,     \* trip events whose transaction failed
  origin,      \* offset the group first read each partition from
  faults,
  stops

broker   == <<endOffset, malformed, committed, owner, position>>
process  == <<pc, then, fetched, routing, buffer, batch>>
database == <<durable, duplicated, applied, rejected>>
history  == <<dropped, origin, faults, stops>>
vars     == <<broker, process, database, history>>

Phases == {"down", "poll", "route", "apply", "write", "commit", "drain", "leave", "left"}

\* Rows of a buffer, and the rows that occur in it twice.
Rows(s)    == {s[i] : i \in DOMAIN s}
Repeats(s) == {s[i] : i \in {k \in DOMAIN s : \E j \in DOMAIN s : j # k /\ s[j] = s[k]}}

Between(p, lo, hi) == {p} \X (lo .. hi - 1)

Init ==
  /\ endOffset  = [p \in Partition |-> 0]
  /\ malformed  = {}
  /\ committed  = [p \in Partition |-> NotCommitted]
  /\ owner      = [p \in Partition |-> None]
  /\ position   = [p \in Partition |-> 0]
  /\ pc         = [c \in Consumer |-> "down"]
  /\ then       = [c \in Consumer |-> "poll"]
  /\ fetched    = [c \in Consumer |-> {}]
  /\ routing    = [c \in Consumer |-> None]
  /\ buffer     = [c \in Consumer |-> <<>>]
  /\ batch      = [c \in Consumer |-> <<>>]
  /\ durable    = {}
  /\ duplicated = {}
  /\ applied    = {}
  /\ rejected   = {}
  /\ dropped    = {}
  /\ origin     = [p \in Partition |-> NotCommitted]
  /\ faults     = 0
  /\ stops      = 0

-----------------------------------------------------------------------------
(* The broker: publishing, and assigning partitions to the group's members. *)

Produce(p) ==
  /\ endOffset[p] < MaxRecords
  /\ endOffset' = [endOffset EXCEPT ![p] = @ + 1]
  /\ malformed' \in {malformed, malformed \cup {<<p, endOffset[p]>>}}
  /\ UNCHANGED <<committed, owner, position, process, database, history>>

\* Mutant: a member always restarts its partition where auto_offset_reset says.
ResumeIgnoringCommits(p) == IF FromBeginning THEN 0 ELSE endOffset[p]

\* Where a member that is given partition p starts reading it.
Resume(p) ==
  IF committed[p] # NotCommitted THEN committed[p]
  ELSE IF FromBeginning THEN 0 ELSE endOffset[p]

GivePartition(p, c) ==
  /\ pc[c] # "down"
  /\ owner'    = [owner EXCEPT ![p] = c]
  /\ position' = [position EXCEPT ![p] = Resume(p)]
  /\ origin'   = [origin EXCEPT ![p] = IF @ = NotCommitted THEN Resume(p) ELSE @]
  /\ UNCHANGED <<endOffset, malformed, committed, process, database, dropped, stops>>

\* A partition nobody owns is assigned to a member.
Assign(p, c) ==
  /\ owner[p] = None
  /\ GivePartition(p, c)
  /\ UNCHANGED faults

\* A rebalance takes a partition from a live member, wherever that member's
\* loop is waiting, and gives it to another one or back to the same one.
Rebalance(p, c) ==
  /\ owner[p] # None
  /\ faults < MaxFaults
  /\ faults' = faults + 1
  /\ GivePartition(p, c)

-----------------------------------------------------------------------------
(* TelemetryConsumer.start, and the fetch at the top of the loop.           *)

Join(c) ==
  /\ pc[c] = "down"
  /\ pc'      = [pc EXCEPT ![c] = "poll"]
  /\ routing' = [routing EXCEPT ![c] = None]
  /\ UNCHANGED <<broker, then, fetched, buffer, batch, database, history>>

\* max_records of getmany: what is left of the batch, and never less than one.
FetchLimit(c) ==
  IF Len(buffer[c]) < BatchSize THEN BatchSize - Len(buffer[c]) ELSE 1

\* Mutant: the position runs one record ahead of what was returned.
FetchSkipsOne(c) ==
  /\ pc[c] = "poll"
  /\ \E p \in Partition :
       /\ owner[p] = c
       /\ position[p] < endOffset[p]
       /\ fetched'  = [fetched EXCEPT ![c] = {<<p, position[p]>>}]
       /\ position' = [position EXCEPT ![p] = @ + 2]
  /\ pc'      = [pc EXCEPT ![c] = "route"]
  /\ routing' = [routing EXCEPT ![c] = None]
  /\ UNCHANGED <<endOffset, malformed, committed, owner, then, buffer, batch,
                 database, history>>

\* getmany returns a prefix of what its partitions still hold and moves their
\* positions past it at once, before any of it has been looked at.
Fetch(c) ==
  /\ pc[c] = "poll"
  /\ \E to \in [Partition -> 0 .. MaxRecords] :
       LET new == UNION {Between(p, position[p], to[p]) : p \in Partition}
       IN  /\ \A p \in Partition :
                IF owner[p] = c THEN to[p] \in position[p] .. endOffset[p]
                                ELSE to[p] = position[p]
           /\ new # {}
           /\ Cardinality(new) <= FetchLimit(c)
           /\ fetched'  = [fetched EXCEPT ![c] = new]
           /\ position' = to
  /\ pc'      = [pc EXCEPT ![c] = "route"]
  /\ routing' = [routing EXCEPT ![c] = None]
  /\ UNCHANGED <<endOffset, malformed, committed, owner, then, buffer, batch,
                 database, history>>

\* The window elapses without a record: the loop still asks whether a flush is due.
\* With an empty buffer, or when the fetch fails, the loop just comes round again.
FetchNothing(c) ==
  /\ pc[c] = "poll"
  /\ buffer[c] # <<>>
  /\ pc' = [pc EXCEPT ![c] = "route"]
  /\ UNCHANGED <<broker, then, fetched, routing, buffer, batch, database, history>>

-----------------------------------------------------------------------------
(* _ingest: partition by partition, each in offset order.                   *)

\* Mutant: records are routed in no particular order.
AnyRecord(c, r) == r \in fetched[c]

IsNext(c, r) ==
  /\ r \in fetched[c]
  /\ \A s \in fetched[c] : s[1] = r[1] => r[2] <= s[2]
  /\ r[1] = routing[c] \/ \A s \in fetched[c] : s[1] # routing[c]

Routed(c, r) ==
  /\ fetched' = [fetched EXCEPT ![c] = @ \ {r}]
  /\ routing' = [routing EXCEPT ![c] = r[1]]

\* _parse fails: _reject counts the message and the loop moves on.
SkipMalformed(c) ==
  /\ pc[c] = "route"
  /\ \E r \in fetched[c] \cap malformed :
       /\ IsNext(c, r)
       /\ Routed(c, r)
       /\ rejected' = rejected \cup {r}
  /\ UNCHANGED <<broker, pc, then, buffer, batch, durable, duplicated, applied, history>>

IngestTelemetry(c) ==
  /\ pc[c] = "route"
  /\ \E r \in fetched[c] \ malformed :
       /\ r[1] \in TelemetryPartition
       /\ IsNext(c, r)
       /\ Routed(c, r)
       /\ buffer' = [buffer EXCEPT ![c] = Append(@, r)]
  /\ UNCHANGED <<broker, pc, then, batch, database, history>>

\* _flush_and_commit begins: take() detaches the buffer.
TakeBatch(c, continuation) ==
  /\ buffer[c] # <<>>
  /\ batch'  = [batch EXCEPT ![c] = buffer[c]]
  /\ buffer' = [buffer EXCEPT ![c] = <<>>]
  /\ pc'     = [pc EXCEPT ![c] = "write"]
  /\ then'   = [then EXCEPT ![c] = continuation]

\* A trip event flushes what is buffered before it is applied.
IngestTripEvent(c) ==
  /\ pc[c] = "route"
  /\ \E r \in fetched[c] \ malformed :
       /\ r[1] \in TripPartition
       /\ IsNext(c, r)
       /\ routing' = [routing EXCEPT ![c] = r[1]]
  /\ \/ TakeBatch(c, "apply")
     \/ /\ buffer[c] = <<>>
        /\ pc' = [pc EXCEPT ![c] = "apply"]
        /\ UNCHANGED <<then, buffer, batch>>
  /\ UNCHANGED <<broker, fetched, database, history>>

ApplyTripEvent(c) ==
  /\ pc[c] = "apply"
  /\ \E r \in fetched[c] :
       /\ IsNext(c, r)
       /\ Routed(c, r)
       /\ applied' = applied \cup {r}
  /\ pc' = [pc EXCEPT ![c] = "route"]
  /\ UNCHANGED <<broker, then, buffer, batch, durable, duplicated, rejected, history>>

\* A database error while applying is counted and logged; the loop moves on.
TripEventFails(c) ==
  /\ pc[c] = "apply"
  /\ \E r \in fetched[c] :
       /\ IsNext(c, r)
       /\ Routed(c, r)
       /\ dropped' = dropped \cup {r}
  /\ pc' = [pc EXCEPT ![c] = "route"]
  /\ UNCHANGED <<broker, then, buffer, batch, database, origin, faults, stops>>

-----------------------------------------------------------------------------
(* The end of _consume_once: flush when the policy says the batch is due.   *)

\* Not due: fewer than BatchSize rows, and younger than the batch interval.
KeepBuffering(c) ==
  /\ pc[c] = "route"
  /\ fetched[c] = {}
  /\ Len(buffer[c]) < BatchSize
  /\ pc' = [pc EXCEPT ![c] = "poll"]
  /\ UNCHANGED <<broker, then, fetched, routing, buffer, batch, database, history>>

\* Mutant: only the size of the batch makes it due, never its age.
FlushFullBatch(c) ==
  /\ pc[c] = "route"
  /\ fetched[c] = {}
  /\ Len(buffer[c]) >= BatchSize
  /\ TakeBatch(c, "poll")
  /\ UNCHANGED <<broker, fetched, routing, database, history>>

\* Due: BatchSize rows are pending, or any rows for the batch interval.
FlushDue(c) ==
  /\ pc[c] = "route"
  /\ fetched[c] = {}
  /\ TakeBatch(c, "poll")
  /\ UNCHANGED <<broker, fetched, routing, database, history>>

-----------------------------------------------------------------------------
(* _flush_and_commit: the write, then the commit.                           *)

Return(c) == pc' = [pc EXCEPT ![c] = then[c]]

Stored(c) ==
  /\ durable'    = durable \cup Rows(batch[c])
  /\ duplicated' = duplicated \cup (Rows(batch[c]) \cap durable) \cup Repeats(batch[c])
  /\ UNCHANGED <<applied, rejected>>

Rebuffered(c) ==
  /\ buffer' = [buffer EXCEPT ![c] = @ \o batch[c]]
  /\ batch'  = [batch EXCEPT ![c] = <<>>]

\* Mutant: the rows are also kept for another attempt.
WriteSucceedsKeepingRows(c) ==
  /\ pc[c] = "write"
  /\ Stored(c)
  /\ Rebuffered(c)
  /\ pc' = [pc EXCEPT ![c] = "commit"]
  /\ UNCHANGED <<broker, then, fetched, routing, history>>

WriteSucceeds(c) ==
  /\ pc[c] = "write"
  /\ Stored(c)
  /\ batch' = [batch EXCEPT ![c] = <<>>]
  /\ pc'    = [pc EXCEPT ![c] = "commit"]
  /\ UNCHANGED <<broker, then, fetched, routing, buffer, history>>

\* Mutant: the commit follows even though the write failed.
WriteFailsThenCommits(c) ==
  /\ pc[c] = "write"
  /\ Rebuffered(c)
  /\ pc' = [pc EXCEPT ![c] = "commit"]
  /\ UNCHANGED <<broker, then, fetched, routing, database, history>>

\* Mutant: the batch of a failed write is dropped, as the database sink does.
WriteFailsDroppingRows(c) ==
  /\ pc[c] = "write"
  /\ batch' = [batch EXCEPT ![c] = <<>>]
  /\ Return(c)
  /\ UNCHANGED <<broker, then, fetched, routing, buffer, database, history>>

\* The transaction rolls back: the rows return to the buffer, nothing is committed.
WriteFails(c) ==
  /\ pc[c] = "write"
  /\ Rebuffered(c)
  /\ Return(c)
  /\ UNCHANGED <<broker, then, fetched, routing, database, history>>

\* The connection is lost while the transaction commits: the rows are durable,
\* and the consumer sees the same error as for a rolled-back transaction.
WriteUnacknowledged(c) ==
  /\ pc[c] = "write"
  /\ faults < MaxFaults
  /\ faults' = faults + 1
  /\ Stored(c)
  /\ Rebuffered(c)
  /\ Return(c)
  /\ UNCHANGED <<broker, then, fetched, routing, dropped, origin, stops>>

\* commit() without arguments commits the position of every assigned partition.
CommitSucceeds(c) ==
  /\ pc[c] = "commit"
  /\ committed' = [p \in Partition |-> IF owner[p] = c THEN position[p] ELSE committed[p]]
  /\ Return(c)
  /\ UNCHANGED <<endOffset, malformed, owner, position, then, fetched, routing, buffer,
                 batch, database, history>>

CommitFails(c) ==
  /\ pc[c] = "commit"
  /\ faults < MaxFaults
  /\ faults' = faults + 1
  /\ Return(c)
  /\ UNCHANGED <<broker, then, fetched, routing, buffer, batch, database, dropped,
                 origin, stops>>

-----------------------------------------------------------------------------
(* Shutdown and failure of a process.                                       *)

\* run() sees the stop event at the top of the loop.
ObserveStop(c) ==
  /\ pc[c] = "poll"
  /\ stops < MaxStops
  /\ stops' = stops + 1
  /\ pc'    = [pc EXCEPT ![c] = "drain"]
  /\ UNCHANGED <<broker, then, fetched, routing, buffer, batch, database, dropped,
                 origin, faults>>

\* An undecodable record batch makes run() raise; only stop() flushes then.
CodecUnsupported(c) ==
  /\ pc[c] = "poll"
  /\ stops < MaxStops
  /\ stops' = stops + 1
  /\ pc'    = [pc EXCEPT ![c] = "leave"]
  /\ UNCHANGED <<broker, then, fetched, routing, buffer, batch, database, dropped,
                 origin, faults>>

\* The last flush of run(), and the one of stop() if that one failed.
FinalFlush(c) ==
  /\ pc[c] \in {"drain", "leave"}
  /\ TakeBatch(c, IF pc[c] = "drain" THEN "leave" ELSE "left")
  /\ UNCHANGED <<broker, fetched, routing, database, history>>

\* What a process forgets, and the group learns, when it is gone.
Gone(c) ==
  /\ pc'      = [pc EXCEPT ![c] = "down"]
  /\ then'    = [then EXCEPT ![c] = "poll"]
  /\ fetched' = [fetched EXCEPT ![c] = {}]
  /\ routing' = [routing EXCEPT ![c] = None]
  /\ buffer'  = [buffer EXCEPT ![c] = <<>>]
  /\ batch'   = [batch EXCEPT ![c] = <<>>]
  /\ owner'   = [p \in Partition |-> IF owner[p] = c THEN None ELSE owner[p]]
  /\ UNCHANGED <<endOffset, malformed, committed, position, database, dropped, origin>>

\* consumer.stop() leaves the group.
Leave(c) ==
  /\ \/ pc[c] \in {"drain", "leave"} /\ buffer[c] = <<>>
     \/ pc[c] = "left"
  /\ Gone(c)
  /\ UNCHANGED <<faults, stops>>

Crash(c) ==
  /\ pc[c] # "down"
  /\ faults < MaxFaults
  /\ faults' = faults + 1
  /\ Gone(c)
  /\ UNCHANGED stops

-----------------------------------------------------------------------------

Next ==
  \/ \E p \in Partition : Produce(p)
  \/ \E p \in Partition, c \in Consumer : Assign(p, c) \/ Rebalance(p, c)
  \/ \E c \in Consumer :
       \/ Join(c) \/ Fetch(c) \/ FetchNothing(c)
       \/ SkipMalformed(c) \/ IngestTelemetry(c) \/ IngestTripEvent(c)
       \/ ApplyTripEvent(c) \/ TripEventFails(c)
       \/ KeepBuffering(c) \/ FlushDue(c)
       \/ WriteSucceeds(c) \/ WriteFails(c) \/ WriteUnacknowledged(c)
       \/ CommitSucceeds(c) \/ CommitFails(c)
       \/ ObserveStop(c) \/ CodecUnsupported(c) \/ FinalFlush(c) \/ Leave(c)
       \/ Crash(c)

Spec == Init /\ [][Next]_vars

(***************************************************************************)
(* Fairness.  A waiting coroutine is resumed and a stopped process is      *)
(* restarted by its supervisor (weak); a broker that has records delivers  *)
(* some of them, time passes until a buffered batch is due, and a database *)
(* outage ends, although each of these may be put off again and again      *)
(* (strong).                                                               *)
(***************************************************************************)
Fairness ==
  /\ \A p \in Partition : WF_vars(\E c \in Consumer : Assign(p, c))
  /\ \A c \in Consumer :
       /\ WF_vars(Join(c))
       /\ WF_vars(FetchNothing(c))
       /\ WF_vars(SkipMalformed(c) \/ IngestTelemetry(c) \/ IngestTripEvent(c))
       /\ WF_vars(ApplyTripEvent(c))
       /\ WF_vars(CommitSucceeds(c))
       /\ WF_vars(KeepBuffering(c))
       /\ WF_vars(FinalFlush(c) \/ Leave(c))
       /\ SF_vars(Fetch(c))
       /\ SF_vars(FlushDue(c))
       /\ SF_vars(WriteSucceeds(c))

FairSpec == Spec /\ Fairness

-----------------------------------------------------------------------------
(* Properties                                                               *)

\* The offset each partition's owner reads next is never past the end of the
\* log, and every variable has its type (BatchPolicy, AIOKafkaConsumer state).
TypeOK ==
  /\ endOffset \in [Partition -> 0 .. MaxRecords]
  /\ malformed \subseteq Record
  /\ committed \in [Partition -> Nat \cup {NotCommitted}]
  /\ owner \in [Partition -> Consumer \cup {None}]
  /\ position \in [Partition -> 0 .. MaxRecords]
  /\ \A p \in Partition : position[p] <= endOffset[p]
  /\ pc \in [Consumer -> Phases]
  /\ then \in [Consumer -> Phases]
  /\ fetched \in [Consumer -> SUBSET Record]
  /\ routing \in [Consumer -> Partition \cup {None}]
  /\ buffer \in [Consumer -> Seq(Record)]
  /\ batch \in [Consumer -> Seq(Record)]
  /\ durable \subseteq Record
  /\ duplicated \subseteq Record
  /\ applied \subseteq Record
  /\ rejected \subseteq Record
  /\ dropped \subseteq Record
  /\ origin \in [Partition -> Nat \cup {NotCommitted}]
  /\ faults \in 0 .. MaxFaults
  /\ stops \in 0 .. MaxStops

\* A record is settled once nobody needs to read it again.
Settled == durable \cup applied \cup rejected

\* Records a process still holds in memory.
Held(c) == fetched[c] \cup Rows(buffer[c]) \cup Rows(batch[c])

\* "Offsets are committed only after the batch insert succeeds": every record
\* below a committed offset, from where the group began to read, is settled.
CommittedIsSettled ==
  \A p \in Partition : \A o \in 0 .. MaxRecords - 1 :
    (origin[p] # NotCommitted /\ origin[p] <= o /\ o < committed[p]) => <<p, o>> \in Settled

\* At-least-once: a record the group has read past is settled, or the process
\* that owns its partition still holds it and will settle it.
NothingSkipped ==
  \A p \in Partition : owner[p] # None =>
    \A o \in 0 .. MaxRecords - 1 :
      (origin[p] <= o /\ o < position[p]) =>
        <<p, o>> \in Settled \cup dropped \cup Held(owner[p])

\* A row is stored twice only if a process crashed, the group rebalanced, or an
\* acknowledgement was lost: retrying failed writes and clean restarts alone
\* store every sample once.
StoredOnceWithoutFaults == duplicated # {} => faults > 0

\* Trip events of one partition are applied in log order, so a trip that is
\* finished and then redelivered never sees an older transition first.
TripEventsInOrder ==
  \A p \in TripPartition : \A o \in 0 .. MaxRecords - 1 :
    <<p, o>> \in applied =>
      \A e \in 0 .. o - 1 : <<p, e>> \in applied \cup rejected \cup dropped

\* The consumer, read as a delivery service over its log: it refines AtLeastOnce
\* when it reads telemetry alone and from the beginning.
Delivery == INSTANCE AtLeastOnce WITH
  published    <- UNION {Between(p, 0, endOffset[p]) : p \in Partition},
  settled      <- Settled,
  acknowledged <- UNION {Between(p, 0, committed[p]) : p \in Partition}

\* Offsets are acknowledged only over settled records and never given back: a
\* committed offset does not move backwards, whoever commits it.
DeliversAtLeastOnce == Delivery!Spec

\* Every published record is settled in the end, whatever was retried or
\* restarted on the way.
EventuallySettled ==
  \A p \in Partition : \A o \in 0 .. MaxRecords - 1 :
    (o < endOffset[p]) ~> (<<p, o>> \in Settled)

=============================================================================
