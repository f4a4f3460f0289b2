----------------------- MODULE TelemetryConsumerProofs -----------------------
(* What holds of TelemetryConsumer for every value of its constants.         *)
EXTENDS TelemetryConsumer, TLAPS

-----------------------------------------------------------------------------
(* The rows of a buffer under the sequence operations the writer uses.       *)

\* An empty buffer holds no rows (TelemetryBatchWriter.take).
LEMMA RowsOfEmpty == Rows(<<>>) = {}
  BY DEF Rows

\* Adding a row to a buffer (TelemetryBatchWriter.add).
LEMMA RowsOfAppend ==
  ASSUME NEW R, NEW s \in Seq(R), NEW r \in R
  PROVE  Rows(Append(s, r)) = Rows(s) \cup {r}
<1>1. DOMAIN Append(s, r) = 1 .. Len(s) + 1 /\ DOMAIN s = 1 .. Len(s)
  OBVIOUS
<1>2. \A i \in 1 .. Len(s) : Append(s, r)[i] = s[i]
  OBVIOUS
<1>3. Append(s, r)[Len(s) + 1] = r
  OBVIOUS
<1>4. Len(s) \in Nat
  OBVIOUS
<1>5. 1 .. Len(s) + 1 = 1 .. Len(s) \cup {Len(s) + 1}
  BY <1>4
<1> QED BY <1>1, <1>2, <1>3, <1>5 DEF Rows

\* Putting rows back behind what is buffered (TelemetryBatchWriter.add_many).
LEMMA RowsOfConcat ==
  ASSUME NEW R, NEW s \in Seq(R), NEW t \in Seq(R)
  PROVE  Rows(s \o t) = Rows(s) \cup Rows(t)
<1> DEFINE u == s \o t
<1>1. /\ Len(s) \in Nat /\ Len(t) \in Nat
      /\ DOMAIN s = 1 .. Len(s) /\ DOMAIN t = 1 .. Len(t)
      /\ DOMAIN u = 1 .. Len(s) + Len(t)
  OBVIOUS
<1>2. \A i \in 1 .. Len(s) : u[i] = s[i]
  OBVIOUS
<1>3. \A i \in 1 .. Len(t) : u[i + Len(s)] = t[i]
  OBVIOUS
<1>4. ASSUME NEW i \in DOMAIN u PROVE u[i] \in Rows(s) \cup Rows(t)
  <2>1. CASE i <= Len(s)
    BY <1>1, <1>2, <2>1 DEF Rows
  <2>2. CASE i > Len(s)
    <3>1. i - Len(s) \in 1 .. Len(t) /\ i = (i - Len(s)) + Len(s)
      BY <1>1, <2>2
    <3>2. u[i] = t[i - Len(s)]
      BY <1>3, <3>1
    <3> QED BY <1>1, <3>1, <3>2 DEF Rows
  <2> QED BY <1>1, <2>1, <2>2
<1>5. \A i \in DOMAIN s : s[i] \in Rows(u)
  BY <1>1, <1>2 DEF Rows
<1>6. ASSUME NEW i \in DOMAIN t PROVE t[i] \in Rows(u)
  <2>1. i + Len(s) \in DOMAIN u
    BY <1>1
  <2> QED BY <1>1, <1>3, <2>1 DEF Rows
<1> HIDE DEF u
<1>7. Rows(u) = Rows(s) \cup Rows(t)
  BY <1>4, <1>5, <1>6 DEF Rows
<1> QED BY <1>7 DEF u

\* The rows of a buffer of records are records.
LEMMA RowsTyped ==
  ASSUME NEW R, NEW s \in Seq(R)
  PROVE  Rows(s) \subseteq R /\ Repeats(s) \subseteq R
  BY DEF Rows, Repeats

-----------------------------------------------------------------------------
(* Type correctness.                                                         *)

\* What a fetch returns are records.
LEMMA BetweenTyped ==
  ASSUME NEW p \in Partition, NEW lo \in Nat, NEW hi \in Nat
  PROVE  Between(p, lo, hi) \subseteq Record
  BY DEF Between, Record

\* A record is a partition and an offset.
LEMMA RecordParts ==
  ASSUME NEW r \in Record
  PROVE  r[1] \in Partition /\ r[2] \in Nat /\ r = <<r[1], r[2]>>
  BY DEF Record

\* Routing one record keeps the types of the variables it touches.
LEMMA RoutedTyped ==
  ASSUME TypeOK, NEW c \in Consumer, NEW r \in fetched[c], Routed(c, r)
  PROVE  /\ r \in Record
         /\ fetched' \in [Consumer -> SUBSET Record]
         /\ routing' \in [Consumer -> Partition \cup {None}]
<1>1. r \in Record
  BY DEF TypeOK
<1>2. r[1] \in Partition
  BY <1>1, RecordParts
<1> QED BY <1>1, <1>2 DEF Routed, TypeOK

\* A member resumes inside the log it reads.
LEMMA ResumeTyped ==
  ASSUME TypeOK, NEW p \in Partition, committed[p] <= endOffset[p]
  PROVE  Resume(p) \in 0 .. endOffset[p]
<1>1. endOffset[p] \in Nat /\ committed[p] \in Nat \cup {NotCommitted}
  BY ConsumerAssumption DEF TypeOK
<1> QED BY <1>1 DEF Resume, NotCommitted

\* Committed offsets stay inside the log; with that, TypeOK is inductive.
CommittedInLog == \A p \in Partition : committed[p] <= endOffset[p]

LEMMA InitTyped == Init => TypeOK /\ CommittedInLog
  BY ConsumerAssumption
  DEF Init, TypeOK, CommittedInLog, NotCommitted, Phases

LEMMA NextTyped ==
  TypeOK /\ CommittedInLog /\ [Next]_vars => TypeOK' /\ CommittedInLog'
<1> SUFFICES ASSUME TypeOK, CommittedInLog, [Next]_vars
             PROVE  TypeOK' /\ CommittedInLog'
  OBVIOUS
<1> USE ConsumerAssumption
<1>1. ASSUME NEW p \in Partition, Produce(p) PROVE TypeOK' /\ CommittedInLog'
  <2>1. <<p, endOffset[p]>> \in Record
    BY DEF TypeOK, Record
  <2>2. endOffset' \in [Partition -> 0 .. MaxRecords]
    BY <1>1 DEF Produce, TypeOK
  <2>3. \A q \in Partition : endOffset[q] <= endOffset'[q]
    BY <1>1 DEF Produce, TypeOK
  <2>4. ASSUME NEW q \in Partition
        PROVE  position[q] <= endOffset'[q] /\ committed[q] <= endOffset'[q]
    <3>1. endOffset'[q] \in Nat /\ endOffset[q] \in Nat /\ position[q] \in Nat
      BY <2>2 DEF TypeOK
    <3>2. committed[q] \in Int
      BY DEF TypeOK, NotCommitted
    <3>3. position[q] <= endOffset[q] /\ committed[q] <= endOffset[q]
      BY DEF TypeOK, CommittedInLog
    <3> QED BY <2>3, <3>1, <3>2, <3>3
  <2>5. malformed' \subseteq Record
    BY <1>1, <2>1 DEF Produce, TypeOK
  <2> QED BY <1>1, <2>2, <2>4, <2>5
      DEF Produce, TypeOK, CommittedInLog, process, database, history
<1>2. ASSUME NEW p \in Partition, NEW c \in Consumer, Assign(p, c) \/ Rebalance(p, c)
      PROVE  TypeOK' /\ CommittedInLog'
  <2>1. Resume(p) \in 0 .. endOffset[p]
    BY ResumeTyped DEF CommittedInLog
  <2>2. GivePartition(p, c) /\ faults' \in 0 .. MaxFaults
    BY <1>2 DEF Assign, Rebalance, TypeOK
  <2> QED BY <2>1, <2>2
      DEF GivePartition, TypeOK, CommittedInLog, process, database, history
<1>3. ASSUME NEW c \in Consumer, Join(c) PROVE TypeOK' /\ CommittedInLog'
  BY <1>3 DEF Join, TypeOK, CommittedInLog, broker, database, history, Phases
<1>4. ASSUME NEW c \in Consumer, Fetch(c) PROVE TypeOK' /\ CommittedInLog'
  <2>1. PICK to \in [Partition -> 0 .. MaxRecords] :
          /\ \A p \in Partition :
               IF owner[p] = c THEN to[p] \in position[p] .. endOffset[p]
                               ELSE to[p] = position[p]
          /\ fetched' = [fetched EXCEPT
                           ![c] = UNION {Between(p, position[p], to[p]) : p \in Partition}]
          /\ position' = to
    BY <1>4 DEF Fetch
  <2>2. UNION {Between(p, position[p], to[p]) : p \in Partition} \subseteq Record
    BY BetweenTyped DEF TypeOK
  <2>3. \A p \in Partition : to[p] <= endOffset[p]
    BY <2>1 DEF TypeOK
  <2> QED BY <1>4, <2>1, <2>2, <2>3
      DEF Fetch, TypeOK, CommittedInLog, database, history, Phases
<1>5. ASSUME NEW c \in Consumer, FetchNothing(c) PROVE TypeOK' /\ CommittedInLog'
  BY <1>5 DEF FetchNothing, TypeOK, CommittedInLog, broker, database, history, Phases
<1>6. ASSUME NEW c \in Consumer, SkipMalformed(c) PROVE TypeOK' /\ CommittedInLog'
  <2>1. PICK r \in fetched[c] : Routed(c, r) /\ rejected' = rejected \cup {r}
    BY <1>6 DEF SkipMalformed
  <2> QED BY <1>6, <2>1, RoutedTyped
      DEF SkipMalformed, TypeOK, CommittedInLog, broker, history
<1>7. ASSUME NEW c \in Consumer, IngestTelemetry(c) PROVE TypeOK' /\ CommittedInLog'
  <2>1. PICK r \in fetched[c] :
          Routed(c, r) /\ buffer' = [buffer EXCEPT ![c] = Append(@, r)]
    BY <1>7 DEF IngestTelemetry
  <2>2. r \in Record /\ Append(buffer[c], r) \in Seq(Record)
    BY <2>1, RoutedTyped DEF TypeOK
  <2> QED BY <1>7, <2>1, <2>2, RoutedTyped
      DEF IngestTelemetry, TypeOK, CommittedInLog, broker, database, history
<1>8. ASSUME NEW c \in Consumer, IngestTripEvent(c) PROVE TypeOK' /\ CommittedInLog'
  <2>1. PICK r \in fetched[c] : routing' = [routing EXCEPT ![c] = r[1]]
    BY <1>8 DEF IngestTripEvent
  <2>2. r[1] \in Partition
    BY RecordParts DEF TypeOK
  <2>3. routing' \in [Consumer -> Partition \cup {None}]
    BY <2>1, <2>2 DEF TypeOK
  <2>4. \/ TakeBatch(c, "apply")
        \/ buffer[c] = <<>> /\ pc' = [pc EXCEPT ![c] = "apply"] /\ UNCHANGED <<then, buffer, batch>>
    BY <1>8 DEF IngestTripEvent
  <2>5. /\ pc' \in [Consumer -> Phases] /\ then' \in [Consumer -> Phases]
        /\ buffer' \in [Consumer -> Seq(Record)] /\ batch' \in [Consumer -> Seq(Record)]
    <3>1. CASE TakeBatch(c, "apply")
      BY <3>1 DEF TakeBatch, TypeOK, Phases
    <3>2. CASE pc' = [pc EXCEPT ![c] = "apply"] /\ UNCHANGED <<then, buffer, batch>>
      BY <3>2 DEF TypeOK, Phases
    <3> QED BY <2>4, <3>1, <3>2
  <2> QED BY <1>8, <2>3, <2>5
      DEF IngestTripEvent, TypeOK, CommittedInLog, broker, database, history
<1>9. ASSUME NEW c \in Consumer, ApplyTripEvent(c) PROVE TypeOK' /\ CommittedInLog'
  <2>1. PICK r \in fetched[c] : Routed(c, r) /\ applied' = applied \cup {r}
    BY <1>9 DEF ApplyTripEvent
  <2> QED BY <1>9, <2>1, RoutedTyped
      DEF ApplyTripEvent, TypeOK, CommittedInLog, broker, history, Phases
<1>10. ASSUME NEW c \in Consumer, TripEventFails(c) PROVE TypeOK' /\ CommittedInLog'
  <2>1. PICK r \in fetched[c] : Routed(c, r) /\ dropped' = dropped \cup {r}
    BY <1>10 DEF TripEventFails
  <2> QED BY <1>10, <2>1, RoutedTyped
      DEF TripEventFails, TypeOK, CommittedInLog, broker, database, Phases
<1>11. ASSUME NEW c \in Consumer, KeepBuffering(c) PROVE TypeOK' /\ CommittedInLog'
  BY <1>11 DEF KeepBuffering, TypeOK, CommittedInLog, broker, database, history, Phases
<1>12. ASSUME NEW c \in Consumer, FlushDue(c) PROVE TypeOK' /\ CommittedInLog'
  BY <1>12 DEF FlushDue, TakeBatch, TypeOK, CommittedInLog, broker, database, history,
               Phases
<1>13. ASSUME NEW c \in Consumer, WriteSucceeds(c) PROVE TypeOK' /\ CommittedInLog'
  <2>1. Rows(batch[c]) \subseteq Record /\ Repeats(batch[c]) \subseteq Record
    BY RowsTyped DEF TypeOK
  <2> QED BY <1>13, <2>1
      DEF WriteSucceeds, Stored, TypeOK, CommittedInLog, broker, history, Phases
<1>14. ASSUME NEW c \in Consumer, WriteFails(c) PROVE TypeOK' /\ CommittedInLog'
  <2>1. buffer[c] \o batch[c] \in Seq(Record)
    BY DEF TypeOK
  <2> QED BY <1>14, <2>1
      DEF WriteFails, Rebuffered, Return, TypeOK, CommittedInLog, broker, database, history
<1>15. ASSUME NEW c \in Consumer, WriteUnacknowledged(c) PROVE TypeOK' /\ CommittedInLog'
  <2>1. Rows(batch[c]) \subseteq Record /\ Repeats(batch[c]) \subseteq Record
    BY RowsTyped DEF TypeOK
  <2>2. buffer[c] \o batch[c] \in Seq(Record)
    BY DEF TypeOK
  <2> QED BY <1>15, <2>1, <2>2
      DEF WriteUnacknowledged, Stored, Rebuffered, Return, TypeOK, CommittedInLog, broker
<1>16. ASSUME NEW c \in Consumer, CommitSucceeds(c) PROVE TypeOK' /\ CommittedInLog'
  BY <1>16 DEF CommitSucceeds, Return, TypeOK, CommittedInLog, database, history
<1>17. ASSUME NEW c \in Consumer, CommitFails(c) PROVE TypeOK' /\ CommittedInLog'
  BY <1>17 DEF CommitFails, Return, TypeOK, CommittedInLog, broker, database
<1>18. ASSUME NEW c \in Consumer, ObserveStop(c) \/ CodecUnsupported(c)
       PROVE  TypeOK' /\ CommittedInLog'
  <2>1. stops' \in 0 .. MaxStops /\ pc' \in [Consumer -> Phases]
    <3>1. stops < MaxStops /\ stops' = stops + 1
      BY <1>18 DEF ObserveStop, CodecUnsupported
    <3>2. pc' = [pc EXCEPT ![c] = "drain"] \/ pc' = [pc EXCEPT ![c] = "leave"]
      BY <1>18 DEF ObserveStop, CodecUnsupported
    <3>3. stops' \in 0 .. MaxStops
      BY <3>1 DEF TypeOK
    <3> QED BY <3>2, <3>3 DEF TypeOK, Phases
  <2>2. UNCHANGED <<broker, then, fetched, routing, buffer, batch, database, dropped,
                    origin, faults>>
    BY <1>18 DEF ObserveStop, CodecUnsupported
  <2> QED BY <2>1, <2>2 DEF TypeOK, CommittedInLog, broker, database
<1>19. ASSUME NEW c \in Consumer, FinalFlush(c) PROVE TypeOK' /\ CommittedInLog'
  BY <1>19 DEF FinalFlush, TakeBatch, TypeOK, CommittedInLog, broker, database, history,
               Phases
<1>20. ASSUME NEW c \in Consumer, Leave(c) \/ Crash(c) PROVE TypeOK' /\ CommittedInLog'
  <2>1. Gone(c) /\ faults' \in 0 .. MaxFaults /\ stops' = stops
    BY <1>20 DEF Leave, Crash, TypeOK
  <2> QED BY <2>1 DEF Gone, TypeOK, CommittedInLog, database, Phases
<1>21. CASE UNCHANGED vars
  BY <1>21 DEF vars, broker, process, database, history, TypeOK, CommittedInLog
<1> QED
  BY <1>1, <1>2, <1>3, <1>4, <1>5, <1>6, <1>7, <1>8, <1>9, <1>10, <1>11, <1>12, <1>13,
     <1>14, <1>15, <1>16, <1>17, <1>18, <1>19, <1>20, <1>21
  DEF Next

\* Every variable keeps its type, and no position runs past the end of its log.
THEOREM TypeCorrect == Spec => []TypeOK
<1>1. Spec => [](TypeOK /\ CommittedInLog)
  BY InitTyped, NextTyped, PTL DEF Spec
<1> QED BY <1>1, PTL

-----------------------------------------------------------------------------
(* At-least-once delivery of telemetry: the group reads vehicle.telemetry.v1 *)
(* alone and starts at the beginning of the log.                             *)

TelemetryOnly == TripPartition = {} /\ FromBeginning = TRUE

\* What a consumer holds in each phase of its loop.
PhaseInv ==
  \A c \in Consumer :
    /\ pc[c] # "apply"
    /\ pc[c] # "route" => fetched[c] = {}
    /\ pc[c] # "write" => batch[c] = <<>>
    /\ pc[c] \in {"write", "commit"} => buffer[c] = <<>>
    /\ then[c] \in {"poll", "leave", "left"}

\* A process holds nothing that was never published.
HeldPublished ==
  \A c \in Consumer : \A r \in Held(c) : r \in Record /\ r[2] < endOffset[r[1]]

\* A committed offset covers settled records only.
CommitCovered == \A r \in Record : r[2] < committed[r[1]] => r \in Settled

\* What the owner of a partition has read is settled or still in its memory.
ReadCovered ==
  \A r \in Record, d \in Consumer :
    owner[r[1]] = d /\ r[2] < position[r[1]] => r \in Settled \cup Held(d)

\* The owner of a partition is never behind the group's committed offset.
CommitBehind == \A p \in Partition : owner[p] # None => committed[p] <= position[p]

DeliveryInv ==
  /\ TelemetryOnly
  /\ TypeOK
  /\ CommittedInLog
  /\ PhaseInv
  /\ HeldPublished
  /\ CommitCovered
  /\ ReadCovered
  /\ CommitBehind

LEMMA InitDelivery == TelemetryOnly /\ Init => DeliveryInv
<1> SUFFICES ASSUME TelemetryOnly, Init PROVE DeliveryInv
  OBVIOUS
<1>1. TypeOK /\ CommittedInLog
  BY InitTyped
<1>2. PhaseInv
  BY DEF Init, PhaseInv
<1>3. HeldPublished
  BY RowsOfEmpty DEF Init, HeldPublished, Held
<1>4. CommitCovered
  BY RecordParts DEF Init, CommitCovered, NotCommitted
<1>5. ReadCovered /\ CommitBehind
  BY RecordParts DEF Init, ReadCovered, CommitBehind
<1> QED BY <1>1, <1>2, <1>3, <1>4, <1>5 DEF DeliveryInv

\* Steps of one consumer that leave the broker alone.
LocalStep(c) ==
  \/ Join(c) \/ FetchNothing(c) \/ SkipMalformed(c) \/ IngestTelemetry(c)
  \/ KeepBuffering(c) \/ FlushDue(c) \/ FinalFlush(c)
  \/ WriteSucceeds(c) \/ WriteFails(c) \/ WriteUnacknowledged(c)
  \/ CommitFails(c) \/ ObserveStop(c) \/ CodecUnsupported(c)

\* Nothing a consumer holds disappears without being settled.
Keeps ==
  /\ Settled \subseteq Settled'
  /\ \A d \in Consumer : Held(d) \subseteq Held(d)' \cup Settled'
  /\ \A d \in Consumer : Held(d)' \subseteq Held(d)

LEMMA TakeBatchKeeps ==
  ASSUME DeliveryInv, NEW c \in Consumer, NEW k, pc[c] # "write", TakeBatch(c, k),
         UNCHANGED <<fetched, database>>
  PROVE  Keeps
<1>1. batch[c] = <<>>
  BY DEF DeliveryInv, PhaseInv
<1>2. \A d \in Consumer \ {c} : Held(d)' = Held(d)
  BY DEF TakeBatch, Held, DeliveryInv, TypeOK
<1>3. Held(c)' = Held(c)
  BY <1>1, RowsOfEmpty DEF TakeBatch, Held, DeliveryInv, TypeOK
<1>4. Settled' = Settled
  BY DEF Settled, database
<1> QED BY <1>2, <1>3, <1>4 DEF Keeps

\* add_many puts the rows of a failed batch back, so the consumer holds what it held.
LEMMA RebufferKeeps ==
  ASSUME DeliveryInv, NEW c \in Consumer, Rebuffered(c), UNCHANGED fetched
  PROVE  \A d \in Consumer : Held(d)' = Held(d)
<1>1. Rows(buffer[c] \o batch[c]) = Rows(buffer[c]) \cup Rows(batch[c])
  BY RowsOfConcat DEF DeliveryInv, TypeOK
<1> QED BY <1>1, RowsOfEmpty DEF Rebuffered, Held, DeliveryInv, TypeOK

LEMMA LocalKeeps ==
  ASSUME DeliveryInv, NEW c \in Consumer, LocalStep(c)
  PROVE  Keeps /\ UNCHANGED broker
<1>1. CASE Join(c) \/ FetchNothing(c) \/ KeepBuffering(c) \/ CommitFails(c)
           \/ ObserveStop(c) \/ CodecUnsupported(c)
  <2>1. UNCHANGED <<broker, fetched, buffer, batch, database>>
    BY <1>1 DEF Join, FetchNothing, KeepBuffering, CommitFails, ObserveStop,
                CodecUnsupported
  <2> QED BY <2>1 DEF Keeps, Held, Settled, database
<1>2. CASE SkipMalformed(c)
  <2>1. PICK r \in fetched[c] :
          fetched' = [fetched EXCEPT ![c] = @ \ {r}] /\ rejected' = rejected \cup {r}
    BY <1>2 DEF SkipMalformed, Routed
  <2>2. UNCHANGED <<broker, buffer, batch, durable, applied>>
    BY <1>2 DEF SkipMalformed
  <2> QED BY <2>1, <2>2 DEF Keeps, Held, Settled, DeliveryInv, TypeOK
<1>3. CASE IngestTelemetry(c)
  <2>1. PICK r \in fetched[c] : /\ fetched' = [fetched EXCEPT ![c] = @ \ {r}]
                               /\ buffer' = [buffer EXCEPT ![c] = Append(@, r)]
    BY <1>3 DEF IngestTelemetry, Routed
  <2>2. UNCHANGED <<broker, batch, database>>
    BY <1>3 DEF IngestTelemetry
  <2>3. Rows(Append(buffer[c], r)) = Rows(buffer[c]) \cup {r}
    BY RowsOfAppend DEF DeliveryInv, TypeOK
  <2>4. \A d \in Consumer : Held(d)' = Held(d)
    BY <2>1, <2>2, <2>3 DEF Held, DeliveryInv, TypeOK
  <2>5. Settled' = Settled
    BY <2>2 DEF Settled, database
  <2> QED BY <2>2, <2>4, <2>5 DEF Keeps
<1>4. CASE FlushDue(c) \/ FinalFlush(c)
  <2>1. \E k : TakeBatch(c, k)
    BY <1>4 DEF FlushDue, FinalFlush
  <2>2. pc[c] # "write" /\ UNCHANGED <<broker, fetched, database>>
    BY <1>4 DEF FlushDue, FinalFlush
  <2> QED BY <2>1, <2>2, TakeBatchKeeps
<1>5. CASE WriteSucceeds(c)
  <2>1. UNCHANGED <<broker, fetched, buffer>>
    BY <1>5 DEF WriteSucceeds
  <2>2. durable' = durable \cup Rows(batch[c]) /\ UNCHANGED <<applied, rejected>>
    BY <1>5 DEF WriteSucceeds, Stored
  <2>3. batch' = [batch EXCEPT ![c] = <<>>]
    BY <1>5 DEF WriteSucceeds
  <2> QED BY <2>1, <2>2, <2>3, RowsOfEmpty DEF Keeps, Held, Settled, DeliveryInv, TypeOK
<1>6. CASE WriteFails(c) \/ WriteUnacknowledged(c)
  <2>1. Rebuffered(c) /\ UNCHANGED <<broker, fetched>>
    BY <1>6 DEF WriteFails, WriteUnacknowledged
  <2>2. Settled \subseteq Settled'
    BY <1>6 DEF WriteFails, WriteUnacknowledged, Stored, database, Settled
  <2> QED BY <2>1, <2>2, RebufferKeeps DEF Keeps
<1> QED BY <1>1, <1>2, <1>3, <1>4, <1>5, <1>6 DEF LocalStep

\* A step that keeps everything and leaves the broker alone keeps the coverage.
LEMMA KeepsCovered ==
  ASSUME DeliveryInv, Keeps, UNCHANGED <<committed, owner, position>>,
         \A p \in Partition : endOffset[p] <= endOffset'[p],
         TypeOK'
  PROVE  HeldPublished' /\ CommitCovered' /\ ReadCovered' /\ CommitBehind'
<1>1. HeldPublished'
  <2> SUFFICES ASSUME NEW d \in Consumer, NEW r \in Held(d)'
               PROVE  r \in Record /\ r[2] < endOffset'[r[1]]
    BY DEF HeldPublished
  <2>1. r \in Record /\ r[2] < endOffset[r[1]]
    BY DEF Keeps, DeliveryInv, HeldPublished
  <2>2. r[1] \in Partition /\ r[2] \in Nat
    BY <2>1, RecordParts
  <2>3. endOffset[r[1]] \in Nat /\ endOffset'[r[1]] \in Nat
    BY <2>2, ConsumerAssumption DEF DeliveryInv, TypeOK
  <2> QED BY <2>1, <2>2, <2>3
<1>2. CommitCovered'
  BY DEF DeliveryInv, CommitCovered, Keeps
<1>3. ReadCovered'
  <2> SUFFICES ASSUME NEW r \in Record, NEW d \in Consumer, owner[r[1]] = d,
                      r[2] < position[r[1]]
               PROVE  r \in Settled' \cup Held(d)'
    BY DEF ReadCovered
  <2>1. r \in Settled \cup Held(d)
    BY DEF DeliveryInv, ReadCovered
  <2> QED BY <2>1 DEF Keeps
<1>4. CommitBehind'
  BY DEF DeliveryInv, CommitBehind
<1> QED BY <1>1, <1>2, <1>3, <1>4

\* A consumer of telemetry alone never takes the steps of a trip event.
LEMMA NoTripSteps ==
  ASSUME DeliveryInv, NEW c \in Consumer
  PROVE  ~IngestTripEvent(c) /\ ~ApplyTripEvent(c) /\ ~TripEventFails(c)
  BY DEF DeliveryInv, TelemetryOnly, PhaseInv, IngestTripEvent, ApplyTripEvent,
         TripEventFails

\* The phase invariant over the steps of a flush.
LEMMA FlushPhase ==
  ASSUME DeliveryInv, NEW c \in Consumer, TypeOK',
         \/ WriteSucceeds(c) \/ WriteFails(c) \/ WriteUnacknowledged(c)
         \/ CommitSucceeds(c) \/ CommitFails(c)
  PROVE  PhaseInv'
<1> USE DEF DeliveryInv, TypeOK, PhaseInv
<1>1. CASE WriteSucceeds(c)
  BY <1>1 DEF WriteSucceeds
<1>2. CASE WriteFails(c)
  BY <1>2 DEF WriteFails, Rebuffered, Return
<1>3. CASE WriteUnacknowledged(c)
  BY <1>3 DEF WriteUnacknowledged, Rebuffered, Return
<1>4. CASE CommitSucceeds(c)
  BY <1>4 DEF CommitSucceeds, Return
<1>5. CASE CommitFails(c)
  BY <1>5 DEF CommitFails, Return
<1> QED BY <1>1, <1>2, <1>3, <1>4, <1>5

\* What a consumer holds in each phase is preserved by every step.
LEMMA PhaseStep ==
  ASSUME DeliveryInv, [Next]_vars, TypeOK'
  PROVE  PhaseInv'
<1> USE DEF DeliveryInv, TypeOK, PhaseInv
<1>1. ASSUME UNCHANGED process PROVE PhaseInv'
  BY <1>1 DEF process
<1>2. ASSUME NEW p \in Partition, Produce(p) PROVE PhaseInv'
  BY <1>1, <1>2 DEF Produce
<1>3. ASSUME NEW p \in Partition, NEW c \in Consumer, Assign(p, c) \/ Rebalance(p, c)
      PROVE  PhaseInv'
  BY <1>1, <1>3 DEF Assign, Rebalance, GivePartition
<1>4. ASSUME NEW c \in Consumer, Join(c) PROVE PhaseInv'
  BY <1>4 DEF Join
<1>5. ASSUME NEW c \in Consumer, Fetch(c) PROVE PhaseInv'
  <2>1. /\ pc[c] = "poll" /\ pc' = [pc EXCEPT ![c] = "route"]
        /\ \A d \in Consumer \ {c} : fetched'[d] = fetched[d]
        /\ UNCHANGED <<then, buffer, batch>>
    BY <1>5 DEF Fetch
  <2> QED BY <2>1
<1>6. ASSUME NEW c \in Consumer, FetchNothing(c) PROVE PhaseInv'
  BY <1>6 DEF FetchNothing
<1>7. ASSUME NEW c \in Consumer, SkipMalformed(c) \/ IngestTelemetry(c) PROVE PhaseInv'
  <2>1. /\ pc[c] = "route" /\ UNCHANGED <<pc, then, batch>>
        /\ \A d \in Consumer \ {c} : fetched'[d] = fetched[d] /\ buffer'[d] = buffer[d]
    BY <1>7 DEF SkipMalformed, IngestTelemetry, Routed
  <2> QED BY <2>1
<1>8. ASSUME NEW c \in Consumer, KeepBuffering(c) PROVE PhaseInv'
  BY <1>8 DEF KeepBuffering
<1>9. ASSUME NEW c \in Consumer, FlushDue(c) PROVE PhaseInv'
  BY <1>9 DEF FlushDue, TakeBatch
<1>10. ASSUME NEW c \in Consumer, FinalFlush(c) PROVE PhaseInv'
  BY <1>10 DEF FinalFlush, TakeBatch
<1>11. ASSUME NEW c \in Consumer, ObserveStop(c) \/ CodecUnsupported(c) PROVE PhaseInv'
  BY <1>11 DEF ObserveStop, CodecUnsupported
<1>12. ASSUME NEW c \in Consumer, Leave(c) \/ Crash(c) PROVE PhaseInv'
  <2>1. Gone(c)
    BY <1>12 DEF Leave, Crash
  <2> QED BY <2>1 DEF Gone
<1>13. CASE UNCHANGED vars
  BY <1>1, <1>13 DEF vars
<1> HIDE DEF DeliveryInv, TypeOK, PhaseInv
<1> QED
  BY <1>2, <1>3, <1>4, <1>5, <1>6, <1>7, <1>8, <1>9, <1>10, <1>11, <1>12, <1>13,
     NoTripSteps, FlushPhase
  DEF Next

\* A partition changes hands: its new owner resumes over settled records.
LEMMA GiveCovered ==
  ASSUME DeliveryInv, NEW p \in Partition, NEW c \in Consumer, GivePartition(p, c)
  PROVE  HeldPublished' /\ CommitCovered' /\ ReadCovered' /\ CommitBehind'
<1>1. /\ UNCHANGED <<endOffset, committed, fetched, buffer, batch, durable, applied, rejected>>
      /\ owner' = [owner EXCEPT ![p] = c]
      /\ position' = [position EXCEPT ![p] = Resume(p)]
  BY DEF GivePartition, process, database
<1>2. Settled' = Settled /\ \A d \in Consumer : Held(d)' = Held(d)
  BY <1>1 DEF Settled, Held
<1>3. HeldPublished' /\ CommitCovered'
  BY <1>1, <1>2 DEF DeliveryInv, HeldPublished, CommitCovered
<1>4. ASSUME NEW r \in Record, NEW d \in Consumer, owner'[r[1]] = d,
             r[2] < position'[r[1]]
      PROVE  r \in Settled' \cup Held(d)'
  <2>1. r[1] \in Partition /\ r[2] \in Nat
    BY RecordParts
  <2>2. CASE r[1] = p
    <3>1. r[2] < Resume(p)
      BY <1>1, <1>4, <2>1, <2>2 DEF DeliveryInv, TypeOK
    <3>2. r[2] < committed[p]
      BY <2>1, <3>1 DEF Resume, DeliveryInv, TelemetryOnly
    <3> QED BY <1>2, <2>2, <3>2 DEF DeliveryInv, CommitCovered
  <2>3. CASE r[1] # p
    <3>1. owner'[r[1]] = owner[r[1]] /\ position'[r[1]] = position[r[1]]
      BY <1>1, <2>1, <2>3 DEF DeliveryInv, TypeOK
    <3>2. r \in Settled \cup Held(d)
      BY <1>4, <3>1 DEF DeliveryInv, ReadCovered
    <3> QED BY <1>2, <3>2
  <2> QED BY <2>2, <2>3
<1>5. ReadCovered'
  BY <1>4 DEF ReadCovered
<1>6. committed[p] <= Resume(p)
  BY DEF Resume, DeliveryInv, TelemetryOnly, TypeOK, NotCommitted
<1>7. CommitBehind'
  BY <1>1, <1>6 DEF CommitBehind, DeliveryInv, TypeOK
<1> QED BY <1>3, <1>5, <1>7

\* What a fetch adds to memory is what it moves the position past.
LEMMA FetchCovered ==
  ASSUME DeliveryInv, NEW c \in Consumer, Fetch(c)
  PROVE  HeldPublished' /\ CommitCovered' /\ ReadCovered' /\ CommitBehind'
<1>1. PICK to \in [Partition -> 0 .. MaxRecords] :
        /\ \A p \in Partition :
             IF owner[p] = c THEN to[p] \in position[p] .. endOffset[p]
                             ELSE to[p] = position[p]
        /\ fetched' = [fetched EXCEPT
                         ![c] = UNION {Between(p, position[p], to[p]) : p \in Partition}]
        /\ position' = to
  BY DEF Fetch
<1> DEFINE new == UNION {Between(p, position[p], to[p]) : p \in Partition}
<1>2. UNCHANGED <<endOffset, committed, owner, buffer, batch, durable, applied, rejected>>
  BY DEF Fetch, database
<1>3. fetched[c] = {}
  BY DEF Fetch, DeliveryInv, PhaseInv
<1>4. Held(c)' = Held(c) \cup new /\ \A d \in Consumer \ {c} : Held(d)' = Held(d)
  BY <1>1, <1>2, <1>3 DEF Held, DeliveryInv, TypeOK
<1>5. Settled' = Settled
  BY <1>2 DEF Settled
<1>6. ASSUME NEW r \in new PROVE r \in Record /\ r[2] < endOffset[r[1]]
  <2>1. PICK p \in Partition : r \in Between(p, position[p], to[p])
    OBVIOUS
  <2>2. /\ position[p] \in Nat /\ endOffset[p] \in Nat /\ to[p] \in Nat
        /\ to[p] <= endOffset[p]
    BY <1>1, ConsumerAssumption DEF DeliveryInv, TypeOK
  <2>3. r[1] = p /\ r[2] \in position[p] .. to[p] - 1
    BY <2>1 DEF Between
  <2>4. r \in Record
    BY <2>1, <2>2, BetweenTyped
  <2> QED BY <2>2, <2>3, <2>4
<1>7. HeldPublished'
  <2>1. \A d \in Consumer : \A r \in Held(d)' : r \in Held(d) \/ r \in new
    BY <1>4
  <2> HIDE DEF new
  <2> QED BY <1>2, <1>6, <2>1 DEF DeliveryInv, HeldPublished
<1>8. CommitCovered'
  BY <1>2, <1>5 DEF DeliveryInv, CommitCovered
<1>9. ASSUME NEW r \in Record, NEW d \in Consumer, owner[r[1]] = d, r[2] < to[r[1]]
      PROVE  r \in Settled \cup Held(d)'
  <2>1. r[1] \in Partition /\ r[2] \in Nat /\ r = <<r[1], r[2]>>
    BY RecordParts
  <2>2. position[r[1]] \in Nat /\ to[r[1]] \in Nat
    BY <2>1 DEF DeliveryInv, TypeOK
  <2>3. CASE r[2] < position[r[1]]
    <3>1. r \in Settled \cup Held(d)
      BY <1>9, <2>3 DEF DeliveryInv, ReadCovered
    <3>2. Held(d) \subseteq Held(d)'
      BY <1>4
    <3> QED BY <3>1, <3>2
  <2>4. CASE r[2] >= position[r[1]]
    <3>1. d = c
      BY <1>1, <1>9, <2>1, <2>2, <2>4
    <3>2. r \in Between(r[1], position[r[1]], to[r[1]])
      BY <1>9, <2>1, <2>2, <2>4 DEF Between
    <3>3. r \in new
      BY <2>1, <3>2
    <3> QED BY <1>4, <3>1, <3>3
  <2> QED BY <2>2, <2>1, <2>3, <2>4
<1>10. ReadCovered'
  BY <1>1, <1>2, <1>5, <1>9 DEF ReadCovered
<1>11. CommitBehind'
  <2>1. \A p \in Partition : position[p] <= to[p]
    BY <1>1 DEF DeliveryInv, TypeOK
  <2>2. \A p \in Partition : committed[p] \in Int /\ position[p] \in Int /\ to[p] \in Int
    BY DEF DeliveryInv, TypeOK, NotCommitted
  <2> QED BY <1>1, <1>2, <2>1, <2>2 DEF DeliveryInv, CommitBehind
<1> QED BY <1>7, <1>8, <1>10, <1>11

\* When the commit is sent nothing is in memory, so all that was read is settled.
LEMMA CommitStepCovered ==
  ASSUME DeliveryInv, NEW c \in Consumer, CommitSucceeds(c)
  PROVE  HeldPublished' /\ CommitCovered' /\ ReadCovered' /\ CommitBehind'
<1>1. Held(c) = {}
  BY RowsOfEmpty DEF Held, CommitSucceeds, DeliveryInv, PhaseInv
<1>2. /\ UNCHANGED <<endOffset, owner, position, fetched, buffer, batch>>
      /\ UNCHANGED <<durable, applied, rejected>>
      /\ committed' = [p \in Partition |-> IF owner[p] = c THEN position[p] ELSE committed[p]]
  BY DEF CommitSucceeds, database
<1>3. Settled' = Settled /\ \A d \in Consumer : Held(d)' = Held(d)
  BY <1>2 DEF Settled, Held
<1>4. HeldPublished' /\ ReadCovered'
  BY <1>2, <1>3 DEF DeliveryInv, HeldPublished, ReadCovered
<1>5. ASSUME NEW r \in Record, r[2] < committed'[r[1]] PROVE r \in Settled'
  <2>1. r[1] \in Partition
    BY RecordParts
  <2>2. CASE owner[r[1]] = c
    <3>1. r[2] < position[r[1]]
      BY <1>2, <1>5, <2>1, <2>2
    <3> QED BY <1>1, <1>3, <2>2, <3>1 DEF DeliveryInv, ReadCovered
  <2>3. CASE owner[r[1]] # c
    BY <1>2, <1>3, <1>5, <2>1, <2>3 DEF DeliveryInv, CommitCovered
  <2> QED BY <2>2, <2>3
<1>6. CommitCovered'
  BY <1>5 DEF CommitCovered
<1>7. CommitBehind'
  <2>1. \A p \in Partition : position[p] \in Int
    BY DEF DeliveryInv, TypeOK
  <2> QED BY <1>2, <2>1 DEF DeliveryInv, CommitBehind
<1> QED BY <1>4, <1>6, <1>7

\* A process that goes away gives up its partitions together with its memory.
LEMMA GoneCovered ==
  ASSUME DeliveryInv, NEW c \in Consumer, Gone(c)
  PROVE  HeldPublished' /\ CommitCovered' /\ ReadCovered' /\ CommitBehind'
<1>1. /\ UNCHANGED <<endOffset, committed, position, durable, applied, rejected>>
      /\ owner' = [p \in Partition |-> IF owner[p] = c THEN None ELSE owner[p]]
  BY DEF Gone, database
<1>2. Settled' = Settled
  BY <1>1 DEF Settled
<1>3. Held(c)' = {} /\ \A d \in Consumer \ {c} : Held(d)' = Held(d)
  BY RowsOfEmpty DEF Gone, Held, DeliveryInv, TypeOK
<1>4. HeldPublished'
  BY <1>1, <1>3 DEF DeliveryInv, HeldPublished
<1>5. CommitCovered'
  BY <1>1, <1>2 DEF DeliveryInv, CommitCovered
<1>6. ASSUME NEW p \in Partition, owner'[p] # None
      PROVE  owner'[p] = owner[p] /\ owner[p] \in Consumer \ {c}
  BY <1>1, <1>6 DEF DeliveryInv, TypeOK
<1>7. ReadCovered'
  <2> SUFFICES ASSUME NEW r \in Record, NEW d \in Consumer, owner'[r[1]] = d,
                      r[2] < position'[r[1]]
               PROVE  r \in Settled' \cup Held(d)'
    BY DEF ReadCovered
  <2>1. r[1] \in Partition
    BY RecordParts
  <2>2. owner[r[1]] = d /\ d # c
    BY <1>6, <2>1, ConsumerAssumption
  <2>3. r \in Settled \cup Held(d)
    BY <1>1, <2>2 DEF DeliveryInv, ReadCovered
  <2> QED BY <1>2, <1>3, <2>2, <2>3
<1>8. CommitBehind'
  BY <1>1, <1>6 DEF DeliveryInv, CommitBehind
<1> QED BY <1>4, <1>5, <1>7, <1>8

LEMMA NextDelivery == DeliveryInv /\ [Next]_vars => DeliveryInv'
<1> SUFFICES ASSUME DeliveryInv, [Next]_vars PROVE DeliveryInv'
  OBVIOUS
<1>1. TypeOK' /\ CommittedInLog'
  BY NextTyped DEF DeliveryInv
<1>2. PhaseInv'
  BY <1>1, PhaseStep
<1> DEFINE Covered == HeldPublished /\ CommitCovered /\ ReadCovered /\ CommitBehind
<1>3. ASSUME NEW p \in Partition, Produce(p) PROVE Covered'
  <2>1. UNCHANGED <<committed, owner, position, fetched, buffer, batch>>
    BY <1>3 DEF Produce, process
  <2>2. UNCHANGED <<durable, applied, rejected>>
    BY <1>3 DEF Produce, database
  <2>3. Keeps
    BY <2>1, <2>2 DEF Keeps, Held, Settled
  <2>4. \A q \in Partition : endOffset[q] <= endOffset'[q]
    BY <1>3 DEF Produce, DeliveryInv, TypeOK
  <2> QED BY <1>1, <2>1, <2>3, <2>4, KeepsCovered
<1>4. ASSUME NEW p \in Partition, NEW c \in Consumer, Assign(p, c) \/ Rebalance(p, c)
      PROVE  Covered'
  BY <1>4, GiveCovered DEF Assign, Rebalance
<1>5. ASSUME NEW c \in Consumer, LocalStep(c) PROVE Covered'
  <2>1. Keeps /\ UNCHANGED <<endOffset, committed, owner, position>>
    BY <1>5, LocalKeeps DEF broker
  <2>2. \A q \in Partition : endOffset[q] <= endOffset'[q]
    BY <2>1 DEF DeliveryInv, TypeOK
  <2> QED BY <1>1, <2>1, <2>2, KeepsCovered
<1>6. ASSUME NEW c \in Consumer, Leave(c) \/ Crash(c) PROVE Covered'
  BY <1>6, GoneCovered DEF Leave, Crash
<1>7. ASSUME UNCHANGED vars PROVE Covered'
  <2>1. UNCHANGED <<endOffset, committed, owner, position, fetched, buffer, batch>>
    BY <1>7 DEF vars, broker, process
  <2>2. UNCHANGED <<durable, applied, rejected>>
    BY <1>7 DEF vars, database
  <2>3. Keeps
    BY <2>1, <2>2 DEF Keeps, Held, Settled
  <2>4. \A q \in Partition : endOffset[q] <= endOffset'[q]
    BY <2>1 DEF DeliveryInv, TypeOK
  <2> QED BY <1>1, <2>1, <2>3, <2>4, KeepsCovered
<1>8. Covered'
  <2> HIDE DEF Covered
  <2>1. ASSUME NEW c \in Consumer, Fetch(c) PROVE Covered'
    BY <2>1, FetchCovered DEF Covered
  <2>2. ASSUME NEW c \in Consumer, CommitSucceeds(c) PROVE Covered'
    BY <2>2, CommitStepCovered DEF Covered
  <2> QED BY <1>3, <1>4, <1>5, <1>6, <1>7, <2>1, <2>2, NoTripSteps DEF Next, LocalStep
<1>9. TelemetryOnly'
  BY DEF DeliveryInv, TelemetryOnly
<1> QED BY <1>1, <1>2, <1>8, <1>9 DEF DeliveryInv

LEMMA DeliveryHolds == TelemetryOnly /\ Spec => []DeliveryInv
<1>1. TelemetryOnly /\ Init => DeliveryInv
  BY InitDelivery
<1>2. DeliveryInv /\ [Next]_vars => DeliveryInv'
  BY NextDelivery
<1> QED BY <1>1, <1>2, PTL DEF Spec

\* Offsets are committed only over rows the database has stored or the consumer
\* has rejected for good (_flush_and_commit).
THEOREM CommitsAreSettled == TelemetryOnly /\ Spec => []CommittedIsSettled
<1>1. DeliveryInv => CommittedIsSettled
  BY DEF DeliveryInv, CommitCovered, CommittedIsSettled, Record
<1> QED BY <1>1, DeliveryHolds, PTL

\* No record is read and lost: what is not settled is in its reader's memory.
THEOREM ReadsAreCovered == TelemetryOnly /\ Spec => []NothingSkipped
<1>1. DeliveryInv => NothingSkipped
  <2> SUFFICES ASSUME DeliveryInv, NEW p \in Partition, owner[p] # None,
                      NEW o \in 0 .. MaxRecords - 1, o < position[p]
               PROVE  <<p, o>> \in Settled \cup Held(owner[p])
    BY DEF NothingSkipped
  <2>1. PICK d \in Consumer : owner[p] = d
    BY DEF DeliveryInv, TypeOK
  <2>2. <<p, o>> \in Record /\ <<p, o>>[1] = p /\ <<p, o>>[2] = o
    BY ConsumerAssumption DEF Record
  <2> QED BY <2>1, <2>2 DEF DeliveryInv, ReadCovered
<1> QED BY <1>1, DeliveryHolds, PTL

-----------------------------------------------------------------------------
(* The consumer implements AtLeastOnce.                                      *)

Published    == UNION {Between(p, 0, endOffset[p]) : p \in Partition}
Acknowledged == UNION {Between(p, 0, committed[p]) : p \in Partition}

\* The records of the log are those below its end, and likewise for commits.
LEMMA InLog ==
  ASSUME TypeOK
  PROVE  /\ \A r : r \in Published <=> r \in Record /\ r[2] < endOffset[r[1]]
         /\ \A r : r \in Acknowledged <=> r \in Record /\ r[2] < committed[r[1]]
<1>1. \A p \in Partition : endOffset[p] \in Nat /\ committed[p] \in Int
  BY ConsumerAssumption DEF TypeOK, NotCommitted
<1>2. ASSUME NEW f, \A p \in Partition : f[p] \in Int, NEW r
      PROVE  r \in UNION {Between(p, 0, f[p]) : p \in Partition}
             <=> r \in Record /\ r[2] < f[r[1]]
  <2>1. ASSUME NEW p \in Partition, r \in Between(p, 0, f[p])
        PROVE  r \in Record /\ r[2] < f[r[1]]
    BY <1>2, <2>1 DEF Between, Record
  <2>2. ASSUME r \in Record, r[2] < f[r[1]]
        PROVE  \E p \in Partition : r \in Between(p, 0, f[p])
    <3>1. r[1] \in Partition /\ r[2] \in Nat /\ r = <<r[1], r[2]>>
      BY <2>2, RecordParts
    <3>2. r \in Between(r[1], 0, f[r[1]])
      BY <1>2, <2>2, <3>1 DEF Between
    <3> QED BY <3>1, <3>2
  <2> QED BY <2>1, <2>2
<1> QED BY <1>1, <1>2 DEF Published, Acknowledged

\* A step of one consumer settles only what that consumer held.
LEMMA SettlesHeld ==
  ASSUME DeliveryInv, NEW c \in Consumer, LocalStep(c)
  PROVE  Settled' \subseteq Settled \cup Held(c)
<1>1. CASE SkipMalformed(c)
  BY <1>1 DEF SkipMalformed, Settled, Held
<1>2. CASE WriteSucceeds(c) \/ WriteUnacknowledged(c)
  BY <1>2 DEF WriteSucceeds, WriteUnacknowledged, Stored, Settled, Held
<1>3. CASE UNCHANGED database
  BY <1>3 DEF database, Settled
<1>4. SkipMalformed(c) \/ WriteSucceeds(c) \/ WriteUnacknowledged(c) \/ UNCHANGED database
  BY DEF LocalStep, Join, FetchNothing, IngestTelemetry, KeepBuffering, FlushDue,
         FinalFlush, WriteFails, CommitFails, ObserveStop, CodecUnsupported
<1> QED BY <1>1, <1>2, <1>3, <1>4

\* Each step of the consumer is a step of the delivery service or no step of it.
LEMMA StepDelivers ==
  ASSUME DeliveryInv, DeliveryInv', [Next]_vars
  PROVE  [Delivery!Next]_(Delivery!vars)
<1> USE DEF Delivery!Next, Delivery!vars, Delivery!Publish, Delivery!Settle,
            Delivery!Acknowledge
<1>1. /\ \A r : r \in Published <=> r \in Record /\ r[2] < endOffset[r[1]]
      /\ \A r : r \in Acknowledged <=> r \in Record /\ r[2] < committed[r[1]]
      /\ \A r : r \in Published' <=> r \in Record /\ r[2] < endOffset'[r[1]]
      /\ \A r : r \in Acknowledged' <=> r \in Record /\ r[2] < committed'[r[1]]
  <2>1. TypeOK /\ TypeOK'
    BY DEF DeliveryInv
  <2>2. (\A r : r \in Published <=> r \in Record /\ r[2] < endOffset[r[1]])'
    BY <2>1, InLog, PTL
  <2>3. (\A r : r \in Acknowledged <=> r \in Record /\ r[2] < committed[r[1]])'
    BY <2>1, InLog, PTL
  <2> QED BY <2>1, <2>2, <2>3, InLog
<1> DEFINE Goal == [Delivery!Next]_(Delivery!vars)
<1>2. ASSUME NEW c \in Consumer, LocalStep(c) PROVE Goal
  <2>1. UNCHANGED <<endOffset, committed>> /\ Settled \subseteq Settled'
    BY <1>2, LocalKeeps DEF broker, Keeps
  <2>2. Published' = Published /\ Acknowledged' = Acknowledged
    BY <2>1 DEF Published, Acknowledged
  <2>3. Settled' \ Settled \subseteq Published
    BY <1>1, <1>2, SettlesHeld DEF DeliveryInv, HeldPublished
  <2> QED BY <2>1, <2>2, <2>3 DEF Published, Acknowledged
<1>3. ASSUME NEW p \in Partition, Produce(p) PROVE Goal
  <2>1. UNCHANGED <<committed, Settled>>
    BY <1>3 DEF Produce, database, Settled
  <2>2. Acknowledged' = Acknowledged
    BY <2>1 DEF Acknowledged
  <2>3. \A q \in Partition : endOffset[q] \in Nat /\ endOffset'[q] \in Nat
                              /\ endOffset[q] <= endOffset'[q]
    BY <1>3, ConsumerAssumption DEF Produce, DeliveryInv, TypeOK
  <2>4. Published \subseteq Published' /\ Published' \subseteq Record
    BY <1>1, <2>3, RecordParts
  <2> QED BY <2>1, <2>2, <2>4 DEF Published, Acknowledged
<1>4. ASSUME NEW c \in Consumer, CommitSucceeds(c) PROVE Goal
  <2>1. UNCHANGED <<endOffset, Settled>>
    BY <1>4 DEF CommitSucceeds, database, Settled
  <2>2. Published' = Published
    BY <2>1 DEF Published
  <2>3. \A q \in Partition : committed[q] \in Int /\ committed'[q] \in Int
    BY DEF DeliveryInv, TypeOK, NotCommitted
  <2>4. \A q \in Partition : committed[q] <= committed'[q]
    <3> SUFFICES ASSUME NEW q \in Partition PROVE committed[q] <= committed'[q]
      OBVIOUS
    <3>1. CASE owner[q] = c
      BY <1>4, <3>1, ConsumerAssumption DEF CommitSucceeds, DeliveryInv, CommitBehind
    <3>2. CASE owner[q] # c
      BY <1>4, <2>3, <3>2 DEF CommitSucceeds
    <3> QED BY <3>1, <3>2
  <2>5. Acknowledged \subseteq Acknowledged'
    BY <1>1, <2>3, <2>4, RecordParts
  <2>6. Acknowledged' \subseteq Settled
    BY <1>1, <2>1 DEF DeliveryInv, CommitCovered
  <2> QED BY <2>1, <2>2, <2>5, <2>6 DEF Published, Acknowledged
<1>5. ASSUME UNCHANGED <<endOffset, committed, durable, applied, rejected>> PROVE Goal
  <2>1. UNCHANGED <<Published, Settled, Acknowledged>>
    BY <1>5 DEF Published, Settled, Acknowledged
  <2> QED BY <2>1 DEF Published, Acknowledged
<1>6. ASSUME NEW p \in Partition, NEW c \in Consumer, Assign(p, c) \/ Rebalance(p, c)
      PROVE  Goal
  BY <1>5, <1>6 DEF Assign, Rebalance, GivePartition, database
<1>7. ASSUME NEW c \in Consumer, Fetch(c) PROVE Goal
  BY <1>5, <1>7 DEF Fetch, database
<1>8. ASSUME NEW c \in Consumer, Leave(c) \/ Crash(c) PROVE Goal
  BY <1>5, <1>8 DEF Leave, Crash, Gone, database
<1>9. ASSUME UNCHANGED vars PROVE Goal
  BY <1>5, <1>9 DEF vars, broker, database
<1> HIDE DEF Goal
<1>10. Goal
  BY <1>2, <1>3, <1>4, <1>6, <1>7, <1>8, <1>9, NoTripSteps DEF Next, LocalStep
<1> QED BY <1>10 DEF Goal

\* Reading telemetry alone and from the beginning of the log, the group never
\* gives up a record that is not settled, nor takes back a commit: _flush_and_commit
\* commits after the write, whatever crashes, rebalances and outages intervene.
THEOREM ImplementsDelivery == TelemetryOnly /\ Spec => DeliversAtLeastOnce
<1>1. TelemetryOnly /\ Init => Delivery!Init
  <2> SUFFICES ASSUME TelemetryOnly, Init PROVE Delivery!Init
    OBVIOUS
  <2>1. TypeOK
    BY InitTyped
  <2>2. Published = {} /\ Acknowledged = {}
    BY <2>1, InLog, RecordParts DEF Init, NotCommitted
  <2>3. Settled = {}
    BY DEF Init, Settled
  <2> QED BY <2>2, <2>3 DEF Delivery!Init, Published, Acknowledged
<1>2. DeliveryInv /\ DeliveryInv' /\ [Next]_vars => [Delivery!Next]_(Delivery!vars)
  BY StepDelivers
<1> QED BY <1>1, <1>2, DeliveryHolds, PTL DEF Spec, Delivery!Spec, DeliversAtLeastOnce

-----------------------------------------------------------------------------
(* Without crashes, rebalances and lost acknowledgements, every sample is    *)
(* stored once, whatever the consumer reads and wherever it starts.          *)

\* A buffer without repeats holds each of its rows at one place.
LEMMA RepeatsOf ==
  ASSUME NEW R, NEW s \in Seq(R)
  PROVE  Repeats(s) = {} <=> \A i, j \in DOMAIN s : s[i] = s[j] => i = j
  BY DEF Repeats

LEMMA RepeatsOfAppend ==
  ASSUME NEW R, NEW s \in Seq(R), NEW r \in R, Repeats(s) = {}, r \notin Rows(s)
  PROVE  Repeats(Append(s, r)) = {}
<1> DEFINE u == Append(s, r)
<1>1. /\ u \in Seq(R) /\ Len(s) \in Nat /\ DOMAIN s = 1 .. Len(s)
      /\ DOMAIN u = 1 .. Len(s) + 1
      /\ \A i \in 1 .. Len(s) : u[i] = s[i]
      /\ u[Len(s) + 1] = r
  OBVIOUS
<1>2. \A i \in DOMAIN s : s[i] # r
  BY DEF Rows
<1>3. \A i, j \in DOMAIN s : s[i] = s[j] => i = j
  BY RepeatsOf
<1> HIDE DEF u
<1>4. \A i, j \in DOMAIN u : u[i] = u[j] => i = j
  <2> SUFFICES ASSUME NEW i \in DOMAIN u, NEW j \in DOMAIN u, u[i] = u[j] PROVE i = j
    OBVIOUS
  <2>1. /\ i \in DOMAIN s \/ i = Len(s) + 1
        /\ j \in DOMAIN s \/ j = Len(s) + 1
    BY <1>1
  <2> QED BY <1>1, <1>2, <1>3, <2>1
<1>5. Repeats(u) = {}
  BY <1>1, <1>4, RepeatsOf
<1> QED BY <1>5 DEF u

LEMMA RepeatsOfConcat ==
  ASSUME NEW R, NEW s \in Seq(R), NEW t \in Seq(R),
         Repeats(s) = {}, Repeats(t) = {}, Rows(s) \cap Rows(t) = {}
  PROVE  Repeats(s \o t) = {}
<1> DEFINE u == s \o t
<1>1. /\ u \in Seq(R) /\ Len(s) \in Nat /\ Len(t) \in Nat
      /\ DOMAIN s = 1 .. Len(s) /\ DOMAIN t = 1 .. Len(t)
      /\ DOMAIN u = 1 .. Len(s) + Len(t)
      /\ \A i \in 1 .. Len(s) : u[i] = s[i]
      /\ \A i \in DOMAIN u : i > Len(s) => u[i] = t[i - Len(s)]
  OBVIOUS
<1>2. \A i \in DOMAIN s, j \in DOMAIN t : s[i] # t[j]
  BY DEF Rows
<1>3. /\ \A i, j \in DOMAIN s : s[i] = s[j] => i = j
      /\ \A i, j \in DOMAIN t : t[i] = t[j] => i = j
  BY RepeatsOf
<1> HIDE DEF u
<1>4. ASSUME NEW i \in DOMAIN u, NEW j \in DOMAIN u, u[i] = u[j] PROVE i = j
  <2>1. i \in Nat /\ j \in Nat
    BY <1>1
  <2>2. CASE i <= Len(s) /\ j <= Len(s)
    BY <1>1, <1>3, <1>4, <2>1, <2>2
  <2>3. CASE i > Len(s) /\ j > Len(s)
    <3>1. i - Len(s) \in DOMAIN t /\ j - Len(s) \in DOMAIN t
      BY <1>1, <2>1, <2>3
    <3>2. t[i - Len(s)] = t[j - Len(s)]
      BY <1>1, <1>4, <2>3
    <3>3. i - Len(s) = j - Len(s)
      BY <1>3, <3>1, <3>2
    <3> QED BY <1>1, <2>1, <3>3
  <2>4. CASE i <= Len(s) /\ j > Len(s)
    <3>1. i \in DOMAIN s /\ j - Len(s) \in DOMAIN t
      BY <1>1, <2>1, <2>4
    <3> QED BY <1>1, <1>2, <1>4, <2>4, <3>1
  <2>5. CASE i > Len(s) /\ j <= Len(s)
    <3>1. j \in DOMAIN s /\ i - Len(s) \in DOMAIN t
      BY <1>1, <2>1, <2>5
    <3> QED BY <1>1, <1>2, <1>4, <2>5, <3>1
  <2> QED BY <1>1, <2>1, <2>2, <2>3, <2>4, <2>5
<1>5. Repeats(u) = {}
  BY <1>1, <1>4, RepeatsOf
<1> QED BY <1>5 DEF u

\* What a process holds it has read as the owner of the partition, and no
\* transaction has stored it.
ReadOnce ==
  \A c \in Consumer : \A r \in Held(c) :
    owner[r[1]] = c /\ r[2] < position[r[1]] /\ r \notin durable

\* A process holds each record at one place.
HeldOnce ==
  \A c \in Consumer :
    /\ fetched[c] \cap (Rows(buffer[c]) \cup Rows(batch[c])) = {}
    /\ Rows(buffer[c]) \cap Rows(batch[c]) = {}
    /\ Repeats(buffer[c]) = {} /\ Repeats(batch[c]) = {}

\* No member will read a stored record again: it is below the position of its
\* partition, and below the committed offset too once the commit that follows
\* the write is over.
StoredIsRead ==
  \A r \in durable :
    IF owner[r[1]] = None THEN r[2] < committed[r[1]]
    ELSE /\ r[2] < position[r[1]]
         /\ r[2] < committed[r[1]] \/ pc[owner[r[1]]] = "commit"

OnceInv ==
  /\ TypeOK
  /\ CommittedInLog
  /\ faults = 0 => duplicated = {} /\ ReadOnce /\ HeldOnce /\ StoredIsRead

LEMMA InitOnce == Init => OnceInv
<1> SUFFICES ASSUME Init PROVE OnceInv
  OBVIOUS
<1>1. TypeOK /\ CommittedInLog
  BY InitTyped
<1>2. ReadOnce /\ HeldOnce
  BY RowsOfEmpty DEF Init, ReadOnce, HeldOnce, Held, Repeats
<1>3. duplicated = {} /\ StoredIsRead
  BY DEF Init, StoredIsRead
<1> QED BY <1>1, <1>2, <1>3 DEF OnceInv

\* A step that reads nothing, stores nothing and commits nothing.
LEMMA RetainedOnce ==
  ASSUME OnceInv, faults = 0, HeldOnce',
         UNCHANGED <<committed, owner, position, durable, duplicated>>,
         \A d \in Consumer : Held(d)' \subseteq Held(d),
         \A d \in Consumer : pc[d] = "commit" => pc'[d] = "commit"
  PROVE  duplicated' = {} /\ ReadOnce' /\ HeldOnce' /\ StoredIsRead'
<1>1. duplicated' = {}
  BY DEF OnceInv
<1>2. ReadOnce'
  BY DEF OnceInv, ReadOnce
<1>3. StoredIsRead'
  <2> SUFFICES ASSUME NEW r \in durable', owner'[r[1]] # None
               PROVE  /\ r[2] < position'[r[1]]
                      /\ r[2] < committed'[r[1]] \/ pc'[owner'[r[1]]] = "commit"
    BY DEF StoredIsRead, OnceInv
  <2>1. r \in durable /\ r \in Record
    BY DEF OnceInv, TypeOK
  <2>2. owner[r[1]] \in Consumer
    BY <2>1, RecordParts DEF OnceInv, TypeOK
  <2> QED BY <2>1, <2>2 DEF OnceInv, StoredIsRead
<1> QED BY <1>1, <1>2, <1>3

\* The steps of one consumer between two calls to the broker.
LEMMA LocalOnce ==
  ASSUME OnceInv, faults = 0, NEW c \in Consumer,
         \/ Join(c) \/ FetchNothing(c) \/ KeepBuffering(c)
         \/ ObserveStop(c) \/ CodecUnsupported(c)
         \/ SkipMalformed(c) \/ ApplyTripEvent(c) \/ TripEventFails(c)
         \/ IngestTelemetry(c) \/ IngestTripEvent(c) \/ FlushDue(c) \/ FinalFlush(c)
         \/ WriteFails(c)
  PROVE  duplicated' = {} /\ ReadOnce' /\ HeldOnce' /\ StoredIsRead'
<1> DEFINE Good == /\ HeldOnce'
                   /\ \A d \in Consumer : Held(d)' \subseteq Held(d)
                   /\ \A d \in Consumer : pc[d] = "commit" => pc'[d] = "commit"
<1>1. /\ TypeOK /\ HeldOnce
      /\ pc \in [Consumer -> Phases] /\ fetched \in [Consumer -> SUBSET Record]
      /\ buffer \in [Consumer -> Seq(Record)] /\ batch \in [Consumer -> Seq(Record)]
  BY DEF OnceInv, TypeOK
<1>2. UNCHANGED <<committed, owner, position, durable, duplicated>>
  BY DEF Join, FetchNothing, KeepBuffering, ObserveStop, CodecUnsupported, SkipMalformed,
         ApplyTripEvent, TripEventFails, IngestTelemetry, IngestTripEvent, FlushDue,
         FinalFlush, WriteFails, broker, database
<1>3. /\ pc[c] # "commit"
      /\ \A d \in Consumer \ {c} : pc'[d] = pc[d]
  BY <1>1 DEF Join, FetchNothing, KeepBuffering, ObserveStop, CodecUnsupported, SkipMalformed,
         ApplyTripEvent, TripEventFails, IngestTelemetry, IngestTripEvent, FlushDue,
         FinalFlush, WriteFails, TakeBatch, Return
<1>4. CASE UNCHANGED <<fetched, buffer, batch>>
  <2>1. HeldOnce' /\ \A d \in Consumer : Held(d)' = Held(d)
    BY <1>1, <1>4 DEF HeldOnce, Held
  <2> QED BY <1>2, <1>3, <2>1, RetainedOnce
<1>5. CASE SkipMalformed(c) \/ ApplyTripEvent(c) \/ TripEventFails(c)
  <2>1. UNCHANGED <<buffer, batch>> /\ \A d \in Consumer : fetched'[d] \subseteq fetched[d]
    BY <1>1, <1>5 DEF SkipMalformed, ApplyTripEvent, TripEventFails, Routed
  <2>2. HeldOnce' /\ \A d \in Consumer : Held(d)' \subseteq Held(d)
    BY <1>1, <2>1 DEF HeldOnce, Held
  <2> QED BY <1>2, <1>3, <2>2, RetainedOnce
<1>6. CASE IngestTelemetry(c)
  <2>1. PICK r \in fetched[c] : /\ fetched' = [fetched EXCEPT ![c] = @ \ {r}]
                               /\ buffer' = [buffer EXCEPT ![c] = Append(@, r)]
    BY <1>6 DEF IngestTelemetry, Routed
  <2>2. batch' = batch
    BY <1>6 DEF IngestTelemetry
  <2>3. r \in Record /\ r \notin Rows(buffer[c]) /\ r \notin Rows(batch[c])
        /\ Repeats(buffer[c]) = {}
    BY <1>1, <2>1 DEF HeldOnce
  <2>4. Rows(Append(buffer[c], r)) = Rows(buffer[c]) \cup {r}
    BY <1>1, <2>3, RowsOfAppend
  <2>5. Repeats(Append(buffer[c], r)) = {}
    BY <1>1, <2>3, RepeatsOfAppend
  <2>6. HeldOnce'
    BY <1>1, <2>1, <2>2, <2>3, <2>4, <2>5 DEF HeldOnce
  <2>7. \A d \in Consumer : Held(d)' \subseteq Held(d)
    BY <1>1, <2>1, <2>2, <2>4 DEF Held
  <2> QED BY <1>2, <1>3, <2>6, <2>7, RetainedOnce
<1>7. CASE \E k : TakeBatch(c, k) /\ UNCHANGED fetched
  <2>1. /\ batch' = [batch EXCEPT ![c] = buffer[c]]
        /\ buffer' = [buffer EXCEPT ![c] = <<>>]
        /\ fetched' = fetched
    BY <1>7 DEF TakeBatch
  <2>2. Rows(<<>>) = {} /\ Repeats(<<>>) = {}
    BY RowsOfEmpty DEF Repeats
  <2>3. HeldOnce'
    BY <1>1, <2>1, <2>2 DEF HeldOnce
  <2>4. \A d \in Consumer : Held(d)' \subseteq Held(d)
    BY <1>1, <2>1, <2>2 DEF Held
  <2> QED BY <1>2, <1>3, <2>3, <2>4, RetainedOnce
<1>8. CASE WriteFails(c)
  <2>1. /\ buffer' = [buffer EXCEPT ![c] = @ \o batch[c]]
        /\ batch' = [batch EXCEPT ![c] = <<>>]
        /\ fetched' = fetched
    BY <1>8 DEF WriteFails, Rebuffered
  <2>2. Rows(<<>>) = {} /\ Repeats(<<>>) = {}
    BY RowsOfEmpty DEF Repeats
  <2>3. Rows(buffer[c] \o batch[c]) = Rows(buffer[c]) \cup Rows(batch[c])
    BY <1>1, RowsOfConcat
  <2>4. Repeats(buffer[c] \o batch[c]) = {}
    BY <1>1, RepeatsOfConcat DEF HeldOnce
  <2>5. HeldOnce'
    BY <1>1, <2>1, <2>2, <2>3, <2>4 DEF HeldOnce
  <2>6. \A d \in Consumer : Held(d)' \subseteq Held(d)
    BY <1>1, <2>1, <2>2, <2>3 DEF Held
  <2> QED BY <1>2, <1>3, <2>5, <2>6, RetainedOnce
<1>9. ASSUME FlushDue(c) \/ FinalFlush(c) \/ IngestTripEvent(c)
      PROVE  (\E k : TakeBatch(c, k) /\ UNCHANGED fetched) \/ UNCHANGED <<fetched, buffer, batch>>
  BY <1>9 DEF FlushDue, FinalFlush, IngestTripEvent
<1>10. ASSUME Join(c) \/ FetchNothing(c) \/ KeepBuffering(c) \/ ObserveStop(c) \/ CodecUnsupported(c)
       PROVE  UNCHANGED <<fetched, buffer, batch>>
  BY <1>10 DEF Join, FetchNothing, KeepBuffering, ObserveStop, CodecUnsupported
<1> QED BY <1>4, <1>5, <1>6, <1>7, <1>8, <1>9, <1>10

\* A member that is given a partition resumes past everything stored from it.
LEMMA AssignOnce ==
  ASSUME OnceInv, faults = 0, NEW p \in Partition, NEW c \in Consumer, Assign(p, c)
  PROVE  duplicated' = {} /\ ReadOnce' /\ HeldOnce' /\ StoredIsRead'
<1>1. /\ owner[p] = None
      /\ owner' = [owner EXCEPT ![p] = c]
      /\ position' = [position EXCEPT ![p] = Resume(p)]
      /\ UNCHANGED <<committed, pc, fetched, buffer, batch, durable, duplicated>>
  BY DEF Assign, GivePartition, process, database
<1>2. HeldOnce' /\ \A d \in Consumer : Held(d)' = Held(d)
  BY <1>1 DEF OnceInv, HeldOnce, Held
<1>3. ReadOnce'
  BY <1>1, <1>2, ConsumerAssumption DEF OnceInv, TypeOK, ReadOnce
<1>4. StoredIsRead'
  <2> SUFFICES ASSUME NEW r \in durable
               PROVE  IF owner'[r[1]] = None THEN r[2] < committed[r[1]]
                      ELSE /\ r[2] < position'[r[1]]
                           /\ r[2] < committed[r[1]] \/ pc[owner'[r[1]]] = "commit"
    BY <1>1 DEF StoredIsRead
  <2>1. r[1] \in Partition /\ r[2] \in Nat
    BY RecordParts DEF OnceInv, TypeOK
  <2>2. CASE r[1] = p
    <3>1. r[2] < committed[p]
      BY <1>1, <2>2 DEF OnceInv, StoredIsRead
    <3>2. Resume(p) = committed[p]
      BY <2>1, <3>1 DEF Resume, NotCommitted
    <3>3. position'[p] = committed[p]
      BY <1>1, <3>2 DEF OnceInv, TypeOK
    <3>4. r[2] < position'[r[1]] /\ r[2] < committed[r[1]]
      BY <2>2, <3>1, <3>3
    <3> QED BY <3>4
  <2>3. CASE r[1] # p
    <3>1. owner'[r[1]] = owner[r[1]] /\ position'[r[1]] = position[r[1]]
      BY <1>1, <2>1, <2>3 DEF OnceInv, TypeOK
    <3> QED BY <3>1 DEF OnceInv, StoredIsRead
  <2> QED BY <2>2, <2>3
<1> QED BY <1>1, <1>2, <1>3, <1>4 DEF OnceInv

\* A fetch returns records nobody holds and nobody has stored.
LEMMA FetchOnce ==
  ASSUME OnceInv, faults = 0, NEW c \in Consumer, Fetch(c)
  PROVE  duplicated' = {} /\ ReadOnce' /\ HeldOnce' /\ StoredIsRead'
<1>1. PICK to \in [Partition -> 0 .. MaxRecords] :
        /\ \A p \in Partition :
             IF owner[p] = c THEN to[p] \in position[p] .. endOffset[p]
                             ELSE to[p] = position[p]
        /\ fetched' = [fetched EXCEPT
                         ![c] = UNION {Between(p, position[p], to[p]) : p \in Partition}]
        /\ position' = to
  BY DEF Fetch
<1> DEFINE new == UNION {Between(p, position[p], to[p]) : p \in Partition}
<1>2. /\ UNCHANGED <<committed, owner, buffer, batch, durable, duplicated>>
      /\ pc[c] = "poll" /\ pc' = [pc EXCEPT ![c] = "route"]
  BY DEF Fetch, database
<1>3. \A p \in Partition :
        /\ position[p] \in Nat /\ to[p] \in Nat
        /\ position[p] <= to[p]
        /\ owner[p] # c => to[p] = position[p]
  BY <1>1, ConsumerAssumption DEF OnceInv, TypeOK
<1>4. ASSUME NEW r \in new
      PROVE  /\ r \in Record /\ owner[r[1]] = c
             /\ r[2] >= position[r[1]] /\ r[2] < to[r[1]]
  <2>1. PICK p \in Partition : r \in Between(p, position[p], to[p])
    OBVIOUS
  <2>2. r[1] = p /\ r[2] \in position[p] .. to[p] - 1
    BY <2>1 DEF Between
  <2>3. r \in Record
    BY <1>3, <2>1, BetweenTyped
  <2> QED BY <1>3, <2>2, <2>3
<1>5. fetched'[c] = new /\ \A d \in Consumer \ {c} : fetched'[d] = fetched[d]
  BY <1>1 DEF OnceInv, TypeOK
<1> HIDE DEF new
<1>6. ASSUME NEW r \in new, NEW d \in Consumer PROVE r \notin Held(d) /\ r \notin durable
  <2>1. r[1] \in Partition /\ r[2] \in Nat /\ position[r[1]] \in Nat
    BY <1>3, <1>4, RecordParts
  <2>2. ~(r[2] < position[r[1]])
    BY <1>4, <2>1
  <2>3. c # None
    BY ConsumerAssumption
  <2> QED BY <1>4, <2>2, <2>3 DEF OnceInv, ReadOnce, StoredIsRead
<1>7. HeldOnce'
  <2>1. \A d \in Consumer \ {c} : Held(d)' = Held(d)
    BY <1>2, <1>5 DEF Held
  <2>2. new \cap (Rows(buffer[c]) \cup Rows(batch[c])) = {}
    BY <1>6 DEF Held
  <2> QED BY <1>2, <1>5, <2>2 DEF OnceInv, HeldOnce
<1>8. ReadOnce'
  <2> SUFFICES ASSUME NEW d \in Consumer, NEW r \in Held(d)'
               PROVE  owner[r[1]] = d /\ r[2] < to[r[1]] /\ r \notin durable
    BY <1>1, <1>2 DEF ReadOnce
  <2>1. r \in Held(d) \/ (d = c /\ r \in new)
    BY <1>2, <1>5 DEF Held
  <2>2. CASE r \in Held(d)
    <3>1. owner[r[1]] = d /\ r[2] < position[r[1]] /\ r \notin durable
      BY <2>2 DEF OnceInv, ReadOnce
    <3>2. r \in Record
      BY <2>2, RowsTyped DEF OnceInv, TypeOK, Held
    <3>3. r[1] \in Partition /\ r[2] \in Nat
      BY <3>2, RecordParts
    <3>4. r[2] < to[r[1]]
      BY <1>3, <3>1, <3>3
    <3> QED BY <3>1, <3>4
  <2>3. CASE d = c /\ r \in new
    BY <1>4, <1>6, <2>3
  <2> QED BY <2>1, <2>2, <2>3
<1>9. StoredIsRead'
  <2> SUFFICES ASSUME NEW r \in durable, owner[r[1]] # None
               PROVE  /\ r[2] < to[r[1]]
                      /\ r[2] < committed[r[1]] \/ pc'[owner[r[1]]] = "commit"
    BY <1>1, <1>2 DEF OnceInv, StoredIsRead
  <2>1. r[1] \in Partition /\ r[2] \in Nat
    BY RecordParts DEF OnceInv, TypeOK
  <2>2. owner[r[1]] \in Consumer
    BY <2>1 DEF OnceInv, TypeOK
  <2>3. /\ r[2] < position[r[1]]
        /\ r[2] < committed[r[1]] \/ pc[owner[r[1]]] = "commit"
    BY DEF OnceInv, StoredIsRead
  <2>4. r[2] < to[r[1]]
    BY <1>3, <2>1, <2>3
  <2>5. pc[owner[r[1]]] = "commit" => pc'[owner[r[1]]] = "commit"
    BY <1>2, <2>2 DEF OnceInv, TypeOK
  <2> QED BY <2>3, <2>4, <2>5
<1> QED BY <1>2, <1>7, <1>8, <1>9 DEF OnceInv

\* The write stores rows that were not stored before, and its commit is next.
LEMMA WriteOnce ==
  ASSUME OnceInv, faults = 0, NEW c \in Consumer, WriteSucceeds(c)
  PROVE  duplicated' = {} /\ ReadOnce' /\ HeldOnce' /\ StoredIsRead'
<1>1. /\ durable' = durable \cup Rows(batch[c])
      /\ duplicated' = duplicated \cup (Rows(batch[c]) \cap durable) \cup Repeats(batch[c])
      /\ batch' = [batch EXCEPT ![c] = <<>>]
      /\ pc' = [pc EXCEPT ![c] = "commit"]
      /\ UNCHANGED <<committed, owner, position, fetched, buffer>>
  BY DEF WriteSucceeds, Stored, broker
<1>2. Rows(<<>>) = {} /\ Repeats(<<>>) = {}
  BY RowsOfEmpty DEF Repeats
<1>3. \A r \in Rows(batch[c]) :
        r \in Held(c) /\ owner[r[1]] = c /\ r[2] < position[r[1]] /\ r \notin durable
  BY DEF OnceInv, ReadOnce, Held
<1>4. duplicated' = {}
  BY <1>1, <1>3 DEF OnceInv, HeldOnce
<1>5. HeldOnce'
  BY <1>1, <1>2 DEF OnceInv, HeldOnce, TypeOK
<1>6. \A d \in Consumer : Held(d)' \subseteq Held(d) /\ Held(d)' \cap Rows(batch[c]) = {}
  <2>1. Held(c)' = fetched[c] \cup Rows(buffer[c])
    BY <1>1, <1>2 DEF Held, OnceInv, TypeOK
  <2>2. \A d \in Consumer \ {c} : Held(d)' = Held(d)
    BY <1>1 DEF Held, OnceInv, TypeOK
  <2>3. Held(c)' \cap Rows(batch[c]) = {}
    BY <2>1 DEF OnceInv, HeldOnce
  <2>4. \A d \in Consumer \ {c} : Held(d) \cap Rows(batch[c]) = {}
    BY <1>3 DEF OnceInv, ReadOnce
  <2> QED BY <2>1, <2>2, <2>3, <2>4 DEF Held
<1>7. ReadOnce'
  BY <1>1, <1>6 DEF OnceInv, ReadOnce
<1>8. StoredIsRead'
  <2> SUFFICES ASSUME NEW r \in durable'
               PROVE  IF owner[r[1]] = None THEN r[2] < committed[r[1]]
                      ELSE /\ r[2] < position[r[1]]
                           /\ r[2] < committed[r[1]] \/ pc'[owner[r[1]]] = "commit"
    BY <1>1 DEF StoredIsRead
  <2>1. CASE r \in Rows(batch[c])
    <3>1. owner[r[1]] = c /\ r[2] < position[r[1]] /\ pc'[c] = "commit"
      BY <1>1, <1>3, <2>1 DEF OnceInv, TypeOK
    <3>2. c # None
      BY ConsumerAssumption
    <3> QED BY <3>1, <3>2
  <2>2. CASE r \in durable
    <3>1. owner[r[1]] \in Consumer \cup {None}
      BY <2>2, RecordParts DEF OnceInv, TypeOK
    <3>2. \A d \in Consumer : pc[d] = "commit" => pc'[d] = "commit"
      BY <1>1 DEF OnceInv, TypeOK
    <3> QED BY <2>2, <3>1, <3>2 DEF OnceInv, StoredIsRead
  <2> QED BY <1>1, <2>1, <2>2
<1> QED BY <1>4, <1>5, <1>7, <1>8

\* The commit covers everything stored from the partitions it speaks for.
LEMMA CommitOnce ==
  ASSUME OnceInv, faults = 0, NEW c \in Consumer, CommitSucceeds(c)
  PROVE  duplicated' = {} /\ ReadOnce' /\ HeldOnce' /\ StoredIsRead'
<1>1. /\ committed' = [p \in Partition |-> IF owner[p] = c THEN position[p] ELSE committed[p]]
      /\ pc' = [pc EXCEPT ![c] = then[c]]
      /\ UNCHANGED <<owner, position, fetched, buffer, batch, durable, duplicated>>
  BY DEF CommitSucceeds, Return, database
<1>2. HeldOnce' /\ ReadOnce'
  BY <1>1 DEF OnceInv, HeldOnce, ReadOnce, Held
<1>3. StoredIsRead'
  <2> SUFFICES ASSUME NEW r \in durable
               PROVE  IF owner[r[1]] = None THEN r[2] < committed'[r[1]]
                      ELSE /\ r[2] < position[r[1]]
                           /\ r[2] < committed'[r[1]] \/ pc'[owner[r[1]]] = "commit"
    BY <1>1 DEF StoredIsRead
  <2>1. r[1] \in Partition
    BY RecordParts DEF OnceInv, TypeOK
  <2>2. CASE owner[r[1]] = c
    <3>1. c # None
      BY ConsumerAssumption
    <3> QED BY <1>1, <2>1, <2>2, <3>1 DEF OnceInv, StoredIsRead
  <2>3. CASE owner[r[1]] # c
    <3>1. committed'[r[1]] = committed[r[1]]
      BY <1>1, <2>1, <2>3
    <3>2. owner[r[1]] # None => pc'[owner[r[1]]] = pc[owner[r[1]]]
      BY <1>1, <2>1, <2>3 DEF OnceInv, TypeOK
    <3> QED BY <3>1, <3>2 DEF OnceInv, StoredIsRead
  <2> QED BY <2>2, <2>3
<1> QED BY <1>1, <1>2, <1>3 DEF OnceInv

\* A process that leaves has committed whatever it stored.
LEMMA LeaveOnce ==
  ASSUME OnceInv, faults = 0, NEW c \in Consumer, Leave(c)
  PROVE  duplicated' = {} /\ ReadOnce' /\ HeldOnce' /\ StoredIsRead'
<1>1. /\ pc[c] # "commit"
      /\ pc' = [pc EXCEPT ![c] = "down"]
      /\ fetched' = [fetched EXCEPT ![c] = {}]
      /\ buffer' = [buffer EXCEPT ![c] = <<>>]
      /\ batch' = [batch EXCEPT ![c] = <<>>]
      /\ owner' = [p \in Partition |-> IF owner[p] = c THEN None ELSE owner[p]]
      /\ UNCHANGED <<committed, position, durable, duplicated>>
  BY DEF Leave, Gone, database
<1>2. Rows(<<>>) = {} /\ Repeats(<<>>) = {}
  BY RowsOfEmpty DEF Repeats
<1>3. Held(c)' = {} /\ \A d \in Consumer \ {c} : Held(d)' = Held(d)
  BY <1>1, <1>2 DEF Held, OnceInv, TypeOK
<1>4. HeldOnce'
  BY <1>1, <1>2 DEF OnceInv, HeldOnce, TypeOK
<1>5. ReadOnce'
  <2> SUFFICES ASSUME NEW d \in Consumer, d # c, NEW r \in Held(d)
               PROVE  owner'[r[1]] = d /\ r[2] < position[r[1]] /\ r \notin durable
    BY <1>1, <1>3 DEF ReadOnce
  <2>1. r \in Record
    BY RowsTyped DEF OnceInv, TypeOK, Held
  <2>2. owner[r[1]] = d /\ r[2] < position[r[1]] /\ r \notin durable
    BY DEF OnceInv, ReadOnce
  <2> QED BY <1>1, <2>1, <2>2, RecordParts
<1>6. StoredIsRead'
  <2> SUFFICES ASSUME NEW r \in durable
               PROVE  IF owner'[r[1]] = None THEN r[2] < committed[r[1]]
                      ELSE /\ r[2] < position[r[1]]
                           /\ r[2] < committed[r[1]] \/ pc'[owner'[r[1]]] = "commit"
    BY <1>1 DEF StoredIsRead
  <2>1. r[1] \in Partition
    BY RecordParts DEF OnceInv, TypeOK
  <2>2. CASE owner[r[1]] = c
    <3>1. c # None /\ owner'[r[1]] = None
      BY <1>1, <2>1, <2>2, ConsumerAssumption
    <3> QED BY <1>1, <2>2, <3>1 DEF OnceInv, StoredIsRead
  <2>3. CASE owner[r[1]] # c
    <3>1. owner'[r[1]] = owner[r[1]]
      BY <1>1, <2>1, <2>3
    <3>2. owner[r[1]] # None => pc'[owner[r[1]]] = pc[owner[r[1]]]
      BY <1>1, <2>1, <2>3 DEF OnceInv, TypeOK
    <3> QED BY <3>1, <3>2 DEF OnceInv, StoredIsRead
  <2> QED BY <2>2, <2>3
<1> QED BY <1>1, <1>4, <1>5, <1>6 DEF OnceInv

\* The steps that are counted as faults.
LEMMA FaultsAreCounted ==
  ASSUME TypeOK, [Next]_vars, faults' = 0
  PROVE  /\ faults = 0
         /\ \A p \in Partition, c \in Consumer : ~Rebalance(p, c)
         /\ \A c \in Consumer : ~WriteUnacknowledged(c) /\ ~CommitFails(c) /\ ~Crash(c)
<1>1. faults \in Nat
  BY ConsumerAssumption DEF TypeOK
<1>2. /\ \A p \in Partition, c \in Consumer : ~Rebalance(p, c)
      /\ \A c \in Consumer : ~WriteUnacknowledged(c) /\ ~CommitFails(c) /\ ~Crash(c)
  BY <1>1 DEF Rebalance, WriteUnacknowledged, CommitFails, Crash
<1>3. faults' = faults
  <2>1. ASSUME UNCHANGED history PROVE faults' = faults
    BY <2>1 DEF history
  <2>2. CASE UNCHANGED vars
    BY <2>1, <2>2 DEF vars
  <2>3. ASSUME NEW p \in Partition, Produce(p) PROVE faults' = faults
    BY <2>1, <2>3 DEF Produce
  <2>4. ASSUME NEW p \in Partition, NEW c \in Consumer, Assign(p, c) PROVE faults' = faults
    BY <2>4 DEF Assign
  <2>5. ASSUME NEW c \in Consumer,
               \/ Join(c) \/ Fetch(c) \/ FetchNothing(c)
               \/ SkipMalformed(c) \/ IngestTelemetry(c) \/ IngestTripEvent(c)
               \/ ApplyTripEvent(c) \/ KeepBuffering(c) \/ FlushDue(c)
               \/ WriteSucceeds(c) \/ WriteFails(c) \/ CommitSucceeds(c) \/ FinalFlush(c)
        PROVE  faults' = faults
    BY <2>1, <2>5 DEF Join, Fetch, FetchNothing, SkipMalformed, IngestTelemetry,
       IngestTripEvent, ApplyTripEvent, KeepBuffering, FlushDue, WriteSucceeds, WriteFails,
       CommitSucceeds, FinalFlush
  <2>6. ASSUME NEW c \in Consumer,
               TripEventFails(c) \/ ObserveStop(c) \/ CodecUnsupported(c) \/ Leave(c)
        PROVE  faults' = faults
    BY <2>6 DEF TripEventFails, ObserveStop, CodecUnsupported, Leave
  <2> QED BY <1>2, <2>2, <2>3, <2>4, <2>5, <2>6 DEF Next
<1> QED BY <1>2, <1>3

LEMMA NextOnce == OnceInv /\ [Next]_vars => OnceInv'
<1> SUFFICES ASSUME OnceInv, [Next]_vars PROVE OnceInv'
  OBVIOUS
<1>1. TypeOK' /\ CommittedInLog'
  BY NextTyped DEF OnceInv
<1> DEFINE Good == duplicated' = {} /\ ReadOnce' /\ HeldOnce' /\ StoredIsRead'
<1>2. ASSUME faults' = 0 PROVE Good
  <2>1. /\ faults = 0
        /\ \A p \in Partition, c \in Consumer : ~Rebalance(p, c)
        /\ \A c \in Consumer : ~WriteUnacknowledged(c) /\ ~CommitFails(c) /\ ~Crash(c)
    BY <1>2, FaultsAreCounted DEF OnceInv
  <2>2. ASSUME UNCHANGED <<committed, owner, position, process, database>> PROVE Good
    <3>1. UNCHANGED <<pc, fetched, buffer, batch, durable, duplicated>>
      BY <2>2 DEF process, database
    <3>2. HeldOnce' /\ \A d \in Consumer : Held(d)' = Held(d)
      BY <3>1, <2>1 DEF OnceInv, HeldOnce, Held
    <3> QED BY <2>1, <2>2, <3>1, <3>2, RetainedOnce
  <2>3. CASE UNCHANGED vars
    BY <2>2, <2>3 DEF vars, broker
  <2>4. ASSUME NEW p \in Partition, Produce(p) PROVE Good
    BY <2>2, <2>4 DEF Produce
  <2>5. ASSUME NEW p \in Partition, NEW c \in Consumer, Assign(p, c) PROVE Good
    BY <2>1, <2>5, AssignOnce
  <2>6. ASSUME NEW c \in Consumer, Fetch(c) \/ WriteSucceeds(c) \/ CommitSucceeds(c) \/ Leave(c)
        PROVE  Good
    BY <2>1, <2>6, FetchOnce, WriteOnce, CommitOnce, LeaveOnce
  <2>7. ASSUME NEW c \in Consumer,
               \/ Join(c) \/ FetchNothing(c) \/ KeepBuffering(c)
               \/ ObserveStop(c) \/ CodecUnsupported(c)
               \/ SkipMalformed(c) \/ ApplyTripEvent(c) \/ TripEventFails(c)
               \/ IngestTelemetry(c) \/ IngestTripEvent(c) \/ FlushDue(c) \/ FinalFlush(c)
               \/ WriteFails(c)
        PROVE  Good
    BY <2>1, <2>7, LocalOnce
  <2> HIDE DEF Good
  <2> QED BY <2>1, <2>3, <2>4, <2>5, <2>6, <2>7 DEF Next
<1> QED BY <1>1, <1>2 DEF OnceInv

LEMMA OnceHolds == Spec => []OnceInv
  BY InitOnce, NextOnce, PTL DEF Spec

\* A sample is stored twice only after a crash, a rebalance, a failed commit or a
\* lost acknowledgement: retried writes, trip events in between and clean
\* shutdowns alone store it once (_flush_and_commit, stop).
THEOREM SamplesAreStoredOnce == Spec => []StoredOnceWithoutFaults
<1>1. OnceInv => StoredOnceWithoutFaults
  BY ConsumerAssumption DEF OnceInv, TypeOK, StoredOnceWithoutFaults
<1> QED BY <1>1, OnceHolds, PTL

-----------------------------------------------------------------------------
(* Trip events of a partition are applied in the order of the log as long as *)
(* nothing forces the group to read a record again.                          *)

\* Records that wait to be routed wait for the loop to reach them: only a flush
\* that a trip event asked for comes in between.
FetchedPhase ==
  \A c \in Consumer : fetched[c] # {} =>
    \/ pc[c] \in {"route", "apply"}
    \/ pc[c] \in {"write", "commit"} /\ then[c] = "apply"

\* What the loop is done with.
Finished == applied \cup rejected \cup dropped

\* A trip event that has been read is finished or waits to be routed.
TripsRead ==
  \A r \in Record : r[1] \in TripPartition =>
    IF owner[r[1]] = None
    THEN r[2] < committed[r[1]] => r \in Finished
    ELSE r[2] < position[r[1]] => r \in Finished \cup fetched[owner[r[1]]]

\* Before a trip event is applied, all events in front of it are finished.
AppliedInOrder ==
  \A r \in applied, s \in Record :
    r[1] \in TripPartition /\ s[1] = r[1] /\ s[2] < r[2] => s \in Finished

OrderInv ==
  /\ FromBeginning = TRUE
  /\ OnceInv
  /\ FetchedPhase
  /\ faults = 0 => CommitBehind /\ TripsRead /\ AppliedInOrder

LEMMA InitOrder == FromBeginning = TRUE /\ Init => OrderInv
<1> SUFFICES ASSUME FromBeginning = TRUE, Init PROVE OrderInv
  OBVIOUS
<1>1. OnceInv
  BY InitOnce
<1>2. FetchedPhase /\ AppliedInOrder /\ CommitBehind
  BY DEF Init, FetchedPhase, AppliedInOrder, CommitBehind
<1>3. TripsRead
  BY RecordParts DEF Init, TripsRead, NotCommitted
<1> QED BY <1>1, <1>2, <1>3 DEF OrderInv

\* Records stay in the routing loop until all of them are routed.
LEMMA FetchedPhaseStep ==
  ASSUME TypeOK, FetchedPhase, [Next]_vars
  PROVE  FetchedPhase'
<1> USE DEF TypeOK, FetchedPhase
<1>1. ASSUME UNCHANGED process PROVE FetchedPhase'
  BY <1>1 DEF process
<1>2. ASSUME NEW p \in Partition, Produce(p) PROVE FetchedPhase'
  BY <1>1, <1>2 DEF Produce
<1>3. ASSUME NEW p \in Partition, NEW c \in Consumer, Assign(p, c) \/ Rebalance(p, c)
      PROVE  FetchedPhase'
  BY <1>1, <1>3 DEF Assign, Rebalance, GivePartition
<1>4. ASSUME NEW c \in Consumer,
             Join(c) \/ ObserveStop(c) \/ CodecUnsupported(c) \/ FetchNothing(c)
      PROVE  FetchedPhase'
  BY <1>4 DEF Join, ObserveStop, CodecUnsupported, FetchNothing
<1>5. ASSUME NEW c \in Consumer, Fetch(c) PROVE FetchedPhase'
  <2>1. /\ pc' = [pc EXCEPT ![c] = "route"] /\ then' = then
        /\ \A d \in Consumer \ {c} : fetched'[d] = fetched[d]
    BY <1>5 DEF Fetch
  <2> QED BY <2>1
<1>6. ASSUME NEW c \in Consumer, SkipMalformed(c) \/ IngestTelemetry(c) PROVE FetchedPhase'
  <2>1. /\ pc[c] = "route" /\ UNCHANGED <<pc, then>>
        /\ \A d \in Consumer \ {c} : fetched'[d] = fetched[d]
    BY <1>6 DEF SkipMalformed, IngestTelemetry, Routed
  <2> QED BY <2>1
<1>7. ASSUME NEW c \in Consumer, ApplyTripEvent(c) \/ TripEventFails(c) PROVE FetchedPhase'
  <2>1. /\ pc' = [pc EXCEPT ![c] = "route"] /\ then' = then
        /\ \A d \in Consumer \ {c} : fetched'[d] = fetched[d]
    BY <1>7 DEF ApplyTripEvent, TripEventFails, Routed
  <2> QED BY <2>1
<1>8. ASSUME NEW c \in Consumer, IngestTripEvent(c) PROVE FetchedPhase'
  <2>1. fetched' = fetched
    BY <1>8 DEF IngestTripEvent
  <2>2. \/ /\ pc' = [pc EXCEPT ![c] = "write"]
           /\ then' = [then EXCEPT ![c] = "apply"]
        \/ /\ pc' = [pc EXCEPT ![c] = "apply"]
           /\ then' = then
    BY <1>8 DEF IngestTripEvent, TakeBatch
  <2>3. CASE /\ pc' = [pc EXCEPT ![c] = "write"]
             /\ then' = [then EXCEPT ![c] = "apply"]
    BY <2>1, <2>3
  <2>4. CASE /\ pc' = [pc EXCEPT ![c] = "apply"]
             /\ then' = then
    BY <2>1, <2>4
  <2> QED BY <2>2, <2>3, <2>4
<1>9. ASSUME NEW c \in Consumer, KeepBuffering(c) PROVE FetchedPhase'
  BY <1>9 DEF KeepBuffering
<1>10. ASSUME NEW c \in Consumer, FlushDue(c) \/ FinalFlush(c) PROVE FetchedPhase'
  <2>1. /\ fetched[c] = {} /\ fetched' = fetched
        /\ \A d \in Consumer \ {c} : pc'[d] = pc[d] /\ then'[d] = then[d]
    BY <1>10 DEF FlushDue, FinalFlush, TakeBatch
  <2> QED BY <2>1
<1>11. ASSUME NEW c \in Consumer,
              \/ WriteSucceeds(c) \/ WriteFails(c) \/ WriteUnacknowledged(c)
              \/ CommitSucceeds(c) \/ CommitFails(c)
       PROVE  FetchedPhase'
  <2>1. /\ pc[c] \in {"write", "commit"}
        /\ pc' = [pc EXCEPT ![c] = "commit"] \/ pc' = [pc EXCEPT ![c] = then[c]]
        /\ UNCHANGED <<fetched, then>>
    BY <1>11 DEF WriteSucceeds, WriteFails, WriteUnacknowledged, CommitSucceeds, CommitFails,
                 Return
  <2>2. CASE pc' = [pc EXCEPT ![c] = "commit"]
    BY <2>1, <2>2
  <2>3. CASE pc' = [pc EXCEPT ![c] = then[c]]
    BY <2>1, <2>3
  <2> QED BY <2>1, <2>2, <2>3
<1>12. ASSUME NEW c \in Consumer, Leave(c) \/ Crash(c) PROVE FetchedPhase'
  <2>1. Gone(c)
    BY <1>12 DEF Leave, Crash
  <2> QED BY <2>1 DEF Gone
<1>13. CASE UNCHANGED vars
  BY <1>1, <1>13 DEF vars
<1> HIDE DEF TypeOK, FetchedPhase
<1> QED
  BY <1>2, <1>3, <1>4, <1>5, <1>6, <1>7, <1>8, <1>9, <1>10, <1>11, <1>12, <1>13
  DEF Next

Ordered == CommitBehind /\ TripsRead /\ AppliedInOrder

\* A step that applies no trip event and finishes every one it takes out.
LEMMA RetainedOrder ==
  ASSUME OrderInv, faults = 0, UNCHANGED <<committed, owner, position, applied>>,
         Finished \subseteq Finished',
         \A d \in Consumer : \A r \in fetched[d] :
           r[1] \in TripPartition => r \in Finished' \cup fetched'[d]
  PROVE  Ordered'
<1>1. CommitBehind' /\ AppliedInOrder'
  BY DEF OrderInv, CommitBehind, AppliedInOrder
<1>2. TripsRead'
  <2> SUFFICES ASSUME NEW r \in Record, r[1] \in TripPartition
               PROVE  /\ owner[r[1]] = None /\ r[2] < committed[r[1]] => r \in Finished'
                      /\ owner[r[1]] # None /\ r[2] < position[r[1]]
                           => r \in Finished' \cup fetched'[owner[r[1]]]
    BY DEF TripsRead
  <2>1. owner[r[1]] \in Consumer \cup {None}
    BY RecordParts DEF OrderInv, OnceInv, TypeOK
  <2> QED BY <2>1 DEF OrderInv, TripsRead
<1> QED BY <1>1, <1>2 DEF Ordered

\* Applying or failing the next trip event of a partition.
LEMMA ApplyOrder ==
  ASSUME OrderInv, faults = 0, NEW c \in Consumer, ApplyTripEvent(c) \/ TripEventFails(c)
  PROVE  Ordered'
<1>1. PICK r \in fetched[c] : /\ IsNext(c, r)
                             /\ fetched' = [fetched EXCEPT ![c] = @ \ {r}]
                             /\ \/ applied' = applied \cup {r} /\ dropped' = dropped
                                \/ applied' = applied /\ dropped' = dropped \cup {r}
  BY DEF ApplyTripEvent, TripEventFails, Routed, history, database
<1>2. UNCHANGED <<committed, owner, position, rejected>>
  BY DEF ApplyTripEvent, TripEventFails, broker, database
<1>3. /\ r \in Record /\ r[1] \in Partition /\ r[2] \in Nat
      /\ owner[r[1]] = c /\ r[2] < position[r[1]] /\ position[r[1]] \in Nat
      /\ c # None
  <2>1. r \in Record /\ r \in Held(c)
    BY DEF OrderInv, OnceInv, TypeOK, Held
  <2>2. r[1] \in Partition /\ r[2] \in Nat
    BY <2>1, RecordParts
  <2> QED BY <2>1, <2>2, ConsumerAssumption DEF OrderInv, OnceInv, ReadOnce, TypeOK
<1>4. Finished' = Finished \cup {r}
  BY <1>1, <1>2 DEF Finished
<1>5. CommitBehind'
  BY <1>2 DEF OrderInv, CommitBehind
<1>6. TripsRead'
  <2> SUFFICES ASSUME NEW s \in Record, s[1] \in TripPartition
               PROVE  /\ owner[s[1]] = None /\ s[2] < committed[s[1]] => s \in Finished'
                      /\ owner[s[1]] # None /\ s[2] < position[s[1]]
                           => s \in Finished' \cup fetched'[owner[s[1]]]
    BY <1>2 DEF TripsRead
  <2>1. owner[s[1]] \in Consumer \cup {None}
    BY RecordParts DEF OrderInv, OnceInv, TypeOK
  <2>2. \A d \in Consumer : fetched[d] \subseteq fetched'[d] \cup {r}
    BY <1>1 DEF OrderInv, OnceInv, TypeOK
  <2> QED BY <1>4, <2>1, <2>2 DEF OrderInv, TripsRead
<1>7. ASSUME NEW s \in Record, r[1] \in TripPartition, s[1] = r[1], s[2] < r[2]
      PROVE  s \in Finished
  <2>1. s[2] \in Nat
    BY RecordParts
  <2>2. s[2] < position[s[1]] /\ owner[s[1]] = c
    BY <1>3, <1>7, <2>1
  <2>3. s \in Finished \cup fetched[c]
    BY <1>3, <1>7, <2>2 DEF OrderInv, TripsRead
  <2>4. s \notin fetched[c]
    BY <1>1, <1>3, <1>7, <2>1 DEF IsNext
  <2> QED BY <2>3, <2>4
<1>8. AppliedInOrder'
  <2> SUFFICES ASSUME NEW a \in applied', NEW s \in Record,
                      a[1] \in TripPartition, s[1] = a[1], s[2] < a[2]
               PROVE  s \in Finished'
    BY DEF AppliedInOrder
  <2>1. CASE a = r
    BY <1>4, <1>7, <2>1
  <2>2. CASE a \in applied
    BY <1>4, <2>2 DEF OrderInv, AppliedInOrder
  <2> QED BY <1>1, <2>1, <2>2
<1> QED BY <1>5, <1>6, <1>8 DEF Ordered

\* A member resumes where the group stopped, or at the beginning.
LEMMA AssignOrder ==
  ASSUME OrderInv, faults = 0, NEW p \in Partition, NEW c \in Consumer, Assign(p, c)
  PROVE  Ordered'
<1>1. /\ owner[p] = None
      /\ owner' = [owner EXCEPT ![p] = c]
      /\ position' = [position EXCEPT ![p] = Resume(p)]
      /\ UNCHANGED <<committed, fetched, applied, rejected, dropped>>
  BY DEF Assign, GivePartition, process, database
<1>2. Finished' = Finished
  BY <1>1 DEF Finished
<1>3. AppliedInOrder'
  BY <1>1, <1>2 DEF OrderInv, AppliedInOrder
<1>4. CommitBehind'
  <2>1. committed[p] <= Resume(p)
    BY DEF Resume, OrderInv, OnceInv, TypeOK, NotCommitted
  <2> QED BY <1>1, <2>1 DEF OrderInv, OnceInv, TypeOK, CommitBehind
<1>5. TripsRead'
  <2> SUFFICES ASSUME NEW s \in Record, s[1] \in TripPartition
               PROVE  /\ owner'[s[1]] = None /\ s[2] < committed[s[1]] => s \in Finished
                      /\ owner'[s[1]] # None /\ s[2] < position'[s[1]]
                           => s \in Finished \cup fetched[owner'[s[1]]]
    BY <1>1, <1>2 DEF TripsRead
  <2>1. s[1] \in Partition /\ s[2] \in Nat
    BY RecordParts
  <2>2. CASE s[1] = p
    <3>1. owner'[p] = c /\ c # None /\ position'[p] = Resume(p)
      BY <1>1, ConsumerAssumption DEF OrderInv, OnceInv, TypeOK
    <3>2. ASSUME s[2] < Resume(p) PROVE s \in Finished
      <4>1. s[2] < committed[p]
        BY <2>1, <3>2 DEF Resume, OrderInv
      <4> QED BY <1>1, <2>2, <4>1 DEF OrderInv, TripsRead
    <3> QED BY <2>2, <3>1, <3>2
  <2>3. CASE s[1] # p
    <3>1. owner'[s[1]] = owner[s[1]] /\ position'[s[1]] = position[s[1]]
      BY <1>1, <2>1, <2>3 DEF OrderInv, OnceInv, TypeOK
    <3> QED BY <3>1 DEF OrderInv, TripsRead
  <2> QED BY <2>2, <2>3
<1> QED BY <1>3, <1>4, <1>5 DEF Ordered

\* What a fetch moves the position past waits to be routed.
LEMMA FetchOrder ==
  ASSUME OrderInv, faults = 0, NEW c \in Consumer, Fetch(c)
  PROVE  Ordered'
<1>1. PICK to \in [Partition -> 0 .. MaxRecords] :
        /\ \A p \in Partition :
             IF owner[p] = c THEN to[p] \in position[p] .. endOffset[p]
                             ELSE to[p] = position[p]
        /\ fetched' = [fetched EXCEPT
                         ![c] = UNION {Between(p, position[p], to[p]) : p \in Partition}]
        /\ position' = to
  BY DEF Fetch
<1>2. UNCHANGED <<committed, owner, applied, rejected, dropped>> /\ pc[c] = "poll"
  BY DEF Fetch, database, history
<1>3. /\ Finished' = Finished /\ fetched[c] = {}
      /\ \A d \in Consumer \ {c} : fetched'[d] = fetched[d]
  BY <1>1, <1>2 DEF Finished, OrderInv, OnceInv, TypeOK, FetchedPhase
<1>4. \A p \in Partition :
        /\ position[p] \in Nat /\ to[p] \in Nat /\ committed[p] \in Int
        /\ position[p] <= to[p]
        /\ owner[p] # c => to[p] = position[p]
  BY <1>1, ConsumerAssumption DEF OrderInv, OnceInv, TypeOK, NotCommitted
<1>5. AppliedInOrder'
  BY <1>2, <1>3 DEF OrderInv, AppliedInOrder
<1>6. CommitBehind'
  <2>1. \A p \in Partition : owner[p] # None => committed[p] <= position[p]
    BY DEF OrderInv, CommitBehind
  <2>2. \A p \in Partition : owner[p] # None => committed[p] <= to[p]
    BY <1>4, <2>1
  <2> QED BY <1>1, <1>2, <2>2 DEF CommitBehind
<1>7. TripsRead'
  <2> SUFFICES ASSUME NEW s \in Record, s[1] \in TripPartition
               PROVE  /\ owner[s[1]] = None /\ s[2] < committed[s[1]] => s \in Finished
                      /\ owner[s[1]] # None /\ s[2] < to[s[1]]
                           => s \in Finished \cup fetched'[owner[s[1]]]
    BY <1>1, <1>2, <1>3 DEF TripsRead
  <2>1. s[1] \in Partition /\ s[2] \in Nat /\ s = <<s[1], s[2]>>
    BY RecordParts
  <2>2. /\ position[s[1]] \in Nat /\ to[s[1]] \in Nat
        /\ owner[s[1]] \in Consumer \cup {None}
    BY <1>4, <2>1 DEF OrderInv, OnceInv, TypeOK
  <2>3. owner[s[1]] = None /\ s[2] < committed[s[1]] => s \in Finished
    BY DEF OrderInv, TripsRead
  <2>4. ASSUME owner[s[1]] # None, s[2] < to[s[1]]
        PROVE  s \in Finished \cup fetched'[owner[s[1]]]
    <3>1. CASE s[2] < position[s[1]]
      <4>1. s \in Finished \cup fetched[owner[s[1]]]
        BY <2>4, <3>1 DEF OrderInv, TripsRead
      <4> QED BY <1>3, <2>2, <2>4, <4>1
    <3>2. CASE ~(s[2] < position[s[1]])
      <4>1. owner[s[1]] = c
        BY <1>4, <2>1, <2>4, <3>2
      <4>2. s[2] \in position[s[1]] .. to[s[1]] - 1
        BY <2>1, <2>2, <2>4, <3>2
      <4>3. s \in Between(s[1], position[s[1]], to[s[1]])
        BY <2>1, <4>2 DEF Between
      <4>4. fetched'[c] = UNION {Between(p, position[p], to[p]) : p \in Partition}
        BY <1>1 DEF OrderInv, OnceInv, TypeOK
      <4> QED BY <2>1, <4>1, <4>3, <4>4
    <3> QED BY <3>1, <3>2
  <2> QED BY <2>3, <2>4
<1> QED BY <1>5, <1>6, <1>7 DEF Ordered

\* A commit that a trip event asked for runs ahead of the routing loop; nothing
\* but a fault makes the group resume there before the loop has caught up.
LEMMA CommitOrder ==
  ASSUME OrderInv, faults = 0, NEW c \in Consumer, CommitSucceeds(c)
  PROVE  Ordered'
<1>1. /\ committed' = [p \in Partition |-> IF owner[p] = c THEN position[p] ELSE committed[p]]
      /\ UNCHANGED <<owner, position, fetched, applied, rejected, dropped>>
  BY DEF CommitSucceeds, database, history
<1>2. Finished' = Finished
  BY <1>1 DEF Finished
<1>3. AppliedInOrder'
  BY <1>1, <1>2 DEF OrderInv, AppliedInOrder
<1>4. CommitBehind'
  <2>1. \A p \in Partition : position[p] \in Int
    BY DEF OrderInv, OnceInv, TypeOK
  <2> QED BY <1>1, <2>1 DEF OrderInv, CommitBehind
<1>5. TripsRead'
  <2> SUFFICES ASSUME NEW s \in Record, s[1] \in TripPartition
               PROVE  /\ owner[s[1]] = None /\ s[2] < committed'[s[1]] => s \in Finished
                      /\ owner[s[1]] # None /\ s[2] < position[s[1]]
                           => s \in Finished \cup fetched[owner[s[1]]]
    BY <1>1, <1>2 DEF TripsRead
  <2>1. s[1] \in Partition /\ c # None
    BY RecordParts, ConsumerAssumption
  <2> QED BY <1>1, <2>1 DEF OrderInv, TripsRead
<1> QED BY <1>3, <1>4, <1>5 DEF Ordered

\* A process that leaves has routed everything it read.
LEMMA LeaveOrder ==
  ASSUME OrderInv, faults = 0, NEW c \in Consumer, Leave(c)
  PROVE  Ordered'
<1>1. /\ pc[c] \in {"drain", "leave", "left"}
      /\ fetched' = [fetched EXCEPT ![c] = {}]
      /\ owner' = [p \in Partition |-> IF owner[p] = c THEN None ELSE owner[p]]
      /\ UNCHANGED <<committed, position, applied, rejected, dropped>>
  BY DEF Leave, Gone, database
<1>2. Finished' = Finished /\ fetched[c] = {} /\ fetched' = fetched
  BY <1>1 DEF Finished, OrderInv, OnceInv, TypeOK, FetchedPhase
<1>3. AppliedInOrder'
  BY <1>1, <1>2 DEF OrderInv, AppliedInOrder
<1>4. CommitBehind'
  BY <1>1 DEF OrderInv, CommitBehind
<1>5. TripsRead'
  <2> SUFFICES ASSUME NEW s \in Record, s[1] \in TripPartition
               PROVE  /\ owner'[s[1]] = None /\ s[2] < committed[s[1]] => s \in Finished
                      /\ owner'[s[1]] # None /\ s[2] < position[s[1]]
                           => s \in Finished \cup fetched[owner'[s[1]]]
    BY <1>1, <1>2 DEF TripsRead
  <2>1. s[1] \in Partition /\ s[2] \in Nat
    BY RecordParts
  <2>2. CASE owner[s[1]] # c
    BY <1>1, <2>1, <2>2 DEF OrderInv, TripsRead
  <2>3. CASE owner[s[1]] = c
    <3>1. c # None /\ owner'[s[1]] = None
      BY <1>1, <2>1, <2>3, ConsumerAssumption
    <3>2. /\ committed[s[1]] <= position[s[1]]
          /\ committed[s[1]] \in Int /\ position[s[1]] \in Int
      BY <2>1, <2>3, <3>1 DEF OrderInv, OnceInv, TypeOK, NotCommitted, CommitBehind
    <3>3. s[2] < committed[s[1]] => s[2] < position[s[1]]
      BY <2>1, <3>2
    <3>4. s[2] < position[s[1]] => s \in Finished
      BY <1>2, <2>3, <3>1 DEF OrderInv, TripsRead
    <3> QED BY <3>1, <3>3, <3>4
  <2> QED BY <2>2, <2>3
<1> QED BY <1>3, <1>4, <1>5 DEF Ordered

LEMMA NextOrder == OrderInv /\ [Next]_vars => OrderInv'
<1> SUFFICES ASSUME OrderInv, [Next]_vars PROVE OrderInv'
  OBVIOUS
<1>1. OnceInv' /\ FetchedPhase'
  BY NextOnce, FetchedPhaseStep DEF OrderInv, OnceInv
<1>2. ASSUME faults' = 0 PROVE Ordered'
  <2>1. /\ faults = 0
        /\ \A p \in Partition, c \in Consumer : ~Rebalance(p, c)
        /\ \A c \in Consumer : ~WriteUnacknowledged(c) /\ ~CommitFails(c) /\ ~Crash(c)
    BY <1>2, FaultsAreCounted DEF OrderInv, OnceInv
  <2>2. ASSUME UNCHANGED <<committed, owner, position, fetched, applied, rejected, dropped>>
        PROVE  Ordered'
    <3>1. Finished' = Finished
      BY <2>2 DEF Finished
    <3> QED BY <2>1, <2>2, <3>1, RetainedOrder
  <2>3. CASE UNCHANGED vars
    BY <2>2, <2>3 DEF vars, broker, process, database, history
  <2>4. ASSUME NEW p \in Partition, Produce(p) PROVE Ordered'
    BY <2>2, <2>4 DEF Produce, process, database, history
  <2>5. ASSUME NEW p \in Partition, NEW c \in Consumer, Assign(p, c) PROVE Ordered'
    BY <2>1, <2>5, AssignOrder
  <2>6. ASSUME NEW c \in Consumer,
               \/ ApplyTripEvent(c) \/ TripEventFails(c)
               \/ Fetch(c) \/ CommitSucceeds(c) \/ Leave(c)
        PROVE  Ordered'
    BY <2>1, <2>6, ApplyOrder, FetchOrder, CommitOrder, LeaveOrder
  <2>7. ASSUME NEW c \in Consumer,
               \/ Join(c) \/ FetchNothing(c) \/ KeepBuffering(c)
               \/ ObserveStop(c) \/ CodecUnsupported(c)
               \/ IngestTripEvent(c) \/ FlushDue(c) \/ FinalFlush(c)
               \/ WriteSucceeds(c) \/ WriteFails(c)
        PROVE  Ordered'
    BY <2>2, <2>7 DEF Join, FetchNothing, KeepBuffering, ObserveStop, CodecUnsupported,
       IngestTripEvent, FlushDue, FinalFlush, WriteSucceeds, WriteFails, Stored, broker,
       database, history
  <2>8. ASSUME NEW c \in Consumer, SkipMalformed(c) PROVE Ordered'
    <3>1. PICK r \in fetched[c] :
            fetched' = [fetched EXCEPT ![c] = @ \ {r}] /\ rejected' = rejected \cup {r}
      BY <2>8 DEF SkipMalformed, Routed
    <3>2. UNCHANGED <<committed, owner, position, applied, dropped>>
      BY <2>8 DEF SkipMalformed, broker, history
    <3>3. Finished' = Finished \cup {r}
      BY <3>1, <3>2 DEF Finished
    <3>4. \A d \in Consumer : fetched[d] \subseteq fetched'[d] \cup {r}
      BY <3>1 DEF OrderInv, OnceInv, TypeOK
    <3> QED BY <2>1, <3>2, <3>3, <3>4, RetainedOrder
  <2>9. ASSUME NEW c \in Consumer, IngestTelemetry(c) PROVE Ordered'
    <3>1. PICK r \in fetched[c] : /\ r[1] \in TelemetryPartition
                                 /\ fetched' = [fetched EXCEPT ![c] = @ \ {r}]
      BY <2>9 DEF IngestTelemetry, Routed
    <3>2. UNCHANGED <<committed, owner, position, applied, rejected, dropped>>
      BY <2>9 DEF IngestTelemetry, broker, database, history
    <3>3. Finished' = Finished
      BY <3>2 DEF Finished
    <3>4. r[1] \notin TripPartition
      BY <3>1, ConsumerAssumption
    <3>5. \A d \in Consumer : fetched[d] \subseteq fetched'[d] \cup {r}
      BY <3>1 DEF OrderInv, OnceInv, TypeOK
    <3> QED BY <2>1, <3>2, <3>3, <3>4, <3>5, RetainedOrder
  <2> QED BY <2>1, <2>3, <2>4, <2>5, <2>6, <2>7, <2>8, <2>9 DEF Next
<1>3. FromBeginning = TRUE
  BY DEF OrderInv
<1> QED BY <1>1, <1>2, <1>3 DEF OrderInv, Ordered

\* Read from the beginning and until the first crash, rebalance or lost
\* acknowledgement, the trip events of a partition are applied in log order, with
\* any number of consumers, failed writes, failed events and clean restarts
\* (_ingest, _flush_and_commit).
THEOREM TripsApplyInOrder ==
  FromBeginning = TRUE /\ Spec => [](faults = 0 => TripEventsInOrder)
<1>1. FromBeginning = TRUE /\ Init => OrderInv
  BY InitOrder
<1>2. OrderInv /\ [Next]_vars => OrderInv'
  BY NextOrder
<1>3. OrderInv => (faults = 0 => TripEventsInOrder)
  <2> SUFFICES ASSUME OrderInv, faults = 0, NEW p \in TripPartition,
                      NEW o \in 0 .. MaxRecords - 1, <<p, o>> \in applied,
                      NEW e \in 0 .. o - 1
               PROVE  <<p, e>> \in applied \cup rejected \cup dropped
    BY DEF TripEventsInOrder
  <2>1. o \in Nat /\ e \in Nat /\ e < o
    BY ConsumerAssumption
  <2>2. /\ <<p, e>> \in Record /\ <<p, e>>[1] = p /\ <<p, e>>[2] = e
        /\ <<p, o>>[1] = p /\ <<p, o>>[2] = o
    BY <2>1 DEF Record, Partition
  <2> QED BY <2>1, <2>2 DEF OrderInv, AppliedInOrder, Finished
<1> QED BY <1>1, <1>2, <1>3, PTL DEF Spec

=============================================================================
