----------------------------- MODULE TripPipeline -----------------------------
(***************************************************************************)
(* From the simulated vehicle to the rows of trips and vehicles: the       *)
(* engine's tick loop, the stop handler that runs beside it in the same    *)
(* event loop, the two transports of create_sink, and the statements that  *)
(* project telemetry samples and trip events onto the database.            *)
(*                                                                         *)
(* Both coroutines emit through one sink.  A coroutine is interrupted only *)
(* where it awaits: a transaction of the direct sink takes two steps, its  *)
(* start and its outcome.  A message given to the producer is stored by the*)
(* broker or never delivered; waiting for the answer only delays readers,  *)
(* which may be late anyway.  The consumer group is the at-least-once      *)
(* reader of AtLeastOnce: it reads each key's log in order, independently  *)
(* of the other keys', and may be sent back to an earlier position.        *)
(*                                                                         *)
(* Samples are told apart by vehicle and tick, so a batch is a set.  What  *)
(* one tick emits for different vehicles touches different rows: their     *)
(* order is left open.                                                     *)
(***************************************************************************)
EXTENDS Integers, Sequences, FiniteSets

CONSTANTS
  Vehicle,       \* the fleet
  Corridor,      \* length of a corridor, in the distance one tick covers
  BatchSize,     \* StreamingConfig.batch_size
  Transports,    \* what create_sink may choose: a subset of {"kafka", "database"}
  MaxTrips,      \* bound: trips per vehicle
  MaxTicks,      \* bound: ticks of the run; its duration
  MaxFaults,     \* bound: failed transactions, undelivered messages, replays
  None           \* no transaction

\* A trip is its vehicle and the vehicle's trip counter; counter 0 is no trip.
Trip == Vehicle \X (1 .. MaxTrips)

\* Message keys: telemetry is keyed by vehicle, trip events by trip.
Key == Vehicle \cup Trip

VehicleState == {"idle", "driving", "charging", "stopped", "completed"}

ASSUME PipelineAssumption ==
  /\ IsFiniteSet(Vehicle)
  /\ Corridor \in Nat \ {0}
  /\ BatchSize \in Nat \ {0}
  /\ Transports \subseteq {"kafka", "database"}
  /\ MaxTrips \in Nat
  /\ MaxTicks \in Nat
  /\ MaxFaults \in Nat
  /\ Vehicle \cap Trip = {}

Coroutine == {"loop", "stop"}

VARIABLES
  \* The engine
  fleet,      \* state, trip counter and odometer of each vehicle
  clock,      \* ticks done
  run,        \* SimulationEngine._state: "running", "stopping" or "ended"
  pc,         \* where each coroutine is waiting
  opened,     \* trips the tick in progress has started
  samples,    \* samples of the tick in progress that are not emitted yet
  queue,      \* trip events each coroutine has still to emit, by vehicle
  left,       \* vehicles whose open trip each coroutine has still to pause
  failing,    \* the loop is closing the run out after an error
  \* The sink
  transport,
  buffer,     \* TelemetryBatchWriter._buffer
  writing,    \* the transaction each coroutine waits for
  emitted,    \* SinkStats: rows written ...
  failed,     \* ... and rows given up
  accepted,   \* samples handed to the sink
  \* The broker and the consumer group
  log,        \* messages of each key the broker has stored
  read,       \* how many of them the group has consumed since the last redelivery
  \* The database
  vehicleRow, \* vehicles.state
  tripRow,    \* state, distance_m and ended_at of each row of trips
  \* History
  lost,       \* something was given up: a batch, a message or a trip event
  faults

engine   == <<fleet, clock, run, pc, opened, samples, queue, left, failing>>
sink     == <<transport, buffer, writing, emitted, failed, accepted>>
broker   == <<log, read>>
database == <<vehicleRow, tripRow>>
history  == <<lost, faults>>
vars     == <<engine, sink, broker, database, history>>

NoEvents == [v \in Vehicle |-> <<>>]

NoRow == [state |-> "none", distance |-> 0, ended |-> FALSE]

Init ==
  /\ fleet      = [v \in Vehicle |-> [state |-> "idle", trip |-> 0, distance |-> 0]]
  /\ clock      = 0
  /\ run        = "running"
  /\ pc         = [loop |-> "tick", stop |-> "none"]
  /\ opened     = {}
  /\ samples    = {}
  /\ queue      = [p \in Coroutine |-> NoEvents]
  /\ left       = [p \in Coroutine |-> {}]
  /\ failing    = FALSE
  /\ transport \in Transports
  /\ buffer     = {}
  /\ writing    = [p \in Coroutine |-> None]
  /\ emitted    = 0
  /\ failed     = 0
  /\ accepted   = 0
  /\ log        = [k \in Key |-> <<>>]
  /\ read       = [k \in Key |-> 0]
  /\ vehicleRow = [v \in Vehicle |-> "idle"]
  /\ tripRow    = [t \in Trip |-> NoRow]
  /\ lost       = FALSE
  /\ faults     = 0

-----------------------------------------------------------------------------
(* The vehicle: one tick of simulated time.  The physics decides which of  *)
(* the outcomes happens; each is the vehicle after the tick and the trip   *)
(* events it leaves behind.                                                *)

Outcome(f, events) == [after |-> f, events |-> events, sampled |-> TRUE]

BeginTrip(f) == [state |-> "driving", trip |-> f.trip + 1, distance |-> 0]

DriveStep(f) ==
  LET moved == [f EXCEPT !.distance = @ + 1]
  IN {Outcome([f EXCEPT !.state = "stopped"], <<>>),
      Outcome([f EXCEPT !.state = "charging"], <<"charging_started">>),
      IF moved.distance = Corridor
      THEN Outcome([moved EXCEPT !.state = "completed"], <<"finished">>)
      ELSE Outcome([moved EXCEPT !.state = "driving"], <<>>)}

ChargeStep(f) ==
  {Outcome(f, <<>>), Outcome([f EXCEPT !.state = "driving"], <<"charging_finished">>)}

\* An idle vehicle whose dwell is over is first given a corridor.
NeedsRoute(f) == f.state = "idle" /\ f.trip < MaxTrips

Started(f) ==
  {[o EXCEPT !.events = <<"started">> \o @] : o \in DriveStep(BeginTrip(f))}

Advance(f) ==
  CASE f.state = "charging"               -> ChargeStep(f)
    [] f.state \in {"driving", "stopped"} -> DriveStep(f)
    [] OTHER -> {Outcome(f, <<>>)} \cup (IF NeedsRoute(f) THEN Started(f) ELSE {})

\* A vehicle that raises is skipped; a trip it has begun stays begun.
Raises(f) ==
  {[after |-> f, events |-> <<>>, sampled |-> FALSE]} \cup
  (IF NeedsRoute(f)
   THEN {[after |-> BeginTrip(f), events |-> <<"started">>, sampled |-> FALSE]} ELSE {})

\* Once its completed sample is out, a vehicle is free for the next trip.
Released(f) == IF f.state = "completed" THEN [f EXCEPT !.state = "idle"] ELSE f

Sample(v, f, at) ==
  [vehicle |-> v, trip |-> f.trip, at |-> at, distance |-> f.distance, state |-> f.state]

\* started is built before the vehicle has moved.
TripEvent(v, f, type) ==
  [vehicle |-> v, trip |-> f.trip, type |-> type,
   distance |-> IF type = "started" THEN 0 ELSE f.distance]

TripEvents(v, o) == [i \in DOMAIN o.events |-> TripEvent(v, o.after, o.events[i])]

\* What a sample and a trip event may say.
SampleType ==
  [vehicle : Vehicle, trip : 0 .. MaxTrips, at : 1 .. MaxTicks, distance : 0 .. Corridor,
   state : VehicleState]

EventType ==
  [vehicle : Vehicle, trip : 1 .. MaxTrips,
   type : {"started", "finished", "charging_started", "charging_finished", "paused"},
   distance : 0 .. Corridor]

\* Trips that _pause_open_trips has to interrupt.
HasOpenTrip(f) == f.trip # 0 /\ f.state \notin {"idle", "completed"}

PauseTrip(f) == [f EXCEPT !.state = "stopped"]

-----------------------------------------------------------------------------
(* The database: the projection of a batch and of a trip event.            *)

Newest(S) == CHOOSE x \in S : \A y \in S : y.at <= x.at

\* Mutant: an aggregate is written whatever distance the row has.
AggregatesUnguarded(row, s) ==
  IF ~row.ended THEN [row EXCEPT !.state = s.state, !.distance = s.distance] ELSE row

Aggregates(row, s) ==
  IF ~row.ended /\ s.distance >= row.distance
  THEN [row EXCEPT !.state = s.state, !.distance = s.distance] ELSE row

\* latest_per_key, for vehicles and for trips.
SamplesOf(batch, v) == {s \in batch : s.vehicle = v}
SamplesOn(batch, t) == {s \in batch : <<s.vehicle, s.trip>> = t}

WriteTelemetryBatch(batch) ==
  /\ vehicleRow' = [v \in Vehicle |->
       IF SamplesOf(batch, v) = {} THEN vehicleRow[v] ELSE Newest(SamplesOf(batch, v)).state]
  /\ tripRow' = [t \in Trip |->
       IF SamplesOn(batch, t) = {} \/ tripRow[t] = NoRow THEN tripRow[t]
       ELSE Aggregates(tripRow[t], Newest(SamplesOn(batch, t)))]

TripEventStates ==
  [started           |-> [trip |-> "driving",   vehicle |-> "driving"],
   finished          |-> [trip |-> "completed", vehicle |-> "idle"],
   charging_started  |-> [trip |-> "charging",  vehicle |-> "charging"],
   charging_finished |-> [trip |-> "driving",   vehicle |-> "driving"],
   paused            |-> [trip |-> "stopped",   vehicle |-> "stopped"]]

\* Mutant: finished closes the trip with the totals the row has.
TransitionWithoutTotals(row, e) ==
  [row EXCEPT !.state = TripEventStates[e.type].trip, !.ended = e.type = "finished"]

Transition(row, e) ==
  [state    |-> TripEventStates[e.type].trip,
   distance |-> IF e.type = "finished" THEN e.distance ELSE row.distance,
   ended    |-> e.type = "finished"]

ApplyTripEvent(e) ==
  LET t == <<e.vehicle, e.trip>>
  IN /\ vehicleRow' = [vehicleRow EXCEPT ![e.vehicle] = TripEventStates[e.type].vehicle]
     /\ tripRow' = IF tripRow[t] = NoRow \/ tripRow[t].ended THEN tripRow
                   ELSE [tripRow EXCEPT ![t] = Transition(@, e)]

-----------------------------------------------------------------------------
(* The sink: what a coroutine does with a transaction of the direct sink,  *)
(* and with the producer.                                                  *)

Batch(rows) == [kind |-> "batch", rows |-> rows]
Event(e)    == [kind |-> "event", event |-> e]

ASSUME NoneIsNoTransaction ==
  /\ None \notin [kind : {"batch"}, rows : SUBSET SampleType]
  /\ None \notin [kind : {"event"}, event : EventType]

Fault == faults < MaxFaults /\ faults' = faults + 1

\* Mutant: the trip event goes ahead of the buffered samples.
SendDirectOvertaking(p, e) ==
  /\ writing' = [writing EXCEPT ![p] = Event(e)]
  /\ UNCHANGED buffer

\* DatabaseTelemetrySink.emit_trip_event: the buffer is written first, then the event
\* (this action is taken again once the buffer's transaction is over).
SendDirect(p, e) ==
  /\ writing' = [writing EXCEPT ![p] = IF buffer = {} THEN Event(e) ELSE Batch(buffer)]
  /\ buffer'  = {}

\* TelemetryProducer: a message of each key in ms is stored, unless its delivery fails,
\* which is counted at the next flush and not retried.
Publish(ms) ==
  \/ /\ log' = [k \in Key |-> IF k \in DOMAIN ms THEN Append(log[k], ms[k]) ELSE log[k]]
     /\ UNCHANGED <<lost, faults>>
  \/ /\ Fault
     /\ lost' = TRUE
     /\ \E k \in DOMAIN ms :
          log' = [l \in Key |-> IF l \in DOMAIN ms \ {k} THEN Append(log[l], ms[l]) ELSE log[l]]

\* The producer is gone once the loop has closed the sink.
CanSend == transport = "database" \/ pc["loop"] # "ended"

\* The event of v that is out is not emitted again.
Dequeue(p, v) == queue' = [queue EXCEPT ![p][v] = Tail(@)]

EmitTripEvent(p) ==
  /\ pc[p] \in {"events", "pause"} /\ writing[p] = None /\ CanSend
  /\ \E v \in Vehicle :
       /\ queue[p][v] # <<>>
       /\ IF transport = "database"
          THEN /\ SendDirect(p, Head(queue[p][v]))
               /\ UNCHANGED <<log, queue, history>>
          ELSE /\ Publish([t \in {<<v, Head(queue[p][v]).trip>>} |-> Head(queue[p][v])])
               /\ Dequeue(p, v)
               /\ UNCHANGED <<buffer, writing>>
  /\ UNCHANGED <<fleet, clock, run, pc, opened, samples, left, failing,
                 transport, emitted, failed, accepted, read, database>>

\* The transaction coroutine p waits for commits.
WriteCommits(p) ==
  /\ writing[p] # None
  /\ writing' = [writing EXCEPT ![p] = None]
  /\ IF writing[p].kind = "batch"
     THEN /\ WriteTelemetryBatch(writing[p].rows)
          /\ emitted' = emitted + Cardinality(writing[p].rows)
          /\ UNCHANGED queue
     ELSE /\ ApplyTripEvent(writing[p].event)
          /\ Dequeue(p, writing[p].event.vehicle)
          /\ UNCHANGED emitted
  /\ UNCHANGED <<fleet, clock, run, pc, opened, samples, left, failing,
                 transport, buffer, failed, accepted, broker, history>>

\* A batch updates vehicles and then trips, a trip event trips and then vehicles: two
\* transactions that meet on the rows of one open trip may wait for each other, and the
\* database fails one of them.
Deadlocked(p) ==
  \E q \in Coroutine \ {p} :
    /\ writing[q] # None /\ writing[q].kind # writing[p].kind
    /\ LET b == IF writing[p].kind = "batch" THEN writing[p].rows ELSE writing[q].rows
           e == IF writing[p].kind = "batch" THEN writing[q].event ELSE writing[p].event
           t == <<e.vehicle, e.trip>>
       IN SamplesOn(b, t) # {} /\ tripRow[t] # NoRow /\ ~tripRow[t].ended

TransactionFails(p) == Fault \/ (Deadlocked(p) /\ UNCHANGED faults)

\* Mutant: the rows of a failed batch are counted after it was detached.
BatchFailsUncounted(p) ==
  /\ writing[p] # None /\ writing[p].kind = "batch"
  /\ TransactionFails(p)
  /\ writing' = [writing EXCEPT ![p] = None]
  /\ failed'  = failed + Cardinality(buffer)
  /\ lost'    = TRUE
  /\ UNCHANGED <<engine, transport, buffer, emitted, accepted, broker, database>>

\* A batch that fails is counted and given up.
BatchFails(p) ==
  /\ writing[p] # None /\ writing[p].kind = "batch"
  /\ TransactionFails(p)
  /\ writing' = [writing EXCEPT ![p] = None]
  /\ failed'  = failed + Cardinality(writing[p].rows)
  /\ lost'    = TRUE
  /\ UNCHANGED <<engine, transport, buffer, emitted, accepted, broker, database>>

\* A trip event that fails raises: the loop closes the run out as failed -- or
\* gives up if it was doing that -- and a stop handler ends where it is.
EventFails(p) ==
  /\ writing[p] # None /\ writing[p].kind = "event"
  /\ TransactionFails(p)
  /\ writing' = [writing EXCEPT ![p] = None]
  /\ lost'    = TRUE
  /\ queue'   = [queue EXCEPT ![p] = NoEvents]
  /\ IF p = "stop" THEN pc' = [pc EXCEPT ![p] = "done"] /\ UNCHANGED <<left, failing>>
     ELSE /\ failing' = TRUE
          /\ left'    = [left EXCEPT ![p] = IF failing THEN {} ELSE Vehicle]
          /\ pc'      = [pc EXCEPT ![p] = IF failing THEN "close" ELSE "pause"]
  /\ UNCHANGED <<fleet, clock, run, opened, samples, transport, buffer, emitted, failed,
                 accepted, broker, database>>

-----------------------------------------------------------------------------
(* The tick loop.                                                          *)

\* Everything a tick does before its first await.
Tick ==
  /\ pc["loop"] = "tick" /\ run = "running" /\ clock < MaxTicks
  /\ \E skipped \in SUBSET Vehicle :
     \E out \in [Vehicle -> UNION {Advance(fleet[v]) \cup Raises(fleet[v]) : v \in Vehicle}] :
       /\ skipped = {} \/ faults < MaxFaults
       /\ faults' = faults + (IF skipped = {} THEN 0 ELSE 1)
       /\ \A v \in Vehicle :
            out[v] \in IF v \in skipped THEN Raises(fleet[v]) ELSE Advance(fleet[v])
       /\ fleet'   = [v \in Vehicle |-> IF out[v].sampled THEN Released(out[v].after)
                                        ELSE out[v].after]
       /\ opened'  = {<<v, out[v].after.trip>> : v \in
                        {u \in Vehicle : out[u].after.trip # fleet[u].trip}}
       /\ samples' = {Sample(v, out[v].after, clock + 1) : v \in Vehicle \ skipped}
       /\ queue'   = [queue EXCEPT !["loop"] = [v \in Vehicle |-> TripEvents(v, out[v])]]
  /\ clock' = clock + 1
  /\ pc'    = [pc EXCEPT !["loop"] = "open"]
  /\ UNCHANGED <<run, left, failing, sink, broker, database, lost>>

\* SimulationStore.open_trips.
OpenTrips ==
  /\ pc["loop"] = "open"
  /\ tripRow' = [t \in Trip |->
       IF t \in opened /\ tripRow[t] = NoRow
       THEN [state |-> "driving", distance |-> 0, ended |-> FALSE] ELSE tripRow[t]]
  /\ opened' = {}
  /\ pc'     = [pc EXCEPT !["loop"] = "samples"]
  /\ UNCHANGED <<fleet, clock, run, samples, queue, left, failing, sink, broker, vehicleRow,
                 history>>

\* open_trips raises: the samples and events of the tick are never emitted.
OpenTripsFails ==
  /\ pc["loop"] = "open" /\ opened # {}
  /\ Fault
  /\ lost'    = TRUE
  /\ opened'  = {}
  /\ samples' = {}
  /\ queue'   = [queue EXCEPT !["loop"] = NoEvents]
  /\ failing' = TRUE
  /\ left'    = [left EXCEPT !["loop"] = Vehicle]
  /\ pc'      = [pc EXCEPT !["loop"] = "pause"]
  /\ UNCHANGED <<fleet, clock, run, sink, broker, database>>

\* emit_many: the direct sink writes if the batch is due (by size or by age).
EmitSamples ==
  /\ pc["loop"] = "samples"
  /\ samples'  = {}
  /\ accepted' = accepted + Cardinality(samples)
  /\ pc'       = [pc EXCEPT !["loop"] = "acks"]
  /\ IF transport = "database"
     THEN /\ \/ /\ Cardinality(buffer \cup samples) < BatchSize
                /\ buffer' = buffer \cup samples
                /\ UNCHANGED writing
             \/ /\ buffer \cup samples # {}
                /\ buffer'  = {}
                /\ writing' = [writing EXCEPT !["loop"] = Batch(buffer \cup samples)]
          /\ UNCHANGED <<log, history>>
     ELSE /\ Publish([v \in {x.vehicle : x \in samples} |-> Newest(SamplesOf(samples, v))])
          /\ UNCHANGED <<buffer, writing>>
  /\ UNCHANGED <<fleet, clock, run, opened, queue, left, failing, transport, emitted, failed,
                 read, database>>

SamplesOut ==
  /\ pc["loop"] = "acks" /\ writing["loop"] = None
  /\ pc' = [pc EXCEPT !["loop"] = "events"]
  /\ UNCHANGED <<fleet, clock, run, opened, samples, queue, left, failing, sink, broker,
                 database, history>>

\* The tick is over.  The duration is looked at before the request to stop.
EndTick ==
  /\ pc["loop"] = "events" /\ writing["loop"] = None /\ queue["loop"] = NoEvents
  /\ IF clock = MaxTicks
     THEN /\ pc'   = [pc EXCEPT !["loop"] = "pause"]
          /\ left' = [left EXCEPT !["loop"] = Vehicle]
     ELSE /\ pc'   = [pc EXCEPT !["loop"] = IF run = "running" THEN "tick" ELSE "close"]
          /\ UNCHANGED left
  /\ UNCHANGED <<fleet, clock, run, opened, samples, queue, failing, sink, broker, database,
                 history>>

\* The loop wakes up and finds that it is no longer running.
LoopExits ==
  /\ pc["loop"] = "tick" /\ run # "running"
  /\ pc' = [pc EXCEPT !["loop"] = "close"]
  /\ UNCHANGED <<fleet, clock, run, opened, samples, queue, left, failing, sink, broker,
                 database, history>>

-----------------------------------------------------------------------------
(* Closing the run out: by a stop handler, by the loop when the duration   *)
(* is reached, and by the loop after an error.                             *)

Stop ==
  /\ pc["stop"] = "none" /\ run = "running"
  /\ run'  = "stopping"
  /\ pc'   = [pc EXCEPT !["stop"] = "pause"]
  /\ left' = [left EXCEPT !["stop"] = Vehicle]
  /\ UNCHANGED <<fleet, clock, opened, samples, queue, failing, sink, broker, database, history>>

\* _pause_open_trips, one vehicle at a time.
PauseOpenTrip(p) ==
  /\ pc[p] = "pause" /\ writing[p] = None /\ queue[p] = NoEvents
  /\ \E v \in left[p] :
       /\ left' = [left EXCEPT ![p] = @ \ {v}]
       /\ IF HasOpenTrip(fleet[v])
          THEN /\ fleet' = [fleet EXCEPT ![v] = PauseTrip(@)]
               /\ queue' = [queue EXCEPT ![p][v] = <<TripEvent(v, fleet[v], "paused")>>]
          ELSE UNCHANGED <<fleet, queue>>
  /\ UNCHANGED <<clock, run, pc, opened, samples, failing, sink, broker, database, history>>

\* The handler's emission fails because the loop has closed the producer.
StopFails ==
  /\ pc["stop"] = "pause" /\ queue["stop"] # NoEvents /\ ~CanSend
  /\ queue' = [queue EXCEPT !["stop"] = NoEvents]
  /\ pc'    = [pc EXCEPT !["stop"] = "done"]
  /\ UNCHANGED <<fleet, clock, run, opened, samples, left, failing, sink, broker, database,
                 history>>

\* A flush of the sink, by _finalise and by aclose.
StartFlush(p) ==
  IF buffer = {} THEN UNCHANGED <<buffer, writing>>
  ELSE /\ writing' = [writing EXCEPT ![p] = Batch(buffer)]
       /\ buffer'  = {}

FlushTrips(p) ==
  /\ pc[p] = "pause" /\ writing[p] = None /\ queue[p] = NoEvents /\ left[p] = {}
  /\ pc' = [pc EXCEPT ![p] = "flush"]
  /\ StartFlush(p)
  /\ UNCHANGED <<fleet, clock, run, opened, samples, queue, left, failing, transport, emitted,
                 failed, accepted, broker, database, history>>

\* The rest of _finalise: the terminal state.
FinishRun(p) ==
  /\ pc[p] = "flush" /\ writing[p] = None
  /\ run' = "ended"
  /\ pc'  = [pc EXCEPT ![p] = IF p = "loop" THEN "close" ELSE "wait"]
  /\ UNCHANGED <<fleet, clock, opened, samples, queue, left, failing, sink, broker, database,
                 history>>

\* The supervisor closes the sink, whichever way the loop ended.
CloseSink ==
  /\ pc["loop"] = "close"
  /\ pc' = [pc EXCEPT !["loop"] = "closing"]
  /\ StartFlush("loop")
  /\ UNCHANGED <<fleet, clock, run, opened, samples, queue, left, failing, transport, emitted,
                 failed, accepted, broker, database, history>>

LoopEnds ==
  /\ pc["loop"] = "closing" /\ writing["loop"] = None
  /\ pc' = [pc EXCEPT !["loop"] = "ended"]
  /\ UNCHANGED <<fleet, clock, run, opened, samples, queue, left, failing, sink, broker,
                 database, history>>

StopReturns ==
  /\ pc["stop"] = "wait" /\ pc["loop"] = "ended"
  /\ pc' = [pc EXCEPT !["stop"] = "done"]
  /\ UNCHANGED <<fleet, clock, run, opened, samples, queue, left, failing, sink, broker,
                 database, history>>

-----------------------------------------------------------------------------
(* The consumer group, on the Kafka path.                                  *)

StoreBatch(v) ==
  /\ \E n \in read[v] + 1 .. Len(log[v]) :
       /\ WriteTelemetryBatch({log[v][i] : i \in read[v] + 1 .. n})
       /\ read' = [read EXCEPT ![v] = n]
  /\ UNCHANGED <<engine, sink, log, history>>

ConsumeTripEvent(t) ==
  /\ read[t] < Len(log[t])
  /\ read' = [read EXCEPT ![t] = @ + 1]
  /\ \/ ApplyTripEvent(log[t][read[t] + 1]) /\ UNCHANGED history
     \/ Fault /\ lost' = TRUE /\ UNCHANGED database
  /\ UNCHANGED <<engine, sink, log>>

\* A restart or a rebalance sends the group back to the offset it had committed.
Redeliver(k) ==
  /\ Fault
  /\ \E n \in 0 .. read[k] - 1 : read' = [read EXCEPT ![k] = n]
  /\ UNCHANGED <<engine, sink, log, database, lost>>

-----------------------------------------------------------------------------
Next ==
  \/ Tick \/ OpenTrips \/ OpenTripsFails \/ EmitSamples \/ SamplesOut \/ EndTick \/ LoopExits
  \/ Stop \/ StopFails \/ StopReturns \/ CloseSink \/ LoopEnds
  \/ \E p \in Coroutine :
       \/ EmitTripEvent(p) \/ WriteCommits(p) \/ BatchFails(p) \/ EventFails(p)
       \/ PauseOpenTrip(p) \/ FlushTrips(p) \/ FinishRun(p)
  \/ \E k \in Key : Redeliver(k)
  \/ \E v \in Vehicle : StoreBatch(v)
  \/ \E t \in Trip : ConsumeTripEvent(t)

Spec == Init /\ [][Next]_vars

-----------------------------------------------------------------------------
(* Properties.                                                             *)

\* The rows of trips behave like TripRecord: opened once, never going back in
\* distance, final once closed -- with batches replayed, samples and trip events
\* arriving in either order, and two coroutines writing at once.
Record == INSTANCE TripRecord WITH
  phase    <- [t \in Trip |-> IF tripRow[t] = NoRow THEN "absent"
                              ELSE IF tripRow[t].ended THEN "closed" ELSE "open"],
  distance <- [t \in Trip |-> tripRow[t].distance]

KeepsTripRecord == Record!Spec

Drained ==
  /\ pc["loop"] = "ended" /\ pc["stop"] \in {"none", "done"}
  /\ \A p \in Coroutine : writing[p] = None
  /\ \A k \in Key : read[k] = Len(log[k])

\* When the run is over, the log is read to its end and nothing was given up, every trip
\* of every vehicle has its row with the distance the vehicle drove, closed exactly if
\* the vehicle reached the end of the corridor -- on either transport, whatever was
\* redelivered and in whichever order the two topics were read.
DrainedTripsAreExact ==
  Drained /\ ~lost =>
    \A v \in Vehicle : \A n \in 1 .. fleet[v].trip :
      LET row == tripRow[<<v, n>>]
      IN /\ row # NoRow
         /\ row.ended <=> n < fleet[v].trip \/ fleet[v].state = "idle"
         /\ row.distance = IF n < fleet[v].trip THEN Corridor ELSE fleet[v].distance

InFlight(p) == IF writing[p] # None /\ writing[p].kind = "batch"
               THEN Cardinality(writing[p].rows) ELSE 0

\* The direct sink accounts for every sample it took: written, counted as failed,
\* buffered, or in a transaction that is not over.
LossesAreCounted ==
  transport = "database" =>
    accepted = emitted + failed + Cardinality(buffer) + InFlight("loop") + InFlight("stop")

\* On the direct sink, with nothing lost and no stop handler: between two ticks with an
\* empty buffer the vehicles table shows a vehicle as parked or plugged in exactly if it
\* is, and after a run that ended by its duration it shows the state each vehicle was left
\* in.  A trip event is never overtaken by the samples before it.
DirectSinkIsCurrent ==
  transport = "database" /\ pc["stop"] = "none" /\ ~lost =>
    /\ Drained => \A v \in Vehicle : vehicleRow[v] = fleet[v].state
    /\ pc["loop"] = "tick" /\ buffer = {} =>
         \A v \in Vehicle : \A s \in {"idle", "charging"} : vehicleRow[v] = s <=> fleet[v].state = s

\* What _pause_open_trips is for, of every run that was stopped: no vehicle is shown on
\* the road once the run is over.  (It does not hold: see the README.)
StoppedFleetIsHalted ==
  Drained /\ ~lost /\ transport = "database" =>
    \A v \in Vehicle : vehicleRow[v] \notin {"driving", "charging"}

=============================================================================
