--------------------------- MODULE TripPipelineProofs ---------------------------
(***************************************************************************)
(* From the vehicle to its rows, for every fleet, length of corridor, size *)
(* of batch and number of trips, ticks and faults, over either transport:  *)
(* the rows of trips implement TripRecord, the direct sink accounts for    *)
(* every sample it took, and what a drained run has not lost is exact.     *)
(*                                                                         *)
(* Typing alone is not inductive: a transaction that commits takes the     *)
(* head off a queue, and it is typed only because the event being written  *)
(* is that head (FlowInv).  What the rows hold at the end rests on what    *)
(* the samples on their way say of the vehicle (WayInv) and on nothing     *)
(* being forgotten between the vehicle and its row (DeliveryInv); what the *)
(* vehicles table shows rests on what is on its way to it (CurrentInv).    *)
(***************************************************************************)
EXTENDS TripPipeline, FiniteSetTheorems, WellFoundedInduction, NaturalsInduction, TLAPS

-----------------------------------------------------------------------------
(* What messages, vehicles and transactions look like.                       *)

\* A trip event that finishes a trip carries the length of the corridor.
GoodEvents == {e \in EventType : e.type = "finished" => e.distance = Corridor}

SamplesBy(v) == {s \in SampleType : s.vehicle = v}
EventsOf(v)  == {e \in GoodEvents : e.vehicle = v}
EventsOn(t)  == {e \in GoodEvents : <<e.vehicle, e.trip>> = t}

Message(k) == IF k \in Vehicle THEN SamplesBy(k) ELSE EventsOn(k)

BatchType == [kind : {"batch"}, rows : SUBSET SampleType]
WriteType == BatchType \cup [kind : {"event"}, event : GoodEvents]

\* A vehicle between two ticks: on the road, or at the end of a corridor, or
\* before its first trip.
FleetType ==
  {f \in [state : {"idle", "driving", "charging", "stopped"}, trip : 0 .. MaxTrips,
          distance : 0 .. Corridor] :
     IF f.state = "idle" THEN f.trip = 0 \/ f.distance = Corridor
     ELSE f.trip # 0 /\ f.distance < Corridor}

Places == {"none", "tick", "open", "samples", "acks", "events", "pause", "flush", "wait",
           "close", "closing", "ended", "done"}

EngineTyped ==
  /\ fleet \in [Vehicle -> FleetType]
  /\ clock \in 0 .. MaxTicks
  /\ pc \in [Coroutine -> Places]
  /\ opened \subseteq Trip
  /\ samples \subseteq SampleType /\ IsFiniteSet(samples)
  /\ queue \in [Coroutine -> [Vehicle -> Seq(GoodEvents)]]
  /\ \A p \in Coroutine, v \in Vehicle : queue[p][v] \in Seq(EventsOf(v))
  /\ left \in [Coroutine -> SUBSET Vehicle]

SinkTyped ==
  /\ transport \in {"kafka", "database"}
  /\ buffer \subseteq SampleType /\ IsFiniteSet(buffer)
  /\ writing \in [Coroutine -> {None} \cup WriteType]
  /\ \A p \in Coroutine :
       writing[p] # None /\ writing[p].kind = "batch" => IsFiniteSet(writing[p].rows)
  /\ emitted \in Nat /\ failed \in Nat /\ accepted \in Nat

BrokerTyped ==
  /\ log \in [Key -> Seq(SampleType \cup GoodEvents)]
  /\ \A k \in Key : log[k] \in Seq(Message(k))
  /\ read \in [Key -> Nat]
  /\ \A k \in Key : read[k] <= Len(log[k])

RowType == [state : VehicleState \cup {"none"}, distance : 0 .. Corridor, ended : BOOLEAN]

DatabaseTyped ==
  /\ vehicleRow \in [Vehicle -> VehicleState]
  /\ tripRow \in [Trip -> RowType]

PipelineTyped == EngineTyped /\ SinkTyped /\ BrokerTyped /\ DatabaseTyped /\ lost \in BOOLEAN

-----------------------------------------------------------------------------
(* Lemmas about the operators of the model.                                  *)

\* A nonempty set of numbers below a bound has a greatest element.
LEMMA GreatestExists ==
  ASSUME NEW N \in Nat, NEW T, T \subseteq 0 .. N, T # {}
  PROVE  \E x \in T : \A y \in T : y <= x
<1> DEFINE D == {N - x : x \in T}
<1>1. D \subseteq Nat /\ D # {}
  <2>1. \A x \in T : N - x \in Nat
    OBVIOUS
  <2> QED BY <2>1
<1>2. IsWellFoundedOn(OpToRel(<, Nat), Nat)
  BY NatLessThanWellFounded
<1>3. \E x \in D : \A y \in D : ~(<<y, x>> \in OpToRel(<, Nat))
  <2> HIDE DEF D
  <2> QED BY <1>1, <1>2, WFMin
<1>4. \A x, y \in D : ~(<<y, x>> \in OpToRel(<, Nat)) => x <= y
  BY <1>1 DEF OpToRel
<1>5. PICK d \in D : \A y \in D : d <= y
  <2> HIDE DEF D
  <2> QED BY <1>3, <1>4
<1>6. PICK x \in T : d = N - x
  OBVIOUS
<1>7. ASSUME NEW y \in T PROVE y <= x
  <2>1. N - x <= N - y
    BY <1>5, <1>6
  <2>2. x \in Nat /\ y \in Nat
    OBVIOUS
  <2> QED BY <2>1, <2>2
<1> QED BY <1>7

\* latest_per_key keeps a sample of the batch, and none of the batch is newer.
LEMMA NewestIsNewest ==
  ASSUME NEW S, S \subseteq SampleType, S # {}
  PROVE  Newest(S) \in S /\ \A y \in S : y.at <= Newest(S).at
<1>1. \A y \in S : y.at \in 0 .. MaxTicks
  BY PipelineAssumption DEF SampleType
<1> DEFINE T == {y.at : y \in S}
<1>2. T \subseteq 0 .. MaxTicks /\ T # {}
  BY <1>1
<1>3. PICK a \in T : \A b \in T : b <= a
  <2> HIDE DEF T
  <2> QED BY <1>2, GreatestExists, PipelineAssumption
<1>4. \E x \in S : \A y \in S : y.at <= x.at
  BY <1>3
<1> QED BY <1>4 DEF Newest

\* What a batch does to a row of trips: nothing, or, while the trip is open, it
\* takes over what a sample of the trip says, which is no step back.
LEMMA BatchOnRow ==
  ASSUME NEW rows, rows \subseteq SampleType, DatabaseTyped, WriteTelemetryBatch(rows),
         NEW t \in Trip
  PROVE  \/ tripRow'[t] = tripRow[t]
         \/ /\ tripRow[t] # NoRow /\ ~tripRow[t].ended
            /\ SamplesOn(rows, t) # {}
            /\ LET s == Newest(SamplesOn(rows, t))
               IN  /\ s \in SamplesOn(rows, t)
                   /\ s.distance >= tripRow[t].distance
                   /\ tripRow'[t] = [state |-> s.state, distance |-> s.distance, ended |-> FALSE]
<1>1. tripRow'[t] = IF SamplesOn(rows, t) = {} \/ tripRow[t] = NoRow THEN tripRow[t]
                    ELSE Aggregates(tripRow[t], Newest(SamplesOn(rows, t)))
  BY DEF WriteTelemetryBatch
<1>2. SamplesOn(rows, t) # {} => Newest(SamplesOn(rows, t)) \in SamplesOn(rows, t)
  <2>1. SamplesOn(rows, t) \subseteq SampleType
    BY DEF SamplesOn
  <2> QED BY <2>1, NewestIsNewest
<1>3. tripRow[t] \in RowType
  BY DEF DatabaseTyped
<1> QED BY <1>1, <1>2, <1>3 DEF Aggregates, RowType

\* write_telemetry_batch keeps both tables well formed.
LEMMA BatchTyped ==
  ASSUME NEW rows, rows \subseteq SampleType, DatabaseTyped, WriteTelemetryBatch(rows)
  PROVE  DatabaseTyped'
<1>1. ASSUME NEW t \in Trip PROVE tripRow'[t] \in RowType
  <2>1. CASE tripRow'[t] = tripRow[t]
    BY <2>1 DEF DatabaseTyped
  <2>2. CASE tripRow'[t] # tripRow[t]
    <3>1. PICK s \in SamplesOn(rows, t) :
            tripRow'[t] = [state |-> s.state, distance |-> s.distance, ended |-> FALSE]
      BY <2>2, BatchOnRow
    <3>2. s \in SampleType
      BY DEF SamplesOn
    <3> QED BY <3>1, <3>2 DEF SampleType, RowType
  <2> QED BY <2>1, <2>2
<1>2. ASSUME NEW v \in Vehicle PROVE vehicleRow'[v] \in VehicleState
  <2>1. CASE SamplesOf(rows, v) = {}
    BY <2>1 DEF WriteTelemetryBatch, DatabaseTyped
  <2>2. CASE SamplesOf(rows, v) # {}
    <3>1. SamplesOf(rows, v) \subseteq SampleType
      BY DEF SamplesOf
    <3>2. Newest(SamplesOf(rows, v)) \in SampleType
      BY <2>2, <3>1, NewestIsNewest
    <3>3. vehicleRow'[v] = Newest(SamplesOf(rows, v)).state
      BY <2>2 DEF WriteTelemetryBatch
    <3> QED BY <3>2, <3>3 DEF SampleType
  <2> QED BY <2>1, <2>2
<1>3. /\ vehicleRow' = [v \in Vehicle |-> vehicleRow'[v]]
      /\ tripRow' = [t \in Trip |-> tripRow'[t]]
  BY DEF WriteTelemetryBatch
<1> QED BY <1>1, <1>2, <1>3 DEF DatabaseTyped

\* What a trip event does to the rows of trips.
LEMMA EventOnRow ==
  ASSUME NEW e \in GoodEvents, DatabaseTyped, ApplyTripEvent(e), NEW t \in Trip
  PROVE  /\ t # <<e.vehicle, e.trip>> => tripRow'[t] = tripRow[t]
         /\ tripRow[t] = NoRow \/ tripRow[t].ended => tripRow'[t] = tripRow[t]
         /\ t = <<e.vehicle, e.trip>> /\ tripRow[t] # NoRow /\ ~tripRow[t].ended
              => /\ tripRow'[t] \in RowType
                 /\ tripRow'[t].state \in VehicleState
                 /\ tripRow'[t].distance = IF e.type = "finished" THEN Corridor
                                          ELSE tripRow[t].distance
                 /\ tripRow'[t].ended <=> e.type = "finished"
<1>1. /\ e \in EventType /\ (e.type = "finished" => e.distance = Corridor)
      /\ <<e.vehicle, e.trip>> \in Trip
      /\ TripEventStates[e.type].trip \in VehicleState
  BY DEF GoodEvents, EventType, Trip, TripEventStates, VehicleState
<1>2. tripRow \in [Trip -> RowType]
  BY DEF DatabaseTyped
<1>3. tripRow' = IF tripRow[<<e.vehicle, e.trip>>] = NoRow \/ tripRow[<<e.vehicle, e.trip>>].ended
                 THEN tripRow
                 ELSE [tripRow EXCEPT ![<<e.vehicle, e.trip>>] = Transition(@, e)]
  BY DEF ApplyTripEvent
<1>4. CASE t # <<e.vehicle, e.trip>>
  BY <1>1, <1>2, <1>3, <1>4
<1>5. CASE t = <<e.vehicle, e.trip>> /\ (tripRow[t] = NoRow \/ tripRow[t].ended)
  BY <1>3, <1>5
<1>6. CASE t = <<e.vehicle, e.trip>> /\ ~(tripRow[t] = NoRow \/ tripRow[t].ended)
  <2>1. tripRow'[t] = Transition(tripRow[t], e)
    BY <1>1, <1>2, <1>3, <1>6
  <2>2. /\ tripRow'[t].state = TripEventStates[e.type].trip
        /\ tripRow'[t].distance = IF e.type = "finished" THEN e.distance ELSE tripRow[t].distance
        /\ tripRow'[t].ended = (e.type = "finished")
    BY <2>1 DEF Transition
  <2>3. tripRow[t] \in RowType /\ Corridor \in 0 .. Corridor
    BY <1>2, PipelineAssumption
  <2>4. tripRow'[t] \in RowType
    BY <1>1, <2>1, <2>3 DEF Transition, RowType
  <2> QED BY <1>1, <1>6, <2>2, <2>4
<1> QED BY <1>4, <1>5, <1>6

\* apply_trip_event keeps both tables well formed.
LEMMA EventTyped ==
  ASSUME NEW e \in GoodEvents, DatabaseTyped, ApplyTripEvent(e)
  PROVE  DatabaseTyped'
<1>1. ASSUME NEW t \in Trip PROVE tripRow'[t] \in RowType
  <2>1. CASE tripRow'[t] = tripRow[t]
    BY <2>1 DEF DatabaseTyped
  <2>2. CASE tripRow'[t] # tripRow[t]
    BY <2>2, EventOnRow
  <2> QED BY <2>1, <2>2
<1>2. tripRow' = [t \in Trip |-> tripRow'[t]]
  BY DEF ApplyTripEvent, DatabaseTyped
<1>3. vehicleRow' \in [Vehicle -> VehicleState]
  <2>1. TripEventStates[e.type].vehicle \in VehicleState
    BY DEF GoodEvents, EventType, TripEventStates, VehicleState
  <2> QED BY <2>1 DEF ApplyTripEvent, DatabaseTyped
<1> QED BY <1>1, <1>2, <1>3 DEF DatabaseTyped

\* The messages of a publication go where they belong, or one of them nowhere.
LEMMA PublishTyped ==
  ASSUME BrokerTyped, NEW ms, DOMAIN ms \subseteq Key, \A k \in DOMAIN ms : ms[k] \in Message(k),
         Publish(ms)
  PROVE  /\ log' \in [Key -> Seq(SampleType \cup GoodEvents)]
         /\ \A k \in Key : log'[k] \in Seq(Message(k))
         /\ \A k \in Key : Len(log[k]) <= Len(log'[k])
         /\ \A k \in Key : log'[k] = log[k] \/ (k \in DOMAIN ms /\ log'[k] = Append(log[k], ms[k]))
         /\ ~lost' => \A k \in DOMAIN ms : log'[k] = Append(log[k], ms[k])
         /\ lost' = lost \/ lost' = TRUE
<1>1. \A k \in Key : Message(k) \subseteq SampleType \cup GoodEvents
  BY DEF Message, SamplesBy, EventsOn
<1>2. \A k \in DOMAIN ms : Append(log[k], ms[k]) \in Seq(Message(k)) /\ Len(Append(log[k], ms[k])) = Len(log[k]) + 1
  BY DEF BrokerTyped
<1>3. \A k \in Key : Len(log[k]) \in Nat
  BY DEF BrokerTyped
<1>4. \/ /\ log' = [k \in Key |-> IF k \in DOMAIN ms THEN Append(log[k], ms[k]) ELSE log[k]]
         /\ lost' = lost
      \/ /\ lost' = TRUE
         /\ \E k \in DOMAIN ms :
              log' = [l \in Key |-> IF l \in DOMAIN ms \ {k} THEN Append(log[l], ms[l]) ELSE log[l]]
  BY DEF Publish
<1>5. \A k \in Key : log'[k] = log[k] \/ (k \in DOMAIN ms /\ log'[k] = Append(log[k], ms[k]))
  BY <1>4
<1>6. \A k \in Key : log'[k] \in Seq(Message(k))
  BY <1>2, <1>5 DEF BrokerTyped
<1>7. \A k \in Key : log'[k] \in Seq(SampleType \cup GoodEvents)
  BY <1>1, <1>6
<1>8. log' = [k \in Key |-> log'[k]]
  BY <1>4
<1>9. \A k \in Key : Len(log[k]) <= Len(log'[k])
  BY <1>2, <1>3, <1>5
<1>10. ~lost' => \A k \in DOMAIN ms : log'[k] = Append(log[k], ms[k])
  BY <1>4
<1>11. lost' = lost \/ lost' = TRUE
  BY <1>4
<1>12. log' \in [Key -> Seq(SampleType \cup GoodEvents)]
  BY <1>7, <1>8
<1> QED BY <1>5, <1>6, <1>9, <1>10, <1>11, <1>12

-----------------------------------------------------------------------------
(* One tick of a vehicle.                                                    *)

EventNames == {"started", "finished", "charging_started", "charging_finished", "paused"}

\* The vehicle once its sample is out.
After(o) == IF o.sampled THEN Released(o.after) ELSE o.after

\* What a tick makes of vehicle f: it stays on its trip, which may move on if the
\* vehicle is on the road, or it begins the next one; a trip that ends says so.
OutcomeOK(f, o) ==
  /\ o.after \in [state : VehicleState, trip : 0 .. MaxTrips, distance : 0 .. Corridor]
  /\ o.sampled \in BOOLEAN
  /\ After(o) \in FleetType
  /\ o.events \in Seq(EventNames)
  /\ o.events # <<>> => o.after.trip # 0
  /\ \A i \in DOMAIN o.events : o.events[i] = "finished" => o.after.state = "completed"
  /\ o.after.state = "completed" =>
       /\ o.sampled /\ o.after.distance = Corridor
       /\ \E i \in DOMAIN o.events : o.events[i] = "finished"
  /\ \/ /\ o.after.trip = f.trip
        /\ o.after.distance >= f.distance
        /\ f.state = "idle" => o.after = f /\ o.events = <<>>
        /\ f.state # "idle" => o.after.state # "idle"
        /\ o.after.distance # f.distance => o.sampled
     \/ /\ o.after.trip = f.trip + 1
        /\ f.state = "idle"
        /\ o.after.state # "idle"
        /\ o.after.distance # 0 => o.sampled

\* A vehicle on a trip, as DriveStep finds it.
OnTheRoad ==
  {f \in [state : {"driving", "charging", "stopped"}, trip : 1 .. MaxTrips,
          distance : 0 .. Corridor] : f.distance < Corridor}

LEMMA OneEvent ==
  ASSUME NEW e \in EventNames
  PROVE  <<e>> \in Seq(EventNames) /\ DOMAIN <<e>> = {1} /\ <<e>>[1] = e /\ <<e>> # <<>>
  OBVIOUS

\* The lists of events a step may leave behind.
LEMMA EventLists ==
  /\ <<>> \in Seq(EventNames) /\ DOMAIN <<>> = {}
  /\ \A e \in {"started", "charging_started", "charging_finished", "finished"} :
       <<e>> \in Seq(EventNames) /\ DOMAIN <<e>> = {1} /\ <<e>>[1] = e /\ <<e>> # <<>>
<1>1. <<>> \in Seq(EventNames) /\ DOMAIN <<>> = {}
  OBVIOUS
<1>2. {"started", "charging_started", "charging_finished", "finished"} \subseteq EventNames
  BY DEF EventNames
<1> QED BY <1>1, <1>2, OneEvent

\* The outcomes of a step on the road, and whether it finishes the trip.
LEMMA DriveOutcomes ==
  ASSUME NEW f \in OnTheRoad, NEW o \in DriveStep(f)
  PROVE  /\ o.after \in [state : VehicleState, trip : 1 .. MaxTrips, distance : 0 .. Corridor]
         /\ o.sampled = TRUE
         /\ Released(o.after) \in FleetType
         /\ o.after.state # "idle"
         /\ o.after.trip = f.trip /\ o.after.distance >= f.distance
         /\ \/ o.events = <<>> /\ o.after.state # "completed"
            \/ o.events = <<"charging_started">> /\ o.after.state # "completed"
            \/ o.events = <<"finished">> /\ o.after.state = "completed" /\ o.after.distance = Corridor
<1>0. /\ f.state \in {"driving", "charging", "stopped"}
      /\ f.trip \in 1 .. MaxTrips /\ f.distance \in 0 .. Corridor /\ f.distance < Corridor
      /\ f = [state |-> f.state, trip |-> f.trip, distance |-> f.distance]
      /\ MaxTrips \in Nat /\ Corridor \in Nat /\ Corridor # 0
  BY PipelineAssumption DEF OnTheRoad
<1> DEFINE moved == [f EXCEPT !.distance = @ + 1]
<1>1. \/ o = Outcome([f EXCEPT !.state = "stopped"], <<>>)
      \/ o = Outcome([f EXCEPT !.state = "charging"], <<"charging_started">>)
      \/ moved.distance = Corridor /\ o = Outcome([moved EXCEPT !.state = "completed"], <<"finished">>)
      \/ moved.distance # Corridor /\ o = Outcome([moved EXCEPT !.state = "driving"], <<>>)
  BY DEF DriveStep
<1> USE DEF Outcome, Released, FleetType, VehicleState
<1>2. CASE o = Outcome([f EXCEPT !.state = "stopped"], <<>>)
  <2>1. /\ o.after = [state |-> "stopped", trip |-> f.trip, distance |-> f.distance]
        /\ o.sampled = TRUE /\ o.events = <<>>
    BY <1>0, <1>2
  <2> QED BY <1>0, <2>1
<1>3. CASE o = Outcome([f EXCEPT !.state = "charging"], <<"charging_started">>)
  <2>1. /\ o.after = [state |-> "charging", trip |-> f.trip, distance |-> f.distance]
        /\ o.sampled = TRUE /\ o.events = <<"charging_started">>
    BY <1>0, <1>3
  <2> QED BY <1>0, <2>1
<1>4. CASE moved.distance = Corridor /\ o = Outcome([moved EXCEPT !.state = "completed"], <<"finished">>)
  <2>1. /\ o.after = [state |-> "completed", trip |-> f.trip, distance |-> f.distance + 1]
        /\ f.distance + 1 = Corridor
        /\ o.sampled = TRUE /\ o.events = <<"finished">>
    BY <1>0, <1>4
  <2>2. Released(o.after) = [state |-> "idle", trip |-> f.trip, distance |-> f.distance + 1]
    BY <2>1
  <2>3. Released(o.after) \in FleetType
    BY <1>0, <2>1, <2>2
  <2> HIDE DEF Released, FleetType
  <2> QED BY <1>0, <2>1, <2>3
<1>5. CASE moved.distance # Corridor /\ o = Outcome([moved EXCEPT !.state = "driving"], <<>>)
  <2>1. /\ o.after = [state |-> "driving", trip |-> f.trip, distance |-> f.distance + 1]
        /\ f.distance + 1 # Corridor
        /\ o.sampled = TRUE /\ o.events = <<>>
    BY <1>0, <1>5
  <2> QED BY <1>0, <2>1
<1> QED BY <1>1, <1>2, <1>3, <1>4, <1>5

\* A step on the road leaves a sample.
LEMMA DriveShape ==
  ASSUME NEW f, NEW d \in DriveStep(f)
  PROVE  d = [after |-> d.after, events |-> d.events, sampled |-> TRUE]
<1>1. PICK a, ev : d = Outcome(a, ev)
  BY DEF DriveStep
<1> QED BY <1>1 DEF Outcome

LEMMA AdvanceOutcomes ==
  ASSUME NEW f \in FleetType, NEW o \in Advance(f) \cup Raises(f)
  PROVE  OutcomeOK(f, o)
<1>0. /\ f.state \in {"idle", "driving", "charging", "stopped"}
      /\ f.trip \in 0 .. MaxTrips /\ f.distance \in 0 .. Corridor
      /\ IF f.state = "idle" THEN f.trip = 0 \/ f.distance = Corridor
         ELSE f.trip # 0 /\ f.distance < Corridor
      /\ f = [state |-> f.state, trip |-> f.trip, distance |-> f.distance]
      /\ MaxTrips \in Nat /\ Corridor \in Nat /\ Corridor # 0
  BY PipelineAssumption DEF FleetType
<1>1. ASSUME NEW s \in BOOLEAN, o.after = f, o.events = <<>>, o.sampled = s
      PROVE  OutcomeOK(f, o)
  <2>1. Released(f) = f
    BY <1>0 DEF Released
  <2>2. After(o) = f
    BY <1>1, <2>1 DEF After
  <2>3. f \in [state : VehicleState, trip : 0 .. MaxTrips, distance : 0 .. Corridor]
    BY <1>0 DEF VehicleState
  <2> QED BY <1>0, <1>1, <2>2, <2>3 DEF OutcomeOK
<1>2. ASSUME f.state \in {"driving", "stopped"}, o \in DriveStep(f) PROVE OutcomeOK(f, o)
  <2>1. f \in OnTheRoad
    BY <1>0, <1>2 DEF OnTheRoad
  <2>2. /\ o.after \in [state : VehicleState, trip : 1 .. MaxTrips, distance : 0 .. Corridor]
        /\ o.sampled = TRUE /\ Released(o.after) \in FleetType /\ o.after.state # "idle"
        /\ o.after.trip = f.trip /\ o.after.distance >= f.distance
        /\ \/ o.events = <<>> /\ o.after.state # "completed"
           \/ o.events = <<"charging_started">> /\ o.after.state # "completed"
           \/ o.events = <<"finished">> /\ o.after.state = "completed" /\ o.after.distance = Corridor
    BY <1>2, <2>1, DriveOutcomes
  <2>3. After(o) \in FleetType
    BY <2>2 DEF After
  <2>4. o.events \in Seq(EventNames)
    <3>1. CASE o.events = <<>>
      BY <3>1, EventLists
    <3>2. CASE o.events = <<"charging_started">>
      BY <3>2, EventLists
    <3>3. CASE o.events = <<"finished">>
      BY <3>3, EventLists
    <3> QED BY <2>2, <3>1, <3>2, <3>3
  <2>5. /\ \A i \in DOMAIN o.events : o.events[i] = "finished" => o.after.state = "completed"
        /\ o.after.state = "completed" => \E i \in DOMAIN o.events : o.events[i] = "finished"
    <3>1. CASE o.events = <<>>
      BY <2>2, <3>1, EventLists
    <3>2. CASE o.events = <<"charging_started">>
      BY <2>2, <3>2, EventLists
    <3>3. CASE o.events = <<"finished">>
      BY <2>2, <3>3, EventLists
    <3> QED BY <2>2, <3>1, <3>2, <3>3
  <2> QED BY <1>0, <1>2, <2>2, <2>3, <2>4, <2>5 DEF OutcomeOK
<1>3. ASSUME NeedsRoute(f), o \in Started(f) PROVE OutcomeOK(f, o)
  <2> DEFINE g == BeginTrip(f)
  <2>1. /\ g = [state |-> "driving", trip |-> f.trip + 1, distance |-> 0]
        /\ f.state = "idle" /\ f.trip < MaxTrips
    BY <1>3 DEF NeedsRoute, BeginTrip
  <2>2. g \in OnTheRoad
    BY <1>0, <2>1 DEF OnTheRoad
  <2>3. PICK d \in DriveStep(g) : o = [d EXCEPT !.events = <<"started">> \o @]
    BY <1>3 DEF Started
  <2>4. /\ d.after \in [state : VehicleState, trip : 1 .. MaxTrips, distance : 0 .. Corridor]
        /\ d.sampled = TRUE /\ Released(d.after) \in FleetType
        /\ d.after.state # "idle"
        /\ d.after.trip = g.trip /\ d.after.distance >= g.distance
        /\ \/ d.events = <<>> /\ d.after.state # "completed"
           \/ d.events = <<"charging_started">> /\ d.after.state # "completed"
           \/ d.events = <<"finished">> /\ d.after.state = "completed" /\ d.after.distance = Corridor
    BY <2>2, <2>3, DriveOutcomes
  <2>5. d = [after |-> d.after, events |-> d.events, sampled |-> TRUE]
    BY <2>3, DriveShape
  <2>6. o.after = d.after /\ o.sampled = TRUE /\ o.events = <<"started">> \o d.events
    BY <2>3, <2>4, <2>5
  <2>7. After(o) \in FleetType
    BY <2>4, <2>6 DEF After
  <2>8. /\ o.events \in Seq(EventNames)
        /\ \A i \in DOMAIN o.events : o.events[i] = "finished" => o.after.state = "completed"
        /\ o.after.state = "completed" => \E i \in DOMAIN o.events : o.events[i] = "finished"
    <3>0. d.events \in Seq(EventNames) /\ <<"started">> \in Seq(EventNames)
      <4>1. CASE d.events = <<>>
        BY <4>1, EventLists
      <4>2. CASE d.events = <<"charging_started">>
        BY <4>2, EventLists
      <4>3. CASE d.events = <<"finished">>
        BY <4>3, EventLists
      <4> QED BY <2>4, <4>1, <4>2, <4>3, EventLists
    <3>1. o.events \in Seq(EventNames)
      BY <2>6, <3>0
    <3>2. CASE d.events = <<>>
      <4>1. o.events = <<"started">>
        BY <2>6, <3>2, <3>0
      <4>2. d.after.state # "completed"
        BY <2>4, <3>2, EventLists
      <4> QED BY <2>6, <3>1, <4>1, <4>2, EventLists
    <3>3. CASE d.events = <<"charging_started">>
      <4>1. DOMAIN o.events = 1 .. 2 /\ o.events[1] = "started" /\ o.events[2] = "charging_started"
        BY <2>6, <3>3
      <4>2. d.after.state # "completed"
        BY <2>4, <3>3, EventLists
      <4> QED BY <2>6, <3>1, <4>1, <4>2
    <3>4. CASE d.events = <<"finished">>
      <4>1. DOMAIN o.events = 1 .. 2 /\ o.events[1] = "started" /\ o.events[2] = "finished"
        BY <2>6, <3>4
      <4>2. d.after.state = "completed"
        BY <2>4, <3>4, EventLists
      <4> QED BY <2>6, <3>1, <4>1, <4>2
    <3> QED BY <2>4, <3>2, <3>3, <3>4
  <2>9. o.after.trip = f.trip + 1
    BY <2>1, <2>4, <2>6
  <2>10. o.after.state = "completed" => o.after.distance = Corridor
    BY <2>4, <2>6, OneEvent DEF EventNames
  <2>11. /\ o.after \in [state : VehicleState, trip : 0 .. MaxTrips, distance : 0 .. Corridor]
         /\ o.after.trip # 0
    BY <1>0, <2>4, <2>6
  <2> QED BY <2>1, <2>4, <2>6, <2>7, <2>8, <2>9, <2>10, <2>11 DEF OutcomeOK
<1>4. ASSUME f.state = "charging", o = Outcome([f EXCEPT !.state = "driving"], <<"charging_finished">>)
      PROVE  OutcomeOK(f, o)
  <2>1. /\ o.after = [state |-> "driving", trip |-> f.trip, distance |-> f.distance]
        /\ o.sampled = TRUE /\ o.events = <<"charging_finished">>
    BY <1>0, <1>4 DEF Outcome
  <2>2. After(o) = o.after
    BY <2>1 DEF After, Released
  <2>3. o.after \in FleetType
    BY <1>0, <1>4, <2>1 DEF FleetType
  <2>4. o.after \in [state : VehicleState, trip : 0 .. MaxTrips, distance : 0 .. Corridor]
    BY <1>0, <2>1 DEF VehicleState
  <2>5. o.events \in Seq(EventNames) /\ \A i \in DOMAIN o.events : o.events[i] # "finished"
    BY <2>1, EventLists
  <2>6. o.after.trip = f.trip /\ o.after.distance = f.distance /\ f.trip # 0 /\ f.state # "idle"
    BY <1>0, <1>4, <2>1
  <2>7. /\ o.after.state \notin {"idle", "completed"} /\ o.sampled = TRUE
        /\ o.after.trip # 0 /\ o.after.distance >= f.distance
    BY <1>0, <2>1, <2>6
  <2> QED BY <2>2, <2>3, <2>4, <2>5, <2>6, <2>7 DEF OutcomeOK
<1>5. ASSUME NeedsRoute(f), o.after = BeginTrip(f), o.events = <<"started">>, o.sampled = FALSE
      PROVE  OutcomeOK(f, o)
  <2>1. /\ o.after = [state |-> "driving", trip |-> f.trip + 1, distance |-> 0]
        /\ f.state = "idle" /\ f.trip < MaxTrips
    BY <1>5 DEF NeedsRoute, BeginTrip
  <2>2. After(o) = o.after
    BY <1>5 DEF After
  <2>3. o.after \in FleetType
    BY <1>0, <2>1 DEF FleetType
  <2>4. o.after \in [state : VehicleState, trip : 0 .. MaxTrips, distance : 0 .. Corridor]
    BY <1>0, <2>1 DEF VehicleState
  <2>5. o.events \in Seq(EventNames) /\ \A i \in DOMAIN o.events : o.events[i] # "finished"
    BY <1>5, EventLists
  <2>6. /\ o.after.trip = f.trip + 1 /\ f.state = "idle" /\ o.after.state = "driving"
        /\ o.after.distance = 0 /\ o.after.trip # 0 /\ o.sampled = FALSE
    BY <1>0, <1>5, <2>1
  <2> QED BY <2>2, <2>3, <2>4, <2>5, <2>6 DEF OutcomeOK
<1>6. CASE o \in Raises(f)
  <2>1. \/ o = [after |-> f, events |-> <<>>, sampled |-> FALSE]
        \/ NeedsRoute(f) /\ o = [after |-> BeginTrip(f), events |-> <<"started">>, sampled |-> FALSE]
    BY <1>6 DEF Raises
  <2>2. CASE o = [after |-> f, events |-> <<>>, sampled |-> FALSE]
    <3>1. o.after = f /\ o.events = <<>> /\ o.sampled = FALSE
      BY <2>2
    <3> QED BY <1>1, <3>1
  <2>3. CASE NeedsRoute(f) /\ o = [after |-> BeginTrip(f), events |-> <<"started">>, sampled |-> FALSE]
    <3>1. o.after = BeginTrip(f) /\ o.events = <<"started">> /\ o.sampled = FALSE
      BY <2>3
    <3> QED BY <1>5, <2>3, <3>1
  <2> QED BY <2>1, <2>2, <2>3
<1>7. CASE o \in Advance(f)
  <2>1. CASE f.state = "charging"
    <3>1. o = Outcome(f, <<>>) \/ o = Outcome([f EXCEPT !.state = "driving"], <<"charging_finished">>)
      BY <1>7, <2>1 DEF Advance, ChargeStep
    <3>2. CASE o = Outcome(f, <<>>)
      BY <1>1, <3>2 DEF Outcome
    <3> QED BY <1>4, <2>1, <3>1, <3>2
  <2>2. CASE f.state \in {"driving", "stopped"}
    BY <1>2, <1>7, <2>2 DEF Advance
  <2>3. CASE f.state = "idle"
    <3>1. o = Outcome(f, <<>>) \/ (NeedsRoute(f) /\ o \in Started(f))
      BY <1>7, <2>3 DEF Advance
    <3>2. CASE o = Outcome(f, <<>>)
      BY <1>1, <3>2 DEF Outcome
    <3> QED BY <1>3, <3>1, <3>2
  <2> QED BY <1>0, <2>1, <2>2, <2>3
<1> QED BY <1>6, <1>7

\* The trip events of an outcome are the vehicle's own.
LEMMA TripEventsTyped ==
  ASSUME NEW v \in Vehicle, NEW f, NEW o, OutcomeOK(f, o)
  PROVE  /\ TripEvents(v, o) \in Seq(EventsOf(v))
         /\ DOMAIN TripEvents(v, o) = DOMAIN o.events
         /\ \A i \in DOMAIN o.events :
              /\ TripEvents(v, o)[i].type = o.events[i]
              /\ TripEvents(v, o)[i].trip = o.after.trip
<1>1. /\ o.events \in Seq(EventNames)
      /\ o.after.trip \in 0 .. MaxTrips /\ o.after.distance \in 0 .. Corridor
      /\ MaxTrips \in Nat /\ Corridor \in Nat
  BY PipelineAssumption DEF OutcomeOK
<1>2. ASSUME NEW i \in DOMAIN o.events
      PROVE  /\ TripEvent(v, o.after, o.events[i]) \in EventsOf(v)
             /\ TripEvent(v, o.after, o.events[i]).type = o.events[i]
             /\ TripEvent(v, o.after, o.events[i]).trip = o.after.trip
  <2>1. o.events[i] \in EventNames /\ o.events # <<>>
    BY <1>1
  <2>2. o.after.trip \in 1 .. MaxTrips
    BY <1>1, <2>1 DEF OutcomeOK
  <2>3. o.events[i] = "finished" => o.after.distance = Corridor
    BY DEF OutcomeOK
  <2>4. TripEvent(v, o.after, o.events[i]) =
          [vehicle |-> v, trip |-> o.after.trip, type |-> o.events[i],
           distance |-> IF o.events[i] = "started" THEN 0 ELSE o.after.distance]
    BY DEF TripEvent
  <2>5. (IF o.events[i] = "started" THEN 0 ELSE o.after.distance) \in 0 .. Corridor
    BY <1>1
  <2>6. TripEvent(v, o.after, o.events[i]) \in EventType
    BY <2>1, <2>2, <2>4, <2>5 DEF EventType, EventNames
  <2>7. TripEvent(v, o.after, o.events[i]).type = "finished"
          => TripEvent(v, o.after, o.events[i]).distance = Corridor
    BY <2>3, <2>4
  <2> QED BY <2>4, <2>6, <2>7 DEF EventsOf, GoodEvents
<1>3. DOMAIN o.events = 1 .. Len(o.events) /\ Len(o.events) \in Nat
  BY <1>1
<1>4. TripEvents(v, o) = [i \in 1 .. Len(o.events) |-> TripEvent(v, o.after, o.events[i])]
  BY <1>3 DEF TripEvents
<1> QED BY <1>2, <1>3, <1>4

\* Only a vehicle that raises leaves no sample behind.
LEMMA SampledWhenAdvanced ==
  ASSUME NEW f \in FleetType, NEW o \in Advance(f)
  PROVE  o.sampled = TRUE
<1>1. \A g : \A d \in DriveStep(g) : d = [after |-> d.after, events |-> d.events, sampled |-> TRUE]
  BY DriveShape
<1>2. CASE f.state = "charging"
  <2>1. o = Outcome(f, <<>>) \/ o = Outcome([f EXCEPT !.state = "driving"], <<"charging_finished">>)
    BY <1>2 DEF Advance, ChargeStep
  <2>2. CASE o = Outcome(f, <<>>)
    BY <2>2 DEF Outcome
  <2>3. CASE o = Outcome([f EXCEPT !.state = "driving"], <<"charging_finished">>)
    BY <2>3 DEF Outcome
  <2> QED BY <2>1, <2>2, <2>3
<1>3. CASE f.state \in {"driving", "stopped"}
  <2>1. o \in DriveStep(f)
    BY <1>3 DEF Advance
  <2>2. o = [after |-> o.after, events |-> o.events, sampled |-> TRUE]
    BY <1>1, <2>1
  <2> QED BY <2>2
<1>4. CASE f.state = "idle"
  <2>1. o = Outcome(f, <<>>) \/ o \in Started(f)
    BY <1>4 DEF Advance
  <2>2. CASE o = Outcome(f, <<>>)
    BY <2>2 DEF Outcome
  <2>3. CASE o \in Started(f)
    <3>1. PICK d \in DriveStep(BeginTrip(f)) : o = [d EXCEPT !.events = <<"started">> \o @]
      BY <2>3 DEF Started
    <3>2. d = [after |-> d.after, events |-> d.events, sampled |-> TRUE]
      BY <1>1
    <3> QED BY <3>1, <3>2
  <2> QED BY <2>1, <2>2, <2>3
<1> QED BY <1>2, <1>3, <1>4 DEF FleetType

\* What a tick did, vehicle by vehicle.
LEMMA TickOutcomes ==
  ASSUME EngineTyped, Tick
  PROVE  \E out :
           /\ \A v \in Vehicle : OutcomeOK(fleet[v], out[v])
           /\ fleet' = [v \in Vehicle |-> After(out[v])]
           /\ opened' = {<<v, out[v].after.trip>> : v \in
                           {u \in Vehicle : out[u].after.trip # fleet[u].trip}}
           /\ samples' = {Sample(v, out[v].after, clock + 1) : v \in
                            {u \in Vehicle : out[u].sampled}}
           /\ queue' = [queue EXCEPT !["loop"] = [v \in Vehicle |-> TripEvents(v, out[v])]]
<1>1. PICK skipped \in SUBSET Vehicle,
           out \in [Vehicle -> UNION {Advance(fleet[v]) \cup Raises(fleet[v]) : v \in Vehicle}] :
        /\ \A v \in Vehicle :
             out[v] \in IF v \in skipped THEN Raises(fleet[v]) ELSE Advance(fleet[v])
        /\ fleet'   = [v \in Vehicle |-> IF out[v].sampled THEN Released(out[v].after)
                                         ELSE out[v].after]
        /\ opened'  = {<<v, out[v].after.trip>> : v \in
                         {u \in Vehicle : out[u].after.trip # fleet[u].trip}}
        /\ samples' = {Sample(v, out[v].after, clock + 1) : v \in Vehicle \ skipped}
        /\ queue'   = [queue EXCEPT !["loop"] = [v \in Vehicle |-> TripEvents(v, out[v])]]
  BY DEF Tick
<1>2. \A v \in Vehicle : fleet[v] \in FleetType
  BY DEF EngineTyped
<1>3. \A v \in Vehicle : OutcomeOK(fleet[v], out[v])
  BY <1>1, <1>2, AdvanceOutcomes
<1>4. ASSUME NEW v \in Vehicle PROVE v \notin skipped <=> out[v].sampled
  <2>1. CASE v \in skipped
    BY <1>1, <2>1 DEF Raises
  <2>2. CASE v \notin skipped
    <3>1. out[v] \in Advance(fleet[v]) /\ fleet[v] \in FleetType
      BY <1>1, <1>2, <2>2
    <3>2. out[v].sampled = TRUE
      BY <3>1, SampledWhenAdvanced
    <3> QED BY <2>2, <3>2
  <2> QED BY <2>1, <2>2
<1>5. Vehicle \ skipped = {u \in Vehicle : out[u].sampled}
  BY <1>4
<1>6. fleet' = [v \in Vehicle |-> After(out[v])]
  BY <1>1 DEF After
<1> QED BY <1>1, <1>3, <1>5, <1>6

-----------------------------------------------------------------------------
(* Types.                                                                    *)

LEMMA BatchIsWrite ==
  ASSUME NEW rows, rows \subseteq SampleType, IsFiniteSet(rows)
  PROVE  Batch(rows) \in WriteType /\ Batch(rows) # None /\ Batch(rows).kind = "batch"
         /\ Batch(rows).rows = rows
<1>1. Batch(rows) \in [kind : {"batch"}, rows : SUBSET SampleType]
  BY DEF Batch
<1> QED BY <1>1, NoneIsNoTransaction DEF Batch, WriteType, BatchType

LEMMA EventIsWrite ==
  ASSUME NEW e \in GoodEvents
  PROVE  Event(e) \in WriteType /\ Event(e) # None /\ Event(e).kind = "event"
         /\ Event(e).event = e
<1>1. Event(e) \in [kind : {"event"}, event : EventType]
  BY DEF Event, GoodEvents
<1>2. Event(e) \in [kind : {"event"}, event : GoodEvents]
  BY DEF Event
<1> QED BY <1>1, <1>2, NoneIsNoTransaction DEF Event, WriteType

LEMMA WriteCases ==
  ASSUME SinkTyped, NEW p \in Coroutine, writing[p] # None
  PROVE  \/ writing[p].kind = "batch" /\ writing[p].rows \subseteq SampleType
            /\ IsFiniteSet(writing[p].rows)
         \/ writing[p].kind = "event" /\ writing[p].event \in GoodEvents
<1>1. writing[p] \in WriteType
  BY DEF SinkTyped
<1> QED BY <1>1 DEF WriteType, BatchType, SinkTyped

\* The next transaction of a coroutine.
LEMMA WritingTyped ==
  ASSUME SinkTyped, NEW p \in Coroutine, NEW w \in {None} \cup WriteType,
         w # None /\ w.kind = "batch" => IsFiniteSet(w.rows),
         writing' = [writing EXCEPT ![p] = w]
  PROVE  /\ writing' \in [Coroutine -> {None} \cup WriteType]
         /\ \A q \in Coroutine :
              writing'[q] # None /\ writing'[q].kind = "batch" => IsFiniteSet(writing'[q].rows)
         /\ writing'[p] = w
         /\ \A q \in Coroutine \ {p} : writing'[q] = writing[q]
<1>1. writing \in [Coroutine -> {None} \cup WriteType]
  BY DEF SinkTyped
<1>2. writing'[p] = w /\ \A q \in Coroutine \ {p} : writing'[q] = writing[q]
  BY <1>1
<1>3. writing' \in [Coroutine -> {None} \cup WriteType]
  BY <1>1
<1> QED BY <1>2, <1>3 DEF SinkTyped

LEMMA HeadTyped ==
  ASSUME EngineTyped, NEW p \in Coroutine, NEW v \in Vehicle, queue[p][v] # <<>>
  PROVE  /\ Head(queue[p][v]) \in EventsOf(v) /\ Tail(queue[p][v]) \in Seq(EventsOf(v))
         /\ Len(queue[p][v]) \in Nat /\ Len(queue[p][v]) # 0
         /\ Len(Tail(queue[p][v])) = Len(queue[p][v]) - 1
         /\ \A i \in 1 .. Len(queue[p][v]) - 1 : Tail(queue[p][v])[i] = queue[p][v][i + 1]
<1>1. queue[p][v] \in Seq(EventsOf(v))
  BY DEF EngineTyped
<1> QED BY <1>1

\* A queue of a coroutine that is changed for one vehicle.
LEMMA QueueTyped ==
  ASSUME EngineTyped, NEW p \in Coroutine, NEW v \in Vehicle, NEW q \in Seq(EventsOf(v)),
         queue' = [queue EXCEPT ![p][v] = q]
  PROVE  /\ queue' \in [Coroutine -> [Vehicle -> Seq(GoodEvents)]]
         /\ \A r \in Coroutine, u \in Vehicle : queue'[r][u] \in Seq(EventsOf(u))
         /\ queue'[p][v] = q
         /\ \A r \in Coroutine, u \in Vehicle : r # p \/ u # v => queue'[r][u] = queue[r][u]
<1>1. queue \in [Coroutine -> [Vehicle -> Seq(GoodEvents)]]
  BY DEF EngineTyped
<1>2. EventsOf(v) \subseteq GoodEvents
  BY DEF EventsOf
<1>3. q \in Seq(GoodEvents)
  BY <1>2
<1>4. queue'[p][v] = q
  BY <1>1
<1>5. \A r \in Coroutine, u \in Vehicle : r # p \/ u # v => queue'[r][u] = queue[r][u]
  BY <1>1
<1>6. queue' \in [Coroutine -> [Vehicle -> Seq(GoodEvents)]]
  BY <1>1, <1>3
<1>7. \A r \in Coroutine, u \in Vehicle : queue'[r][u] \in Seq(EventsOf(u))
  BY <1>4, <1>5 DEF EngineTyped
<1> QED BY <1>4, <1>5, <1>6, <1>7

\* A coroutine that gives its events up.
LEMMA QueueEmptied ==
  ASSUME EngineTyped, NEW p \in Coroutine, queue' = [queue EXCEPT ![p] = NoEvents]
  PROVE  /\ queue' \in [Coroutine -> [Vehicle -> Seq(GoodEvents)]]
         /\ \A r \in Coroutine, u \in Vehicle : queue'[r][u] \in Seq(EventsOf(u))
         /\ queue'[p] = NoEvents
         /\ \A r \in Coroutine \ {p} : queue'[r] = queue[r]
<1>1. queue \in [Coroutine -> [Vehicle -> Seq(GoodEvents)]]
  BY DEF EngineTyped
<1>2. NoEvents \in [Vehicle -> Seq(GoodEvents)]
  BY DEF NoEvents
<1>3. queue' \in [Coroutine -> [Vehicle -> Seq(GoodEvents)]]
  BY <1>1, <1>2
<1>4. queue'[p] = NoEvents /\ \A r \in Coroutine \ {p} : queue'[r] = queue[r]
  BY <1>1
<1>5. \A u \in Vehicle : NoEvents[u] \in Seq(EventsOf(u))
  BY DEF NoEvents
<1>6. \A r \in Coroutine, u \in Vehicle : queue'[r][u] \in Seq(EventsOf(u))
  BY <1>4, <1>5 DEF EngineTyped
<1> QED BY <1>3, <1>4, <1>6

LEMMA InitTyped == Init => PipelineTyped
<1> SUFFICES ASSUME Init PROVE PipelineTyped
  OBVIOUS
<1>1. EngineTyped
  <2>1. fleet \in [Vehicle -> FleetType]
    BY PipelineAssumption DEF Init, FleetType
  <2>2. queue \in [Coroutine -> [Vehicle -> Seq(GoodEvents)]]
    BY DEF Init, NoEvents
  <2>3. \A p \in Coroutine, v \in Vehicle : queue[p][v] \in Seq(EventsOf(v))
    BY DEF Init, NoEvents
  <2>4. pc \in [Coroutine -> Places]
    BY DEF Init, Coroutine, Places
  <2>5. samples \subseteq SampleType /\ IsFiniteSet(samples)
    BY FS_EmptySet DEF Init
  <2>6. clock \in 0 .. MaxTicks /\ opened \subseteq Trip /\ left \in [Coroutine -> SUBSET Vehicle]
    BY PipelineAssumption DEF Init
  <2> QED BY <2>1, <2>2, <2>3, <2>4, <2>5, <2>6 DEF EngineTyped
<1>2. SinkTyped
  <2>1. buffer \subseteq SampleType /\ IsFiniteSet(buffer)
    BY FS_EmptySet DEF Init
  <2>2. writing = [p \in Coroutine |-> None]
    BY DEF Init
  <2>3. transport \in {"kafka", "database"} /\ emitted \in Nat /\ failed \in Nat /\ accepted \in Nat
    BY PipelineAssumption DEF Init
  <2> QED BY <2>1, <2>2, <2>3 DEF SinkTyped
<1>3. BrokerTyped
  BY DEF Init, BrokerTyped
<1>4. DatabaseTyped
  <2>1. NoRow \in RowType
    BY PipelineAssumption DEF NoRow, RowType
  <2> QED BY <2>1 DEF Init, DatabaseTyped, VehicleState
<1>5. lost \in BOOLEAN
  BY DEF Init
<1> QED BY <1>1, <1>2, <1>3, <1>4, <1>5 DEF PipelineTyped

\* Actions that leave a whole part alone keep its type.
LEMMA PartsUnchanged ==
  /\ EngineTyped /\ UNCHANGED engine => EngineTyped'
  /\ SinkTyped /\ UNCHANGED sink => SinkTyped'
  /\ BrokerTyped /\ UNCHANGED broker => BrokerTyped'
  /\ DatabaseTyped /\ UNCHANGED database => DatabaseTyped'
<1>1. ASSUME EngineTyped, UNCHANGED engine PROVE EngineTyped'
  BY <1>1 DEF EngineTyped, engine
<1>2. ASSUME SinkTyped, UNCHANGED sink PROVE SinkTyped'
  BY <1>2 DEF SinkTyped, sink
<1>3. ASSUME BrokerTyped, UNCHANGED broker PROVE BrokerTyped'
  BY <1>3 DEF BrokerTyped, broker
<1>4. ASSUME DatabaseTyped, UNCHANGED database PROVE DatabaseTyped'
  BY <1>4 DEF DatabaseTyped, database
<1> QED BY <1>1, <1>2, <1>3, <1>4

\* A change of place alone keeps the engine's type.
LEMMA MovesTyped ==
  ASSUME EngineTyped, UNCHANGED <<fleet, clock, opened, samples, queue>>,
         left' \in [Coroutine -> SUBSET Vehicle], pc' \in [Coroutine -> Places]
  PROVE  EngineTyped'
BY DEF EngineTyped

LEMMA TickTyped ==
  ASSUME PipelineTyped, Tick
  PROVE  PipelineTyped'
<1>1. EngineTyped
  BY DEF PipelineTyped
<1>2. PICK out :
        /\ \A v \in Vehicle : OutcomeOK(fleet[v], out[v])
        /\ fleet' = [v \in Vehicle |-> After(out[v])]
        /\ opened' = {<<v, out[v].after.trip>> : v \in
                        {u \in Vehicle : out[u].after.trip # fleet[u].trip}}
        /\ samples' = {Sample(v, out[v].after, clock + 1) : v \in
                         {u \in Vehicle : out[u].sampled}}
        /\ queue' = [queue EXCEPT !["loop"] = [v \in Vehicle |-> TripEvents(v, out[v])]]
  BY <1>1, TickOutcomes
<1>3. fleet' \in [Vehicle -> FleetType]
  <2>1. \A v \in Vehicle : After(out[v]) \in FleetType
    BY <1>2 DEF OutcomeOK
  <2> QED BY <1>2, <2>1
<1>4. clock + 1 \in 1 .. MaxTicks /\ clock' = clock + 1 /\ clock' \in 0 .. MaxTicks
  BY <1>1, PipelineAssumption DEF Tick, EngineTyped
<1>5. opened' \subseteq Trip
  <2> SUFFICES ASSUME NEW v \in Vehicle, out[v].after.trip # fleet[v].trip
               PROVE  out[v].after.trip \in 1 .. MaxTrips
    BY <1>2 DEF Trip
  <2>1. out[v].after.trip \in 0 .. MaxTrips /\ out[v].after.trip = fleet[v].trip + 1
    BY <1>2 DEF OutcomeOK
  <2>2. fleet[v].trip \in 0 .. MaxTrips /\ MaxTrips \in Nat
    BY <1>1, PipelineAssumption DEF EngineTyped, FleetType
  <2> QED BY <2>1, <2>2
<1>6. samples' \subseteq SampleType
  <2>1. \A v \in Vehicle : /\ out[v].after.trip \in 0 .. MaxTrips
                          /\ out[v].after.distance \in 0 .. Corridor
                          /\ out[v].after.state \in VehicleState
    BY <1>2 DEF OutcomeOK
  <2>2. \A v \in Vehicle : Sample(v, out[v].after, clock + 1) \in SampleType
    BY <1>4, <2>1 DEF Sample, SampleType
  <2> QED BY <1>2, <2>2
<1>7. IsFiniteSet(samples')
  <2> DEFINE S == {u \in Vehicle : out[u].sampled}
             f == [v \in S |-> Sample(v, out[v].after, clock + 1)]
  <2>1. IsFiniteSet(S)
    <3>1. S \subseteq Vehicle
      OBVIOUS
    <3> QED BY <3>1, PipelineAssumption, FS_Subset
  <2>2. f \in Surjection(S, samples')
    BY <1>2 DEF Surjection
  <2> QED BY <2>1, <2>2, FS_Surjection
<1>8. /\ queue' \in [Coroutine -> [Vehicle -> Seq(GoodEvents)]]
      /\ \A p \in Coroutine, v \in Vehicle : queue'[p][v] \in Seq(EventsOf(v))
  <2> DEFINE q == [v \in Vehicle |-> TripEvents(v, out[v])]
  <2>1. \A v \in Vehicle : q[v] \in Seq(EventsOf(v))
    BY <1>2, TripEventsTyped
  <2>2. \A v \in Vehicle : EventsOf(v) \subseteq GoodEvents
    BY DEF EventsOf
  <2>3. q \in [Vehicle -> Seq(GoodEvents)]
    BY <2>1, <2>2
  <2>4. queue \in [Coroutine -> [Vehicle -> Seq(GoodEvents)]] /\ "loop" \in Coroutine
    BY <1>1 DEF EngineTyped, Coroutine
  <2> HIDE DEF q
  <2>5. queue' = [queue EXCEPT !["loop"] = q]
    BY <1>2 DEF q
  <2>6. \A p \in Coroutine : queue'[p] = IF p = "loop" THEN q ELSE queue[p]
    BY <2>4, <2>5
  <2>7. queue' \in [Coroutine -> [Vehicle -> Seq(GoodEvents)]]
    BY <2>3, <2>4, <2>5
  <2> QED BY <1>1, <2>1, <2>6, <2>7 DEF EngineTyped
<1>9. pc' \in [Coroutine -> Places] /\ left' \in [Coroutine -> SUBSET Vehicle]
  BY <1>1 DEF Tick, EngineTyped, Places
<1>10. EngineTyped'
  BY <1>3, <1>4, <1>5, <1>6, <1>7, <1>8, <1>9 DEF EngineTyped
<1> QED BY <1>10, PartsUnchanged DEF Tick, PipelineTyped

\* An emission of one coroutine.
LEMMA EmitEventEffect ==
  ASSUME PipelineTyped, NEW p \in Coroutine, EmitTripEvent(p)
  PROVE  \E v \in Vehicle :
           /\ queue[p][v] # <<>> /\ Head(queue[p][v]) \in EventsOf(v)
           /\ pc[p] \in {"events", "pause"} /\ writing[p] = None
           /\ \/ /\ transport = "database" /\ UNCHANGED <<log, queue, history>>
                 /\ buffer' = {}
                 /\ \/ /\ buffer = {}
                       /\ writing' = [writing EXCEPT ![p] = Event(Head(queue[p][v]))]
                    \/ /\ buffer # {}
                       /\ writing' = [writing EXCEPT ![p] = Batch(buffer)]
              \/ /\ transport # "database" /\ UNCHANGED <<buffer, writing>>
                 /\ queue' = [queue EXCEPT ![p][v] = Tail(queue[p][v])]
                 /\ <<v, Head(queue[p][v]).trip>> \in Trip
                 /\ Head(queue[p][v]) \in EventsOn(<<v, Head(queue[p][v]).trip>>)
                 /\ Publish([t \in {<<v, Head(queue[p][v]).trip>>} |-> Head(queue[p][v])])
<1>1. PICK v \in Vehicle :
        /\ queue[p][v] # <<>>
        /\ IF transport = "database"
           THEN /\ SendDirect(p, Head(queue[p][v]))
                /\ UNCHANGED <<log, queue, history>>
           ELSE /\ Publish([t \in {<<v, Head(queue[p][v]).trip>>} |-> Head(queue[p][v])])
                /\ Dequeue(p, v)
                /\ UNCHANGED <<buffer, writing>>
  BY DEF EmitTripEvent
<1> DEFINE e == Head(queue[p][v])
<1>2. e \in EventsOf(v)
  BY <1>1, HeadTyped DEF PipelineTyped
<1>3. <<v, e.trip>> \in Trip /\ e \in EventsOn(<<v, e.trip>>)
  <2> HIDE DEF e
  <2> QED BY <1>2 DEF EventsOf, GoodEvents, EventType, Trip, EventsOn
<1>4. pc[p] \in {"events", "pause"} /\ writing[p] = None
  BY DEF EmitTripEvent
<1>5. CASE transport = "database"
  BY <1>1, <1>2, <1>4, <1>5 DEF SendDirect
<1>6. CASE transport # "database"
  <2>1. queue' = [queue EXCEPT ![p][v] = Tail(queue[p][v])]
    BY <1>1, <1>6 DEF Dequeue
  <2> QED BY <1>1, <1>2, <1>3, <1>4, <1>6, <2>1
<1> QED BY <1>5, <1>6

LEMMA TripKeysApart == Trip \subseteq Key /\ Vehicle \subseteq Key /\ \A t \in Trip : t \notin Vehicle
BY PipelineAssumption DEF Key

\* Messages of one key that fit the key.
LEMMA OneMessage ==
  ASSUME NEW k \in Key, NEW m \in Message(k)
  PROVE  LET ms == [t \in {k} |-> m]
         IN  DOMAIN ms = {k} /\ DOMAIN ms \subseteq Key /\ \A t \in DOMAIN ms : ms[t] \in Message(t)
OBVIOUS

LEMMA EmitEventTyped ==
  ASSUME PipelineTyped, NEW p \in Coroutine, EmitTripEvent(p)
  PROVE  PipelineTyped'
<1>0. EngineTyped /\ SinkTyped /\ BrokerTyped /\ DatabaseTyped /\ lost \in BOOLEAN
  BY DEF PipelineTyped
<1>1. PICK v \in Vehicle :
           /\ queue[p][v] # <<>> /\ Head(queue[p][v]) \in EventsOf(v)
           /\ \/ /\ UNCHANGED <<log, queue, history>>
                 /\ buffer' = {}
                 /\ \/ /\ buffer = {}
                       /\ writing' = [writing EXCEPT ![p] = Event(Head(queue[p][v]))]
                    \/ /\ buffer # {}
                       /\ writing' = [writing EXCEPT ![p] = Batch(buffer)]
              \/ /\ UNCHANGED <<buffer, writing>>
                 /\ queue' = [queue EXCEPT ![p][v] = Tail(queue[p][v])]
                 /\ <<v, Head(queue[p][v]).trip>> \in Trip
                 /\ Head(queue[p][v]) \in EventsOn(<<v, Head(queue[p][v]).trip>>)
                 /\ Publish([t \in {<<v, Head(queue[p][v]).trip>>} |-> Head(queue[p][v])])
  BY EmitEventEffect
<1>2. UNCHANGED <<fleet, clock, pc, opened, samples, left, transport, emitted, failed, accepted, read,
                  database>>
  BY DEF EmitTripEvent, database
<1>3. DatabaseTyped'
  BY <1>0, <1>2, PartsUnchanged
<1>4. CASE /\ UNCHANGED <<log, queue, history>>
           /\ buffer' = {}
           /\ \/ /\ buffer = {}
                 /\ writing' = [writing EXCEPT ![p] = Event(Head(queue[p][v]))]
              \/ /\ buffer # {}
                 /\ writing' = [writing EXCEPT ![p] = Batch(buffer)]
  <2>1. PICK w \in WriteType : /\ writing' = [writing EXCEPT ![p] = w]
                               /\ w.kind = "batch" => IsFiniteSet(w.rows)
    <3>1. Head(queue[p][v]) \in GoodEvents
      BY <1>1 DEF EventsOf
    <3>2. CASE buffer = {}
      BY <1>4, <3>1, <3>2, EventIsWrite
    <3>3. CASE buffer # {}
      <4>1. buffer \subseteq SampleType /\ IsFiniteSet(buffer)
        BY <1>0 DEF SinkTyped
      <4> QED BY <1>4, <3>3, <4>1, BatchIsWrite
    <3> QED BY <3>2, <3>3
  <2>2. /\ writing' \in [Coroutine -> {None} \cup WriteType]
        /\ \A q \in Coroutine :
             writing'[q] # None /\ writing'[q].kind = "batch" => IsFiniteSet(writing'[q].rows)
    BY <1>0, <2>1, WritingTyped
  <2>3. SinkTyped'
    BY <1>0, <1>2, <1>4, <2>2, FS_EmptySet DEF SinkTyped
  <2>4. EngineTyped'
    BY <1>0, <1>2, <1>4 DEF EngineTyped
  <2>5. BrokerTyped' /\ lost' = lost
    BY <1>0, <1>2, <1>4, PartsUnchanged DEF broker, history
  <2> QED BY <1>0, <1>3, <2>3, <2>4, <2>5 DEF PipelineTyped
<1>5. CASE /\ UNCHANGED <<buffer, writing>>
           /\ queue' = [queue EXCEPT ![p][v] = Tail(queue[p][v])]
           /\ <<v, Head(queue[p][v]).trip>> \in Trip
           /\ Head(queue[p][v]) \in EventsOn(<<v, Head(queue[p][v]).trip>>)
           /\ Publish([t \in {<<v, Head(queue[p][v]).trip>>} |-> Head(queue[p][v])])
  <2>1. SinkTyped'
    BY <1>0, <1>2, <1>5, PartsUnchanged DEF sink
  <2>2. Tail(queue[p][v]) \in Seq(EventsOf(v))
    BY <1>0, <1>1, HeadTyped
  <2>3. /\ queue' \in [Coroutine -> [Vehicle -> Seq(GoodEvents)]]
        /\ \A r \in Coroutine, u \in Vehicle : queue'[r][u] \in Seq(EventsOf(u))
    BY <1>0, <1>5, <2>2, QueueTyped
  <2>4. EngineTyped'
    BY <1>0, <1>2, <2>3 DEF EngineTyped
  <2>5. PICK k, m : k = <<v, Head(queue[p][v]).trip>> /\ m = Head(queue[p][v])
    OBVIOUS
  <2>6. k \in Key /\ m \in Message(k) /\ Publish([t \in {k} |-> m])
    BY <1>5, <2>5, TripKeysApart DEF Message
  <2>7. DOMAIN [t \in {k} |-> m] \subseteq Key /\ \A t \in DOMAIN [x \in {k} |-> m] : [x \in {k} |-> m][t] \in Message(t)
    BY <2>6
  <2>8. /\ log' \in [Key -> Seq(SampleType \cup GoodEvents)]
        /\ \A l \in Key : log'[l] \in Seq(Message(l))
        /\ \A l \in Key : Len(log[l]) <= Len(log'[l])
        /\ lost' = lost \/ lost' = TRUE
    BY <1>0, <2>6, <2>7, PublishTyped
  <2>9. BrokerTyped'
    <3>1. \A l \in Key : read[l] <= Len(log[l]) /\ read[l] \in Nat /\ Len(log[l]) \in Nat
      BY <1>0 DEF BrokerTyped
    <3>2. \A l \in Key : Len(log'[l]) \in Nat
      BY <2>8
    <3>3. \A l \in Key : read[l] <= Len(log'[l])
      BY <2>8, <3>1, <3>2
    <3> QED BY <1>0, <1>2, <2>8, <3>3 DEF BrokerTyped
  <2> QED BY <1>0, <1>3, <2>1, <2>4, <2>8, <2>9 DEF PipelineTyped
<1> QED BY <1>1, <1>4, <1>5

\* The commit of a transaction.
LEMMA CommitEffect ==
  ASSUME PipelineTyped, NEW p \in Coroutine, WriteCommits(p)
  PROVE  /\ writing[p] # None /\ writing' = [writing EXCEPT ![p] = None] /\ writing'[p] = None
         /\ \A q \in Coroutine \ {p} : writing'[q] = writing[q]
         /\ UNCHANGED <<fleet, clock, run, pc, opened, samples, left, failing, transport, buffer, failed,
                        accepted, log, read, lost>>
         /\ \/ /\ writing[p].kind = "batch" /\ writing[p].rows \subseteq SampleType
               /\ IsFiniteSet(writing[p].rows)
               /\ WriteTelemetryBatch(writing[p].rows)
               /\ emitted' = emitted + Cardinality(writing[p].rows) /\ UNCHANGED queue
            \/ /\ writing[p].kind = "event" /\ writing[p].event \in GoodEvents
               /\ ApplyTripEvent(writing[p].event)
               /\ Dequeue(p, writing[p].event.vehicle) /\ UNCHANGED emitted
<1>1. SinkTyped
  BY DEF PipelineTyped
<1>2. writing[p] # None /\ writing' = [writing EXCEPT ![p] = None]
  BY DEF WriteCommits
<1>3. writing'[p] = None /\ \A q \in Coroutine \ {p} : writing'[q] = writing[q]
  BY <1>1, <1>2 DEF SinkTyped
<1>4. \/ writing[p].kind = "batch" /\ writing[p].rows \subseteq SampleType
         /\ IsFiniteSet(writing[p].rows)
      \/ writing[p].kind = "event" /\ writing[p].event \in GoodEvents
  BY <1>1, <1>2, WriteCases
<1>5. UNCHANGED <<fleet, clock, run, pc, opened, samples, left, failing, transport, buffer, failed,
                  accepted, log, read, lost>>
  BY DEF WriteCommits, broker, history
<1>6. CASE writing[p].kind = "batch"
  BY <1>2, <1>3, <1>4, <1>5, <1>6 DEF WriteCommits
<1>7. CASE writing[p].kind = "event"
  BY <1>2, <1>3, <1>4, <1>5, <1>7 DEF WriteCommits
<1> QED BY <1>4, <1>6, <1>7

-----------------------------------------------------------------------------
(* The inductive invariant: how a tick flows through the places of the code. *)

\* A coroutine waits for a transaction only where the code awaits one, and only the direct
\* sink has transactions and a buffer.
QuietPlaces ==
  /\ pc["loop"] \in {"tick", "open", "samples", "acks", "events", "pause", "flush", "close",
                     "closing", "ended"}
  /\ pc["stop"] \in {"none", "pause", "flush", "wait", "done"}
  /\ pc["loop"] \in {"tick", "open", "samples", "close", "ended"} => writing["loop"] = None
  /\ pc["stop"] \in {"none", "wait", "done"} => writing["stop"] = None
  /\ transport # "database" => buffer = {} /\ \A p \in Coroutine : writing[p] = None

\* Nothing of a tick is left when the tick is over.
TickIsOver ==
  /\ pc["loop"] # "open" => opened = {}
  /\ pc["loop"] \notin {"open", "samples"} => samples = {}
  /\ pc["loop"] \in {"tick", "flush", "close", "closing", "ended"} => queue["loop"] = NoEvents
  /\ pc["loop"] \in {"closing", "ended"} => buffer = {}

\* A trip event leaves the queue once its transaction is over.
HeadIsWriting ==
  \A p \in Coroutine :
    writing[p] # None /\ writing[p].kind = "event" =>
      LET e == writing[p].event
      IN queue[p][e.vehicle] # <<>> /\ Head(queue[p][e.vehicle]) = e

\* The samples of the tick are not the buffered ones.
SamplesAreNew ==
  /\ \A s \in samples : s.at = clock
  /\ \A s \in buffer :
       /\ s.at <= clock
       /\ pc["loop"] \in {"open", "samples"} => s.at < clock

FlowInv == QuietPlaces /\ TickIsOver /\ HeadIsWriting /\ SamplesAreNew

LEMMA CommitTyped ==
  ASSUME PipelineTyped, HeadIsWriting, NEW p \in Coroutine, WriteCommits(p)
  PROVE  PipelineTyped'
<1>0. EngineTyped /\ SinkTyped /\ BrokerTyped /\ DatabaseTyped /\ lost \in BOOLEAN
  BY DEF PipelineTyped
<1>1. /\ writing[p] # None /\ writing' = [writing EXCEPT ![p] = None]
      /\ UNCHANGED <<fleet, clock, run, pc, opened, samples, left, failing, transport, buffer, failed,
                     accepted, log, read, lost>>
      /\ \/ /\ writing[p].kind = "batch" /\ writing[p].rows \subseteq SampleType
            /\ IsFiniteSet(writing[p].rows)
            /\ WriteTelemetryBatch(writing[p].rows)
            /\ emitted' = emitted + Cardinality(writing[p].rows) /\ UNCHANGED queue
         \/ /\ writing[p].kind = "event" /\ writing[p].event \in GoodEvents
            /\ ApplyTripEvent(writing[p].event)
            /\ Dequeue(p, writing[p].event.vehicle) /\ UNCHANGED emitted
  BY CommitEffect
<1>2. /\ writing' \in [Coroutine -> {None} \cup WriteType]
      /\ \A q \in Coroutine :
           writing'[q] # None /\ writing'[q].kind = "batch" => IsFiniteSet(writing'[q].rows)
  <2>1. SinkTyped /\ None \in {None} \cup WriteType
    BY <1>0
  <2> QED BY <1>1, <2>1, WritingTyped
<1>3. BrokerTyped'
  BY <1>0, <1>1, PartsUnchanged DEF broker
<1>4. CASE /\ writing[p].kind = "batch" /\ writing[p].rows \subseteq SampleType
           /\ IsFiniteSet(writing[p].rows)
           /\ WriteTelemetryBatch(writing[p].rows)
           /\ emitted' = emitted + Cardinality(writing[p].rows) /\ UNCHANGED queue
  <2>1. emitted' \in Nat
    BY <1>0, <1>4, FS_CardinalityType DEF SinkTyped
  <2>2. SinkTyped'
    BY <1>0, <1>1, <1>2, <2>1 DEF SinkTyped
  <2>3. EngineTyped'
    BY <1>0, <1>1, <1>4, PartsUnchanged DEF engine
  <2>4. DatabaseTyped'
    BY <1>0, <1>4, BatchTyped
  <2> QED BY <1>0, <1>1, <1>3, <2>2, <2>3, <2>4 DEF PipelineTyped
<1>5. CASE /\ writing[p].kind = "event" /\ writing[p].event \in GoodEvents
           /\ ApplyTripEvent(writing[p].event)
           /\ Dequeue(p, writing[p].event.vehicle) /\ UNCHANGED emitted
  <2>1. SinkTyped'
    BY <1>0, <1>1, <1>2, <1>5 DEF SinkTyped
  <2>2. PICK v \in Vehicle : v = writing[p].event.vehicle
    BY <1>5 DEF GoodEvents, EventType
  <2>3. queue[p][v] # <<>>
    BY <1>1, <1>5, <2>2 DEF HeadIsWriting
  <2>4. Tail(queue[p][v]) \in Seq(EventsOf(v))
    BY <1>0, <2>3, HeadTyped
  <2>5. queue' = [queue EXCEPT ![p][v] = Tail(queue[p][v])]
    BY <1>5, <2>2 DEF Dequeue
  <2>6. /\ queue' \in [Coroutine -> [Vehicle -> Seq(GoodEvents)]]
        /\ \A r \in Coroutine, u \in Vehicle : queue'[r][u] \in Seq(EventsOf(u))
    BY <1>0, <2>4, <2>5, QueueTyped
  <2>7. EngineTyped'
    BY <1>0, <1>1, <2>6 DEF EngineTyped
  <2>8. DatabaseTyped'
    BY <1>0, <1>5, EventTyped
  <2> QED BY <1>0, <1>1, <1>3, <2>1, <2>7, <2>8 DEF PipelineTyped
<1> QED BY <1>1, <1>4, <1>5

\* A transaction that fails.
LEMMA BatchFailsTyped ==
  ASSUME PipelineTyped, NEW p \in Coroutine, BatchFails(p)
  PROVE  /\ PipelineTyped'
         /\ writing[p] # None /\ writing[p].kind = "batch" /\ IsFiniteSet(writing[p].rows)
         /\ writing'[p] = None /\ \A q \in Coroutine \ {p} : writing'[q] = writing[q]
<1>0. EngineTyped /\ SinkTyped /\ BrokerTyped /\ DatabaseTyped /\ None \in {None} \cup WriteType
  BY DEF PipelineTyped
<1>1. /\ writing[p] # None /\ writing[p].kind = "batch"
      /\ writing' = [writing EXCEPT ![p] = None]
      /\ failed'  = failed + Cardinality(writing[p].rows)
      /\ lost'    = TRUE
      /\ UNCHANGED <<engine, transport, buffer, emitted, accepted, broker, database>>
  BY DEF BatchFails
<1>2. /\ writing' \in [Coroutine -> {None} \cup WriteType]
      /\ \A q \in Coroutine :
           writing'[q] # None /\ writing'[q].kind = "batch" => IsFiniteSet(writing'[q].rows)
      /\ writing'[p] = None /\ \A q \in Coroutine \ {p} : writing'[q] = writing[q]
  BY <1>0, <1>1, WritingTyped
<1>3. IsFiniteSet(writing[p].rows)
  BY <1>0, <1>1 DEF SinkTyped
<1>4. failed' \in Nat
  BY <1>0, <1>1, <1>3, FS_CardinalityType DEF SinkTyped
<1>5. SinkTyped'
  BY <1>0, <1>1, <1>2, <1>4 DEF SinkTyped
<1> QED BY <1>0, <1>1, <1>2, <1>3, <1>5, PartsUnchanged DEF PipelineTyped

LEMMA EventFailsTyped ==
  ASSUME PipelineTyped, NEW p \in Coroutine, EventFails(p)
  PROVE  /\ PipelineTyped'
         /\ writing'[p] = None /\ \A q \in Coroutine \ {p} : writing'[q] = writing[q]
         /\ queue'[p] = NoEvents /\ \A q \in Coroutine \ {p} : queue'[q] = queue[q]
         /\ pc'[p] \in (IF p = "stop" THEN {"done"} ELSE {"close", "pause"})
         /\ \A q \in Coroutine \ {p} : pc'[q] = pc[q]
<1>0. EngineTyped /\ SinkTyped /\ BrokerTyped /\ DatabaseTyped /\ None \in {None} \cup WriteType
  BY DEF PipelineTyped
<1>1. /\ writing' = [writing EXCEPT ![p] = None]
      /\ queue' = [queue EXCEPT ![p] = NoEvents]
      /\ lost'  = TRUE
      /\ UNCHANGED <<fleet, clock, run, opened, samples, transport, buffer, emitted, failed,
                     accepted, broker, database>>
  BY DEF EventFails
<1>2. /\ writing' \in [Coroutine -> {None} \cup WriteType]
      /\ \A q \in Coroutine :
           writing'[q] # None /\ writing'[q].kind = "batch" => IsFiniteSet(writing'[q].rows)
      /\ writing'[p] = None /\ \A q \in Coroutine \ {p} : writing'[q] = writing[q]
  <2>1. None # None /\ None.kind = "batch" => IsFiniteSet(None.rows)
    OBVIOUS
  <2> QED BY <1>0, <1>1, <2>1, WritingTyped
<1>3. /\ queue' \in [Coroutine -> [Vehicle -> Seq(GoodEvents)]]
      /\ \A r \in Coroutine, u \in Vehicle : queue'[r][u] \in Seq(EventsOf(u))
      /\ queue'[p] = NoEvents /\ \A r \in Coroutine \ {p} : queue'[r] = queue[r]
  BY <1>0, <1>1, QueueEmptied
<1>4. /\ pc' \in [Coroutine -> Places]
      /\ pc'[p] \in (IF p = "stop" THEN {"done"} ELSE {"close", "pause"})
      /\ \A q \in Coroutine \ {p} : pc'[q] = pc[q]
  <2>1. pc \in [Coroutine -> Places]
    BY <1>0 DEF EngineTyped
  <2>2. pc' = [pc EXCEPT ![p] = IF p = "stop" THEN "done" ELSE IF failing THEN "close" ELSE "pause"]
    BY DEF EventFails
  <2> QED BY <2>1, <2>2 DEF Places
<1>5. left' \in [Coroutine -> SUBSET Vehicle]
  <2>1. left \in [Coroutine -> SUBSET Vehicle]
    BY <1>0 DEF EngineTyped
  <2>2. left' = left \/ left' = [left EXCEPT ![p] = IF failing THEN {} ELSE Vehicle]
    BY DEF EventFails
  <2> QED BY <2>1, <2>2
<1>6. EngineTyped'
  BY <1>0, <1>1, <1>3, <1>4, <1>5 DEF EngineTyped
<1>7. SinkTyped'
  BY <1>0, <1>1, <1>2 DEF SinkTyped
<1> QED BY <1>0, <1>1, <1>2, <1>3, <1>4, <1>6, <1>7, PartsUnchanged DEF PipelineTyped

\* The sink writes what it has buffered, if there is anything.
LEMMA FlushEffect ==
  ASSUME SinkTyped, NEW p \in Coroutine, StartFlush(p), writing[p] = None
  PROVE  /\ buffer' = {}
         /\ \A q \in Coroutine \ {p} : writing'[q] = writing[q]
         /\ \/ buffer = {} /\ writing' = writing
            \/ buffer # {} /\ writing'[p] = Batch(buffer)
         /\ writing' \in [Coroutine -> {None} \cup WriteType]
         /\ \A q \in Coroutine :
              writing'[q] # None /\ writing'[q].kind = "batch" => IsFiniteSet(writing'[q].rows)
<1>1. CASE buffer = {}
  BY <1>1 DEF StartFlush, SinkTyped
<1>2. CASE buffer # {}
  <2>1. Batch(buffer) \in WriteType /\ Batch(buffer).rows = buffer /\ IsFiniteSet(buffer)
    BY BatchIsWrite DEF SinkTyped
  <2>2. writing' = [writing EXCEPT ![p] = Batch(buffer)] /\ buffer' = {}
    BY <1>2 DEF StartFlush
  <2>3. PICK w : w = Batch(buffer)
    OBVIOUS
  <2>4. w \in {None} \cup WriteType /\ (w # None /\ w.kind = "batch" => IsFiniteSet(w.rows))
    BY <2>1, <2>3
  <2>5. writing' = [writing EXCEPT ![p] = w]
    BY <2>2, <2>3
  <2>6. /\ writing' \in [Coroutine -> {None} \cup WriteType]
        /\ \A q \in Coroutine :
             writing'[q] # None /\ writing'[q].kind = "batch" => IsFiniteSet(writing'[q].rows)
        /\ writing'[p] = w
        /\ \A q \in Coroutine \ {p} : writing'[q] = writing[q]
    BY <2>4, <2>5, WritingTyped
  <2> QED BY <1>2, <2>2, <2>3, <2>6
<1> QED BY <1>1, <1>2

LEMMA FlushTyped ==
  ASSUME PipelineTyped, NEW p \in Coroutine, StartFlush(p), writing[p] = None,
         pc' \in [Coroutine -> Places],
         UNCHANGED <<fleet, clock, opened, samples, queue, left, transport, emitted, failed, accepted,
                     broker, database, lost>>
  PROVE  PipelineTyped'
<1>0. EngineTyped /\ SinkTyped /\ BrokerTyped /\ DatabaseTyped
  BY DEF PipelineTyped
<1>1. /\ buffer' = {}
      /\ writing' \in [Coroutine -> {None} \cup WriteType]
      /\ \A q \in Coroutine :
           writing'[q] # None /\ writing'[q].kind = "batch" => IsFiniteSet(writing'[q].rows)
  BY <1>0, FlushEffect
<1>2. SinkTyped'
  BY <1>0, <1>1, FS_EmptySet DEF SinkTyped
<1>3. EngineTyped'
  BY <1>0 DEF EngineTyped
<1> QED BY <1>0, <1>2, <1>3, PartsUnchanged DEF PipelineTyped

\* An emission of the samples of a tick.
LEMMA EmitSamplesEffect ==
  ASSUME PipelineTyped, EmitSamples
  PROVE  /\ samples' = {} /\ accepted' = accepted + Cardinality(samples)
         /\ pc["loop"] = "samples" /\ pc' = [pc EXCEPT !["loop"] = "acks"]
         /\ UNCHANGED <<fleet, clock, run, opened, queue, left, failing, transport, emitted, failed,
                        read, database>>
         /\ buffer \cup samples \subseteq SampleType /\ IsFiniteSet(buffer \cup samples)
         /\ \/ /\ transport = "database"
               /\ buffer' = buffer \cup samples /\ UNCHANGED <<writing, log, history>>
            \/ /\ transport = "database"
               /\ buffer' = {} /\ writing' = [writing EXCEPT !["loop"] = Batch(buffer \cup samples)]
               /\ UNCHANGED <<log, history>>
            \/ /\ transport # "database"
               /\ UNCHANGED <<buffer, writing>>
               /\ \E ms : /\ DOMAIN ms = {x.vehicle : x \in samples} /\ DOMAIN ms \subseteq Key
                          /\ \A v \in DOMAIN ms : ms[v] \in SamplesOf(samples, v) /\ ms[v] \in Message(v)
                          /\ Publish(ms)
<1>0. buffer \subseteq SampleType /\ samples \subseteq SampleType /\ IsFiniteSet(buffer)
      /\ IsFiniteSet(samples)
  BY DEF PipelineTyped, EngineTyped, SinkTyped
<1>1. buffer \cup samples \subseteq SampleType /\ IsFiniteSet(buffer \cup samples)
  BY <1>0, FS_Union
<1>2. CASE transport = "database"
  BY <1>1, <1>2 DEF EmitSamples
<1>3. CASE transport # "database"
  <2> DEFINE ms == [v \in {x.vehicle : x \in samples} |-> Newest(SamplesOf(samples, v))]
  <2>1. Publish(ms) /\ DOMAIN ms = {x.vehicle : x \in samples}
    BY <1>3 DEF EmitSamples
  <2>2. \A x \in samples : x.vehicle \in Vehicle
    BY <1>0 DEF SampleType
  <2>3. DOMAIN ms \subseteq Vehicle /\ DOMAIN ms \subseteq Key
    BY <2>1, <2>2 DEF Key
  <2>4. ASSUME NEW v \in DOMAIN ms PROVE ms[v] \in SamplesOf(samples, v) /\ ms[v] \in Message(v)
    <3>1. SamplesOf(samples, v) # {} /\ SamplesOf(samples, v) \subseteq SampleType
      BY <1>0 DEF SamplesOf
    <3>2. Newest(SamplesOf(samples, v)) \in SamplesOf(samples, v)
      BY <3>1, NewestIsNewest
    <3>3. ms[v] \in SamplesOf(samples, v)
      BY <3>2
    <3>4. v \in Vehicle
      BY <2>3
    <3> HIDE DEF ms
    <3> QED BY <3>1, <3>3, <3>4 DEF Message, SamplesBy, SamplesOf
  <2> HIDE DEF ms
  <2>5. UNCHANGED <<buffer, writing>>
    BY <1>3 DEF EmitSamples
  <2> QED BY <1>1, <1>3, <2>1, <2>3, <2>4, <2>5 DEF EmitSamples
<1> QED BY <1>2, <1>3

LEMMA BrokerGrows ==
  ASSUME BrokerTyped, NEW ms, DOMAIN ms \subseteq Key, \A k \in DOMAIN ms : ms[k] \in Message(k),
         Publish(ms), UNCHANGED read
  PROVE  BrokerTyped'
<1>1. /\ log' \in [Key -> Seq(SampleType \cup GoodEvents)]
      /\ \A l \in Key : log'[l] \in Seq(Message(l))
      /\ \A l \in Key : Len(log[l]) <= Len(log'[l])
  BY PublishTyped
<1>2. \A l \in Key : read[l] <= Len(log[l]) /\ read[l] \in Nat /\ Len(log[l]) \in Nat /\ Len(log'[l]) \in Nat
  BY <1>1 DEF BrokerTyped
<1>3. \A l \in Key : read[l] <= Len(log'[l])
  BY <1>1, <1>2
<1> QED BY <1>1, <1>3 DEF BrokerTyped

LEMMA EmitSamplesTyped ==
  ASSUME PipelineTyped, EmitSamples
  PROVE  PipelineTyped'
<1>0. EngineTyped /\ SinkTyped /\ BrokerTyped /\ DatabaseTyped /\ lost \in BOOLEAN
  BY DEF PipelineTyped
<1>1. /\ samples' = {} /\ accepted' = accepted + Cardinality(samples)
      /\ pc' = [pc EXCEPT !["loop"] = "acks"]
      /\ UNCHANGED <<fleet, clock, opened, queue, left, transport, emitted, failed,
                     read, database>>
      /\ buffer \cup samples \subseteq SampleType /\ IsFiniteSet(buffer \cup samples)
      /\ \/ buffer' = buffer \cup samples /\ UNCHANGED <<writing, log, history>>
         \/ /\ buffer' = {} /\ writing' = [writing EXCEPT !["loop"] = Batch(buffer \cup samples)]
            /\ UNCHANGED <<log, history>>
         \/ /\ UNCHANGED <<buffer, writing>>
            /\ \E ms : /\ DOMAIN ms \subseteq Key /\ \A v \in DOMAIN ms : ms[v] \in Message(v)
                       /\ Publish(ms)
  BY EmitSamplesEffect
<1>2. EngineTyped'
  <2>1. pc' \in [Coroutine -> Places]
    BY <1>0, <1>1 DEF EngineTyped, Places
  <2> QED BY <1>0, <1>1, <2>1, FS_EmptySet DEF EngineTyped
<1>3. DatabaseTyped'
  BY <1>0, <1>1, PartsUnchanged
<1>4. accepted' \in Nat
  <2>1. accepted \in Nat /\ Cardinality(samples) \in Nat
    BY <1>0, FS_CardinalityType DEF SinkTyped, EngineTyped
  <2> QED BY <1>1, <2>1
<1>5. CASE buffer' = buffer \cup samples /\ UNCHANGED <<writing, log, history>>
  <2>1. SinkTyped' /\ BrokerTyped' /\ lost' = lost
    BY <1>0, <1>1, <1>4, <1>5 DEF SinkTyped, BrokerTyped, history
  <2> QED BY <1>0, <1>2, <1>3, <2>1 DEF PipelineTyped
<1>6. CASE /\ buffer' = {} /\ writing' = [writing EXCEPT !["loop"] = Batch(buffer \cup samples)]
           /\ UNCHANGED <<log, history>>
  <2>1. PICK w : w = Batch(buffer \cup samples)
    OBVIOUS
  <2>2. w \in {None} \cup WriteType /\ (w # None /\ w.kind = "batch" => IsFiniteSet(w.rows))
    BY <1>1, <2>1, BatchIsWrite
  <2>3. writing' = [writing EXCEPT !["loop"] = w] /\ "loop" \in Coroutine
    BY <1>6, <2>1 DEF Coroutine
  <2>4. /\ writing' \in [Coroutine -> {None} \cup WriteType]
        /\ \A q \in Coroutine :
             writing'[q] # None /\ writing'[q].kind = "batch" => IsFiniteSet(writing'[q].rows)
    BY <1>0, <2>2, <2>3, WritingTyped
  <2>5. SinkTyped'
    BY <1>0, <1>1, <1>4, <1>6, <2>4, FS_EmptySet DEF SinkTyped
  <2>6. BrokerTyped' /\ lost' = lost
    BY <1>0, <1>1, <1>6 DEF BrokerTyped, history
  <2> QED BY <1>0, <1>2, <1>3, <2>5, <2>6 DEF PipelineTyped
<1>7. CASE /\ UNCHANGED <<buffer, writing>>
           /\ \E ms : /\ DOMAIN ms \subseteq Key /\ \A v \in DOMAIN ms : ms[v] \in Message(v)
                      /\ Publish(ms)
  <2>1. SinkTyped'
    BY <1>0, <1>1, <1>4, <1>7 DEF SinkTyped
  <2>2. PICK ms : /\ DOMAIN ms \subseteq Key /\ \A v \in DOMAIN ms : ms[v] \in Message(v)
                  /\ Publish(ms)
    BY <1>7
  <2>3. BrokerTyped' /\ (lost' = lost \/ lost' = TRUE)
    BY <1>0, <1>1, <2>2, BrokerGrows, PublishTyped
  <2> QED BY <1>0, <1>2, <1>3, <2>1, <2>3 DEF PipelineTyped
<1> QED BY <1>1, <1>5, <1>6, <1>7

\* A vehicle whose open trip is paused; it stays where it is.
LEMMA PauseEffect ==
  ASSUME PipelineTyped, NEW p \in Coroutine, PauseOpenTrip(p)
  PROVE  /\ PipelineTyped'
         /\ pc[p] = "pause" /\ queue[p] = NoEvents /\ writing[p] = None
         /\ UNCHANGED <<clock, run, pc, opened, samples, failing, sink, broker, database, history>>
         /\ \A v \in Vehicle : fleet'[v].trip = fleet[v].trip /\ fleet'[v].distance = fleet[v].distance
         /\ \A v \in Vehicle : fleet'[v].state = "idle" <=> fleet[v].state = "idle"
         /\ \A q \in Coroutine \ {p} : queue'[q] = queue[q]
         /\ \A v \in Vehicle : \A i \in 1 .. Len(queue'[p][v]) : queue'[p][v][i].type = "paused"
<1>0. EngineTyped /\ SinkTyped /\ BrokerTyped /\ DatabaseTyped /\ lost \in BOOLEAN
  BY DEF PipelineTyped
<1>1. PICK v \in Vehicle :
       /\ left' = [left EXCEPT ![p] = left[p] \ {v}]
       /\ IF HasOpenTrip(fleet[v])
          THEN /\ fleet' = [fleet EXCEPT ![v] = PauseTrip(fleet[v])]
               /\ queue' = [queue EXCEPT ![p][v] = <<TripEvent(v, fleet[v], "paused")>>]
          ELSE UNCHANGED <<fleet, queue>>
  <2>1. left[p] \subseteq Vehicle
    BY <1>0 DEF EngineTyped
  <2> QED BY <2>1 DEF PauseOpenTrip
<1>2. /\ pc[p] = "pause" /\ queue[p] = NoEvents /\ writing[p] = None
      /\ UNCHANGED <<clock, run, pc, opened, samples, failing, sink, broker, database, history>>
  BY DEF PauseOpenTrip
<1>3. left' \in [Coroutine -> SUBSET Vehicle]
  <2>1. left \in [Coroutine -> SUBSET Vehicle]
    BY <1>0 DEF EngineTyped
  <2> QED BY <1>1, <2>1
<1>4. \A u \in Vehicle : NoEvents[u] = <<>>
  BY DEF NoEvents
<1>5. CASE ~HasOpenTrip(fleet[v])
  <2>1. UNCHANGED <<fleet, queue>>
    BY <1>1, <1>5
  <2>2. EngineTyped'
    BY <1>0, <1>2, <1>3, <2>1 DEF EngineTyped
  <2>3. \A u \in Vehicle : queue'[p][u] = <<>>
    BY <1>2, <1>4, <2>1
  <2>4. PipelineTyped'
    BY <1>0, <1>2, <2>2, PartsUnchanged DEF PipelineTyped, history
  <2> QED BY <1>2, <2>1, <2>3, <2>4
<1>6. CASE HasOpenTrip(fleet[v])
  <2>1. /\ fleet' = [fleet EXCEPT ![v] = PauseTrip(fleet[v])]
        /\ queue' = [queue EXCEPT ![p][v] = <<TripEvent(v, fleet[v], "paused")>>]
    BY <1>1, <1>6
  <2>2. fleet \in [Vehicle -> FleetType] /\ fleet[v] \in FleetType
    BY <1>0, <1>3 DEF EngineTyped
  <2>3. /\ fleet[v].trip \in 1 .. MaxTrips /\ fleet[v].state # "idle"
        /\ fleet[v].distance \in 0 .. Corridor /\ fleet[v].distance < Corridor
    BY <1>6, <2>2, PipelineAssumption DEF FleetType, HasOpenTrip
  <2>4. /\ PauseTrip(fleet[v]) = [state |-> "stopped", trip |-> fleet[v].trip,
                                  distance |-> fleet[v].distance]
        /\ PauseTrip(fleet[v]) \in FleetType
    BY <2>2, <2>3, PipelineAssumption DEF FleetType, PauseTrip
  <2>5. fleet' \in [Vehicle -> FleetType] /\ \A u \in Vehicle \ {v} : fleet'[u] = fleet[u]
    BY <2>1, <2>2, <2>4
  <2>6. fleet'[v] = PauseTrip(fleet[v])
    BY <1>3, <2>1, <2>2
  <2>7. TripEvent(v, fleet[v], "paused") \in EventsOf(v)
        /\ TripEvent(v, fleet[v], "paused").type = "paused"
    BY <1>3, <2>3 DEF TripEvent, EventsOf, GoodEvents, EventType
  <2>8. PICK e \in EventsOf(v) : e = TripEvent(v, fleet[v], "paused") /\ e.type = "paused"
    BY <2>7
  <2>9. v \in Vehicle /\ EngineTyped /\ <<e>> \in Seq(EventsOf(v))
        /\ queue' = [queue EXCEPT ![p][v] = <<e>>]
    BY <1>0, <1>3, <2>1, <2>8
  <2>10. /\ queue' \in [Coroutine -> [Vehicle -> Seq(GoodEvents)]]
         /\ \A r \in Coroutine, u \in Vehicle : queue'[r][u] \in Seq(EventsOf(u))
         /\ queue'[p][v] = <<e>>
         /\ \A r \in Coroutine, u \in Vehicle : r # p \/ u # v => queue'[r][u] = queue[r][u]
    <3> DEFINE q == <<e>>
    <3>0. EngineTyped
      BY <1>0
    <3>1. q \in Seq(EventsOf(v)) /\ queue' = [queue EXCEPT ![p][v] = q]
      BY <2>9
    <3> HIDE DEF q
    <3>2. /\ queue' \in [Coroutine -> [Vehicle -> Seq(GoodEvents)]]
          /\ \A r \in Coroutine, u \in Vehicle : queue'[r][u] \in Seq(EventsOf(u))
          /\ queue'[p][v] = q
          /\ \A r \in Coroutine, u \in Vehicle : r # p \/ u # v => queue'[r][u] = queue[r][u]
      BY <3>0, <3>1, QueueTyped
    <3> QED BY <3>2 DEF q
  <2>11. EngineTyped'
    BY <1>0, <1>2, <1>3, <2>5, <2>10 DEF EngineTyped
  <2>12. \A u \in Vehicle : \A i \in 1 .. Len(queue'[p][u]) : queue'[p][u][i].type = "paused"
    <3>1. \A u \in Vehicle \ {v} : queue'[p][u] = <<>>
      BY <1>2, <1>4, <2>10
    <3>2. Len(<<>>) = 0 /\ Len(<<e>>) = 1 /\ <<e>>[1] = e
      OBVIOUS
    <3> QED BY <2>8, <2>10, <3>1, <3>2
  <2>13. \A q \in Coroutine \ {p} : queue'[q] = queue[q]
    <3>1. queue \in [Coroutine -> [Vehicle -> Seq(GoodEvents)]]
      BY <1>0 DEF EngineTyped
    <3> QED BY <2>9, <3>1
  <2>14. PipelineTyped'
    BY <1>0, <1>2, <2>11, PartsUnchanged DEF PipelineTyped, history
  <2> QED BY <1>2, <2>3, <2>4, <2>5, <2>6, <2>12, <2>13, <2>14
<1> QED BY <1>5, <1>6

\* The group reads on.
LEMMA ReadTyped ==
  ASSUME BrokerTyped, NEW k \in Key, NEW n \in Nat, n <= Len(log[k]),
         read' = [read EXCEPT ![k] = n], UNCHANGED log
  PROVE  BrokerTyped' /\ read'[k] = n /\ \A l \in Key \ {k} : read'[l] = read[l]
BY DEF BrokerTyped

LEMMA StoreEffect ==
  ASSUME PipelineTyped, NEW v \in Vehicle, StoreBatch(v)
  PROVE  /\ PipelineTyped' /\ UNCHANGED <<engine, sink, log, history>>
         /\ \E n \in Nat :
              /\ read[v] < n /\ n <= Len(log[v])
              /\ read'[v] = n /\ \A k \in Key \ {v} : read'[k] = read[k]
              /\ {log[v][i] : i \in read[v] + 1 .. n} \subseteq SampleType
              /\ WriteTelemetryBatch({log[v][i] : i \in read[v] + 1 .. n})
<1>0. EngineTyped /\ SinkTyped /\ BrokerTyped /\ DatabaseTyped /\ lost \in BOOLEAN
  BY DEF PipelineTyped
<1>1. v \in Key /\ read[v] \in Nat /\ log[v] \in Seq(SamplesBy(v)) /\ Len(log[v]) \in Nat
  BY <1>0 DEF BrokerTyped, Key, Message
<1>2. PICK n \in read[v] + 1 .. Len(log[v]) :
        /\ WriteTelemetryBatch({log[v][i] : i \in read[v] + 1 .. n})
        /\ read' = [read EXCEPT ![v] = n]
  BY DEF StoreBatch
<1>3. n \in Nat /\ read[v] < n /\ n <= Len(log[v])
  BY <1>1
<1>4. {log[v][i] : i \in read[v] + 1 .. n} \subseteq SampleType
  <2>1. \A i \in read[v] + 1 .. n : log[v][i] \in SamplesBy(v)
    BY <1>1, <1>3
  <2> QED BY <2>1 DEF SamplesBy
<1>5. UNCHANGED <<engine, sink, log, history>>
  BY DEF StoreBatch
<1>6. BrokerTyped' /\ read'[v] = n /\ \A k \in Key \ {v} : read'[k] = read[k]
  BY <1>0, <1>1, <1>2, <1>3, <1>5, ReadTyped
<1>7. DatabaseTyped'
  BY <1>0, <1>2, <1>4, BatchTyped
<1>8. PipelineTyped'
  BY <1>0, <1>5, <1>6, <1>7, PartsUnchanged DEF PipelineTyped, history
<1> QED BY <1>2, <1>3, <1>4, <1>5, <1>6, <1>8

LEMMA ConsumeEffect ==
  ASSUME PipelineTyped, NEW t \in Trip, ConsumeTripEvent(t)
  PROVE  /\ PipelineTyped' /\ UNCHANGED <<engine, sink, log>>
         /\ read[t] + 1 \in 1 .. Len(log[t])
         /\ read'[t] = read[t] + 1 /\ \A k \in Key \ {t} : read'[k] = read[k]
         /\ log[t][read[t] + 1] \in EventsOn(t)
         /\ \/ ApplyTripEvent(log[t][read[t] + 1]) /\ UNCHANGED history
            \/ lost' = TRUE /\ UNCHANGED database
<1>0. EngineTyped /\ SinkTyped /\ BrokerTyped /\ DatabaseTyped /\ lost \in BOOLEAN
  BY DEF PipelineTyped
<1>1. t \in Key /\ read[t] \in Nat /\ log[t] \in Seq(EventsOn(t)) /\ Len(log[t]) \in Nat
  BY <1>0, TripKeysApart DEF BrokerTyped, Message
<1>2. /\ read[t] < Len(log[t])
      /\ read' = [read EXCEPT ![t] = read[t] + 1]
      /\ \/ ApplyTripEvent(log[t][read[t] + 1]) /\ UNCHANGED history
         \/ lost' = TRUE /\ UNCHANGED database
      /\ UNCHANGED <<engine, sink, log>>
  BY DEF ConsumeTripEvent
<1>3. read[t] + 1 \in 1 .. Len(log[t]) /\ read[t] + 1 \in Nat /\ read[t] + 1 <= Len(log[t])
  BY <1>1, <1>2
<1>4. log[t][read[t] + 1] \in EventsOn(t) /\ log[t][read[t] + 1] \in GoodEvents
  BY <1>1, <1>3 DEF EventsOn
<1>5. BrokerTyped' /\ read'[t] = read[t] + 1 /\ \A k \in Key \ {t} : read'[k] = read[k]
  BY <1>0, <1>1, <1>2, <1>3, ReadTyped
<1>6. DatabaseTyped' /\ lost' \in BOOLEAN
  <2>1. CASE ApplyTripEvent(log[t][read[t] + 1]) /\ UNCHANGED history
    BY <1>0, <1>4, <2>1, EventTyped DEF history
  <2>2. CASE lost' = TRUE /\ UNCHANGED database
    BY <1>0, <2>2, PartsUnchanged
  <2> QED BY <1>2, <2>1, <2>2
<1>7. PipelineTyped'
  BY <1>0, <1>2, <1>5, <1>6, PartsUnchanged DEF PipelineTyped
<1> QED BY <1>2, <1>3, <1>4, <1>5, <1>7

LEMMA RedeliverEffect ==
  ASSUME PipelineTyped, NEW k \in Key, Redeliver(k)
  PROVE  /\ PipelineTyped' /\ UNCHANGED <<engine, sink, log, database, lost>>
         /\ \A l \in Key : read'[l] <= read[l]
<1>0. EngineTyped /\ SinkTyped /\ BrokerTyped /\ DatabaseTyped /\ lost \in BOOLEAN
  BY DEF PipelineTyped
<1>1. read[k] \in Nat /\ Len(log[k]) \in Nat /\ read[k] <= Len(log[k])
  BY <1>0 DEF BrokerTyped
<1>2. PICK n \in 0 .. read[k] - 1 : read' = [read EXCEPT ![k] = n]
  BY DEF Redeliver
<1>3. UNCHANGED <<engine, sink, log, database, lost>>
  BY DEF Redeliver
<1>4. n \in Nat /\ n <= Len(log[k]) /\ n <= read[k]
  BY <1>1
<1>5. BrokerTyped' /\ read'[k] = n /\ \A l \in Key \ {k} : read'[l] = read[l]
  BY <1>0, <1>2, <1>3, <1>4, ReadTyped
<1>6. \A l \in Key : read'[l] <= read[l]
  <2>1. \A l \in Key : read[l] \in Nat
    BY <1>0 DEF BrokerTyped
  <2> QED BY <1>4, <1>5, <2>1
<1>7. PipelineTyped'
  BY <1>0, <1>3, <1>5, PartsUnchanged DEF PipelineTyped
<1> QED BY <1>3, <1>6, <1>7

LEMMA OpenEffect ==
  ASSUME PipelineTyped, OpenTrips
  PROVE  /\ PipelineTyped'
         /\ \A t \in Trip : tripRow'[t] = IF t \in opened /\ tripRow[t] = NoRow
                                         THEN [state |-> "driving", distance |-> 0, ended |-> FALSE]
                                         ELSE tripRow[t]
<1>0. EngineTyped /\ SinkTyped /\ BrokerTyped /\ DatabaseTyped /\ lost \in BOOLEAN
  BY DEF PipelineTyped
<1>1. [state |-> "driving", distance |-> 0, ended |-> FALSE] \in RowType
  BY PipelineAssumption DEF RowType, VehicleState
<1>2. \A t \in Trip : tripRow'[t] = IF t \in opened /\ tripRow[t] = NoRow
                                   THEN [state |-> "driving", distance |-> 0, ended |-> FALSE]
                                   ELSE tripRow[t]
  BY DEF OpenTrips
<1>3. tripRow' \in [Trip -> RowType]
  <2>1. \A t \in Trip : tripRow'[t] \in RowType
    BY <1>0, <1>1, <1>2 DEF DatabaseTyped
  <2>2. tripRow' = [t \in Trip |-> tripRow'[t]]
    BY DEF OpenTrips
  <2> QED BY <2>1, <2>2
<1>4. DatabaseTyped'
  BY <1>0, <1>3 DEF DatabaseTyped, OpenTrips
<1>5. EngineTyped'
  <2>1. pc' \in [Coroutine -> Places]
    BY <1>0 DEF OpenTrips, EngineTyped, Places
  <2> QED BY <1>0, <2>1 DEF OpenTrips, EngineTyped
<1>6. SinkTyped' /\ BrokerTyped' /\ lost' = lost
  BY <1>0, PartsUnchanged DEF OpenTrips, history
<1> QED BY <1>0, <1>2, <1>4, <1>5, <1>6 DEF PipelineTyped

LEMMA OpenFailsTyped ==
  ASSUME PipelineTyped, OpenTripsFails
  PROVE  /\ PipelineTyped'
         /\ queue'["loop"] = NoEvents /\ queue'["stop"] = queue["stop"]
<1>0. EngineTyped /\ SinkTyped /\ BrokerTyped /\ DatabaseTyped /\ "loop" \in Coroutine
      /\ "stop" \in Coroutine \ {"loop"}
  BY DEF PipelineTyped, Coroutine
<1>1. /\ queue' \in [Coroutine -> [Vehicle -> Seq(GoodEvents)]]
      /\ \A r \in Coroutine, u \in Vehicle : queue'[r][u] \in Seq(EventsOf(u))
      /\ queue'["loop"] = NoEvents /\ \A r \in Coroutine \ {"loop"} : queue'[r] = queue[r]
  BY <1>0, QueueEmptied DEF OpenTripsFails
<1>2. pc' \in [Coroutine -> Places] /\ left' \in [Coroutine -> SUBSET Vehicle]
  BY <1>0 DEF OpenTripsFails, EngineTyped, Places
<1>3. EngineTyped'
  BY <1>0, <1>1, <1>2, FS_EmptySet DEF OpenTripsFails, EngineTyped
<1>4. SinkTyped' /\ BrokerTyped' /\ DatabaseTyped' /\ lost' = TRUE
  BY <1>0, PartsUnchanged DEF OpenTripsFails
<1> QED BY <1>0, <1>1, <1>3, <1>4 DEF PipelineTyped

LEMMA StopFailsTyped ==
  ASSUME PipelineTyped, StopFails
  PROVE  /\ PipelineTyped'
         /\ queue'["stop"] = NoEvents /\ queue'["loop"] = queue["loop"]
<1>0. EngineTyped /\ SinkTyped /\ BrokerTyped /\ DatabaseTyped /\ "stop" \in Coroutine
      /\ "loop" \in Coroutine \ {"stop"} /\ lost \in BOOLEAN
  BY DEF PipelineTyped, Coroutine
<1>1. /\ queue' \in [Coroutine -> [Vehicle -> Seq(GoodEvents)]]
      /\ \A r \in Coroutine, u \in Vehicle : queue'[r][u] \in Seq(EventsOf(u))
      /\ queue'["stop"] = NoEvents /\ \A r \in Coroutine \ {"stop"} : queue'[r] = queue[r]
  BY <1>0, QueueEmptied DEF StopFails
<1>2. pc' \in [Coroutine -> Places]
  BY <1>0 DEF StopFails, EngineTyped, Places
<1>3. EngineTyped'
  BY <1>0, <1>1, <1>2 DEF StopFails, EngineTyped
<1>4. SinkTyped' /\ BrokerTyped' /\ DatabaseTyped' /\ lost' = lost
  BY <1>0, PartsUnchanged DEF StopFails, history
<1> QED BY <1>0, <1>1, <1>3, <1>4 DEF PipelineTyped

\* Steps that move a coroutine on and do nothing else.
Moves == SamplesOut \/ EndTick \/ LoopExits \/ Stop \/ StopReturns \/ LoopEnds
         \/ \E p \in Coroutine : FinishRun(p)

LEMMA MovesEffect ==
  ASSUME PipelineTyped, Moves
  PROVE  /\ PipelineTyped'
         /\ UNCHANGED <<fleet, clock, opened, samples, queue, sink, broker, database, history>>
<1>0. EngineTyped /\ SinkTyped /\ BrokerTyped /\ DatabaseTyped /\ lost \in BOOLEAN
  BY DEF PipelineTyped
<1>1. UNCHANGED <<fleet, clock, opened, samples, queue, sink, broker, database, history>>
  BY DEF Moves, SamplesOut, EndTick, LoopExits, Stop, StopReturns, LoopEnds, FinishRun
<1>2. pc' \in [Coroutine -> Places]
  <2>1. pc \in [Coroutine -> Places]
    BY <1>0 DEF EngineTyped
  <2>2. \E p \in Coroutine, w \in Places : pc' = [pc EXCEPT ![p] = w]
    <3>1. CASE SamplesOut \/ LoopExits \/ LoopEnds
      BY <3>1 DEF SamplesOut, LoopExits, LoopEnds, Coroutine, Places
    <3>2. CASE EndTick
      BY <3>2 DEF EndTick, Coroutine, Places
    <3>3. CASE Stop \/ StopReturns
      BY <3>3 DEF Stop, StopReturns, Coroutine, Places
    <3>4. CASE \E p \in Coroutine : FinishRun(p)
      BY <3>4 DEF FinishRun, Places
    <3> QED BY <3>1, <3>2, <3>3, <3>4 DEF Moves
  <2> QED BY <2>1, <2>2
<1>3. left' \in [Coroutine -> SUBSET Vehicle]
  <2>1. left \in [Coroutine -> SUBSET Vehicle]
    BY <1>0 DEF EngineTyped
  <2>2. left' = left \/ \E p \in Coroutine : left' = [left EXCEPT ![p] = Vehicle]
    BY DEF Moves, SamplesOut, EndTick, LoopExits, Stop, StopReturns, LoopEnds, FinishRun, Coroutine
  <2> QED BY <2>1, <2>2
<1>4. EngineTyped'
  BY <1>0, <1>1, <1>2, <1>3, MovesTyped
<1> QED BY <1>0, <1>1, <1>4, PartsUnchanged DEF PipelineTyped, history

\* FlushTrips, and CloseSink of the loop, hand the buffer over.
Flushes(p) == FlushTrips(p) \/ (p = "loop" /\ CloseSink)

LEMMA FlushesEffect ==
  ASSUME PipelineTyped, QuietPlaces, NEW p \in Coroutine, Flushes(p)
  PROVE  /\ PipelineTyped'
         /\ writing[p] = None /\ StartFlush(p) /\ buffer' = {}
         /\ \A q \in Coroutine \ {p} : writing'[q] = writing[q] /\ pc'[q] = pc[q]
         /\ \/ buffer = {} /\ writing' = writing
            \/ buffer # {} /\ writing'[p] = Batch(buffer)
         /\ \/ pc[p] = "pause" /\ pc'[p] = "flush" /\ queue[p] = NoEvents
            \/ p = "loop" /\ pc[p] = "close" /\ pc'[p] = "closing"
         /\ UNCHANGED <<fleet, clock, opened, samples, queue, left, transport, emitted, failed, accepted,
                        broker, database, history>>
<1>0. SinkTyped /\ pc \in [Coroutine -> Places]
  BY DEF PipelineTyped, EngineTyped
<1>1. /\ StartFlush(p)
      /\ UNCHANGED <<fleet, clock, opened, samples, queue, left, transport, emitted, failed, accepted,
                     broker, database, history>>
  BY DEF Flushes, FlushTrips, CloseSink
<1>2. /\ writing[p] = None
      /\ \/ pc[p] = "pause" /\ pc' = [pc EXCEPT ![p] = "flush"] /\ queue[p] = NoEvents
         \/ p = "loop" /\ pc[p] = "close" /\ pc' = [pc EXCEPT ![p] = "closing"]
  BY DEF Flushes, FlushTrips, CloseSink, QuietPlaces
<1>3. /\ pc' \in [Coroutine -> Places] /\ \A q \in Coroutine \ {p} : pc'[q] = pc[q]
      /\ \/ pc[p] = "pause" /\ pc'[p] = "flush" /\ queue[p] = NoEvents
         \/ p = "loop" /\ pc[p] = "close" /\ pc'[p] = "closing"
  BY <1>0, <1>2 DEF Places
<1>4. /\ buffer' = {}
      /\ \A q \in Coroutine \ {p} : writing'[q] = writing[q]
      /\ \/ buffer = {} /\ writing' = writing
         \/ buffer # {} /\ writing'[p] = Batch(buffer)
  BY <1>0, <1>1, <1>2, FlushEffect
<1>5. PipelineTyped'
  BY <1>1, <1>2, <1>3, FlushTyped DEF history
<1> QED BY <1>1, <1>2, <1>3, <1>4, <1>5

\* The steps of the system.
LEMMA StepCases ==
  ASSUME [Next]_vars
  PROVE  \/ Tick \/ OpenTrips \/ OpenTripsFails \/ EmitSamples \/ Moves \/ StopFails
         \/ \E p \in Coroutine : \/ EmitTripEvent(p) \/ WriteCommits(p) \/ BatchFails(p) \/ EventFails(p)
                                 \/ PauseOpenTrip(p) \/ Flushes(p)
         \/ \E k \in Key : Redeliver(k)
         \/ \E v \in Vehicle : StoreBatch(v)
         \/ \E t \in Trip : ConsumeTripEvent(t)
         \/ UNCHANGED vars
<1>1. "loop" \in Coroutine
  BY DEF Coroutine
<1> QED BY <1>1 DEF Next, Moves, Flushes

LEMMA TypedStep ==
  ASSUME PipelineTyped, QuietPlaces, HeadIsWriting, [Next]_vars
  PROVE  PipelineTyped'
<1>1. CASE Tick
  BY <1>1, TickTyped
<1>2. CASE OpenTrips \/ OpenTripsFails \/ EmitSamples \/ Moves \/ StopFails
  BY <1>2, OpenEffect, OpenFailsTyped, EmitSamplesTyped, MovesEffect, StopFailsTyped
<1>3. ASSUME NEW p \in Coroutine,
             EmitTripEvent(p) \/ WriteCommits(p) \/ BatchFails(p) \/ EventFails(p)
             \/ PauseOpenTrip(p) \/ Flushes(p)
      PROVE  PipelineTyped'
  BY <1>3, EmitEventTyped, CommitTyped, BatchFailsTyped, EventFailsTyped, PauseEffect, FlushesEffect
<1>4. ASSUME NEW k \in Key, Redeliver(k) PROVE PipelineTyped'
  BY <1>4, RedeliverEffect
<1>5. ASSUME NEW v \in Vehicle, StoreBatch(v) PROVE PipelineTyped'
  BY <1>5, StoreEffect
<1>6. ASSUME NEW t \in Trip, ConsumeTripEvent(t) PROVE PipelineTyped'
  BY <1>6, ConsumeEffect
<1>7. CASE UNCHANGED vars
  <2>1. UNCHANGED engine /\ UNCHANGED sink /\ UNCHANGED broker /\ UNCHANGED database /\ lost' = lost
    BY <1>7 DEF vars, history
  <2> QED BY <2>1, PartsUnchanged DEF PipelineTyped
<1> QED BY <1>1, <1>2, <1>3, <1>4, <1>5, <1>6, <1>7, StepCases

-----------------------------------------------------------------------------
(* The flow of a tick is inductive.                                          *)

LEMMA InitFlows == Init => FlowInv
<1> SUFFICES ASSUME Init PROVE FlowInv
  OBVIOUS
<1>1. \A p \in Coroutine : writing[p] = None
  BY DEF Init
<1>2. "loop" \in Coroutine /\ "stop" \in Coroutine
  BY DEF Coroutine
<1>3. QuietPlaces
  BY <1>1, <1>2 DEF Init, QuietPlaces
<1>4. TickIsOver
  BY <1>2 DEF Init, TickIsOver
<1>5. HeadIsWriting
  BY <1>1 DEF HeadIsWriting
<1>6. SamplesAreNew
  BY DEF Init, SamplesAreNew
<1> QED BY <1>3, <1>4, <1>5, <1>6 DEF FlowInv

LEMMA SamplesStayNew ==
  ASSUME SamplesAreNew, clock' = clock, samples' \subseteq samples, buffer' \subseteq buffer,
         pc'["loop"] \in {"open", "samples"} => pc["loop"] \in {"open", "samples"}
  PROVE  SamplesAreNew'
BY DEF SamplesAreNew

\* A coroutine that has nothing to write any more, or another queue, but not both.
LEMMA HeadsStay ==
  ASSUME HeadIsWriting,
         \A p \in Coroutine : writing'[p] = None \/ (writing'[p] = writing[p] /\ queue'[p] = queue[p])
  PROVE  HeadIsWriting'
BY DEF HeadIsWriting

LEMMA TickFlows ==
  ASSUME PipelineTyped, FlowInv, Tick
  PROVE  FlowInv'
<1>0. QuietPlaces /\ TickIsOver /\ HeadIsWriting /\ SamplesAreNew
  BY DEF FlowInv
<1>1. pc \in [Coroutine -> Places] /\ queue \in [Coroutine -> [Vehicle -> Seq(GoodEvents)]]
      /\ clock \in Nat
  BY PipelineAssumption DEF PipelineTyped, EngineTyped
<1>2. /\ pc["loop"] = "tick" /\ pc' = [pc EXCEPT !["loop"] = "open"] /\ clock' = clock + 1
      /\ UNCHANGED <<transport, buffer, writing>>
  BY DEF Tick, sink
<1>3. pc'["loop"] = "open" /\ pc'["stop"] = pc["stop"] /\ writing["loop"] = None
  BY <1>0, <1>1, <1>2 DEF Coroutine, QuietPlaces
<1>4. PICK out :
        /\ samples' = {Sample(v, out[v].after, clock + 1) : v \in {u \in Vehicle : out[u].sampled}}
        /\ queue' = [queue EXCEPT !["loop"] = [v \in Vehicle |-> TripEvents(v, out[v])]]
  BY TickOutcomes DEF PipelineTyped
<1>5. QuietPlaces'
  BY <1>0, <1>2, <1>3 DEF QuietPlaces
<1>6. TickIsOver'
  BY <1>3 DEF TickIsOver
<1>7. HeadIsWriting'
  <2>1. queue'["stop"] = queue["stop"]
    BY <1>1, <1>4 DEF Coroutine
  <2> QED BY <1>0, <1>2, <1>3, <2>1, HeadsStay DEF Coroutine
<1>8. SamplesAreNew'
  <2>1. \A s \in samples' : s.at = clock'
    BY <1>2, <1>4 DEF Sample
  <2>2. \A s \in buffer : s.at <= clock /\ s.at \in Nat
    BY <1>0, PipelineAssumption DEF SamplesAreNew, PipelineTyped, SinkTyped, SampleType
  <2>3. \A s \in buffer' : s.at <= clock' /\ s.at < clock'
    BY <1>1, <1>2, <2>2
  <2> QED BY <2>1, <2>3 DEF SamplesAreNew
<1> QED BY <1>5, <1>6, <1>7, <1>8 DEF FlowInv

LEMMA EmitSamplesFlows ==
  ASSUME PipelineTyped, FlowInv, EmitSamples
  PROVE  FlowInv'
<1>0. QuietPlaces /\ TickIsOver /\ HeadIsWriting /\ SamplesAreNew
  BY DEF FlowInv
<1>1. pc \in [Coroutine -> Places] /\ writing \in [Coroutine -> {None} \cup WriteType]
      /\ clock \in Nat /\ "loop" \in Coroutine /\ "stop" \in Coroutine
  BY PipelineAssumption DEF PipelineTyped, EngineTyped, SinkTyped, Coroutine
<1>2. /\ samples' = {}
      /\ pc["loop"] = "samples" /\ pc' = [pc EXCEPT !["loop"] = "acks"]
      /\ UNCHANGED <<clock, opened, queue, transport>>
      /\ \/ transport = "database" /\ buffer' = buffer \cup samples /\ UNCHANGED writing
         \/ /\ transport = "database"
            /\ buffer' = {} /\ writing' = [writing EXCEPT !["loop"] = Batch(buffer \cup samples)]
         \/ transport # "database" /\ UNCHANGED <<buffer, writing>>
  BY EmitSamplesEffect
<1>3. pc'["loop"] = "acks" /\ pc'["stop"] = pc["stop"]
  BY <1>1, <1>2 DEF Coroutine
<1>4. writing'["stop"] = writing["stop"]
  BY <1>1, <1>2
<1>5. QuietPlaces'
  BY <1>0, <1>2, <1>3, <1>4 DEF QuietPlaces
<1>6. TickIsOver'
  BY <1>0, <1>2, <1>3 DEF TickIsOver
<1>7. HeadIsWriting'
  <2>1. CASE UNCHANGED writing
    BY <1>0, <1>2, <2>1, HeadsStay
  <2>2. CASE writing' = [writing EXCEPT !["loop"] = Batch(buffer \cup samples)]
    <3>1. writing'["loop"] = Batch(buffer \cup samples)
      BY <1>1, <2>2
    <3>2. writing'["loop"].kind = "batch"
      BY <3>1 DEF Batch
    <3> QED BY <1>0, <1>2, <1>4, <3>2 DEF HeadIsWriting, Coroutine
  <2> QED BY <1>2, <2>1, <2>2
<1>8. SamplesAreNew'
  <2>1. buffer' \subseteq buffer \cup samples
    BY <1>2
  <2>2. \A s \in buffer \cup samples : s.at <= clock
    BY <1>0, <1>1 DEF SamplesAreNew
  <2> QED BY <1>2, <1>3, <2>1, <2>2 DEF SamplesAreNew
<1> QED BY <1>5, <1>6, <1>7, <1>8 DEF FlowInv

LEMMA EmitEventFlows ==
  ASSUME PipelineTyped, FlowInv, NEW p \in Coroutine, EmitTripEvent(p)
  PROVE  FlowInv'
<1>0. QuietPlaces /\ TickIsOver /\ HeadIsWriting /\ SamplesAreNew /\ EngineTyped
  BY DEF FlowInv, PipelineTyped
<1>1. writing \in [Coroutine -> {None} \cup WriteType]
      /\ "loop" \in Coroutine /\ "stop" \in Coroutine
  BY DEF PipelineTyped, SinkTyped, Coroutine
<1>2. UNCHANGED <<clock, opened, samples, transport, pc>>
  BY DEF EmitTripEvent
<1>3. PICK v \in Vehicle :
           /\ queue[p][v] # <<>> /\ Head(queue[p][v]) \in EventsOf(v)
           /\ pc[p] \in {"events", "pause"} /\ writing[p] = None
           /\ \/ /\ transport = "database" /\ UNCHANGED queue
                 /\ buffer' = {}
                 /\ \/ writing' = [writing EXCEPT ![p] = Event(Head(queue[p][v]))]
                    \/ writing' = [writing EXCEPT ![p] = Batch(buffer)]
              \/ /\ transport # "database" /\ UNCHANGED <<buffer, writing>>
                 /\ queue' = [queue EXCEPT ![p][v] = Tail(queue[p][v])]
  BY EmitEventEffect
<1>4. /\ \A q \in Coroutine \ {p} : writing'[q] = writing[q] /\ queue'[q] = queue[q]
      /\ buffer' \subseteq buffer
  <2>1. queue \in [Coroutine -> [Vehicle -> Seq(GoodEvents)]]
    BY <1>0 DEF EngineTyped
  <2> QED BY <1>1, <1>3, <2>1
<1>5. QuietPlaces'
  BY <1>0, <1>2, <1>3, <1>4 DEF QuietPlaces, Coroutine
<1>6. TickIsOver'
  <2>1. pc["loop"] \in {"tick", "flush", "close", "closing", "ended"} => queue'["loop"] = queue["loop"]
    BY <1>1, <1>3, <1>4
  <2> QED BY <1>0, <1>2, <1>4, <2>1 DEF TickIsOver
<1>7. HeadIsWriting'
  <2>1. CASE UNCHANGED queue /\ writing' = [writing EXCEPT ![p] = Event(Head(queue[p][v]))]
    <3>1. writing'[p] = Event(Head(queue[p][v]))
      BY <1>1, <2>1
    <3>2. writing'[p].event = Head(queue[p][v]) /\ writing'[p].event.vehicle = v
      BY <1>3, <3>1 DEF Event, EventsOf
    <3> QED BY <1>0, <1>3, <1>4, <2>1, <3>2 DEF HeadIsWriting
  <2>2. CASE UNCHANGED queue /\ writing' = [writing EXCEPT ![p] = Batch(buffer)]
    <3>1. writing'[p] = Batch(buffer)
      BY <1>1, <2>2
    <3>2. writing'[p].kind = "batch"
      BY <3>1 DEF Batch
    <3> QED BY <1>0, <1>4, <2>2, <3>2 DEF HeadIsWriting
  <2>3. CASE UNCHANGED writing
    <3>1. writing'[p] = None
      BY <1>3, <2>3
    <3> QED BY <1>0, <1>4, <3>1, HeadsStay
  <2> QED BY <1>3, <2>1, <2>2, <2>3
<1>8. SamplesAreNew'
  BY <1>0, <1>2, <1>4, SamplesStayNew
<1> QED BY <1>5, <1>6, <1>7, <1>8 DEF FlowInv

LEMMA WriteEndsFlows ==
  ASSUME PipelineTyped, FlowInv, NEW p \in Coroutine, WriteCommits(p) \/ BatchFails(p)
  PROVE  FlowInv'
<1>0. QuietPlaces /\ TickIsOver /\ HeadIsWriting /\ SamplesAreNew /\ EngineTyped
      /\ "loop" \in Coroutine /\ "stop" \in Coroutine
  BY DEF FlowInv, PipelineTyped, Coroutine
<1>1. /\ UNCHANGED <<clock, pc, opened, samples, transport, buffer>>
      /\ writing[p] # None /\ writing'[p] = None
      /\ \A q \in Coroutine \ {p} : writing'[q] = writing[q]
  BY CommitEffect, BatchFailsTyped DEF BatchFails, engine
<1>2. /\ \A q \in Coroutine \ {p} : queue'[q] = queue[q]
      /\ queue' # queue => \E v \in Vehicle : queue[p][v] # <<>>
  <2>1. CASE UNCHANGED queue
    BY <2>1
  <2>2. CASE ~UNCHANGED queue
    <3>1. /\ writing[p] # None /\ writing[p].kind = "event" /\ writing[p].event \in GoodEvents
          /\ Dequeue(p, writing[p].event.vehicle)
      BY <2>2, CommitEffect DEF BatchFails, engine
    <3>2. writing[p].event.vehicle \in Vehicle /\ queue[p][writing[p].event.vehicle] # <<>>
      BY <1>0, <3>1 DEF HeadIsWriting, GoodEvents, EventType
    <3>3. queue \in [Coroutine -> [Vehicle -> Seq(GoodEvents)]]
      BY <1>0 DEF EngineTyped
    <3> QED BY <3>1, <3>2, <3>3 DEF Dequeue
  <2> QED BY <2>1, <2>2
<1>3. QuietPlaces'
  <2>1. \A q \in Coroutine : writing'[q] = None \/ writing'[q] = writing[q]
    BY <1>1
  <2> QED BY <1>0, <1>1, <2>1 DEF QuietPlaces
<1>4. TickIsOver'
  <2>1. pc["loop"] \in {"tick", "flush", "close", "closing", "ended"} => queue'["loop"] = queue["loop"]
    <3>1. CASE p = "stop"
      BY <1>0, <1>2, <3>1
    <3>2. CASE p = "loop" /\ queue' # queue
      <4>1. PICK v \in Vehicle : queue["loop"][v] # <<>>
        BY <1>2, <3>2
      <4>2. queue["loop"] # NoEvents
        BY <4>1 DEF NoEvents
      <4> QED BY <1>0, <4>2 DEF TickIsOver
    <3> QED BY <3>1, <3>2 DEF Coroutine
  <2> QED BY <1>0, <1>1, <2>1 DEF TickIsOver
<1>5. HeadIsWriting'
  <2>1. \A q \in Coroutine : writing'[q] = None \/ (writing'[q] = writing[q] /\ queue'[q] = queue[q])
    BY <1>1, <1>2
  <2> QED BY <1>0, <2>1, HeadsStay
<1>6. SamplesAreNew'
  BY <1>0, <1>1, SamplesStayNew
<1> QED BY <1>3, <1>4, <1>5, <1>6 DEF FlowInv

LEMMA EventFailsFlows ==
  ASSUME PipelineTyped, FlowInv, NEW p \in Coroutine, EventFails(p)
  PROVE  FlowInv'
<1>0. QuietPlaces /\ TickIsOver /\ HeadIsWriting /\ SamplesAreNew
      /\ "loop" \in Coroutine /\ "stop" \in Coroutine
  BY DEF FlowInv, Coroutine
<1>1. /\ UNCHANGED <<clock, opened, samples, transport, buffer>>
      /\ writing[p] # None
  BY DEF EventFails
<1>2. /\ writing'[p] = None
      /\ \A q \in Coroutine \ {p} : writing'[q] = writing[q] /\ queue'[q] = queue[q] /\ pc'[q] = pc[q]
      /\ queue'[p] = NoEvents
      /\ pc'[p] \in (IF p = "stop" THEN {"done"} ELSE {"close", "pause"})
  BY EventFailsTyped
<1>3. QuietPlaces'
  BY <1>0, <1>1, <1>2 DEF QuietPlaces, Coroutine
<1>4. TickIsOver'
  <2>1. CASE p = "stop"
    <3>1. pc'["loop"] = pc["loop"] /\ queue'["loop"] = queue["loop"]
      BY <1>0, <1>2, <2>1
    <3> QED BY <1>0, <1>1, <3>1 DEF TickIsOver
  <2>2. CASE p = "loop"
    <3>1. pc'["loop"] \in {"close", "pause"} /\ queue'["loop"] = NoEvents
      BY <1>2, <2>2
    <3>2. pc["loop"] \notin {"open", "samples"}
      BY <1>0, <1>1, <2>2 DEF QuietPlaces
    <3> QED BY <1>0, <1>1, <3>1, <3>2 DEF TickIsOver
  <2> QED BY <2>1, <2>2 DEF Coroutine
<1>5. HeadIsWriting'
  BY <1>0, <1>2, HeadsStay
<1>6. SamplesAreNew'
  <2>1. pc'["loop"] \in {"open", "samples"} => pc["loop"] \in {"open", "samples"}
    BY <1>0, <1>2
  <2> QED BY <1>0, <1>1, <2>1, SamplesStayNew
<1> QED BY <1>3, <1>4, <1>5, <1>6 DEF FlowInv

LEMMA PauseFlows ==
  ASSUME PipelineTyped, FlowInv, NEW p \in Coroutine, PauseOpenTrip(p)
  PROVE  FlowInv'
<1>0. QuietPlaces /\ TickIsOver /\ HeadIsWriting /\ SamplesAreNew
      /\ "loop" \in Coroutine /\ "stop" \in Coroutine
  BY DEF FlowInv, Coroutine
<1>1. /\ UNCHANGED <<clock, pc, opened, samples, transport, buffer, writing>>
      /\ pc[p] = "pause" /\ writing[p] = None
      /\ \A q \in Coroutine \ {p} : queue'[q] = queue[q]
  BY PauseEffect DEF sink
<1>2. QuietPlaces'
  BY <1>0, <1>1 DEF QuietPlaces
<1>3. TickIsOver'
  <2>1. pc["loop"] \in {"tick", "flush", "close", "closing", "ended"} => queue'["loop"] = queue["loop"]
    BY <1>0, <1>1
  <2> QED BY <1>0, <1>1, <2>1 DEF TickIsOver
<1>4. HeadIsWriting'
  <2>1. \A q \in Coroutine : writing'[q] = None \/ (writing'[q] = writing[q] /\ queue'[q] = queue[q])
    BY <1>1
  <2> QED BY <1>0, <2>1, HeadsStay
<1>5. SamplesAreNew'
  BY <1>0, <1>1, SamplesStayNew
<1> QED BY <1>2, <1>3, <1>4, <1>5 DEF FlowInv

LEMMA FlushFlows ==
  ASSUME PipelineTyped, FlowInv, NEW p \in Coroutine, Flushes(p)
  PROVE  FlowInv'
<1>0. QuietPlaces /\ TickIsOver /\ HeadIsWriting /\ SamplesAreNew
      /\ "loop" \in Coroutine /\ "stop" \in Coroutine
  BY DEF FlowInv, Coroutine
<1>1. /\ UNCHANGED <<clock, opened, samples, queue, transport>>
      /\ writing[p] = None /\ buffer' = {}
      /\ \A q \in Coroutine \ {p} : writing'[q] = writing[q] /\ pc'[q] = pc[q]
      /\ \/ buffer = {} /\ writing' = writing
         \/ buffer # {} /\ writing'[p] = Batch(buffer)
      /\ \/ pc[p] = "pause" /\ pc'[p] = "flush" /\ queue[p] = NoEvents
         \/ p = "loop" /\ pc[p] = "close" /\ pc'[p] = "closing"
  BY <1>0, FlushesEffect
<1>2. QuietPlaces'
  <2>1. CASE p = "loop"
    <3>1. pc'["loop"] \in {"flush", "closing"} /\ pc'["stop"] = pc["stop"] /\ writing'["stop"] = writing["stop"]
      BY <1>0, <1>1, <2>1
    <3>2. transport # "database" => writing' = writing
      BY <1>0, <1>1 DEF QuietPlaces
    <3> QED BY <1>0, <1>1, <3>1, <3>2 DEF QuietPlaces
  <2>2. CASE p = "stop"
    <3>1. pc'["stop"] = "flush" /\ pc'["loop"] = pc["loop"] /\ writing'["loop"] = writing["loop"]
      BY <1>0, <1>1, <2>2
    <3>2. transport # "database" => writing' = writing
      BY <1>0, <1>1 DEF QuietPlaces
    <3> QED BY <1>0, <1>1, <3>1, <3>2 DEF QuietPlaces
  <2> QED BY <2>1, <2>2 DEF Coroutine
<1>3. TickIsOver'
  <2>1. CASE p = "loop"
    <3>1. pc["loop"] \in {"pause", "close"} /\ pc'["loop"] \in {"flush", "closing"}
          /\ (pc["loop"] = "pause" => queue["loop"] = NoEvents)
      BY <1>1, <2>1
    <3> QED BY <1>0, <1>1, <3>1 DEF TickIsOver
  <2>2. CASE p = "stop"
    <3>1. pc'["loop"] = pc["loop"]
      BY <1>0, <1>1, <2>2
    <3> QED BY <1>0, <1>1, <3>1 DEF TickIsOver
  <2> QED BY <2>1, <2>2 DEF Coroutine
<1>4. HeadIsWriting'
  <2>1. CASE writing' = writing
    BY <1>0, <1>1, <2>1, HeadsStay
  <2>2. CASE writing'[p] = Batch(buffer)
    <3>1. writing'[p].kind = "batch"
      BY <2>2 DEF Batch
    <3> QED BY <1>0, <1>1, <3>1 DEF HeadIsWriting
  <2> QED BY <1>1, <2>1, <2>2
<1>5. SamplesAreNew'
  <2>1. pc'["loop"] \in {"open", "samples"} => pc["loop"] \in {"open", "samples"}
    BY <1>0, <1>1
  <2> QED BY <1>0, <1>1, <2>1, SamplesStayNew
<1> QED BY <1>2, <1>3, <1>4, <1>5 DEF FlowInv

LEMMA OpenFlows ==
  ASSUME PipelineTyped, FlowInv, OpenTrips \/ OpenTripsFails
  PROVE  FlowInv'
<1>0. QuietPlaces /\ TickIsOver /\ HeadIsWriting /\ SamplesAreNew
      /\ "loop" \in Coroutine /\ "stop" \in Coroutine /\ pc \in [Coroutine -> Places]
  BY DEF FlowInv, Coroutine, PipelineTyped, EngineTyped
<1>1. /\ UNCHANGED <<clock, transport, buffer, writing>> /\ opened' = {}
      /\ pc["loop"] = "open"
      /\ \/ pc' = [pc EXCEPT !["loop"] = "samples"] /\ UNCHANGED <<samples, queue>>
         \/ pc' = [pc EXCEPT !["loop"] = "pause"] /\ samples' = {} /\ queue'["stop"] = queue["stop"]
  BY OpenFailsTyped DEF OpenTrips, OpenTripsFails, sink
<1>2. pc'["loop"] \in {"samples", "pause"} /\ pc'["stop"] = pc["stop"]
  BY <1>0, <1>1
<1>3. pc'["loop"] = "pause" => samples' = {}
  BY <1>0, <1>1
<1>4. QuietPlaces'
  BY <1>0, <1>1, <1>2 DEF QuietPlaces
<1>5. TickIsOver'
  BY <1>0, <1>1, <1>2, <1>3 DEF TickIsOver
<1>6. HeadIsWriting'
  <2>1. writing["loop"] = None
    BY <1>0, <1>1 DEF QuietPlaces
  <2>2. \A q \in Coroutine : writing'[q] = None \/ (writing'[q] = writing[q] /\ queue'[q] = queue[q])
    BY <1>1, <2>1 DEF Coroutine
  <2> QED BY <1>0, <2>2, HeadsStay
<1>7. SamplesAreNew'
  BY <1>0, <1>1, <1>2, SamplesStayNew
<1> QED BY <1>4, <1>5, <1>6, <1>7 DEF FlowInv

LEMMA StopFailsFlows ==
  ASSUME PipelineTyped, FlowInv, StopFails
  PROVE  FlowInv'
<1>0. QuietPlaces /\ TickIsOver /\ HeadIsWriting /\ SamplesAreNew
      /\ "loop" \in Coroutine /\ "stop" \in Coroutine /\ pc \in [Coroutine -> Places]
  BY DEF FlowInv, Coroutine, PipelineTyped, EngineTyped
<1>1. /\ UNCHANGED <<clock, opened, samples, transport, buffer, writing>>
      /\ transport # "database"
      /\ pc' = [pc EXCEPT !["stop"] = "done"] /\ queue'["loop"] = queue["loop"]
  BY StopFailsTyped DEF StopFails, CanSend, sink
<1>2. pc'["loop"] = pc["loop"] /\ pc'["stop"] = "done"
  BY <1>0, <1>1
<1>3. \A q \in Coroutine : writing[q] = None
  BY <1>0, <1>1 DEF QuietPlaces
<1>4. QuietPlaces'
  BY <1>0, <1>1, <1>2, <1>3 DEF QuietPlaces
<1>5. TickIsOver'
  BY <1>0, <1>1, <1>2 DEF TickIsOver
<1>6. HeadIsWriting'
  BY <1>0, <1>1, <1>3, HeadsStay
<1>7. SamplesAreNew'
  BY <1>0, <1>1, <1>2, SamplesStayNew
<1> QED BY <1>4, <1>5, <1>6, <1>7 DEF FlowInv

\* Where the moves lead.
LEMMA MovesPlaces ==
  ASSUME PipelineTyped, Moves
  PROVE  \/ /\ pc'["stop"] = pc["stop"]
            /\ \/ pc["loop"] = "acks" /\ pc'["loop"] = "events" /\ writing["loop"] = None
               \/ pc["loop"] = "events" /\ pc'["loop"] \in {"pause", "tick", "close"}
                  /\ writing["loop"] = None /\ queue["loop"] = NoEvents
               \/ pc["loop"] = "tick" /\ pc'["loop"] = "close"
               \/ pc["loop"] = "closing" /\ pc'["loop"] = "ended" /\ writing["loop"] = None
               \/ pc["loop"] = "flush" /\ pc'["loop"] = "close" /\ writing["loop"] = None
         \/ /\ pc'["loop"] = pc["loop"]
            /\ \/ pc["stop"] = "none" /\ pc'["stop"] = "pause"
               \/ pc["stop"] = "flush" /\ pc'["stop"] = "wait" /\ writing["stop"] = None
               \/ pc["stop"] = "wait" /\ pc'["stop"] = "done"
<1>0. pc \in [Coroutine -> Places] /\ "loop" \in Coroutine /\ "stop" \in Coroutine
  BY DEF PipelineTyped, EngineTyped, Coroutine
<1>1. CASE SamplesOut \/ LoopExits \/ LoopEnds
  BY <1>0, <1>1 DEF SamplesOut, LoopExits, LoopEnds
<1>2. CASE EndTick
  <2>1. /\ pc["loop"] = "events" /\ writing["loop"] = None /\ queue["loop"] = NoEvents
        /\ pc' = [pc EXCEPT !["loop"] = IF clock = MaxTicks THEN "pause"
                                        ELSE IF run = "running" THEN "tick" ELSE "close"]
    BY <1>2 DEF EndTick
  <2> QED BY <1>0, <2>1
<1>3. CASE Stop \/ StopReturns
  BY <1>0, <1>3 DEF Stop, StopReturns
<1>4. ASSUME NEW p \in Coroutine, FinishRun(p)
      PROVE  \/ /\ pc'["stop"] = pc["stop"]
                /\ pc["loop"] = "flush" /\ pc'["loop"] = "close" /\ writing["loop"] = None
             \/ /\ pc'["loop"] = pc["loop"]
                /\ pc["stop"] = "flush" /\ pc'["stop"] = "wait" /\ writing["stop"] = None
  <2>1. /\ pc[p] = "flush" /\ writing[p] = None
        /\ pc' = [pc EXCEPT ![p] = IF p = "loop" THEN "close" ELSE "wait"]
    BY <1>4 DEF FinishRun
  <2>2. CASE p = "loop"
    BY <1>0, <2>1, <2>2
  <2>3. CASE p = "stop"
    BY <1>0, <2>1, <2>3
  <2> QED BY <2>2, <2>3 DEF Coroutine
<1> QED BY <1>1, <1>2, <1>3, <1>4 DEF Moves

LEMMA MovesFlow ==
  ASSUME PipelineTyped, FlowInv, Moves
  PROVE  FlowInv'
<1>0. QuietPlaces /\ TickIsOver /\ HeadIsWriting /\ SamplesAreNew
  BY DEF FlowInv
<1>1. UNCHANGED <<clock, opened, samples, queue, transport, buffer, writing>>
  BY MovesEffect DEF sink
<1>2. \/ /\ pc'["stop"] = pc["stop"]
         /\ \/ pc["loop"] = "acks" /\ pc'["loop"] = "events" /\ writing["loop"] = None
            \/ pc["loop"] = "events" /\ pc'["loop"] \in {"pause", "tick", "close"}
               /\ writing["loop"] = None /\ queue["loop"] = NoEvents
            \/ pc["loop"] = "tick" /\ pc'["loop"] = "close"
            \/ pc["loop"] = "closing" /\ pc'["loop"] = "ended" /\ writing["loop"] = None
            \/ pc["loop"] = "flush" /\ pc'["loop"] = "close" /\ writing["loop"] = None
      \/ /\ pc'["loop"] = pc["loop"]
         /\ \/ pc["stop"] = "none" /\ pc'["stop"] = "pause"
            \/ pc["stop"] = "flush" /\ pc'["stop"] = "wait" /\ writing["stop"] = None
            \/ pc["stop"] = "wait" /\ pc'["stop"] = "done"
  BY MovesPlaces
<1>3. QuietPlaces'
  BY <1>0, <1>1, <1>2 DEF QuietPlaces
<1>4. TickIsOver'
  BY <1>0, <1>1, <1>2 DEF TickIsOver
<1>5. HeadIsWriting'
  BY <1>0, <1>1, HeadsStay
<1>6. SamplesAreNew'
  BY <1>0, <1>1, <1>2, SamplesStayNew
<1> QED BY <1>3, <1>4, <1>5, <1>6 DEF FlowInv

\* The consumer group works on what the loop has left to the broker.
LEMMA QuietStepsFlow ==
  ASSUME FlowInv, UNCHANGED <<engine, sink>>
  PROVE  FlowInv'
BY DEF FlowInv, QuietPlaces, TickIsOver, HeadIsWriting, SamplesAreNew, engine, sink

LEMMA FlowStep ==
  ASSUME PipelineTyped, FlowInv, [Next]_vars
  PROVE  FlowInv'
<1>1. CASE Tick \/ EmitSamples
  BY <1>1, TickFlows, EmitSamplesFlows
<1>2. CASE OpenTrips \/ OpenTripsFails \/ Moves \/ StopFails
  BY <1>2, OpenFlows, MovesFlow, StopFailsFlows
<1>3. ASSUME NEW p \in Coroutine,
             EmitTripEvent(p) \/ WriteCommits(p) \/ BatchFails(p) \/ EventFails(p)
             \/ PauseOpenTrip(p) \/ Flushes(p)
      PROVE  FlowInv'
  BY <1>3, EmitEventFlows, WriteEndsFlows, EventFailsFlows, PauseFlows, FlushFlows
<1>4. CASE \/ \E k \in Key : Redeliver(k)
           \/ \E v \in Vehicle : StoreBatch(v)
           \/ \E t \in Trip : ConsumeTripEvent(t)
           \/ UNCHANGED vars
  <2>1. UNCHANGED <<engine, sink>>
    BY <1>4 DEF Redeliver, StoreBatch, ConsumeTripEvent, vars
  <2> QED BY <2>1, QuietStepsFlow
<1> QED BY <1>1, <1>2, <1>3, <1>4, StepCases

\* THEOREM.  Whatever the bounds and the fleet, the pipeline keeps its types, and a tick
\* flows through the places of the loop as the code has them: nothing of a tick is left
\* when the next one begins, and a coroutine waits for a transaction only where it awaits
\* one (engine.py, the tick loop and _finalise; sinks.py, emit_many and emit_trip_event).
THEOREM PipelineAlwaysFlows == Spec => [](PipelineTyped /\ FlowInv)
<1>1. Init => PipelineTyped /\ FlowInv
  BY InitTyped, InitFlows
<1>2. PipelineTyped /\ FlowInv /\ [Next]_vars => (PipelineTyped /\ FlowInv)'
  <2> SUFFICES ASSUME PipelineTyped, FlowInv, [Next]_vars
               PROVE  PipelineTyped' /\ FlowInv'
    OBVIOUS
  <2>1. QuietPlaces /\ HeadIsWriting
    BY DEF FlowInv
  <2> QED BY <2>1, TypedStep, FlowStep
<1> QED BY <1>1, <1>2, PTL DEF Spec

-----------------------------------------------------------------------------
(* The rows of trips keep the record.                                        *)

\* The only steps that write to trips.
LEMMA DatabaseSteps ==
  ASSUME PipelineTyped, [Next]_vars
  PROVE  \/ UNCHANGED tripRow
         \/ OpenTrips
         \/ \E rows \in SUBSET SampleType : WriteTelemetryBatch(rows)
         \/ \E e \in GoodEvents : ApplyTripEvent(e)
<1>1. CASE \/ Tick \/ OpenTripsFails \/ EmitSamples \/ Moves \/ StopFails \/ UNCHANGED vars
  <2>1. CASE Tick \/ OpenTripsFails \/ EmitSamples \/ StopFails \/ UNCHANGED vars
    BY <2>1 DEF Tick, OpenTripsFails, EmitSamples, StopFails, vars, database
  <2>2. CASE Moves
    BY <2>2, MovesEffect DEF database
  <2> QED BY <1>1, <2>1, <2>2
<1>2. ASSUME NEW p \in Coroutine,
             EmitTripEvent(p) \/ BatchFails(p) \/ EventFails(p) \/ PauseOpenTrip(p) \/ Flushes(p)
      PROVE  UNCHANGED tripRow
  BY <1>2 DEF EmitTripEvent, BatchFails, EventFails, PauseOpenTrip, Flushes, FlushTrips, CloseSink, database
<1>3. ASSUME NEW p \in Coroutine, WriteCommits(p)
      PROVE  \/ \E rows \in SUBSET SampleType : WriteTelemetryBatch(rows)
             \/ \E e \in GoodEvents : ApplyTripEvent(e)
  BY <1>3, CommitEffect
<1>4. ASSUME NEW k \in Key, Redeliver(k) PROVE UNCHANGED tripRow
  BY <1>4 DEF Redeliver, database
<1>5. ASSUME NEW v \in Vehicle, StoreBatch(v)
      PROVE  \E rows \in SUBSET SampleType : WriteTelemetryBatch(rows)
  <2>1. PICK n \in Nat : /\ {log[v][i] : i \in read[v] + 1 .. n} \subseteq SampleType
                         /\ WriteTelemetryBatch({log[v][i] : i \in read[v] + 1 .. n})
    BY <1>5, StoreEffect
  <2> QED BY <2>1
<1>6. ASSUME NEW t \in Trip, ConsumeTripEvent(t)
      PROVE  UNCHANGED tripRow \/ \E e \in GoodEvents : ApplyTripEvent(e)
  <2>1. /\ log[t][read[t] + 1] \in GoodEvents
        /\ \/ ApplyTripEvent(log[t][read[t] + 1])
           \/ UNCHANGED database
    BY <1>6, ConsumeEffect DEF EventsOn
  <2> QED BY <2>1 DEF database
<1> QED BY <1>1, <1>2, <1>3, <1>4, <1>5, <1>6, StepCases

\* What a step does to one row: it stays; it is opened; it moves on while open; or it is
\* closed, at the end of the corridor.
RowStep(old, new) ==
  \/ new = old
  \/ old = NoRow /\ new = [state |-> "driving", distance |-> 0, ended |-> FALSE]
  \/ /\ old # NoRow /\ ~old.ended /\ new # NoRow
     /\ ~new.ended /\ new.distance >= old.distance
  \/ /\ old # NoRow /\ ~old.ended /\ new # NoRow
     /\ new.ended /\ new.distance = Corridor

LEMMA NoRowIsTyped == NoRow.distance = 0 /\ NoRow.ended = FALSE /\ \A r \in RowType : r.state # "none" => r # NoRow
BY DEF NoRow

LEMMA BatchRowStep ==
  ASSUME DatabaseTyped, NEW rows \in SUBSET SampleType, WriteTelemetryBatch(rows), NEW t \in Trip
  PROVE  \/ tripRow'[t] = tripRow[t]
         \/ /\ tripRow[t] # NoRow /\ ~tripRow[t].ended /\ tripRow'[t] # NoRow
            /\ ~tripRow'[t].ended /\ tripRow'[t].distance >= tripRow[t].distance
<1>1. CASE tripRow'[t] # tripRow[t]
  <2>1. PICK s \in SamplesOn(rows, t) :
               /\ tripRow[t] # NoRow /\ ~tripRow[t].ended
               /\ s.distance >= tripRow[t].distance
               /\ tripRow'[t] = [state |-> s.state, distance |-> s.distance, ended |-> FALSE]
    BY <1>1, BatchOnRow
  <2>2. s.state # "none"
    BY DEF SamplesOn, SampleType, VehicleState
  <2> QED BY <2>1, <2>2 DEF NoRow
<1> QED BY <1>1

LEMMA EventRowStep ==
  ASSUME DatabaseTyped, NEW e \in GoodEvents, ApplyTripEvent(e), NEW t \in Trip
  PROVE  \/ tripRow'[t] = tripRow[t]
         \/ /\ t = <<e.vehicle, e.trip>> /\ tripRow[t] # NoRow /\ ~tripRow[t].ended /\ tripRow'[t] # NoRow
            /\ e.type # "finished"
            /\ ~tripRow'[t].ended /\ tripRow'[t].distance = tripRow[t].distance
         \/ /\ t = <<e.vehicle, e.trip>> /\ tripRow[t] # NoRow /\ ~tripRow[t].ended /\ tripRow'[t] # NoRow
            /\ e.type = "finished"
            /\ tripRow'[t].ended /\ tripRow'[t].distance = Corridor
<1>1. CASE t = <<e.vehicle, e.trip>> /\ tripRow[t] # NoRow /\ ~tripRow[t].ended
  <2>1. /\ tripRow'[t].state \in VehicleState
        /\ tripRow'[t].distance = IF e.type = "finished" THEN Corridor ELSE tripRow[t].distance
        /\ tripRow'[t].ended <=> e.type = "finished"
    BY <1>1, EventOnRow
  <2>2. tripRow'[t] # NoRow
    BY <2>1 DEF VehicleState, NoRow
  <2> QED BY <1>1, <2>1, <2>2
<1>2. CASE ~(t = <<e.vehicle, e.trip>> /\ tripRow[t] # NoRow /\ ~tripRow[t].ended)
  BY <1>2, EventOnRow
<1> QED BY <1>1, <1>2

LEMMA RowSteps ==
  ASSUME PipelineTyped, [Next]_vars, NEW t \in Trip
  PROVE  RowStep(tripRow[t], tripRow'[t])
<1>1. DatabaseTyped /\ tripRow[t] \in RowType /\ Corridor \in Nat
  BY PipelineAssumption DEF PipelineTyped, DatabaseTyped
<1>2. CASE UNCHANGED tripRow
  BY <1>2 DEF RowStep
<1>3. CASE OpenTrips
  BY <1>3, OpenEffect DEF RowStep
<1>4. ASSUME NEW rows \in SUBSET SampleType, WriteTelemetryBatch(rows)
      PROVE  RowStep(tripRow[t], tripRow'[t])
  <2>1. \/ tripRow'[t] = tripRow[t]
        \/ /\ tripRow[t] # NoRow /\ ~tripRow[t].ended /\ tripRow'[t] # NoRow
           /\ ~tripRow'[t].ended /\ tripRow'[t].distance >= tripRow[t].distance
    BY <1>1, <1>4, BatchRowStep
  <2> QED BY <2>1 DEF RowStep
<1>5. ASSUME NEW e \in GoodEvents, ApplyTripEvent(e)
      PROVE  RowStep(tripRow[t], tripRow'[t])
  <2>1. \/ tripRow'[t] = tripRow[t]
        \/ /\ tripRow[t] # NoRow /\ ~tripRow[t].ended /\ tripRow'[t] # NoRow
           /\ ~tripRow'[t].ended /\ tripRow'[t].distance = tripRow[t].distance
        \/ /\ tripRow[t] # NoRow /\ ~tripRow[t].ended /\ tripRow'[t] # NoRow
           /\ tripRow'[t].ended /\ tripRow'[t].distance = Corridor
    BY <1>1, <1>5, EventRowStep
  <2>2. tripRow[t].distance \in Nat
    BY <1>1 DEF RowType
  <2> QED BY <2>1, <2>2 DEF RowStep
<1> QED BY <1>2, <1>3, <1>4, <1>5, DatabaseSteps

PhaseOf(row) == IF row = NoRow THEN "absent" ELSE IF row.ended THEN "closed" ELSE "open"

LEMMA RecordStep ==
  ASSUME PipelineTyped, [Next]_vars
  PROVE  [Record!Next]_(Record!vars)
<1>0. /\ \A t \in Trip : tripRow[t] \in RowType
      /\ \A t \in Trip : tripRow[t].distance \in 0 .. Corridor /\ tripRow[t].ended \in BOOLEAN
      /\ DatabaseTyped /\ Corridor \in Nat
  <2>1. \A t \in Trip : tripRow[t] \in RowType
    BY DEF PipelineTyped, DatabaseTyped
  <2> QED BY <2>1, PipelineAssumption DEF PipelineTyped, RowType
<1>1. CASE UNCHANGED tripRow
  BY <1>1 DEF Record!vars
<1>2. CASE OpenTrips
  <2>1. opened \subseteq Trip
    BY DEF PipelineTyped, EngineTyped
  <2>0. PICK S \in SUBSET Trip : S = {t \in opened : tripRow[t] = NoRow}
    BY <2>1
  <2>2. \A t \in Trip : tripRow'[t] = IF t \in S THEN [state |-> "driving", distance |-> 0, ended |-> FALSE]
                                     ELSE tripRow[t]
    BY <1>2, <2>0, OpenEffect
  <2>3. \A t \in S : tripRow[t] = NoRow /\ tripRow'[t] # NoRow
                     /\ tripRow'[t].ended = FALSE /\ tripRow'[t].distance = tripRow[t].distance
    BY <2>0, <2>2 DEF NoRow
  <2>5. Record!Open(S)
    <3>1. \A t \in S : PhaseOf(tripRow[t]) = "absent" /\ PhaseOf(tripRow'[t]) = "open"
      BY <2>3 DEF PhaseOf
    <3>2. \A t \in Trip : PhaseOf(tripRow'[t]) = IF t \in S THEN "open" ELSE PhaseOf(tripRow[t])
      BY <2>2, <3>1
    <3>3. \A t \in Trip : tripRow'[t].distance = tripRow[t].distance
      BY <2>2, <2>3
    <3> DEFINE a == [t \in Trip |-> PhaseOf(tripRow[t])]
               b == [t \in Trip |-> PhaseOf(tripRow'[t])]
               c == [t \in Trip |-> tripRow[t].distance]
               d == [t \in Trip |-> tripRow'[t].distance]
    <3>4. \A t \in S : a[t] = "absent"
      BY <3>1
    <3>5. b = [t \in Trip |-> IF t \in S THEN "open" ELSE a[t]]
      BY <3>2
    <3>6. d = c
      BY <3>3
    <3> QED BY <3>4, <3>5, <3>6 DEF Record!Open, PhaseOf
  <2> QED BY <2>5 DEF Record!Next
<1>3. ASSUME NEW rows \in SUBSET SampleType, WriteTelemetryBatch(rows)
      PROVE  Record!Progress
  <2>1. \A t \in Trip : \/ tripRow'[t] = tripRow[t]
                        \/ /\ tripRow[t] # NoRow /\ ~tripRow[t].ended /\ tripRow'[t] # NoRow
                           /\ ~tripRow'[t].ended /\ tripRow'[t].distance >= tripRow[t].distance
    BY <1>0, <1>3, BatchRowStep
  <2>2. DatabaseTyped'
    BY <1>0, <1>3, BatchTyped
  <2>3. \A t \in Trip : tripRow'[t].distance \in Nat
    BY <2>2 DEF DatabaseTyped, RowType
  <2> QED BY <1>0, <2>1, <2>3 DEF Record!Progress
<1>4. ASSUME NEW e \in GoodEvents, ApplyTripEvent(e)
      PROVE  Record!Next
  <2>1. <<e.vehicle, e.trip>> \in Trip
    BY DEF GoodEvents, EventType, Trip
  <2>2. PICK u \in Trip : u = <<e.vehicle, e.trip>>
    BY <2>1
  <2>3. \A t \in Trip :
         \/ tripRow'[t] = tripRow[t]
         \/ /\ t = u /\ tripRow[t] # NoRow /\ ~tripRow[t].ended /\ tripRow'[t] # NoRow
            /\ e.type # "finished"
            /\ ~tripRow'[t].ended /\ tripRow'[t].distance = tripRow[t].distance
         \/ /\ t = u /\ tripRow[t] # NoRow /\ ~tripRow[t].ended /\ tripRow'[t] # NoRow
            /\ e.type = "finished"
            /\ tripRow'[t].ended /\ tripRow'[t].distance = Corridor
    BY <1>0, <1>4, <2>2, EventRowStep
  <2>4. CASE tripRow'[u] # tripRow[u] /\ e.type = "finished"
    <3>1. /\ tripRow[u] # NoRow /\ ~tripRow[u].ended /\ tripRow'[u] # NoRow /\ tripRow'[u].ended
          /\ tripRow'[u].distance >= tripRow[u].distance
      BY <1>0, <2>3, <2>4
    <3>2. \A t \in Trip \ {u} : tripRow'[t] = tripRow[t]
      BY <2>3
    <3>3. Record!Close(u)
      <4>1. PhaseOf(tripRow[u]) = "open" /\ PhaseOf(tripRow'[u]) = "closed"
        BY <3>1 DEF PhaseOf
      <4> DEFINE a == [t \in Trip |-> PhaseOf(tripRow[t])]
                 b == [t \in Trip |-> PhaseOf(tripRow'[t])]
                 c == [t \in Trip |-> tripRow[t].distance]
                 d == [t \in Trip |-> tripRow'[t].distance]
      <4>2. \A t \in Trip : PhaseOf(tripRow'[t]) = IF t = u THEN "closed" ELSE PhaseOf(tripRow[t])
        BY <3>2, <4>1
      <4>3. b = [a EXCEPT ![u] = "closed"]
        BY <4>2
      <4>4. d = [c EXCEPT ![u] = d[u]]
        BY <3>2
      <4>5. a[u] = "open" /\ d[u] >= c[u]
        BY <3>1, <4>1
      <4> QED BY <4>3, <4>4, <4>5 DEF Record!Close, PhaseOf
    <3> QED BY <3>3 DEF Record!Next
  <2>5. CASE ~(tripRow'[u] # tripRow[u] /\ e.type = "finished")
    <3>1. \A t \in Trip :
         \/ tripRow'[t] = tripRow[t]
         \/ /\ tripRow[t] # NoRow /\ ~tripRow[t].ended /\ tripRow'[t] # NoRow
            /\ ~tripRow'[t].ended /\ tripRow'[t].distance = tripRow[t].distance
      BY <2>3, <2>5
    <3>2. \A t \in Trip : tripRow[t].distance \in Nat /\ tripRow'[t].distance = tripRow[t].distance
      BY <1>0, <3>1
    <3>3. Record!Progress
      BY <3>1, <3>2 DEF Record!Progress
    <3> QED BY <3>3 DEF Record!Next
  <2> QED BY <2>4, <2>5
<1> QED BY <1>1, <1>2, <1>3, <1>4, DatabaseSteps DEF Record!Next

\* THEOREM.  On either transport, whatever is redelivered, lost or written by two
\* coroutines at once, the rows of trips implement TripRecord: a row is opened once, its
\* distance never goes back, and a closed row is final (sinks.py, _TRIP_AGGREGATES_SQL and
\* apply_trip_event; store.py, open_trips).
THEOREM RowsImplementRecord == Spec => KeepsTripRecord
<1>1. Init => Record!Init
  <2> SUFFICES ASSUME Init PROVE Record!Init
    OBVIOUS
  <2>1. \A t \in Trip : tripRow[t] = NoRow
    BY DEF Init
  <2>2. \A t \in Trip : tripRow[t].distance = 0
    BY <2>1, NoRowIsTyped
  <2> QED BY <2>1, <2>2 DEF Record!Init
<1>2. Spec => []PipelineTyped
  BY PipelineAlwaysFlows, PTL
<1>3. PipelineTyped /\ [Next]_vars => [Record!Next]_(Record!vars)
  BY RecordStep
<1> QED BY <1>1, <1>2, <1>3, PTL DEF Spec, KeepsTripRecord, Record!Spec

-----------------------------------------------------------------------------
(* The direct sink accounts for what it took.                                *)

\* What a transaction accounts for.
LEMMA InFlightIs ==
  ASSUME SinkTyped, NEW p \in Coroutine
  PROVE  /\ InFlight(p) \in Nat
         /\ writing[p] = None => InFlight(p) = 0
         /\ writing[p] # None /\ writing[p].kind = "event" => InFlight(p) = 0
         /\ writing[p] # None /\ writing[p].kind = "batch" => InFlight(p) = Cardinality(writing[p].rows)
<1>1. CASE writing[p] # None /\ writing[p].kind = "batch"
  <2>1. IsFiniteSet(writing[p].rows)
    BY <1>1 DEF SinkTyped
  <2>2. Cardinality(writing[p].rows) \in Nat
    BY <2>1, FS_CardinalityType
  <2> QED BY <1>1, <2>2 DEF InFlight
<1>2. CASE ~(writing[p] # None /\ writing[p].kind = "batch")
  BY <1>2 DEF InFlight
<1> QED BY <1>1, <1>2

LEMMA NothingMoves ==
  ASSUME LossesAreCounted,
         UNCHANGED <<transport, accepted, emitted, failed, buffer, writing>>
  PROVE  LossesAreCounted'
BY DEF LossesAreCounted, InFlight

\* The rows of one coroutine's transaction change, and something else to match.
LEMMA AccountStays ==
  ASSUME SinkTyped, SinkTyped', LossesAreCounted, NEW p \in Coroutine, UNCHANGED transport,
         \A q \in Coroutine \ {p} : writing'[q] = writing[q],
         NEW a \in Nat, NEW b \in Nat, InFlight(p) = a, InFlight(p)' = b,
         NEW c \in Nat, NEW d \in Nat, Cardinality(buffer) = c, Cardinality(buffer)' = d,
         transport = "database" =>
           accepted' - emitted' - failed' - d - b = accepted - emitted - failed - c - a
  PROVE  LossesAreCounted'
<1>1. /\ emitted \in Nat /\ failed \in Nat /\ accepted \in Nat
      /\ emitted' \in Nat /\ failed' \in Nat /\ accepted' \in Nat
      /\ "loop" \in Coroutine /\ "stop" \in Coroutine
  BY DEF SinkTyped, Coroutine
<1>2. CASE p = "loop"
  <2>1. InFlight("stop")' = InFlight("stop") /\ InFlight("stop") \in Nat
    BY <1>1, <1>2, InFlightIs DEF InFlight
  <2>2. PICK k \in Nat : InFlight("stop") = k /\ InFlight("stop")' = k
    BY <2>1
  <2>3. ASSUME transport = "database" PROVE accepted' = emitted' + failed' + d + b + k
    <3>1. PICK x \in Nat, y \in Nat, f \in Nat, x1 \in Nat, y1 \in Nat, f1 \in Nat :
            /\ x = accepted /\ y = emitted /\ f = failed
            /\ x1 = accepted' /\ y1 = emitted' /\ f1 = failed'
      BY <1>1
    <3>2. x = y + f + c + a + k
      BY <1>2, <2>2, <2>3, <3>1 DEF LossesAreCounted
    <3>3. x1 - y1 - f1 - d - b = x - y - f - c - a
      BY <2>3, <3>1
    <3>4. x1 = y1 + f1 + d + b + k
      BY <3>2, <3>3
    <3> QED BY <3>1, <3>4
  <2>5. transport' = "database" => accepted' = emitted' + failed' + Cardinality(buffer)' + InFlight("loop")' + InFlight("stop")'
    BY <1>2, <2>2, <2>3
  <2> QED BY <2>5 DEF LossesAreCounted
<1>3. CASE p = "stop"
  <2>1. InFlight("loop")' = InFlight("loop") /\ InFlight("loop") \in Nat
    BY <1>1, <1>3, InFlightIs DEF InFlight
  <2>2. PICK k \in Nat : InFlight("loop") = k /\ InFlight("loop")' = k
    BY <2>1
  <2>3. ASSUME transport = "database" PROVE accepted' = emitted' + failed' + d + k + b
    <3>1. PICK x \in Nat, y \in Nat, f \in Nat, x1 \in Nat, y1 \in Nat, f1 \in Nat :
            /\ x = accepted /\ y = emitted /\ f = failed
            /\ x1 = accepted' /\ y1 = emitted' /\ f1 = failed'
      BY <1>1
    <3>2. x = y + f + c + k + a
      BY <1>3, <2>2, <2>3, <3>1 DEF LossesAreCounted
    <3>3. x1 - y1 - f1 - d - b = x - y - f - c - a
      BY <2>3, <3>1
    <3>4. x1 = y1 + f1 + d + k + b
      BY <3>2, <3>3
    <3> QED BY <3>1, <3>4
  <2>5. transport' = "database" => accepted' = emitted' + failed' + Cardinality(buffer)' + InFlight("loop")' + InFlight("stop")'
    BY <1>3, <2>2, <2>3
  <2> QED BY <2>5 DEF LossesAreCounted
<1> QED BY <1>2, <1>3 DEF Coroutine

LEMMA BufferCounts ==
  ASSUME SinkTyped
  PROVE  Cardinality(buffer) \in Nat /\ (buffer = {} => Cardinality(buffer) = 0)
BY FS_CardinalityType, FS_EmptySet DEF SinkTyped

LEMMA InFlightNext ==
  ASSUME SinkTyped', NEW p \in Coroutine
  PROVE  /\ InFlight(p)' \in Nat
         /\ writing'[p] = None => InFlight(p)' = 0
         /\ writing'[p] # None /\ writing'[p].kind = "event" => InFlight(p)' = 0
         /\ writing'[p] # None /\ writing'[p].kind = "batch" => InFlight(p)' = Cardinality(writing'[p].rows)
<1>1. CASE writing'[p] # None /\ writing'[p].kind = "batch"
  <2>1. IsFiniteSet(writing'[p].rows)
    BY <1>1 DEF SinkTyped
  <2>2. Cardinality(writing'[p].rows) \in Nat
    BY <2>1, FS_CardinalityType
  <2> QED BY <1>1, <2>2 DEF InFlight
<1>2. CASE ~(writing'[p] # None /\ writing'[p].kind = "batch")
  BY <1>2 DEF InFlight
<1> QED BY <1>1, <1>2

\* Samples of the tick go to the buffer, or with it into a transaction.
LEMMA EmitSamplesCounts ==
  ASSUME PipelineTyped, PipelineTyped', FlowInv, LossesAreCounted, EmitSamples
  PROVE  LossesAreCounted'
<1>0. /\ SinkTyped /\ SinkTyped' /\ QuietPlaces /\ SamplesAreNew /\ "loop" \in Coroutine
      /\ IsFiniteSet(samples) /\ IsFiniteSet(buffer) /\ clock \in Nat
      /\ writing \in [Coroutine -> {None} \cup WriteType]
      /\ samples \subseteq SampleType /\ buffer \subseteq SampleType
  BY PipelineAssumption DEF PipelineTyped, FlowInv, EngineTyped, SinkTyped, Coroutine
<1>1. /\ accepted' = accepted + Cardinality(samples)
      /\ pc["loop"] = "samples"
      /\ UNCHANGED <<transport, emitted, failed>>
      /\ buffer \cup samples \subseteq SampleType /\ IsFiniteSet(buffer \cup samples)
      /\ \/ buffer' = buffer \cup samples /\ UNCHANGED writing
         \/ buffer' = {} /\ writing' = [writing EXCEPT !["loop"] = Batch(buffer \cup samples)]
         \/ transport # "database"
  BY EmitSamplesEffect
<1>2. writing["loop"] = None /\ InFlight("loop") = 0
  BY <1>0, <1>1, InFlightIs DEF QuietPlaces
<1>3. Cardinality(buffer \cup samples) = Cardinality(buffer) + Cardinality(samples)
  <2>1. buffer \cap samples = {}
    <3>1. \A s \in buffer : s.at < clock
      BY <1>0, <1>1 DEF SamplesAreNew
    <3>2. \A s \in samples : s.at = clock
      BY <1>0 DEF SamplesAreNew
    <3> QED BY <1>0, <3>1, <3>2
  <2>2. Cardinality(buffer \cup samples) = Cardinality(buffer) + Cardinality(samples) - Cardinality(buffer \cap samples)
    BY <1>0, FS_Union
  <2>3. Cardinality(buffer \cap samples) = 0
    BY <2>1, FS_EmptySet
  <2>4. Cardinality(buffer) \in Nat /\ Cardinality(samples) \in Nat
    BY <1>0, FS_CardinalityType
  <2> QED BY <2>2, <2>3, <2>4
<1>4. Cardinality(buffer) \in Nat /\ Cardinality(samples) \in Nat
  BY <1>0, FS_CardinalityType
<1>5. accepted \in Nat /\ emitted \in Nat /\ failed \in Nat
  BY <1>0 DEF SinkTyped
<1>6. CASE transport # "database"
  BY <1>1, <1>6 DEF LossesAreCounted
<1>7. CASE buffer' = buffer \cup samples /\ UNCHANGED writing
  <2>1. InFlight("loop")' = 0
    BY <1>2, <1>7 DEF InFlight
  <2>2. PICK c \in Nat, n \in Nat : Cardinality(buffer) = c /\ Cardinality(samples) = n
    BY <1>4
  <2>3. Cardinality(buffer)' = c + n /\ c + n \in Nat
    BY <1>3, <1>7, <2>2
  <2>4. accepted' - emitted' - failed' - (c + n) - 0 = accepted - emitted - failed - c - 0
    BY <1>1, <1>5, <2>2
  <2>5. \A q \in Coroutine \ {"loop"} : writing'[q] = writing[q]
    BY <1>7
  <2> QED BY <1>0, <1>1, <1>2, <2>1, <2>2, <2>3, <2>4, <2>5, AccountStays
<1>8. CASE buffer' = {} /\ writing' = [writing EXCEPT !["loop"] = Batch(buffer \cup samples)]
  <2>1. writing'["loop"] = Batch(buffer \cup samples) /\ \A q \in Coroutine \ {"loop"} : writing'[q] = writing[q]
    BY <1>0, <1>8
  <2>2. writing'["loop"] # None /\ writing'["loop"].kind = "batch" /\ writing'["loop"].rows = buffer \cup samples
    BY <1>1, <2>1, BatchIsWrite
  <2>3. PICK c \in Nat, n \in Nat : Cardinality(buffer) = c /\ Cardinality(samples) = n
    BY <1>4
  <2>4. InFlight("loop")' = c + n /\ c + n \in Nat
    BY <1>0, <1>3, <2>2, <2>3, InFlightNext
  <2>5. Cardinality(buffer)' = 0
    BY <1>8, FS_EmptySet
  <2>6. accepted' - emitted' - failed' - 0 - (c + n) = accepted - emitted - failed - c - 0
    BY <1>1, <1>5, <2>3
  <2> QED BY <1>0, <1>1, <1>2, <2>1, <2>3, <2>4, <2>5, <2>6, AccountStays
<1> QED BY <1>1, <1>6, <1>7, <1>8

\* The buffer becomes a transaction, or stays as it is.
LEMMA HandOverCounts ==
  ASSUME SinkTyped, SinkTyped', LossesAreCounted, NEW p \in Coroutine, writing[p] = None,
         UNCHANGED <<transport, accepted, emitted, failed>>, buffer' = {},
         \A q \in Coroutine \ {p} : writing'[q] = writing[q],
         \/ buffer = {} /\ InFlight(p)' = 0
         \/ writing'[p] = Batch(buffer)
  PROVE  LossesAreCounted'
<1>1. InFlight(p) = 0 /\ Cardinality(buffer)' = 0 /\ Cardinality(buffer) \in Nat
  BY InFlightIs, BufferCounts, FS_EmptySet
<1>2. InFlight(p)' = Cardinality(buffer)
  <2>1. CASE buffer = {} /\ InFlight(p)' = 0
    BY <2>1, BufferCounts
  <2>2. CASE writing'[p] = Batch(buffer)
    <3>1. writing'[p] # None /\ writing'[p].kind = "batch" /\ writing'[p].rows = buffer
      BY <2>2, BatchIsWrite DEF SinkTyped
    <3> QED BY <3>1, InFlightNext
  <2> QED BY <2>1, <2>2
<1>3. PICK c \in Nat : Cardinality(buffer) = c /\ InFlight(p)' = c
  BY <1>1, <1>2
<1>4. accepted' - emitted' - failed' - 0 - c = accepted - emitted - failed - c - 0
  BY DEF SinkTyped
<1> QED BY <1>1, <1>3, <1>4, AccountStays

LEMMA EmitEventCounts ==
  ASSUME PipelineTyped, PipelineTyped', LossesAreCounted, NEW p \in Coroutine, EmitTripEvent(p)
  PROVE  LossesAreCounted'
<1>0. SinkTyped /\ SinkTyped' /\ writing \in [Coroutine -> {None} \cup WriteType]
  BY DEF PipelineTyped, SinkTyped
<1>1. UNCHANGED <<transport, accepted, emitted, failed>>
  BY DEF EmitTripEvent
<1>2. PICK v \in Vehicle :
           /\ Head(queue[p][v]) \in EventsOf(v) /\ writing[p] = None
           /\ \/ /\ buffer' = {} /\ buffer = {}
                 /\ writing' = [writing EXCEPT ![p] = Event(Head(queue[p][v]))]
              \/ /\ buffer' = {}
                 /\ writing' = [writing EXCEPT ![p] = Batch(buffer)]
              \/ UNCHANGED <<buffer, writing>>
  BY EmitEventEffect
<1>3. CASE UNCHANGED <<buffer, writing>>
  BY <1>1, <1>3, NothingMoves
<1>4. CASE buffer' = {} /\ buffer = {} /\ writing' = [writing EXCEPT ![p] = Event(Head(queue[p][v]))]
  <2>1. writing'[p] = Event(Head(queue[p][v])) /\ \A q \in Coroutine \ {p} : writing'[q] = writing[q]
    BY <1>0, <1>4
  <2>2. writing'[p] # None /\ writing'[p].kind = "event"
    BY <1>2, <2>1, EventIsWrite DEF EventsOf
  <2>3. InFlight(p)' = 0
    BY <1>0, <2>2, InFlightNext
  <2> QED BY <1>0, <1>1, <1>2, <1>4, <2>1, <2>3, HandOverCounts
<1>5. CASE buffer' = {} /\ writing' = [writing EXCEPT ![p] = Batch(buffer)]
  <2>1. writing'[p] = Batch(buffer) /\ \A q \in Coroutine \ {p} : writing'[q] = writing[q]
    BY <1>0, <1>5
  <2> QED BY <1>0, <1>1, <1>2, <1>5, <2>1, HandOverCounts
<1> QED BY <1>2, <1>3, <1>4, <1>5

LEMMA FlushesCount ==
  ASSUME PipelineTyped, PipelineTyped', FlowInv, LossesAreCounted, NEW p \in Coroutine, Flushes(p)
  PROVE  LossesAreCounted'
<1>0. SinkTyped /\ SinkTyped' /\ QuietPlaces
  BY DEF PipelineTyped, FlowInv
<1>1. /\ writing[p] = None /\ buffer' = {}
      /\ \A q \in Coroutine \ {p} : writing'[q] = writing[q]
      /\ \/ buffer = {} /\ writing' = writing
         \/ buffer # {} /\ writing'[p] = Batch(buffer)
      /\ UNCHANGED <<transport, accepted, emitted, failed>>
  BY <1>0, FlushesEffect
<1>2. writing' = writing => InFlight(p)' = 0
  BY <1>0, <1>1, InFlightNext
<1> QED BY <1>0, <1>1, <1>2, HandOverCounts

\* A transaction that is over: its rows are counted as written or as failed.
LEMMA WriteEndsCounts ==
  ASSUME PipelineTyped, PipelineTyped', LossesAreCounted, NEW p \in Coroutine,
         WriteCommits(p) \/ BatchFails(p) \/ EventFails(p)
  PROVE  LossesAreCounted'
<1>0. SinkTyped /\ SinkTyped'
  BY DEF PipelineTyped
<1>1. /\ writing[p] # None /\ writing'[p] = None
      /\ \A q \in Coroutine \ {p} : writing'[q] = writing[q]
      /\ UNCHANGED <<transport, accepted, buffer>>
  BY CommitEffect, BatchFailsTyped, EventFailsTyped DEF BatchFails, EventFails
<1>2. InFlight(p)' = 0 /\ InFlight(p) \in Nat /\ Cardinality(buffer) \in Nat
      /\ Cardinality(buffer)' = Cardinality(buffer)
  BY <1>0, <1>1, InFlightIs, InFlightNext, BufferCounts
<1>3. emitted \in Nat /\ failed \in Nat /\ accepted \in Nat
  BY <1>0 DEF SinkTyped
<1>4. emitted' + failed' = emitted + failed + InFlight(p)
  <2>1. CASE WriteCommits(p) /\ writing[p].kind = "batch"
    <3>1. emitted' = emitted + Cardinality(writing[p].rows) /\ failed' = failed
      BY <2>1, CommitEffect
    <3>2. InFlight(p) = Cardinality(writing[p].rows)
      BY <1>0, <1>1, <2>1, InFlightIs
    <3> QED BY <1>2, <1>3, <3>1, <3>2
  <2>2. CASE WriteCommits(p) /\ writing[p].kind # "batch"
    <3>1. emitted' = emitted /\ failed' = failed /\ writing[p].kind = "event"
      BY <2>2, CommitEffect
    <3>2. InFlight(p) = 0
      BY <1>0, <1>1, <3>1, InFlightIs
    <3> QED BY <1>3, <3>1, <3>2
  <2>3. CASE BatchFails(p)
    <3>1. emitted' = emitted /\ failed' = failed + Cardinality(writing[p].rows)
          /\ writing[p].kind = "batch"
      BY <2>3 DEF BatchFails
    <3>2. InFlight(p) = Cardinality(writing[p].rows)
      BY <1>0, <1>1, <3>1, InFlightIs
    <3> QED BY <1>2, <1>3, <3>1, <3>2
  <2>4. CASE EventFails(p)
    <3>1. emitted' = emitted /\ failed' = failed /\ writing[p].kind = "event"
      BY <2>4 DEF EventFails
    <3>2. InFlight(p) = 0
      BY <1>0, <1>1, <3>1, InFlightIs
    <3> QED BY <1>3, <3>1, <3>2
  <2> QED BY <2>1, <2>2, <2>3, <2>4
<1>5. PICK a \in Nat, c \in Nat : InFlight(p) = a /\ Cardinality(buffer) = c /\ Cardinality(buffer)' = c
  BY <1>2
<1>6. emitted' \in Nat /\ failed' \in Nat
  BY <1>0 DEF SinkTyped
<1>7. emitted' + failed' = emitted + failed + a
  BY <1>4, <1>5
<1>8. accepted' - emitted' - failed' - c - 0 = accepted - emitted - failed - c - a
  <2>1. PICK x \in Nat, y \in Nat, f \in Nat, y1 \in Nat, f1 \in Nat :
          /\ x = accepted /\ x = accepted' /\ y = emitted /\ f = failed
          /\ y1 = emitted' /\ f1 = failed'
    BY <1>1, <1>3, <1>6
  <2>2. y1 + f1 = y + f + a
    BY <1>7, <2>1
  <2>3. x - y1 - f1 - c - 0 = x - y - f - c - a
    BY <2>2
  <2> QED BY <2>1, <2>3
<1> QED BY <1>0, <1>1, <1>2, <1>5, <1>8, AccountStays

LEMMA LossesStep ==
  ASSUME PipelineTyped, PipelineTyped', FlowInv, LossesAreCounted, [Next]_vars
  PROVE  LossesAreCounted'
<1>1. CASE EmitSamples
  BY <1>1, EmitSamplesCounts
<1>2. CASE Tick \/ OpenTrips \/ OpenTripsFails \/ StopFails \/ Moves
  <2>1. UNCHANGED sink
    BY <1>2, MovesEffect DEF Tick, OpenTrips, OpenTripsFails, StopFails
  <2> QED BY <2>1, NothingMoves DEF sink
<1>3. ASSUME NEW p \in Coroutine,
             EmitTripEvent(p) \/ WriteCommits(p) \/ BatchFails(p) \/ EventFails(p)
             \/ PauseOpenTrip(p) \/ Flushes(p)
      PROVE  LossesAreCounted'
  <2>1. CASE EmitTripEvent(p)
    BY <2>1, EmitEventCounts
  <2>2. CASE WriteCommits(p) \/ BatchFails(p) \/ EventFails(p)
    BY <2>2, WriteEndsCounts
  <2>3. CASE PauseOpenTrip(p)
    BY <2>3, NothingMoves DEF PauseOpenTrip, sink
  <2>4. CASE Flushes(p)
    BY <2>4, FlushesCount
  <2> QED BY <1>3, <2>1, <2>2, <2>3, <2>4
<1>4. CASE \/ \E k \in Key : Redeliver(k)
           \/ \E v \in Vehicle : StoreBatch(v)
           \/ \E t \in Trip : ConsumeTripEvent(t)
           \/ UNCHANGED vars
  <2>1. UNCHANGED sink
    BY <1>4 DEF Redeliver, StoreBatch, ConsumeTripEvent, vars
  <2> QED BY <2>1, NothingMoves DEF sink
<1> QED BY <1>1, <1>2, <1>3, <1>4, StepCases

\* THEOREM.  The direct sink accounts for every sample it took, whatever the batch size and
\* the fleet: written, counted as failed, buffered, or in a transaction that is not over
\* (sinks.py, TelemetryBatchWriter.add_many and flush).
THEOREM LossesAlwaysCounted == Spec => []LossesAreCounted
<1>1. Init => LossesAreCounted
  <2> SUFFICES ASSUME Init PROVE LossesAreCounted
    OBVIOUS
  <2>1. SinkTyped /\ "loop" \in Coroutine /\ "stop" \in Coroutine
    BY InitTyped DEF PipelineTyped, Coroutine
  <2>2. writing["loop"] = None /\ writing["stop"] = None /\ buffer = {}
        /\ accepted = 0 /\ emitted = 0 /\ failed = 0
    BY <2>1 DEF Init
  <2>3. InFlight("loop") = 0 /\ InFlight("stop") = 0 /\ Cardinality(buffer) = 0
    BY <2>1, <2>2, InFlightIs, BufferCounts
  <2> QED BY <2>2, <2>3 DEF LossesAreCounted
<1>2. PipelineTyped /\ PipelineTyped' /\ FlowInv /\ LossesAreCounted /\ [Next]_vars => LossesAreCounted'
  BY LossesStep
<1> QED BY <1>1, <1>2, PipelineAlwaysFlows, PTL DEF Spec

-----------------------------------------------------------------------------
(* What the samples and trip events on their way say, and what they leave    *)
(* behind in the rows.                                                       *)

InTransit(p) == IF writing[p] # None /\ writing[p].kind = "batch" THEN writing[p].rows ELSE {}

Logged(v) == {log[v][i] : i \in 1 .. Len(log[v])}

\* Samples that the run still has somewhere: sent, or of the tick in progress.
Sent == buffer \cup InTransit("loop") \cup InTransit("stop") \cup UNION {Logged(v) : v \in Vehicle}

Held == samples \cup Sent

Completed(t) == t[2] < fleet[t[1]].trip \/ (t[2] = fleet[t[1]].trip /\ fleet[t[1]].state = "idle")

\* Samples tell of a vehicle's way so far, in the order of their times.
SamplesTellTheWay ==
  /\ \A s \in Held :
       /\ s.at <= clock
       /\ s.trip <= fleet[s.vehicle].trip
       /\ s.trip = fleet[s.vehicle].trip => s.distance <= fleet[s.vehicle].distance
  /\ \A a, b \in Held :
       a.vehicle = b.vehicle /\ a.trip = b.trip /\ a.at <= b.at => a.distance <= b.distance
  /\ \A a, b \in samples : a.vehicle = b.vehicle => a = b

FinishedIn(q) == {q[i].trip : i \in {j \in 1 .. Len(q) : q[j].type = "finished"}}

\* Only a trip that is over is said to be finished, or closed; its row is then final.
OnlyCompletedTripsClose ==
  /\ \A v \in Vehicle : \A n \in FinishedIn(queue["loop"][v]) : Completed(<<v, n>>)
  /\ \A v \in Vehicle : FinishedIn(queue["stop"][v]) = {}
  /\ \A t \in Trip : FinishedIn(log[t]) # {} => Completed(t)
  /\ \A t \in Trip : tripRow[t].ended => Completed(t) /\ tripRow[t].distance = Corridor

\* A row is never ahead of its vehicle.
RowsBehind ==
  /\ \A t \in opened : t[2] = fleet[t[1]].trip
  /\ \A v \in Vehicle : \A n \in 1 .. MaxTrips :
       /\ n = fleet[v].trip => tripRow[<<v, n>>].distance <= fleet[v].distance
       /\ n > fleet[v].trip => tripRow[<<v, n>>] = NoRow

WayInv == SamplesTellTheWay /\ OnlyCompletedTripsClose /\ RowsBehind

RowOf(s) == tripRow[<<s.vehicle, s.trip>>]

\* A row that has taken over a sample, or is final.
Covers(row, s) == row.ended \/ row.distance >= s.distance

\* What was sent is about a trip with a row.
SentHasRow ==
  /\ \A s \in Sent : s.trip # 0 => RowOf(s) # NoRow
  /\ \A v \in Vehicle : \A n \in 1 .. fleet[v].trip :
       tripRow[<<v, n>>] # NoRow \/ <<v, n>> \in opened
  /\ \A t \in Trip : FinishedIn(log[t]) # {} => tripRow[t] # NoRow

\* What was read has been applied.
ReadIsApplied ==
  /\ \A v \in Vehicle : \A i \in 1 .. read[v] : log[v][i].trip # 0 => Covers(RowOf(log[v][i]), log[v][i])
  /\ \A t \in Trip : \A i \in 1 .. read[t] : log[t][i].type = "finished" => tripRow[t].ended

\* How far a vehicle has come, and that it has arrived, is in the row or on its way.
NothingForgotten ==
  /\ \A v \in Vehicle :
       fleet[v].trip # 0 /\ fleet[v].distance # 0 =>
         \/ tripRow[<<v, fleet[v].trip>>].ended
         \/ tripRow[<<v, fleet[v].trip>>].distance >= fleet[v].distance
         \/ \E s \in Held : s.vehicle = v /\ s.trip = fleet[v].trip /\ s.distance = fleet[v].distance
  /\ \A v \in Vehicle : \A n \in 1 .. fleet[v].trip :
       Completed(<<v, n>>) =>
         \/ tripRow[<<v, n>>].ended
         \/ n \in FinishedIn(queue["loop"][v])
         \/ FinishedIn(log[<<v, n>>]) # {}

DeliveryInv == ~lost => SentHasRow /\ ReadIsApplied /\ NothingForgotten

LEMMA InTransitIs ==
  ASSUME SinkTyped, NEW p \in Coroutine
  PROVE  /\ writing[p] = None => InTransit(p) = {}
         /\ writing[p] # None /\ writing[p].kind = "event" => InTransit(p) = {}
         /\ writing[p] # None /\ writing[p].kind = "batch" => InTransit(p) = writing[p].rows
         /\ writing'[p] = None => InTransit(p)' = {}
         /\ writing'[p] # None /\ writing'[p].kind = "event" => InTransit(p)' = {}
         /\ writing'[p] # None /\ writing'[p].kind = "batch" => InTransit(p)' = writing'[p].rows
         /\ writing'[p] = writing[p] => InTransit(p)' = InTransit(p)
BY DEF InTransit

LEMMA SentIs ==
  /\ \A s : s \in Sent <=> \/ s \in buffer
                           \/ \E p \in Coroutine : s \in InTransit(p)
                           \/ \E v \in Vehicle : s \in Logged(v)
  /\ \A s : s \in Sent' <=> \/ s \in buffer'
                            \/ \E p \in Coroutine : s \in InTransit(p)'
                            \/ \E v \in Vehicle : s \in Logged(v)'
<1>1. \A s : s \in Sent <=> \/ s \in buffer
                           \/ \E p \in Coroutine : s \in InTransit(p)
                           \/ \E v \in Vehicle : s \in Logged(v)
  BY DEF Sent, Coroutine
<1>2. \A s : s \in Sent' <=> \/ s \in buffer' \/ s \in InTransit("loop")' \/ s \in InTransit("stop")'
                            \/ \E v \in Vehicle : s \in Logged(v)'
  BY DEF Sent
<1> QED BY <1>1, <1>2 DEF Coroutine

LEMMA LoggedStays ==
  ASSUME NEW v \in Vehicle, log'[v] = log[v]
  PROVE  Logged(v)' = Logged(v)
BY DEF Logged

\* The buffer goes into a transaction.
LEMMA HandOverSends ==
  ASSUME SinkTyped, NEW p \in Coroutine, writing[p] = None, buffer' = {},
         \A q \in Coroutine \ {p} : writing'[q] = writing[q],
         (buffer = {} /\ InTransit(p)' = {}) \/ writing'[p] = Batch(buffer),
         \A v \in Vehicle : log'[v] = log[v]
  PROVE  Sent' = Sent
<1>1. InTransit(p) = {} /\ InTransit(p)' = buffer
  <2>1. CASE writing'[p] = Batch(buffer)
    <3>1. writing'[p] # None /\ writing'[p].kind = "batch" /\ writing'[p].rows = buffer
      BY <2>1, BatchIsWrite DEF SinkTyped
    <3> QED BY <3>1, InTransitIs
  <2> QED BY <2>1, InTransitIs
<1>2. \A q \in Coroutine \ {p} : InTransit(q)' = InTransit(q)
  BY InTransitIs
<1>3. \A v \in Vehicle : Logged(v)' = Logged(v)
  BY LoggedStays
<1>4. \A s : s \in Sent' <=> s \in Sent
  BY <1>1, <1>2, <1>3, SentIs
<1> QED BY <1>4

\* A transaction is over.
LEMMA WriteEndsSends ==
  ASSUME SinkTyped, NEW p \in Coroutine, writing'[p] = None, UNCHANGED <<buffer, log>>,
         \A q \in Coroutine \ {p} : writing'[q] = writing[q]
  PROVE  Sent' \subseteq Sent /\ Sent \subseteq Sent' \cup InTransit(p)
<1>1. InTransit(p)' = {}
  BY InTransitIs
<1>2. \A q \in Coroutine \ {p} : InTransit(q)' = InTransit(q)
  BY InTransitIs
<1>3. \A v \in Vehicle : Logged(v)' = Logged(v)
  BY LoggedStays
<1>4. \A s : (s \in Sent' => s \in Sent) /\ (s \in Sent => s \in Sent' \/ s \in InTransit(p))
  BY <1>1, <1>2, <1>3, SentIs
<1> QED BY <1>4

LEMMA NothingSent ==
  ASSUME UNCHANGED <<buffer, writing, log>>
  PROVE  Sent' = Sent
BY DEF Sent, InTransit, Logged

\* The samples of the tick are sent, all of them unless one is lost on the way.
LEMMA EmitSamplesSends ==
  ASSUME PipelineTyped, FlowInv, SamplesTellTheWay, EmitSamples
  PROVE  /\ Sent \subseteq Sent' /\ Sent' \subseteq Sent \cup samples
         /\ ~lost' => samples \subseteq Sent'
<1>0. /\ SinkTyped /\ BrokerTyped /\ "loop" \in Coroutine /\ samples \subseteq SampleType
      /\ writing \in [Coroutine -> {None} \cup WriteType]
  BY DEF PipelineTyped, EngineTyped, SinkTyped, Coroutine
<1>1. /\ pc["loop"] = "samples"
      /\ buffer \cup samples \subseteq SampleType /\ IsFiniteSet(buffer \cup samples)
      /\ \/ buffer' = buffer \cup samples /\ UNCHANGED <<writing, log>>
         \/ /\ buffer' = {} /\ writing' = [writing EXCEPT !["loop"] = Batch(buffer \cup samples)]
            /\ UNCHANGED log
         \/ /\ UNCHANGED <<buffer, writing>>
            /\ \E ms : /\ DOMAIN ms = {x.vehicle : x \in samples} /\ DOMAIN ms \subseteq Key
                       /\ \A v \in DOMAIN ms : ms[v] \in SamplesOf(samples, v) /\ ms[v] \in Message(v)
                       /\ Publish(ms)
  BY EmitSamplesEffect DEF history
<1>2. CASE buffer' = buffer \cup samples /\ UNCHANGED <<writing, log>>
  <2>1. \A p \in Coroutine : InTransit(p)' = InTransit(p)
    BY <1>2 DEF InTransit
  <2>2. \A v \in Vehicle : Logged(v)' = Logged(v)
    BY <1>2 DEF Logged
  <2>3a. \A s : s \in Sent' <=> s \in Sent \/ s \in samples
    BY <1>2, <2>1, <2>2, SentIs
  <2>3. Sent' = Sent \cup samples
    BY <2>3a
  <2> QED BY <2>3
<1>3. CASE /\ buffer' = {} /\ writing' = [writing EXCEPT !["loop"] = Batch(buffer \cup samples)]
           /\ UNCHANGED log
  <2>1. writing'["loop"] = Batch(buffer \cup samples) /\ \A q \in Coroutine \ {"loop"} : writing'[q] = writing[q]
    BY <1>0, <1>3
  <2>2. writing["loop"] = None
    BY <1>1 DEF FlowInv, QuietPlaces
  <2>3. writing'["loop"] # None /\ writing'["loop"].kind = "batch" /\ writing'["loop"].rows = buffer \cup samples
    BY <1>1, <2>1, BatchIsWrite
  <2>4. InTransit("loop")' = buffer \cup samples /\ InTransit("loop") = {}
    BY <1>0, <2>2, <2>3, InTransitIs
  <2>5. \A q \in Coroutine \ {"loop"} : InTransit(q)' = InTransit(q)
    BY <1>0, <2>1, InTransitIs
  <2>7. \A v \in Vehicle : Logged(v)' = Logged(v)
    BY <1>3 DEF Logged
  <2>8. \A s : s \in Sent' <=> s \in Sent \/ s \in samples
    BY <1>0, <1>3, <2>4, <2>5, <2>7, SentIs
  <2>9. Sent' = Sent \cup samples
    BY <2>8
  <2> QED BY <2>9
<1>4. CASE /\ UNCHANGED <<buffer, writing>>
           /\ \E ms : /\ DOMAIN ms = {x.vehicle : x \in samples} /\ DOMAIN ms \subseteq Key
                      /\ \A v \in DOMAIN ms : ms[v] \in SamplesOf(samples, v) /\ ms[v] \in Message(v)
                      /\ Publish(ms)
  <2>1. PICK ms : /\ DOMAIN ms = {x.vehicle : x \in samples} /\ DOMAIN ms \subseteq Key
                  /\ \A v \in DOMAIN ms : ms[v] \in SamplesOf(samples, v) /\ ms[v] \in Message(v)
                  /\ Publish(ms)
    BY <1>4
  <2>2. /\ \A k \in Key : log'[k] = log[k] \/ (k \in DOMAIN ms /\ log'[k] = Append(log[k], ms[k]))
        /\ ~lost' => \A k \in DOMAIN ms : log'[k] = Append(log[k], ms[k])
    BY <1>0, <2>1, PublishTyped
  <2>3. \A v \in Vehicle : log[v] \in Seq(SamplesBy(v))
    BY <1>0 DEF BrokerTyped, Key, Message
  <2>4. ASSUME NEW v \in Vehicle
        PROVE  Logged(v) \subseteq Logged(v)' /\ Logged(v)' \subseteq Logged(v) \cup samples
    <3>1. CASE log'[v] = log[v]
      BY <3>1, LoggedStays
    <3>2. CASE v \in DOMAIN ms /\ log'[v] = Append(log[v], ms[v])
      <4>1. ms[v] \in samples
        BY <2>1, <3>2 DEF SamplesOf
      <4>2. PICK m : m = ms[v]
        OBVIOUS
      <4>3. /\ Len(log'[v]) = Len(log[v]) + 1 /\ Len(log[v]) \in Nat
            /\ \A i \in 1 .. Len(log[v]) : log'[v][i] = log[v][i]
            /\ log'[v][Len(log[v]) + 1] = m
        BY <2>3, <3>2, <4>2
      <4>4. Logged(v)' = Logged(v) \cup {m}
        BY <4>3 DEF Logged
      <4> QED BY <4>1, <4>2, <4>4
    <3> QED BY <2>2, <3>1, <3>2 DEF Key
  <2>5. \A p \in Coroutine : InTransit(p)' = InTransit(p)
    BY <1>4 DEF InTransit
  <2>6. ASSUME ~lost', NEW s \in samples PROVE s \in Sent'
    <3>1. s.vehicle \in Vehicle /\ s.vehicle \in DOMAIN ms
      BY <1>0, <2>1 DEF SampleType
    <3>2. ms[s.vehicle] = s
      BY <2>1, <3>1 DEF SamplesOf, SamplesTellTheWay
    <3>3. log'[s.vehicle] = Append(log[s.vehicle], s) /\ log[s.vehicle] \in Seq(SamplesBy(s.vehicle))
      BY <2>2, <2>3, <2>6, <3>1, <3>2
    <3>4. /\ Len(log'[s.vehicle]) = Len(log[s.vehicle]) + 1 /\ Len(log[s.vehicle]) \in Nat
          /\ log'[s.vehicle][Len(log[s.vehicle]) + 1] = s
      BY <3>3
    <3>5. s \in Logged(s.vehicle)'
      BY <3>4 DEF Logged
    <3> QED BY <3>1, <3>5, SentIs
  <2>7. \A s : (s \in Sent => s \in Sent') /\ (s \in Sent' => s \in Sent \/ s \in samples)
    BY <1>4, <2>4, <2>5, SentIs
  <2> QED BY <2>6, <2>7
<1> QED BY <1>1, <1>2, <1>3, <1>4

\* A trip event leaves the samples on their way as they are.
LEMMA EmitEventSends ==
  ASSUME PipelineTyped, NEW p \in Coroutine, EmitTripEvent(p)
  PROVE  Sent' = Sent
<1>0. SinkTyped /\ BrokerTyped /\ writing \in [Coroutine -> {None} \cup WriteType]
  BY DEF PipelineTyped, SinkTyped
<1>1. PICK v \in Vehicle :
           /\ Head(queue[p][v]) \in EventsOf(v) /\ writing[p] = None
           /\ \/ /\ UNCHANGED log /\ buffer' = {} /\ buffer = {}
                 /\ writing' = [writing EXCEPT ![p] = Event(Head(queue[p][v]))]
              \/ /\ UNCHANGED log /\ buffer' = {}
                 /\ writing' = [writing EXCEPT ![p] = Batch(buffer)]
              \/ /\ UNCHANGED <<buffer, writing>>
                 /\ <<v, Head(queue[p][v]).trip>> \in Trip
                 /\ Head(queue[p][v]) \in EventsOn(<<v, Head(queue[p][v]).trip>>)
                 /\ Publish([t \in {<<v, Head(queue[p][v]).trip>>} |-> Head(queue[p][v])])
  BY EmitEventEffect
<1>2. CASE UNCHANGED log /\ buffer' = {} /\ buffer = {} /\ writing' = [writing EXCEPT ![p] = Event(Head(queue[p][v]))]
  <2>1. writing'[p] = Event(Head(queue[p][v])) /\ \A q \in Coroutine \ {p} : writing'[q] = writing[q]
    BY <1>0, <1>2
  <2>2. InTransit(p)' = {}
    BY <1>0, <1>1, <2>1, EventIsWrite, InTransitIs DEF EventsOf
  <2> QED BY <1>0, <1>1, <1>2, <2>1, <2>2, HandOverSends
<1>3. CASE UNCHANGED log /\ buffer' = {} /\ writing' = [writing EXCEPT ![p] = Batch(buffer)]
  <2>1. writing'[p] = Batch(buffer) /\ \A q \in Coroutine \ {p} : writing'[q] = writing[q]
    BY <1>0, <1>3
  <2> QED BY <1>0, <1>1, <1>3, <2>1, HandOverSends
<1>4. CASE /\ UNCHANGED <<buffer, writing>>
           /\ <<v, Head(queue[p][v]).trip>> \in Trip
           /\ Head(queue[p][v]) \in EventsOn(<<v, Head(queue[p][v]).trip>>)
           /\ Publish([t \in {<<v, Head(queue[p][v]).trip>>} |-> Head(queue[p][v])])
  <2>0. PICK k, m : k = <<v, Head(queue[p][v]).trip>> /\ m = Head(queue[p][v])
    OBVIOUS
  <2>1. k \in Trip /\ m \in EventsOn(k) /\ Publish([t \in {k} |-> m])
    BY <1>4, <2>0
  <2>2. k \in Key /\ m \in Message(k) /\ k \notin Vehicle
    BY <2>1, TripKeysApart DEF Message
  <2>3. \A l \in Key : log'[l] = log[l] \/ l \in DOMAIN [t \in {k} |-> m]
    BY <1>0, <2>1, <2>2, PublishTyped
  <2>4. \A u \in Vehicle : log'[u] = log[u]
    BY <2>2, <2>3, TripKeysApart
  <2>5. \A u \in Vehicle : Logged(u)' = Logged(u)
    BY <2>4, LoggedStays
  <2>6. \A q \in Coroutine : InTransit(q)' = InTransit(q)
    BY <1>4 DEF InTransit
  <2> QED BY <1>4, <2>5, <2>6, SentIs
<1> QED BY <1>1, <1>2, <1>3, <1>4

\* Where samples go when no tick happens: a transaction that commits takes its rows, and
\* nothing else leaves unless something is lost.
LEMMA SentSteps ==
  ASSUME PipelineTyped, FlowInv, SamplesTellTheWay, [Next]_vars, ~Tick
  PROVE  /\ samples' \subseteq samples /\ Held' \subseteq Held
         /\ Sent' \subseteq Sent \/ EmitSamples
         /\ \/ lost'
            \/ Held \subseteq Held'
            \/ \E p \in Coroutine : /\ writing[p] # None /\ writing[p].kind = "batch"
                                    /\ writing[p].rows \subseteq Sent
                                    /\ WriteTelemetryBatch(writing[p].rows)
                                    /\ Held \subseteq Held' \cup writing[p].rows
<1>0. SinkTyped
  BY DEF PipelineTyped
<1>1. CASE EmitSamples
  <2>1. samples' = {}
    BY <1>1 DEF EmitSamples
  <2> QED BY <1>1, <2>1, EmitSamplesSends DEF Held
<1>2. CASE OpenTripsFails
  <2>1. UNCHANGED <<buffer, writing, log>> /\ samples' = {} /\ lost' = TRUE
    BY <1>2 DEF OpenTripsFails, sink, broker
  <2> QED BY <2>1, NothingSent DEF Held
<1>3. CASE UNCHANGED <<samples, buffer, writing, log>>
  BY <1>3, NothingSent DEF Held
<1>4. CASE OpenTrips \/ Moves \/ StopFails \/ UNCHANGED vars
           \/ (\E k \in Key : Redeliver(k)) \/ (\E v \in Vehicle : StoreBatch(v))
           \/ (\E t \in Trip : ConsumeTripEvent(t)) \/ (\E p \in Coroutine : PauseOpenTrip(p))
  <2>1. CASE Moves
    BY <1>3, <2>1, MovesEffect DEF sink, broker
  <2>2. CASE OpenTrips \/ StopFails \/ UNCHANGED vars \/ \E p \in Coroutine : PauseOpenTrip(p)
    BY <1>3, <2>2 DEF OpenTrips, StopFails, PauseOpenTrip, vars, engine, sink, broker
  <2>3. CASE \/ \E k \in Key : Redeliver(k)
             \/ \E v \in Vehicle : StoreBatch(v)
             \/ \E t \in Trip : ConsumeTripEvent(t)
    BY <1>3, <2>3 DEF Redeliver, StoreBatch, ConsumeTripEvent, engine, sink
  <2> QED BY <1>4, <2>1, <2>2, <2>3
<1>5. ASSUME NEW p \in Coroutine, EmitTripEvent(p) \/ Flushes(p)
      PROVE  samples' = samples /\ Sent' = Sent
  <2>1. CASE EmitTripEvent(p)
    BY <2>1, EmitEventSends DEF EmitTripEvent
  <2>2. CASE Flushes(p)
    <3>1. /\ writing[p] = None /\ buffer' = {}
          /\ \A q \in Coroutine \ {p} : writing'[q] = writing[q]
          /\ \/ buffer = {} /\ writing' = writing
             \/ buffer # {} /\ writing'[p] = Batch(buffer)
          /\ UNCHANGED <<samples, log>>
      BY <2>2, FlushesEffect DEF FlowInv, broker
    <3>2. writing' = writing => InTransit(p)' = {}
      BY <1>0, <3>1, InTransitIs
    <3> QED BY <1>0, <3>1, <3>2, HandOverSends
  <2> QED BY <1>5, <2>1, <2>2
<1>6. ASSUME NEW p \in Coroutine, WriteCommits(p) \/ BatchFails(p) \/ EventFails(p)
      PROVE  /\ samples' \subseteq samples /\ Sent' \subseteq Sent
             /\ \/ lost'
                \/ Held \subseteq Held'
                \/ /\ writing[p] # None /\ writing[p].kind = "batch"
                   /\ writing[p].rows \subseteq Sent
                   /\ WriteTelemetryBatch(writing[p].rows)
                   /\ Held \subseteq Held' \cup writing[p].rows
  <2>1. /\ writing[p] # None /\ writing'[p] = None
        /\ \A q \in Coroutine \ {p} : writing'[q] = writing[q]
        /\ UNCHANGED <<samples, buffer, log>>
    BY <1>6, CommitEffect, BatchFailsTyped, EventFailsTyped DEF BatchFails, EventFails, engine, broker
  <2>2. Sent' \subseteq Sent /\ Sent \subseteq Sent' \cup InTransit(p)
    BY <1>0, <2>1, WriteEndsSends
  <2>3. CASE BatchFails(p) \/ EventFails(p)
    BY <2>1, <2>2, <2>3 DEF BatchFails, EventFails
  <2>4. CASE WriteCommits(p) /\ writing[p].kind = "batch"
    <3>1. InTransit(p) = writing[p].rows
      BY <1>0, <2>1, <2>4, InTransitIs
    <3>2. WriteTelemetryBatch(writing[p].rows)
      BY <2>4, CommitEffect
    <3>3. writing[p].rows \subseteq Sent
      BY <3>1, SentIs
    <3> QED BY <2>1, <2>2, <2>4, <3>1, <3>2, <3>3 DEF Held
  <2>5. CASE WriteCommits(p) /\ writing[p].kind # "batch"
    <3>1. writing[p].kind = "event"
      BY <2>5, CommitEffect
    <3>2. InTransit(p) = {}
      BY <1>0, <2>1, <3>1, InTransitIs
    <3> QED BY <2>1, <2>2, <3>2 DEF Held
  <2> QED BY <1>6, <2>3, <2>4, <2>5
<1> QED BY <1>1, <1>2, <1>4, <1>5, <1>6, StepCases DEF Held

-----------------------------------------------------------------------------
(* Where vehicles are, and what is said of trips that are over.              *)

LEMMA FinishedIs ==
  ASSUME NEW q, NEW n
  PROVE  n \in FinishedIn(q) <=> \E i \in 1 .. Len(q) : q[i].type = "finished" /\ q[i].trip = n
BY DEF FinishedIn

LEMMA FinishedSome ==
  ASSUME NEW q
  PROVE  FinishedIn(q) # {} <=> \E i \in 1 .. Len(q) : q[i].type = "finished"
BY DEF FinishedIn

LEMMA NothingFinished ==
  ASSUME NEW p \in Coroutine, NEW v \in Vehicle
  PROVE  /\ queue[p] = NoEvents => FinishedIn(queue[p][v]) = {}
         /\ queue'[p] = NoEvents => FinishedIn(queue'[p][v]) = {}
<1>1. NoEvents[v] = <<>> /\ Len(<<>>) = 0
  BY DEF NoEvents
<1>2. 1 .. 0 = {}
  OBVIOUS
<1>3. FinishedIn(<<>>) = {}
  BY <1>1, <1>2 DEF FinishedIn
<1> QED BY <1>1, <1>3

\* Between two ticks vehicles stay where they are, on the trip they are on; pausing halts
\* those that are on the road.
LEMMA FleetSteps ==
  ASSUME PipelineTyped, FlowInv, [Next]_vars, ~Tick
  PROVE  /\ clock' = clock /\ opened' \subseteq opened
         /\ \A v \in Vehicle : /\ fleet'[v].trip = fleet[v].trip
                               /\ fleet'[v].distance = fleet[v].distance
                               /\ fleet'[v].state = "idle" <=> fleet[v].state = "idle"
<1>1. CASE UNCHANGED <<fleet, clock>> /\ opened' \subseteq opened
  BY <1>1
<1>2. CASE OpenTrips \/ OpenTripsFails \/ EmitSamples \/ StopFails \/ UNCHANGED vars
  BY <1>1, <1>2 DEF OpenTrips, OpenTripsFails, EmitSamples, StopFails, vars, engine
<1>3. CASE Moves
  BY <1>1, <1>3, MovesEffect
<1>4. ASSUME NEW p \in Coroutine,
             EmitTripEvent(p) \/ WriteCommits(p) \/ BatchFails(p) \/ EventFails(p)
      PROVE  UNCHANGED <<fleet, clock, opened>>
  BY <1>4 DEF EmitTripEvent, WriteCommits, BatchFails, EventFails, engine
<1>5. ASSUME NEW p \in Coroutine, Flushes(p)
      PROVE  UNCHANGED <<fleet, clock, opened>>
  BY <1>5, FlushesEffect DEF FlowInv
<1>6. CASE \E p \in Coroutine : PauseOpenTrip(p)
  BY <1>6, PauseEffect
<1>7. CASE \/ \E k \in Key : Redeliver(k)
           \/ \E v \in Vehicle : StoreBatch(v)
           \/ \E t \in Trip : ConsumeTripEvent(t)
  BY <1>1, <1>7 DEF Redeliver, StoreBatch, ConsumeTripEvent, engine
<1> QED BY <1>1, <1>2, <1>3, <1>4, <1>5, <1>6, <1>7, StepCases

LEMMA CompletedStays ==
  ASSUME NEW v \in Vehicle, NEW n,
         fleet'[v].trip = fleet[v].trip,
         fleet'[v].state = "idle" <=> fleet[v].state = "idle"
  PROVE  Completed(<<v, n>>)' <=> Completed(<<v, n>>)
BY DEF Completed

\* What a tick does to the vehicles, and the samples and trip events it leaves.
LEMMA TickMoves ==
  ASSUME PipelineTyped, FlowInv, Tick
  PROVE  /\ clock' = clock + 1 /\ samples = {} /\ opened = {} /\ queue["loop"] = NoEvents
         /\ queue'["stop"] = queue["stop"]
         /\ UNCHANGED <<tripRow, log, read, buffer, writing, lost>>
         /\ \A v \in Vehicle :
              \/ /\ fleet'[v].trip = fleet[v].trip /\ fleet'[v].distance >= fleet[v].distance
                 /\ fleet[v].state = "idle" => fleet'[v].state = "idle" /\ fleet'[v].distance = fleet[v].distance
              \/ /\ fleet'[v].trip = fleet[v].trip + 1 /\ fleet[v].state = "idle"
                 /\ <<v, fleet'[v].trip>> \in opened'
         /\ \A t \in opened' : t \in Trip /\ t[2] = fleet'[t[1]].trip /\ t[2] = fleet[t[1]].trip + 1
         /\ \A s \in samples' :
              /\ s.at = clock' /\ s.vehicle \in Vehicle
              /\ s.trip = fleet'[s.vehicle].trip /\ s.distance = fleet'[s.vehicle].distance
         /\ \A a, b \in samples' : a.vehicle = b.vehicle => a = b
         /\ \A v \in Vehicle :
              (IF fleet'[v].trip = fleet[v].trip THEN fleet'[v].distance # fleet[v].distance
               ELSE fleet'[v].distance # 0)
              => \E s \in samples' : /\ s.vehicle = v /\ s.trip = fleet'[v].trip
                                     /\ s.distance = fleet'[v].distance
         /\ \A v \in Vehicle : \A n \in FinishedIn(queue'["loop"][v]) :
              n = fleet'[v].trip /\ fleet'[v].state = "idle"
         /\ \A v \in Vehicle :
              fleet'[v].state = "idle" /\ (fleet[v].state # "idle" \/ fleet'[v].trip # fleet[v].trip)
                => fleet'[v].trip \in FinishedIn(queue'["loop"][v])
<1>0. /\ QuietPlaces /\ TickIsOver /\ EngineTyped
      /\ fleet \in [Vehicle -> FleetType] /\ clock \in Nat
      /\ queue \in [Coroutine -> [Vehicle -> Seq(GoodEvents)]]
  BY PipelineAssumption DEF FlowInv, PipelineTyped, EngineTyped
<1>1. PICK out :
        /\ \A v \in Vehicle : OutcomeOK(fleet[v], out[v])
        /\ fleet' = [v \in Vehicle |-> After(out[v])]
        /\ opened' = {<<v, out[v].after.trip>> : v \in
                        {u \in Vehicle : out[u].after.trip # fleet[u].trip}}
        /\ samples' = {Sample(v, out[v].after, clock + 1) : v \in
                         {u \in Vehicle : out[u].sampled}}
        /\ queue' = [queue EXCEPT !["loop"] = [v \in Vehicle |-> TripEvents(v, out[v])]]
  BY <1>0, TickOutcomes
<1>2. /\ pc["loop"] = "tick" /\ clock' = clock + 1
      /\ UNCHANGED <<tripRow, log, read, buffer, writing, lost>>
  BY DEF Tick, sink, broker, database
<1>3. samples = {} /\ opened = {} /\ queue["loop"] = NoEvents
  BY <1>0, <1>2 DEF TickIsOver
<1>4. /\ queue'["stop"] = queue["stop"]
      /\ \A v \in Vehicle : queue'["loop"][v] = TripEvents(v, out[v])
  BY <1>0, <1>1 DEF Coroutine
<1>5. ASSUME NEW v \in Vehicle
      PROVE  /\ fleet'[v] = After(out[v])
             /\ fleet'[v].trip = out[v].after.trip /\ fleet'[v].distance = out[v].after.distance
             /\ fleet'[v].state = "idle" <=> out[v].after.state \in {"idle", "completed"}
             /\ fleet[v].trip \in Nat /\ fleet[v].distance \in Nat
             /\ out[v].after.trip \in 0 .. MaxTrips
  <2>1. /\ out[v].after \in [state : VehicleState, trip : 0 .. MaxTrips, distance : 0 .. Corridor]
        /\ out[v].after.state = "completed" => out[v].sampled
    BY <1>1 DEF OutcomeOK
  <2>2. fleet'[v] = After(out[v])
    BY <1>1
  <2>3. fleet[v].trip \in Nat /\ fleet[v].distance \in Nat
    BY <1>0, PipelineAssumption DEF FleetType
  <2> QED BY <2>1, <2>2, <2>3 DEF After, Released
<1>6. ASSUME NEW v \in Vehicle
      PROVE  \/ /\ fleet'[v].trip = fleet[v].trip /\ fleet'[v].distance >= fleet[v].distance
                /\ fleet[v].state = "idle" => fleet'[v].state = "idle" /\ fleet'[v].distance = fleet[v].distance
             \/ /\ fleet'[v].trip = fleet[v].trip + 1 /\ fleet[v].state = "idle"
                /\ <<v, fleet'[v].trip>> \in opened'
  <2>1. \/ /\ out[v].after.trip = fleet[v].trip /\ out[v].after.distance >= fleet[v].distance
           /\ fleet[v].state = "idle" => out[v].after = fleet[v]
        \/ out[v].after.trip = fleet[v].trip + 1 /\ fleet[v].state = "idle"
    BY <1>1 DEF OutcomeOK
  <2>2. CASE out[v].after.trip = fleet[v].trip + 1 /\ fleet[v].state = "idle"
    <3>1. out[v].after.trip # fleet[v].trip
      BY <1>5, <2>2
    <3>2. <<v, out[v].after.trip>> \in opened'
      BY <1>1, <3>1
    <3> QED BY <1>5, <2>2, <3>2
  <2> QED BY <1>5, <2>1, <2>2
<1>7. ASSUME NEW t \in opened'
      PROVE  t \in Trip /\ t[2] = fleet'[t[1]].trip /\ t[2] = fleet[t[1]].trip + 1
  <2>1. PICK v \in Vehicle : t = <<v, out[v].after.trip>> /\ out[v].after.trip # fleet[v].trip
    BY <1>1
  <2>2. out[v].after.trip = fleet[v].trip + 1
    BY <1>1, <2>1 DEF OutcomeOK
  <2>3. out[v].after.trip \in 1 .. MaxTrips
    BY <1>5, <2>2, PipelineAssumption
  <2> QED BY <1>5, <2>1, <2>2, <2>3 DEF Trip
<1>8. ASSUME NEW s \in samples'
      PROVE  /\ s.vehicle \in Vehicle /\ out[s.vehicle].sampled
             /\ s = Sample(s.vehicle, out[s.vehicle].after, clock + 1)
             /\ s.at = clock'
             /\ s.trip = fleet'[s.vehicle].trip /\ s.distance = fleet'[s.vehicle].distance
  <2>1. PICK v \in Vehicle : s = Sample(v, out[v].after, clock + 1) /\ out[v].sampled
    BY <1>1
  <2>2. s.vehicle = v
    BY <2>1 DEF Sample
  <2> QED BY <1>2, <1>5, <2>1, <2>2 DEF Sample
<1>9. \A a, b \in samples' : a.vehicle = b.vehicle => a = b
  BY <1>8
<1>10. ASSUME NEW v \in Vehicle,
              IF fleet'[v].trip = fleet[v].trip THEN fleet'[v].distance # fleet[v].distance
              ELSE fleet'[v].distance # 0
       PROVE  \E s \in samples' : /\ s.vehicle = v /\ s.trip = fleet'[v].trip
                                  /\ s.distance = fleet'[v].distance
  <2>1. out[v].sampled
    BY <1>1, <1>5, <1>6, <1>10 DEF OutcomeOK
  <2>2. Sample(v, out[v].after, clock + 1) \in samples'
    BY <1>1, <2>1
  <2>3. /\ Sample(v, out[v].after, clock + 1).vehicle = v
        /\ Sample(v, out[v].after, clock + 1).trip = out[v].after.trip
        /\ Sample(v, out[v].after, clock + 1).distance = out[v].after.distance
    BY DEF Sample
  <2> QED BY <1>5, <2>2, <2>3
<1>11. ASSUME NEW v \in Vehicle
       PROVE  \A n : n \in FinishedIn(queue'["loop"][v]) <=>
                     n = fleet'[v].trip /\ out[v].after.state = "completed"
  <2>1. OutcomeOK(fleet[v], out[v])
    BY <1>1
  <2>2. /\ TripEvents(v, out[v]) \in Seq(EventsOf(v))
        /\ DOMAIN TripEvents(v, out[v]) = DOMAIN out[v].events
        /\ \A i \in DOMAIN out[v].events :
             /\ TripEvents(v, out[v])[i].type = out[v].events[i]
             /\ TripEvents(v, out[v])[i].trip = out[v].after.trip
    BY <2>1, TripEventsTyped
  <2>3. DOMAIN out[v].events = 1 .. Len(TripEvents(v, out[v]))
    BY <2>2
  <2>4. /\ \A i \in DOMAIN out[v].events : out[v].events[i] = "finished" => out[v].after.state = "completed"
        /\ out[v].after.state = "completed" => \E i \in DOMAIN out[v].events : out[v].events[i] = "finished"
    BY <2>1 DEF OutcomeOK
  <2>5. PICK q : q = TripEvents(v, out[v])
    OBVIOUS
  <2>6. queue'["loop"][v] = q
    BY <1>4, <2>5
  <2>7. \A n : n \in FinishedIn(q) <=> \E i \in 1 .. Len(q) : q[i].type = "finished" /\ q[i].trip = n
    BY FinishedIs
  <2> QED BY <1>5, <2>2, <2>3, <2>4, <2>5, <2>6, <2>7
<1>12. ASSUME NEW v \in Vehicle, fleet'[v].state = "idle",
              fleet[v].state # "idle" \/ fleet'[v].trip # fleet[v].trip
       PROVE  fleet'[v].trip \in FinishedIn(queue'["loop"][v])
  <2>1. out[v].after.state \in {"idle", "completed"}
    BY <1>5, <1>12
  <2>2. out[v].after.state # "idle"
    <3>1. CASE fleet'[v].trip # fleet[v].trip
      BY <1>1, <1>5, <3>1 DEF OutcomeOK
    <3>2. CASE fleet'[v].trip = fleet[v].trip /\ fleet[v].state # "idle"
      BY <1>1, <1>5, <3>2 DEF OutcomeOK
    <3> QED BY <1>12, <3>1, <3>2
  <2> QED BY <1>11, <2>1, <2>2
<1>13. \A v \in Vehicle : \A n \in FinishedIn(queue'["loop"][v]) :
         n = fleet'[v].trip /\ fleet'[v].state = "idle"
  BY <1>5, <1>11
<1>14. \A s \in samples' : /\ s.at = clock' /\ s.vehicle \in Vehicle
                            /\ s.trip = fleet'[s.vehicle].trip /\ s.distance = fleet'[s.vehicle].distance
  BY <1>8
<1> QED BY <1>2, <1>3, <1>4, <1>6, <1>7, <1>9, <1>10, <1>12, <1>13, <1>14

-----------------------------------------------------------------------------
(* How trip events move: from the queues to the log, or to the rows.         *)

LEMMA PublishGrows ==
  ASSUME BrokerTyped, NEW ms, DOMAIN ms \subseteq Key, \A k \in DOMAIN ms : ms[k] \in Message(k),
         Publish(ms)
  PROVE  /\ lost => lost'
         /\ \A k \in Key : /\ Len(log[k]) <= Len(log'[k])
                           /\ \A i \in 1 .. Len(log[k]) : log'[k][i] = log[k][i]
<1>1. /\ \A k \in Key : Len(log[k]) <= Len(log'[k])
      /\ \A k \in Key : log'[k] = log[k] \/ (k \in DOMAIN ms /\ log'[k] = Append(log[k], ms[k]))
      /\ lost' = lost \/ lost' = TRUE
  BY PublishTyped
<1>2. ASSUME NEW k \in Key PROVE \A i \in 1 .. Len(log[k]) : log'[k][i] = log[k][i]
  <2>1. log[k] \in Seq(Message(k))
    BY DEF BrokerTyped
  <2>2. CASE k \in DOMAIN ms /\ log'[k] = Append(log[k], ms[k])
    <3>1. PICK m : m = ms[k]
      OBVIOUS
    <3> QED BY <2>1, <2>2, <3>1
  <2> QED BY <1>1, <2>2
<1> QED BY <1>1, <1>2

\* The log only grows, what has been given up stays given up, and nobody reads ahead.
LEMMA LogSteps ==
  ASSUME PipelineTyped, FlowInv, [Next]_vars
  PROVE  /\ lost => lost'
         /\ \A k \in Key : /\ Len(log[k]) \in Nat /\ Len(log[k]) <= Len(log'[k])
                           /\ \A i \in 1 .. Len(log[k]) : log'[k][i] = log[k][i]
         /\ \A k \in Key : read'[k] <= Len(log[k])
<1>0. /\ BrokerTyped /\ SinkTyped /\ \A k \in Key : Len(log[k]) \in Nat /\ read[k] <= Len(log[k])
  BY DEF PipelineTyped, BrokerTyped
<1>1. CASE UNCHANGED <<log, read, lost>>
  BY <1>0, <1>1
<1>2. CASE Tick \/ OpenTrips \/ StopFails \/ UNCHANGED vars
           \/ \E p \in Coroutine : PauseOpenTrip(p)
  BY <1>1, <1>2 DEF Tick, OpenTrips, StopFails, PauseOpenTrip, vars, broker, history
<1>3. CASE OpenTripsFails
  BY <1>0, <1>3 DEF OpenTripsFails, broker
<1>4. CASE Moves
  BY <1>1, <1>4, MovesEffect DEF broker, history
<1>5. CASE EmitSamples
  <2>1. /\ UNCHANGED read
        /\ \/ UNCHANGED <<log, lost>>
           \/ \E ms : /\ DOMAIN ms \subseteq Key /\ \A v \in DOMAIN ms : ms[v] \in Message(v)
                      /\ Publish(ms)
    BY <1>5, EmitSamplesEffect DEF history
  <2> QED BY <1>0, <2>1, PublishGrows
<1>6. ASSUME NEW p \in Coroutine, EmitTripEvent(p)
      PROVE  /\ UNCHANGED read /\ (lost => lost')
             /\ \A k \in Key : /\ Len(log[k]) <= Len(log'[k])
                               /\ \A i \in 1 .. Len(log[k]) : log'[k][i] = log[k][i]
  <2>0. UNCHANGED read
    BY <1>6 DEF EmitTripEvent
  <2>1. PICK v \in Vehicle :
          \/ UNCHANGED <<log, lost>>
          \/ /\ <<v, Head(queue[p][v]).trip>> \in Trip
             /\ Head(queue[p][v]) \in EventsOn(<<v, Head(queue[p][v]).trip>>)
             /\ Publish([t \in {<<v, Head(queue[p][v]).trip>>} |-> Head(queue[p][v])])
    BY <1>6, EmitEventEffect DEF history
  <2>2. PICK k, m : k = <<v, Head(queue[p][v]).trip>> /\ m = Head(queue[p][v])
    OBVIOUS
  <2>3. CASE k \in Trip /\ m \in EventsOn(k) /\ Publish([t \in {k} |-> m])
    <3>1. k \in Key /\ m \in Message(k)
      BY <2>3, TripKeysApart DEF Message
    <3>2. PICK ms : ms = [t \in {k} |-> m]
      OBVIOUS
    <3>3. DOMAIN ms \subseteq Key /\ (\A t \in DOMAIN ms : ms[t] \in Message(t)) /\ Publish(ms)
      BY <2>3, <3>1, <3>2
    <3> QED BY <1>0, <2>0, <3>3, PublishGrows
  <2> QED BY <1>0, <2>0, <2>1, <2>2, <2>3
<1>7. ASSUME NEW p \in Coroutine, WriteCommits(p) \/ BatchFails(p) \/ EventFails(p) \/ Flushes(p)
      PROVE  UNCHANGED <<log, read>> /\ (lost => lost')
  <2>1. CASE BatchFails(p) \/ EventFails(p)
    BY <2>1 DEF BatchFails, EventFails, broker
  <2>2. CASE WriteCommits(p)
    BY <2>2, CommitEffect
  <2>3. CASE Flushes(p)
    BY <2>3, FlushesEffect DEF FlowInv, broker, history
  <2> QED BY <1>7, <2>1, <2>2, <2>3
<1>8. CASE \E k \in Key : Redeliver(k)
  <2>1. UNCHANGED <<log, lost>> /\ \A l \in Key : read'[l] <= read[l] /\ read'[l] \in Nat /\ read[l] \in Nat
    BY <1>8, RedeliverEffect DEF PipelineTyped, BrokerTyped
  <2> QED BY <1>0, <2>1
<1>9. CASE \E v \in Vehicle : StoreBatch(v)
  <2>1. UNCHANGED <<log, lost>> /\ \A k \in Key : read'[k] <= Len(log'[k])
    BY <1>9, StoreEffect DEF history, PipelineTyped, BrokerTyped
  <2> QED BY <1>0, <2>1
<1>10. CASE \E t \in Trip : ConsumeTripEvent(t)
  <2>1. UNCHANGED log /\ (lost => lost') /\ \A k \in Key : read'[k] <= Len(log'[k])
    BY <1>10, ConsumeEffect DEF history, PipelineTyped, BrokerTyped
  <2> QED BY <1>0, <2>1
<1> QED BY <1>0, <1>2, <1>3, <1>4, <1>5, <1>6, <1>7, <1>8, <1>9, <1>10, StepCases

\* The head leaves a queue; the other trip events stay.
LEMMA DequeueSteps ==
  ASSUME EngineTyped, NEW p \in Coroutine, NEW v \in Vehicle, queue[p][v] # <<>>,
         Dequeue(p, v)
  PROVE  /\ \A r \in Coroutine, u \in Vehicle : r # p \/ u # v => queue'[r][u] = queue[r][u]
         /\ \A n \in FinishedIn(queue'[p][v]) : n \in FinishedIn(queue[p][v])
         /\ \A n \in FinishedIn(queue[p][v]) :
              \/ n \in FinishedIn(queue'[p][v])
              \/ Head(queue[p][v]).type = "finished" /\ n = Head(queue[p][v]).trip
<1>1. /\ Tail(queue[p][v]) \in Seq(EventsOf(v))
      /\ Len(queue[p][v]) \in Nat /\ Len(queue[p][v]) # 0
      /\ Len(Tail(queue[p][v])) = Len(queue[p][v]) - 1
      /\ \A i \in 1 .. Len(queue[p][v]) - 1 : Tail(queue[p][v])[i] = queue[p][v][i + 1]
  BY HeadTyped
<1>2. /\ queue'[p][v] = Tail(queue[p][v])
      /\ \A r \in Coroutine, u \in Vehicle : r # p \/ u # v => queue'[r][u] = queue[r][u]
  <2>1. queue \in [Coroutine -> [Vehicle -> Seq(GoodEvents)]]
    BY DEF EngineTyped
  <2> QED BY <2>1 DEF Dequeue
<1>3a. PICK N \in Nat : N = Len(queue[p][v])
  BY <1>1
<1>3. PICK a, b, h : a = queue[p][v] /\ b = queue'[p][v] /\ h = Head(queue[p][v])
  OBVIOUS
<1>4. /\ N # 0 /\ Len(a) = N /\ Len(b) = N - 1
      /\ \A i \in 1 .. N - 1 : b[i] = a[i + 1]
  BY <1>1, <1>2, <1>3, <1>3a
<1>5. a[1] = h
  BY <1>1, <1>3
<1>6. ASSUME NEW n \in FinishedIn(b) PROVE n \in FinishedIn(a)
  <2>1. PICK i \in 1 .. Len(b) : b[i].type = "finished" /\ b[i].trip = n
    BY <1>6, FinishedIs
  <2>2. i + 1 \in 1 .. N /\ a[i + 1] = b[i]
    BY <1>4, <2>1
  <2> QED BY <1>4, <2>1, <2>2, FinishedIs
<1>7. ASSUME NEW n \in FinishedIn(a) PROVE n \in FinishedIn(b) \/ (h.type = "finished" /\ h.trip = n)
  <2>1. PICK i \in 1 .. N : a[i].type = "finished" /\ a[i].trip = n
    BY <1>4, <1>7, FinishedIs
  <2>2. CASE i # 1
    <3>1. i - 1 \in 1 .. N - 1 /\ b[i - 1] = a[(i - 1) + 1] /\ (i - 1) + 1 = i
      BY <1>4, <2>1, <2>2
    <3> QED BY <1>4, <2>1, <3>1, FinishedIs
  <2> QED BY <1>5, <2>1, <2>2
<1> QED BY <1>2, <1>3, <1>6, <1>7

-----------------------------------------------------------------------------
(* Trip events that finish a trip, and where the rows take what they say.    *)

\* A trip event on Kafka: from the queue to the log of its trip, unless it is lost.
LEMMA EmitEventFinishes ==
  ASSUME PipelineTyped, NEW p \in Coroutine, EmitTripEvent(p)
  PROVE  /\ \A r \in Coroutine, u \in Vehicle : \A n \in FinishedIn(queue'[r][u]) : n \in FinishedIn(queue[r][u])
         /\ \A r \in Coroutine \ {p}, u \in Vehicle : \A n \in FinishedIn(queue[r][u]) : n \in FinishedIn(queue'[r][u])
         /\ \A t \in Trip : FinishedIn(log'[t]) # {} =>
              FinishedIn(log[t]) # {} \/ t[2] \in FinishedIn(queue[p][t[1]])
         /\ lost' \/ \A u \in Vehicle : \A n \in FinishedIn(queue[p][u]) :
                       n \in FinishedIn(queue'[p][u]) \/ FinishedIn(log'[<<u, n>>]) # {}
<1>0. BrokerTyped /\ EngineTyped
  BY DEF PipelineTyped
<1>1. PICK v \in Vehicle :
        /\ queue[p][v] # <<>> /\ Head(queue[p][v]) \in EventsOf(v)
        /\ \/ UNCHANGED <<log, queue>>
           \/ /\ queue' = [queue EXCEPT ![p][v] = Tail(queue[p][v])]
              /\ <<v, Head(queue[p][v]).trip>> \in Trip
              /\ Head(queue[p][v]) \in EventsOn(<<v, Head(queue[p][v]).trip>>)
              /\ Publish([t \in {<<v, Head(queue[p][v]).trip>>} |-> Head(queue[p][v])])
  BY EmitEventEffect
<1>2. CASE UNCHANGED <<log, queue>>
  BY <1>2
<1>3. CASE /\ queue' = [queue EXCEPT ![p][v] = Tail(queue[p][v])]
           /\ <<v, Head(queue[p][v]).trip>> \in Trip
           /\ Head(queue[p][v]) \in EventsOn(<<v, Head(queue[p][v]).trip>>)
           /\ Publish([t \in {<<v, Head(queue[p][v]).trip>>} |-> Head(queue[p][v])])
  <2>1. /\ \A r \in Coroutine, u \in Vehicle : \A n \in FinishedIn(queue'[r][u]) : n \in FinishedIn(queue[r][u])
        /\ \A r \in Coroutine, u \in Vehicle : \A n \in FinishedIn(queue[r][u]) :
             \/ n \in FinishedIn(queue'[r][u])
             \/ r = p /\ u = v /\ Head(queue[p][v]).type = "finished" /\ Head(queue[p][v]).trip = n
    <3>1. Dequeue(p, v)
      BY <1>3 DEF Dequeue
    <3>2. EngineTyped /\ v \in Vehicle /\ queue[p][v] # <<>>
      BY <1>0, <1>1
    <3> QED BY <3>1, <3>2, DequeueSteps
  <2>2. PICK m : m = Head(queue[p][v])
    OBVIOUS
  <2>3. PICK k : k = <<v, m.trip>>
    OBVIOUS
  <2>4. /\ k \in Trip /\ m \in EventsOn(k) /\ m \in EventsOf(v)
        /\ Publish([t \in {k} |-> m])
    BY <1>1, <1>3, <2>2, <2>3
  <2>5. k \in Key /\ m \in Message(k) /\ k \notin Vehicle
    BY <2>4, TripKeysApart DEF Message
  <2>6. /\ \A l \in Key : log'[l] = log[l] \/ (l = k /\ log'[l] = Append(log[l], m))
        /\ ~lost' => log'[k] = Append(log[k], m)
    <3>1. PICK ms : ms = [t \in {k} |-> m]
      OBVIOUS
    <3>2. DOMAIN ms = {k} /\ ms[k] = m /\ Publish(ms)
      BY <2>4, <3>1
    <3> QED BY <1>0, <2>5, <3>2, PublishTyped
  <2>7. /\ \A l \in Key : log[l] \in Seq(Message(l))
    BY <1>0 DEF BrokerTyped
  <2>8. log'[k] = Append(log[k], m) =>
          /\ Len(log[k]) \in Nat /\ Len(log'[k]) = Len(log[k]) + 1 /\ log'[k][Len(log[k]) + 1] = m
          /\ \A i \in 1 .. Len(log[k]) : log'[k][i] = log[k][i]
    BY <2>5, <2>7
  <2>9. m.type = "finished" => m.trip \in FinishedIn(queue[p][v])
    <3>1. queue[p][v] \in Seq(EventsOf(v)) /\ queue[p][v] # <<>>
      BY <1>0, <1>1 DEF EngineTyped
    <3>2. 1 \in 1 .. Len(queue[p][v]) /\ queue[p][v][1] = m
      BY <2>2, <3>1
    <3> QED BY <3>2, FinishedIs
  <2>10. ASSUME NEW t \in Trip, FinishedIn(log'[t]) # {}
         PROVE  FinishedIn(log[t]) # {} \/ t[2] \in FinishedIn(queue[p][t[1]])
    <3>1. t \in Key
      BY TripKeysApart
    <3>2. CASE log'[t] = log[t]
      BY <2>10, <3>2
    <3>3. CASE t = k /\ log'[t] = Append(log[t], m)
      <4>1. PICK i \in 1 .. Len(log'[k]) : log'[k][i].type = "finished"
        BY <2>10, <3>3, FinishedSome
      <4>2. CASE i \in 1 .. Len(log[k])
        BY <2>8, <3>3, <4>1, <4>2, FinishedSome
      <4>3. CASE i \notin 1 .. Len(log[k])
        <5>1. i = Len(log[k]) + 1
          BY <2>8, <3>3, <4>1, <4>3
        <5>2. m.type = "finished"
          BY <2>8, <3>3, <4>1, <5>1
        <5>3. t[1] = v /\ t[2] = m.trip
          BY <2>3, <3>3
        <5> QED BY <2>9, <5>2, <5>3
      <4> QED BY <4>2, <4>3
    <3> QED BY <2>6, <3>1, <3>2, <3>3
  <2>11. ASSUME ~lost', m.type = "finished" PROVE FinishedIn(log'[<<v, m.trip>>]) # {}
    <3>1. Len(log'[k]) = Len(log[k]) + 1 /\ Len(log[k]) \in Nat /\ log'[k][Len(log[k]) + 1] = m
      BY <2>6, <2>8, <2>11
    <3>2. Len(log[k]) + 1 \in 1 .. Len(log'[k])
      BY <3>1
    <3> QED BY <2>3, <2>11, <3>1, <3>2, FinishedSome
  <2> QED BY <2>1, <2>2, <2>10, <2>11
<1> QED BY <1>1, <1>2, <1>3

\* A transaction that commits a trip event: from the queue to the row.
LEMMA CommitFinishes ==
  ASSUME PipelineTyped, HeadIsWriting, NEW p \in Coroutine, WriteCommits(p), writing[p].kind = "event"
  PROVE  /\ writing[p].event \in GoodEvents /\ ApplyTripEvent(writing[p].event)
         /\ writing[p].event.type = "finished" =>
              writing[p].event.trip \in FinishedIn(queue[p][writing[p].event.vehicle])
         /\ \A r \in Coroutine, u \in Vehicle : \A n \in FinishedIn(queue'[r][u]) : n \in FinishedIn(queue[r][u])
         /\ \A r \in Coroutine, u \in Vehicle : \A n \in FinishedIn(queue[r][u]) :
              \/ n \in FinishedIn(queue'[r][u])
              \/ /\ r = p /\ u = writing[p].event.vehicle /\ n = writing[p].event.trip
                 /\ writing[p].event.type = "finished"
<1>0. EngineTyped
  BY DEF PipelineTyped
<1>1. /\ writing[p] # None /\ writing[p].event \in GoodEvents /\ ApplyTripEvent(writing[p].event)
      /\ Dequeue(p, writing[p].event.vehicle)
  BY CommitEffect
<1>2. PICK e, v : e = writing[p].event /\ v = writing[p].event.vehicle
  OBVIOUS
<1>3. v \in Vehicle /\ v = e.vehicle /\ e \in GoodEvents
  BY <1>1, <1>2 DEF GoodEvents, EventType
<1>4. queue[p][v] # <<>> /\ Head(queue[p][v]) = e
  BY <1>1, <1>2, <1>3 DEF HeadIsWriting
<1>5. Dequeue(p, v)
  BY <1>1, <1>2
<1>6. /\ \A r \in Coroutine, u \in Vehicle : \A n \in FinishedIn(queue'[r][u]) : n \in FinishedIn(queue[r][u])
      /\ \A r \in Coroutine, u \in Vehicle : \A n \in FinishedIn(queue[r][u]) :
           \/ n \in FinishedIn(queue'[r][u])
           \/ r = p /\ u = v /\ e.type = "finished" /\ e.trip = n
  <2>1. v \in Vehicle /\ queue[p][v] # <<>>
    BY <1>3, <1>4
  <2>2. /\ \A r \in Coroutine, u \in Vehicle : \A n \in FinishedIn(queue'[r][u]) : n \in FinishedIn(queue[r][u])
        /\ \A r \in Coroutine, u \in Vehicle : \A n \in FinishedIn(queue[r][u]) :
             \/ n \in FinishedIn(queue'[r][u])
             \/ r = p /\ u = v /\ Head(queue[p][v]).type = "finished" /\ Head(queue[p][v]).trip = n
    BY <1>0, <1>5, <2>1, DequeueSteps
  <2> QED BY <1>4, <2>2
<1>7. ASSUME e.type = "finished" PROVE e.trip \in FinishedIn(queue[p][v])
  <2>1. queue[p][v] \in Seq(EventsOf(v)) /\ queue[p][v] # <<>>
    BY <1>0, <1>3, <1>4 DEF EngineTyped
  <2>2. 1 \in 1 .. Len(queue[p][v]) /\ queue[p][v][1] = e
    BY <1>4, <2>1
  <2> QED BY <1>7, <2>2, FinishedIs
<1> QED BY <1>1, <1>2, <1>6, <1>7

\* No trip is waiting for its row while the loop emits.
LEMMA LoopEmitsLater ==
  ASSUME FlowInv,
         pc["loop"] \in {"events", "pause"} \/ writing["loop"] # None
  PROVE  opened = {}
BY DEF FlowInv, QuietPlaces, TickIsOver

\* Where a finished trip event is when no tick happens: it stays in the queue, moves to
\* the log or is applied, or something is lost.
LEMMA FinishedSteps ==
  ASSUME PipelineTyped, FlowInv, OnlyCompletedTripsClose, [Next]_vars, ~Tick
  PROVE  /\ \A p \in Coroutine, v \in Vehicle : \A n \in FinishedIn(queue'[p][v]) : n \in FinishedIn(queue[p][v])
         /\ \A t \in Trip : FinishedIn(log'[t]) # {} =>
              FinishedIn(log[t]) # {} \/ (opened = {} /\ t[2] \in FinishedIn(queue["loop"][t[1]]))
         /\ \/ lost'
            \/ \A v \in Vehicle : \A n \in FinishedIn(queue["loop"][v]) :
                 \/ n \in FinishedIn(queue'["loop"][v])
                 \/ FinishedIn(log'[<<v, n>>]) # {}
                 \/ /\ opened = {}
                    /\ \E e \in GoodEvents : /\ e.type = "finished" /\ e.vehicle = v /\ e.trip = n
                                             /\ ApplyTripEvent(e)
<1>0. /\ HeadIsWriting /\ \A v \in Vehicle : FinishedIn(queue["stop"][v]) = {}
      /\ Coroutine = {"loop", "stop"}
  BY DEF FlowInv, OnlyCompletedTripsClose, Coroutine
<1>1. CASE UNCHANGED queue /\ \A t \in Trip : log'[t] = log[t]
  BY <1>1
<1>2. CASE OpenTrips \/ Moves \/ UNCHANGED vars
           \/ (\E k \in Key : Redeliver(k)) \/ (\E v \in Vehicle : StoreBatch(v))
           \/ (\E t \in Trip : ConsumeTripEvent(t))
           \/ \E p \in Coroutine : Flushes(p) \/ BatchFails(p)
  <2>1. CASE Moves
    BY <1>1, <2>1, MovesEffect DEF broker
  <2>2. CASE OpenTrips \/ UNCHANGED vars \/ \E p \in Coroutine : BatchFails(p)
    BY <1>1, <2>2 DEF OpenTrips, BatchFails, vars, engine, broker
  <2>3. CASE \E p \in Coroutine : Flushes(p)
    BY <1>1, <2>3, FlushesEffect DEF FlowInv, broker
  <2>4. CASE \/ \E k \in Key : Redeliver(k)
             \/ \E v \in Vehicle : StoreBatch(v)
             \/ \E t \in Trip : ConsumeTripEvent(t)
    BY <1>1, <2>4 DEF Redeliver, StoreBatch, ConsumeTripEvent, engine
  <2> QED BY <1>2, <2>1, <2>2, <2>3, <2>4
<1>3. CASE EmitSamples
  <2>1. /\ UNCHANGED queue
        /\ \/ UNCHANGED log
           \/ \E ms : /\ DOMAIN ms = {x.vehicle : x \in samples} /\ DOMAIN ms \subseteq Key
                      /\ \A v \in DOMAIN ms : ms[v] \in Message(v)
                      /\ Publish(ms)
    BY <1>3, EmitSamplesEffect
  <2>2. {x.vehicle : x \in samples} \subseteq Vehicle
    BY DEF PipelineTyped, EngineTyped, SampleType
  <2>3. \A t \in Trip : log'[t] = log[t]
    BY <2>1, <2>2, PublishTyped, TripKeysApart DEF PipelineTyped
  <2> QED BY <1>1, <2>1, <2>3
<1>4. CASE OpenTripsFails \/ StopFails
  <2>0. OpenTripsFails => lost' = TRUE
    BY DEF OpenTripsFails
  <2>1. \/ queue'["stop"] = queue["stop"] /\ queue'["loop"] = NoEvents /\ lost' = TRUE
        \/ queue'["loop"] = queue["loop"] /\ queue'["stop"] = NoEvents
    BY <1>4, <2>0, OpenFailsTyped, StopFailsTyped
  <2>2. UNCHANGED log
    BY <1>4 DEF OpenTripsFails, StopFails, broker
  <2> QED BY <1>0, <2>1, <2>2, NothingFinished
<1>5. ASSUME NEW p \in Coroutine, EventFails(p)
      PROVE  /\ lost' = TRUE /\ UNCHANGED log
             /\ \A r \in Coroutine, v \in Vehicle : \A n \in FinishedIn(queue'[r][v]) : n \in FinishedIn(queue[r][v])
  <2>1. queue'[p] = NoEvents /\ \A q \in Coroutine \ {p} : queue'[q] = queue[q]
    BY <1>5, EventFailsTyped
  <2>2. lost' = TRUE /\ UNCHANGED log
    BY <1>5 DEF EventFails, broker
  <2>3. \A v \in Vehicle : FinishedIn(queue'[p][v]) = {}
    BY <2>1, NothingFinished
  <2> QED BY <2>1, <2>2, <2>3
<1>6. ASSUME NEW p \in Coroutine, PauseOpenTrip(p)
      PROVE  /\ UNCHANGED log
             /\ \A r \in Coroutine, v \in Vehicle : \A n \in FinishedIn(queue'[r][v]) : n \in FinishedIn(queue[r][v])
             /\ \A r \in Coroutine, v \in Vehicle : \A n \in FinishedIn(queue[r][v]) : n \in FinishedIn(queue'[r][v])
  <2>1. /\ queue[p] = NoEvents /\ UNCHANGED broker
        /\ \A q \in Coroutine \ {p} : queue'[q] = queue[q]
        /\ \A v \in Vehicle : \A i \in 1 .. Len(queue'[p][v]) : queue'[p][v][i].type = "paused"
    BY <1>6, PauseEffect
  <2>2. \A v \in Vehicle : FinishedIn(queue[p][v]) = {}
    BY <2>1, NothingFinished
  <2>3. ASSUME NEW v \in Vehicle PROVE FinishedIn(queue'[p][v]) = {}
    BY <2>1 DEF FinishedIn
  <2> QED BY <2>1, <2>2, <2>3 DEF broker
<1>7. ASSUME EmitTripEvent("loop") PROVE opened = {}
  BY <1>7, LoopEmitsLater DEF EmitTripEvent
<1>8. CASE EmitTripEvent("loop")
  BY <1>0, <1>7, <1>8, EmitEventFinishes
<1>9. CASE EmitTripEvent("stop")
  <2>1. /\ \A r \in Coroutine, u \in Vehicle : \A n \in FinishedIn(queue'[r][u]) : n \in FinishedIn(queue[r][u])
        /\ \A u \in Vehicle : \A n \in FinishedIn(queue["loop"][u]) : n \in FinishedIn(queue'["loop"][u])
        /\ \A t \in Trip : FinishedIn(log'[t]) # {} =>
             FinishedIn(log[t]) # {} \/ t[2] \in FinishedIn(queue["stop"][t[1]])
    BY <1>0, <1>9, EmitEventFinishes
  <2>2. \A t \in Trip : t[1] \in Vehicle
    BY DEF Trip
  <2> QED BY <1>0, <2>1, <2>2
<1>10. ASSUME NEW p \in Coroutine, WriteCommits(p)
       PROVE  /\ UNCHANGED log
              /\ \A r \in Coroutine, v \in Vehicle : \A n \in FinishedIn(queue'[r][v]) : n \in FinishedIn(queue[r][v])
              /\ \A v \in Vehicle : \A n \in FinishedIn(queue["loop"][v]) :
                   \/ n \in FinishedIn(queue'["loop"][v])
                   \/ /\ opened = {}
                      /\ \E e \in GoodEvents : /\ e.type = "finished" /\ e.vehicle = v /\ e.trip = n
                                               /\ ApplyTripEvent(e)
  <2>1. UNCHANGED log /\ writing[p] # None
        /\ (writing[p].kind = "event" \/ UNCHANGED queue)
    BY <1>10, CommitEffect
  <2>2. CASE UNCHANGED queue
    BY <2>1, <2>2
  <2>3. CASE writing[p].kind = "event"
    <3>1. /\ writing[p].event \in GoodEvents /\ ApplyTripEvent(writing[p].event)
          /\ \A r \in Coroutine, u \in Vehicle : \A n \in FinishedIn(queue'[r][u]) : n \in FinishedIn(queue[r][u])
          /\ \A r \in Coroutine, u \in Vehicle : \A n \in FinishedIn(queue[r][u]) :
               \/ n \in FinishedIn(queue'[r][u])
               \/ /\ r = p /\ u = writing[p].event.vehicle /\ n = writing[p].event.trip
                  /\ writing[p].event.type = "finished"
      BY <1>0, <1>10, <2>3, CommitFinishes
    <3>2. p = "loop" => opened = {}
      BY <2>1, LoopEmitsLater
    <3> QED BY <1>0, <2>1, <3>1, <3>2
  <2> QED BY <2>1, <2>2, <2>3
<1>11. CASE \E p \in Coroutine : EventFails(p)
  BY <1>5, <1>11
<1>12. CASE \E p \in Coroutine : PauseOpenTrip(p)
  BY <1>0, <1>6, <1>12
<1>13. CASE \E p \in Coroutine : WriteCommits(p)
  BY <1>10, <1>13
<1>14. CASE \E p \in Coroutine : EmitTripEvent(p)
  BY <1>0, <1>8, <1>9, <1>14
<1> QED BY <1>2, <1>3, <1>4, <1>11, <1>12, <1>13, <1>14, StepCases

-----------------------------------------------------------------------------
(* Samples and rows follow the vehicles.                                     *)

\* Where a row of trips may come from: a trip that begins, samples that were sent, or a
\* trip event, which finishes only a trip that is over.
LEMMA RowSources ==
  ASSUME PipelineTyped, FlowInv, OnlyCompletedTripsClose, [Next]_vars
  PROVE  \/ UNCHANGED tripRow
         \/ OpenTrips
         \/ \E rows \in SUBSET SampleType : rows \subseteq Sent /\ WriteTelemetryBatch(rows)
         \/ \E e \in GoodEvents : /\ ApplyTripEvent(e)
                                  /\ e.type = "finished" => Completed(<<e.vehicle, e.trip>>)
<1>0. SinkTyped /\ HeadIsWriting /\ Coroutine = {"loop", "stop"}
  BY DEF PipelineTyped, FlowInv, Coroutine
<1>1. CASE UNCHANGED database
  BY <1>1 DEF database
<1>2. CASE Tick \/ OpenTripsFails \/ EmitSamples \/ StopFails \/ UNCHANGED vars
           \/ \E p \in Coroutine : EmitTripEvent(p) \/ BatchFails(p) \/ EventFails(p) \/ PauseOpenTrip(p)
  BY <1>1, <1>2 DEF Tick, OpenTripsFails, EmitSamples, StopFails, EmitTripEvent, BatchFails, EventFails,
     PauseOpenTrip, vars
<1>3. CASE Moves \/ (\E p \in Coroutine : Flushes(p)) \/ \E k \in Key : Redeliver(k)
  BY <1>1, <1>3, MovesEffect, FlushesEffect, RedeliverEffect DEF FlowInv
<1>4. ASSUME NEW p \in Coroutine, WriteCommits(p), writing[p].kind = "batch"
      PROVE  writing[p].rows \in SUBSET SampleType /\ writing[p].rows \subseteq Sent
             /\ WriteTelemetryBatch(writing[p].rows)
  <2>1. /\ writing[p] # None /\ writing[p].rows \subseteq SampleType
        /\ WriteTelemetryBatch(writing[p].rows)
    BY <1>4, CommitEffect
  <2>2. InTransit(p) = writing[p].rows
    BY <1>0, <1>4, <2>1, InTransitIs
  <2> QED BY <2>1, <2>2, SentIs
<1>5. ASSUME NEW p \in Coroutine, WriteCommits(p), writing[p].kind = "event"
      PROVE  /\ writing[p].event \in GoodEvents /\ ApplyTripEvent(writing[p].event)
             /\ writing[p].event.type = "finished"
                  => Completed(<<writing[p].event.vehicle, writing[p].event.trip>>)
  <2>1. /\ writing[p].event \in GoodEvents /\ ApplyTripEvent(writing[p].event)
        /\ writing[p].event.type = "finished" =>
             writing[p].event.trip \in FinishedIn(queue[p][writing[p].event.vehicle])
    BY <1>0, <1>5, CommitFinishes
  <2>2. writing[p].event.vehicle \in Vehicle
    BY <2>1 DEF GoodEvents, EventType
  <2> QED BY <1>0, <2>1, <2>2 DEF OnlyCompletedTripsClose
<1>6. CASE \E p \in Coroutine : WriteCommits(p)
  <2>1. PICK p \in Coroutine : WriteCommits(p)
    BY <1>6
  <2>2. writing[p].kind = "batch" \/ writing[p].kind = "event"
    BY <2>1, CommitEffect
  <2> QED BY <1>4, <1>5, <2>1, <2>2
<1>7. ASSUME NEW v \in Vehicle, StoreBatch(v)
      PROVE  \E rows \in SUBSET SampleType : rows \subseteq Sent /\ WriteTelemetryBatch(rows)
  <2>1. PICK n \in Nat : /\ read[v] < n /\ n <= Len(log[v])
                         /\ {log[v][i] : i \in read[v] + 1 .. n} \subseteq SampleType
                         /\ WriteTelemetryBatch({log[v][i] : i \in read[v] + 1 .. n})
    BY <1>7, StoreEffect
  <2>2. read[v] \in Nat /\ Len(log[v]) \in Nat
    BY DEF PipelineTyped, BrokerTyped, Key
  <2>3. PICK rows : rows = {log[v][i] : i \in read[v] + 1 .. n}
    OBVIOUS
  <2>4. rows \subseteq SampleType /\ WriteTelemetryBatch(rows)
    BY <2>1, <2>3
  <2>5. rows \subseteq Logged(v)
    BY <2>1, <2>2, <2>3 DEF Logged
  <2> QED BY <2>4, <2>5, SentIs
<1>8. ASSUME NEW t \in Trip, ConsumeTripEvent(t)
      PROVE  \/ UNCHANGED database
             \/ \E e \in GoodEvents : /\ ApplyTripEvent(e)
                                      /\ e.type = "finished" => Completed(<<e.vehicle, e.trip>>)
  <2>1. /\ read[t] + 1 \in 1 .. Len(log[t]) /\ log[t][read[t] + 1] \in EventsOn(t)
        /\ ApplyTripEvent(log[t][read[t] + 1]) \/ UNCHANGED database
    BY <1>8, ConsumeEffect
  <2>2. PICK e : e = log[t][read[t] + 1]
    OBVIOUS
  <2>3. e \in GoodEvents /\ <<e.vehicle, e.trip>> = t
    BY <2>1, <2>2 DEF EventsOn
  <2>4. e.type = "finished" => FinishedIn(log[t]) # {}
    BY <2>1, <2>2, FinishedSome
  <2> QED BY <2>1, <2>2, <2>3, <2>4 DEF OnlyCompletedTripsClose
<1> QED BY <1>1, <1>2, <1>3, <1>6, <1>7, <1>8, StepCases

\* What a vehicle's type says.
LEMMA FleetIs ==
  ASSUME PipelineTyped, NEW v \in Vehicle
  PROVE  /\ fleet[v].trip \in 0 .. MaxTrips /\ fleet[v].distance \in 0 .. Corridor
         /\ fleet[v].state = "idle" /\ fleet[v].trip # 0 => fleet[v].distance = Corridor
         /\ MaxTrips \in Nat /\ Corridor \in Nat /\ MaxTicks \in Nat
         /\ clock \in 0 .. MaxTicks
BY PipelineAssumption DEF PipelineTyped, EngineTyped, FleetType

LEMMA HeldTyped ==
  ASSUME PipelineTyped
  PROVE  Held \subseteq SampleType
<1>1. /\ SinkTyped /\ samples \subseteq SampleType /\ buffer \subseteq SampleType
      /\ \A k \in Key : log[k] \in Seq(Message(k))
  BY DEF PipelineTyped, EngineTyped, SinkTyped, BrokerTyped
<1>2. ASSUME NEW v \in Vehicle PROVE Logged(v) \subseteq SampleType
  <2>1. log[v] \in Seq(SamplesBy(v))
    BY <1>1 DEF Key, Message
  <2> QED BY <2>1 DEF Logged, SamplesBy
<1>3. ASSUME NEW p \in Coroutine PROVE InTransit(p) \subseteq SampleType
  <2>1. writing[p] # None => \/ writing[p].kind = "batch" /\ writing[p].rows \subseteq SampleType
                             \/ writing[p].kind = "event"
    BY <1>1, WriteCases
  <2> QED BY <1>1, <2>1, InTransitIs
<1> QED BY <1>1, <1>2, <1>3, SentIs DEF Held

\* A tick puts vehicles and their newest samples ahead of everything sent before.
LEMMA TickTellsTheWay ==
  ASSUME PipelineTyped, PipelineTyped', FlowInv, WayInv, Tick
  PROVE  WayInv'
<1>0. SamplesTellTheWay /\ OnlyCompletedTripsClose /\ RowsBehind
  BY DEF WayInv
<1>1. /\ clock' = clock + 1 /\ samples = {} /\ opened = {} /\ queue["loop"] = NoEvents
      /\ queue'["stop"] = queue["stop"]
      /\ UNCHANGED <<tripRow, log, read, buffer, writing, lost>>
  BY TickMoves
<1>2. \A v \in Vehicle :
        \/ /\ fleet'[v].trip = fleet[v].trip /\ fleet'[v].distance >= fleet[v].distance
           /\ fleet[v].state = "idle" => fleet'[v].state = "idle" /\ fleet'[v].distance = fleet[v].distance
        \/ fleet'[v].trip = fleet[v].trip + 1 /\ fleet[v].state = "idle"
  BY TickMoves
<1>3. \A v \in Vehicle : /\ fleet[v].trip \in Nat /\ fleet[v].distance \in Nat
                         /\ fleet'[v].trip \in Nat /\ fleet'[v].distance \in Nat
                         /\ clock \in Nat
  BY FleetIs DEF PipelineTyped, EngineTyped, FleetType
<1>4. Sent' = Sent /\ Held = Sent
  BY <1>1, NothingSent DEF Held
<1>5. \A s \in samples' : /\ s.at = clock + 1 /\ s.vehicle \in Vehicle
                          /\ s.trip = fleet'[s.vehicle].trip /\ s.distance = fleet'[s.vehicle].distance
  BY <1>1, TickMoves
<1>6. \A s \in Sent : /\ s.vehicle \in Vehicle /\ s.at \in Nat /\ s.trip \in Nat /\ s.distance \in Nat
                      /\ s.at <= clock /\ s.trip <= fleet[s.vehicle].trip
                      /\ s.trip = fleet[s.vehicle].trip => s.distance <= fleet[s.vehicle].distance
  BY <1>0, <1>4, HeldTyped, PipelineAssumption DEF SamplesTellTheWay, SampleType
<1>7. SamplesTellTheWay'
  <2>1. \A s \in Held' : s \in samples' \/ s \in Sent
    BY <1>4 DEF Held
  <2>2. ASSUME NEW s \in Sent
        PROVE  /\ s.at <= clock'
               /\ s.trip <= fleet'[s.vehicle].trip
               /\ s.trip = fleet'[s.vehicle].trip => s.distance <= fleet'[s.vehicle].distance
    BY <1>1, <1>2, <1>3, <1>6
  <2>3. ASSUME NEW s \in samples'
        PROVE  /\ s.at <= clock'
               /\ s.trip <= fleet'[s.vehicle].trip
               /\ s.trip = fleet'[s.vehicle].trip => s.distance <= fleet'[s.vehicle].distance
    BY <1>1, <1>3, <1>5
  <2>4. \A a, b \in samples' : a.vehicle = b.vehicle => a = b
    BY TickMoves
  <2>5. ASSUME NEW a \in Held', NEW b \in Held', a.vehicle = b.vehicle, a.trip = b.trip, a.at <= b.at
        PROVE  a.distance <= b.distance
    <3>1. CASE a \in Sent /\ b \in Sent
      BY <1>0, <1>4, <2>5, <3>1 DEF SamplesTellTheWay
    <3>2. CASE a \in samples' /\ b \in samples'
      BY <1>3, <1>5, <2>4, <2>5, <3>2
    <3>3. CASE a \in samples' /\ b \in Sent
      BY <1>3, <1>5, <1>6, <2>5, <3>3
    <3>4. CASE a \in Sent /\ b \in samples'
      BY <1>5, <2>2, <2>5, <3>4
    <3> QED BY <2>1, <3>1, <3>2, <3>3, <3>4
  <2>6. \A s \in Held' :
          /\ s.at <= clock'
          /\ s.trip <= fleet'[s.vehicle].trip
          /\ s.trip = fleet'[s.vehicle].trip => s.distance <= fleet'[s.vehicle].distance
    BY <2>1, <2>2, <2>3
  <2> QED BY <2>4, <2>5, <2>6 DEF SamplesTellTheWay
<1>8. ASSUME NEW v \in Vehicle, NEW n \in Nat, Completed(<<v, n>>)
      PROVE  Completed(<<v, n>>)'
  BY <1>2, <1>3, <1>8 DEF Completed
<1>9. OnlyCompletedTripsClose'
  <2>1. ASSUME NEW v \in Vehicle, NEW n \in FinishedIn(queue'["loop"][v]) PROVE Completed(<<v, n>>)'
    <3>1. n = fleet'[v].trip /\ fleet'[v].state = "idle"
      BY <2>1, TickMoves
    <3> QED BY <3>1 DEF Completed
  <2>2. \A t \in Trip : t = <<t[1], t[2]>> /\ t[1] \in Vehicle /\ t[2] \in Nat
    BY DEF Trip
  <2>3. \A t \in Trip : Completed(t) => Completed(t)'
    BY <1>8, <2>2
  <2>4. \A v \in Vehicle : FinishedIn(queue'["stop"][v]) = {}
    BY <1>0, <1>1 DEF OnlyCompletedTripsClose
  <2> QED BY <1>0, <1>1, <2>1, <2>3, <2>4 DEF OnlyCompletedTripsClose
<1>10. RowsBehind'
  <2>1. \A t \in opened' : t[2] = fleet'[t[1]].trip
    BY TickMoves
  <2>2. ASSUME NEW v \in Vehicle, NEW n \in 1 .. MaxTrips
        PROVE  /\ n = fleet'[v].trip => tripRow'[<<v, n>>].distance <= fleet'[v].distance
               /\ n > fleet'[v].trip => tripRow'[<<v, n>>] = NoRow
    <3>1. /\ n = fleet[v].trip => tripRow[<<v, n>>].distance <= fleet[v].distance
          /\ n > fleet[v].trip => tripRow[<<v, n>>] = NoRow
      BY <1>0 DEF RowsBehind
    <3>2. tripRow[<<v, n>>].distance \in Nat
      <4>1. <<v, n>> \in Trip
        BY DEF Trip
      <4> QED BY <4>1, PipelineAssumption DEF PipelineTyped, DatabaseTyped, RowType
    <3>3. NoRow.distance = 0
      BY NoRowIsTyped
    <3>4. n \in Nat
      BY PipelineAssumption
    <3> QED BY <1>1, <1>2, <1>3, <3>1, <3>2, <3>3, <3>4
  <2> QED BY <2>1, <2>2 DEF RowsBehind
<1> QED BY <1>7, <1>9, <1>10 DEF WayInv

\* Nothing but a tick says more of the way, and rows take over only what was said.
LEMMA WayStays ==
  ASSUME PipelineTyped, PipelineTyped', FlowInv, WayInv, [Next]_vars, ~Tick
  PROVE  WayInv'
<1>0. SamplesTellTheWay /\ OnlyCompletedTripsClose /\ RowsBehind /\ DatabaseTyped
  BY DEF WayInv, PipelineTyped
<1>1. /\ clock' = clock /\ opened' \subseteq opened
      /\ \A v \in Vehicle : /\ fleet'[v].trip = fleet[v].trip
                            /\ fleet'[v].distance = fleet[v].distance
                            /\ fleet'[v].state = "idle" <=> fleet[v].state = "idle"
  BY FleetSteps
<1>2. samples' \subseteq samples /\ Held' \subseteq Held
  BY <1>0, SentSteps
<1>3. \A s \in Held : s.vehicle \in Vehicle
  BY HeldTyped DEF SampleType
<1>4. SamplesTellTheWay'
  <2>1. \A s \in Held' : /\ s.at <= clock'
                         /\ s.trip <= fleet'[s.vehicle].trip
                         /\ s.trip = fleet'[s.vehicle].trip => s.distance <= fleet'[s.vehicle].distance
    BY <1>0, <1>1, <1>2, <1>3 DEF SamplesTellTheWay
  <2>2. \A a, b \in Held' :
          a.vehicle = b.vehicle /\ a.trip = b.trip /\ a.at <= b.at => a.distance <= b.distance
    BY <1>0, <1>2 DEF SamplesTellTheWay
  <2>3. \A a, b \in samples' : a.vehicle = b.vehicle => a = b
    BY <1>0, <1>2 DEF SamplesTellTheWay
  <2> QED BY <2>1, <2>2, <2>3 DEF SamplesTellTheWay
<1>5. \A v \in Vehicle : \A n : Completed(<<v, n>>)' <=> Completed(<<v, n>>)
  BY <1>1, CompletedStays
<1>6. \A t \in Trip : t = <<t[1], t[2]>> /\ t[1] \in Vehicle /\ t[2] \in 1 .. MaxTrips
  BY DEF Trip
<1>7. \A t \in Trip : Completed(t)' <=> Completed(t)
  BY <1>5, <1>6
<1>8. OnlyCompletedTripsClose'
  <2>0. Coroutine = {"loop", "stop"}
    BY DEF Coroutine
  <2>1. /\ \A v \in Vehicle : \A n \in FinishedIn(queue'["loop"][v]) : n \in FinishedIn(queue["loop"][v])
        /\ \A v \in Vehicle : \A n \in FinishedIn(queue'["stop"][v]) : n \in FinishedIn(queue["stop"][v])
        /\ \A t \in Trip : FinishedIn(log'[t]) # {} =>
             FinishedIn(log[t]) # {} \/ t[2] \in FinishedIn(queue["loop"][t[1]])
    BY <1>0, <2>0, FinishedSteps
  <2>2. \A v \in Vehicle : \A n \in FinishedIn(queue'["loop"][v]) : Completed(<<v, n>>)'
    BY <1>0, <1>5, <2>1 DEF OnlyCompletedTripsClose
  <2>3. \A v \in Vehicle : FinishedIn(queue'["stop"][v]) = {}
    BY <1>0, <2>1 DEF OnlyCompletedTripsClose
  <2>4. ASSUME NEW t \in Trip, FinishedIn(log'[t]) # {} PROVE Completed(t)'
    <3>1. FinishedIn(log[t]) # {} \/ t[2] \in FinishedIn(queue["loop"][t[1]])
      BY <2>1, <2>4
    <3>2. Completed(t)
      BY <1>0, <1>6, <3>1 DEF OnlyCompletedTripsClose
    <3> QED BY <1>7, <3>2
  <2>5. ASSUME NEW t \in Trip, tripRow'[t].ended PROVE Completed(t)' /\ tripRow'[t].distance = Corridor
    <3>1. CASE tripRow'[t] = tripRow[t]
      BY <1>0, <1>7, <2>5, <3>1 DEF OnlyCompletedTripsClose
    <3>2. CASE OpenTrips
      <4>1. tripRow'[t] = IF t \in opened /\ tripRow[t] = NoRow
                          THEN [state |-> "driving", distance |-> 0, ended |-> FALSE] ELSE tripRow[t]
        BY <3>2, OpenEffect
      <4> QED BY <2>5, <3>1, <4>1
    <3>3. ASSUME NEW rows \in SUBSET SampleType, WriteTelemetryBatch(rows) PROVE tripRow'[t] = tripRow[t]
      BY <1>0, <2>5, <3>3, BatchRowStep
    <3>4. ASSUME NEW e \in GoodEvents, ApplyTripEvent(e), e.type = "finished" => Completed(<<e.vehicle, e.trip>>)
          PROVE  tripRow'[t] = tripRow[t] \/ (Completed(t) /\ tripRow'[t].distance = Corridor)
      BY <1>0, <2>5, <3>4, EventRowStep
    <3> QED BY <1>0, <1>7, <3>1, <3>2, <3>3, <3>4, RowSources
  <2> QED BY <2>2, <2>3, <2>4, <2>5 DEF OnlyCompletedTripsClose
<1>9. RowsBehind'
  <2>1. \A t \in opened' : t[2] = fleet'[t[1]].trip
    <3>1. \A t \in opened : t \in Trip
      BY DEF PipelineTyped, EngineTyped
    <3> QED BY <1>0, <1>1, <1>6, <3>1 DEF RowsBehind
  <2>2. ASSUME NEW v \in Vehicle, NEW n \in 1 .. MaxTrips
        PROVE  /\ n = fleet'[v].trip => tripRow'[<<v, n>>].distance <= fleet'[v].distance
               /\ n > fleet'[v].trip => tripRow'[<<v, n>>] = NoRow
    <3>0. PICK t : t = <<v, n>>
      OBVIOUS
    <3>1. t \in Trip /\ t[1] = v /\ t[2] = n
      BY <3>0 DEF Trip
    <3>2. /\ n = fleet[v].trip => tripRow[t].distance <= fleet[v].distance
          /\ n > fleet[v].trip => tripRow[t] = NoRow
      BY <1>0, <3>0 DEF RowsBehind
    <3>3. n \in Nat /\ n # 0 /\ fleet[v].trip \in Nat /\ fleet[v].distance \in 0 .. Corridor
      BY FleetIs
    <3>4. CASE tripRow'[t] = tripRow[t]
      BY <1>1, <3>0, <3>2, <3>4
    <3>5. CASE OpenTrips
      <4>1. tripRow'[t] = IF t \in opened /\ tripRow[t] = NoRow
                          THEN [state |-> "driving", distance |-> 0, ended |-> FALSE] ELSE tripRow[t]
        BY <3>1, <3>5, OpenEffect
      <4>2. CASE t \in opened
        <5>1. n = fleet[v].trip
          BY <1>0, <3>1, <4>2 DEF RowsBehind
        <5>2. tripRow'[t] = tripRow[t] \/ tripRow'[t].distance = 0
          BY <4>1
        <5> QED BY <1>1, <3>0, <3>2, <3>3, <5>1, <5>2
      <4> QED BY <3>4, <4>1, <4>2
    <3>6. ASSUME NEW rows \in SUBSET SampleType, rows \subseteq Sent, WriteTelemetryBatch(rows)
          PROVE  \/ tripRow'[t] = tripRow[t]
                 \/ n <= fleet[v].trip /\ (n = fleet[v].trip => tripRow'[t].distance <= fleet[v].distance)
      <4>1. CASE /\ SamplesOn(rows, t) # {} /\ tripRow[t] # NoRow
                 /\ LET s == Newest(SamplesOn(rows, t))
                    IN  /\ s \in SamplesOn(rows, t)
                        /\ tripRow'[t] = [state |-> s.state, distance |-> s.distance, ended |-> FALSE]
        <5>1. PICK s \in SamplesOn(rows, t) : tripRow'[t].distance = s.distance
          BY <4>1
        <5>2. s \in Held /\ s.vehicle = v /\ s.trip = n
          BY <3>0, <3>6 DEF SamplesOn, Held
        <5> QED BY <1>0, <5>1, <5>2 DEF SamplesTellTheWay
      <4> QED BY <1>0, <3>1, <3>6, <4>1, BatchOnRow
    <3>7. ASSUME NEW e \in GoodEvents, ApplyTripEvent(e), e.type = "finished" => Completed(<<e.vehicle, e.trip>>)
          PROVE  \/ tripRow'[t] = tripRow[t]
                 \/ tripRow[t] # NoRow /\ tripRow'[t].distance = tripRow[t].distance
                 \/ tripRow[t] # NoRow /\ tripRow'[t].distance = Corridor /\ Completed(t)
      BY <1>0, <3>1, <3>7, EventRowStep
    <3>8. Completed(t) /\ n = fleet[v].trip => fleet[v].distance = Corridor
      BY <3>1, <3>3, FleetIs DEF Completed
    <3>9. CASE \/ n <= fleet[v].trip /\ (n = fleet[v].trip => tripRow'[t].distance <= fleet[v].distance)
               \/ tripRow[t] # NoRow /\ tripRow'[t].distance = tripRow[t].distance
               \/ tripRow[t] # NoRow /\ tripRow'[t].distance = Corridor /\ Completed(t)
      <4>1. Corridor <= Corridor
        BY FleetIs
      <4> QED BY <1>1, <3>0, <3>2, <3>3, <3>8, <3>9, <4>1
    <3> QED BY <1>0, <3>4, <3>5, <3>6, <3>7, <3>9, RowSources
  <2> QED BY <2>1, <2>2 DEF RowsBehind
<1> QED BY <1>4, <1>8, <1>9 DEF WayInv

LEMMA InitWay == Init => WayInv
<1> SUFFICES ASSUME Init PROVE WayInv
  OBVIOUS
<1>1. /\ samples = {} /\ buffer = {} /\ opened = {} /\ Coroutine = {"loop", "stop"}
      /\ \A p \in Coroutine : writing[p] = None /\ queue[p] = NoEvents
      /\ \A k \in Key : log[k] = <<>>
      /\ \A t \in Trip : tripRow[t] = NoRow
      /\ \A v \in Vehicle : fleet[v].trip = 0 /\ fleet[v].distance = 0
  BY DEF Init, Coroutine
<1>2. Held = {}
  <2>1. \A p \in Coroutine : InTransit(p) = {}
    BY <1>1 DEF InTransit
  <2>2. \A v \in Vehicle : Logged(v) = {}
    <3>1. \A v \in Vehicle : log[v] = <<>>
      BY <1>1 DEF Key
    <3>2. Len(<<>>) = 0 /\ 1 .. 0 = {}
      OBVIOUS
    <3> QED BY <3>1, <3>2 DEF Logged
  <2> QED BY <1>1, <2>1, <2>2, SentIs DEF Held
<1>3. SamplesTellTheWay
  BY <1>1, <1>2 DEF SamplesTellTheWay
<1>4. OnlyCompletedTripsClose
  <2>1. \A v \in Vehicle : FinishedIn(queue["loop"][v]) = {} /\ FinishedIn(queue["stop"][v]) = {}
    BY <1>1, NothingFinished
  <2>2. \A t \in Trip : FinishedIn(log[t]) = {}
    <3>1. \A t \in Trip : log[t] = <<>>
      BY <1>1, TripKeysApart
    <3>2. Len(<<>>) = 0 /\ 1 .. 0 = {}
      OBVIOUS
    <3> QED BY <3>1, <3>2 DEF FinishedIn
  <2> QED BY <1>1, <2>1, <2>2, NoRowIsTyped DEF OnlyCompletedTripsClose
<1>5. RowsBehind
  <2>1. \A v \in Vehicle, n \in 1 .. MaxTrips : <<v, n>> \in Trip
    BY DEF Trip
  <2>2. \A n \in 1 .. MaxTrips : n # 0
    OBVIOUS
  <2> QED BY <1>1, <2>1, <2>2 DEF RowsBehind
<1> QED BY <1>3, <1>4, <1>5 DEF WayInv

-----------------------------------------------------------------------------
(* Nothing is forgotten on the way to the rows.                              *)

\* A row never gives back what it has taken over.
LEMMA RowsKeep ==
  ASSUME PipelineTyped, PipelineTyped', [Next]_vars, NEW t \in Trip
  PROVE  /\ tripRow[t] # NoRow => tripRow'[t] # NoRow
         /\ tripRow[t].ended => tripRow'[t].ended
         /\ \A s \in SampleType : Covers(tripRow[t], s) => Covers(tripRow'[t], s)
<1>1. RowStep(tripRow[t], tripRow'[t])
  BY RowSteps
<1>2. tripRow[t] \in RowType /\ Corridor \in Nat
  BY PipelineAssumption DEF PipelineTyped, DatabaseTyped
<1>3. tripRow[t].distance \in 0 .. Corridor /\ NoRow.distance = 0 /\ NoRow.ended = FALSE
  BY <1>2, NoRowIsTyped DEF RowType
<1>4. tripRow[t] # NoRow => tripRow'[t] # NoRow
  BY <1>1 DEF RowStep
<1>5. tripRow[t].ended => tripRow'[t].ended
  BY <1>1, <1>3 DEF RowStep
<1>6. ASSUME NEW s \in SampleType, Covers(tripRow[t], s) PROVE Covers(tripRow'[t], s)
  <2>1. s.distance \in 0 .. Corridor
    BY DEF SampleType
  <2>2. CASE tripRow'[t] = tripRow[t]
    BY <1>6, <2>2
  <2>3. CASE tripRow[t] = NoRow /\ tripRow'[t] = [state |-> "driving", distance |-> 0, ended |-> FALSE]
    BY <1>3, <1>6, <2>3 DEF Covers
  <2>4. CASE ~tripRow[t].ended /\ tripRow'[t].distance >= tripRow[t].distance
    <3>1. tripRow'[t].distance \in 0 .. Corridor
      BY DEF PipelineTyped, DatabaseTyped, RowType
    <3> QED BY <1>3, <1>6, <2>1, <2>4, <3>1 DEF Covers
  <2>5. CASE tripRow'[t].ended
    BY <2>5 DEF Covers
  <2> QED BY <1>1, <2>2, <2>3, <2>4, <2>5 DEF RowStep
<1> QED BY <1>4, <1>5, <1>6

\* A batch leaves every open row with all that its samples say.
LEMMA BatchCovers ==
  ASSUME DatabaseTyped, SamplesTellTheWay, NEW rows \in SUBSET SampleType, rows \subseteq Held,
         WriteTelemetryBatch(rows), NEW s \in rows, s.trip # 0,
         tripRow[<<s.vehicle, s.trip>>] # NoRow
  PROVE  Covers(tripRow'[<<s.vehicle, s.trip>>], s)
<1>1. PICK t : t = <<s.vehicle, s.trip>>
  OBVIOUS
<1>2. /\ s.vehicle \in Vehicle /\ s.trip \in 1 .. MaxTrips /\ s.distance \in 0 .. Corridor
      /\ MaxTrips \in Nat /\ Corridor \in Nat
  BY PipelineAssumption DEF SampleType
<1>3. t \in Trip /\ s \in SamplesOn(rows, t) /\ tripRow[t] # NoRow
  BY <1>1, <1>2 DEF Trip, SamplesOn
<1>4. tripRow'[t] = Aggregates(tripRow[t], Newest(SamplesOn(rows, t)))
  BY <1>3 DEF WriteTelemetryBatch
<1>5. PICK x \in SamplesOn(rows, t) : x = Newest(SamplesOn(rows, t)) /\ \A y \in SamplesOn(rows, t) : y.at <= x.at
  <2>1. SamplesOn(rows, t) \subseteq SampleType /\ SamplesOn(rows, t) # {}
    BY <1>3 DEF SamplesOn
  <2> QED BY <2>1, NewestIsNewest
<1>6. x \in Held /\ s \in Held /\ x.vehicle = s.vehicle /\ x.trip = s.trip /\ s.at <= x.at
      /\ x.distance \in 0 .. Corridor
  BY <1>1, <1>3, <1>5 DEF SamplesOn, SampleType
<1>7. s.distance <= x.distance
  BY <1>6 DEF SamplesTellTheWay
<1>8. tripRow[t] \in RowType
  BY <1>3 DEF DatabaseTyped
<1>9. CASE ~tripRow[t].ended /\ x.distance >= tripRow[t].distance
  <2>1. tripRow'[t].distance = x.distance
    BY <1>4, <1>5, <1>8, <1>9 DEF Aggregates, RowType
  <2> QED BY <1>1, <1>7, <2>1 DEF Covers
<1>10. CASE tripRow[t].ended \/ ~(x.distance >= tripRow[t].distance)
  <2>1. tripRow'[t] = tripRow[t]
    BY <1>4, <1>5, <1>10 DEF Aggregates
  <2>2. tripRow[t].distance \in 0 .. Corridor
    BY <1>8 DEF RowType
  <2> QED BY <1>1, <1>2, <1>6, <1>7, <1>10, <2>1, <2>2 DEF Covers
<1> QED BY <1>9, <1>10

\* A trip waits for its row until it has it, or the run fails.
LEMMA OpenedSteps ==
  ASSUME PipelineTyped, FlowInv, [Next]_vars, ~Tick, ~lost', NEW t \in opened
  PROVE  t \in opened' \/ tripRow'[t] # NoRow
<1>1. CASE UNCHANGED opened
  BY <1>1
<1>2. CASE OpenTrips
  <2>1. t \in Trip
    BY DEF PipelineTyped, EngineTyped
  <2>2. tripRow'[t] = IF t \in opened /\ tripRow[t] = NoRow
                      THEN [state |-> "driving", distance |-> 0, ended |-> FALSE] ELSE tripRow[t]
    BY <1>2, <2>1, OpenEffect
  <2>3. [state |-> "driving", distance |-> 0, ended |-> FALSE] # NoRow
    BY DEF NoRow
  <2> QED BY <2>2, <2>3
<1>3. CASE OpenTripsFails
  BY <1>3 DEF OpenTripsFails
<1>4. CASE EmitSamples \/ StopFails \/ UNCHANGED vars
           \/ \E p \in Coroutine : \/ EmitTripEvent(p) \/ WriteCommits(p) \/ BatchFails(p)
                                   \/ EventFails(p) \/ PauseOpenTrip(p)
  BY <1>1, <1>4 DEF EmitSamples, StopFails, EmitTripEvent, WriteCommits, BatchFails, EventFails,
     PauseOpenTrip, vars, engine
<1>5. CASE Moves \/ \E p \in Coroutine : Flushes(p)
  BY <1>1, <1>5, MovesEffect, FlushesEffect DEF FlowInv
<1>6. CASE \/ \E k \in Key : Redeliver(k)
           \/ \E v \in Vehicle : StoreBatch(v)
           \/ \E u \in Trip : ConsumeTripEvent(u)
  BY <1>1, <1>6 DEF Redeliver, StoreBatch, ConsumeTripEvent, engine
<1> QED BY <1>2, <1>3, <1>4, <1>5, <1>6, StepCases

\* Only the group reads on.
LEMMA ReadCases ==
  ASSUME PipelineTyped, FlowInv, [Next]_vars, NEW k \in Key
  PROVE  \/ read'[k] <= read[k]
         \/ k \in Vehicle /\ StoreBatch(k)
         \/ k \in Trip /\ ConsumeTripEvent(k)
<1>0. read[k] \in Nat
  BY DEF PipelineTyped, BrokerTyped
<1>1. CASE read'[k] = read[k]
  BY <1>0, <1>1
<1>2. CASE Tick \/ OpenTrips \/ OpenTripsFails \/ EmitSamples \/ StopFails \/ UNCHANGED vars
           \/ \E p \in Coroutine : \/ EmitTripEvent(p) \/ WriteCommits(p) \/ BatchFails(p)
                                   \/ EventFails(p) \/ PauseOpenTrip(p)
  BY <1>1, <1>2 DEF Tick, OpenTrips, OpenTripsFails, EmitSamples, StopFails, EmitTripEvent, WriteCommits,
     BatchFails, EventFails, PauseOpenTrip, vars, broker
<1>3. CASE Moves \/ \E p \in Coroutine : Flushes(p)
  BY <1>1, <1>3, MovesEffect, FlushesEffect DEF FlowInv, broker
<1>4. CASE \E l \in Key : Redeliver(l)
  BY <1>4, RedeliverEffect
<1>5. ASSUME NEW v \in Vehicle, StoreBatch(v), v # k PROVE read'[k] = read[k]
  BY <1>5, StoreEffect
<1>6. ASSUME NEW t \in Trip, ConsumeTripEvent(t), t # k PROVE read'[k] = read[k]
  BY <1>6, ConsumeEffect
<1> QED BY <1>1, <1>2, <1>3, <1>4, <1>5, <1>6, StepCases

\* What is sent is about trips whose rows are there.
LEMMA SentHasRowStep ==
  ASSUME PipelineTyped, PipelineTyped', FlowInv, WayInv, [Next]_vars, SentHasRow, ~lost'
  PROVE  SentHasRow'
<1>0. SamplesTellTheWay /\ OnlyCompletedTripsClose /\ RowsBehind
  BY DEF WayInv
<1>1. \A t \in Trip : tripRow[t] # NoRow => tripRow'[t] # NoRow
  BY RowsKeep
<1>2. \A t \in Trip : t = <<t[1], t[2]>> /\ t[1] \in Vehicle /\ t[2] \in 1 .. MaxTrips
  BY DEF Trip
<1>3. \A s \in Held : s.trip # 0 => <<s.vehicle, s.trip>> \in Trip
  <2>1. MaxTrips \in Nat
    BY PipelineAssumption
  <2> QED BY <2>1, HeldTyped DEF SampleType, Trip
<1>4. CASE Tick
  <2>1. opened = {} /\ UNCHANGED <<tripRow, log, buffer, writing>>
    BY <1>4, TickMoves
  <2>2. Sent' = Sent
    BY <2>1, NothingSent
  <2>3. \A s \in Sent' : s.trip # 0 => tripRow'[<<s.vehicle, s.trip>>] # NoRow
    BY <2>1, <2>2 DEF SentHasRow, RowOf
  <2>4. ASSUME NEW v \in Vehicle, NEW n \in 1 .. fleet'[v].trip
        PROVE  tripRow'[<<v, n>>] # NoRow \/ <<v, n>> \in opened'
    <3>1. \/ fleet'[v].trip = fleet[v].trip
          \/ fleet'[v].trip = fleet[v].trip + 1 /\ <<v, fleet'[v].trip>> \in opened'
      BY <1>4, TickMoves
    <3>2. fleet[v].trip \in Nat
      BY FleetIs
    <3>3. (n = fleet'[v].trip /\ <<v, fleet'[v].trip>> \in opened') \/ n \in 1 .. fleet[v].trip
      BY <3>1, <3>2
    <3> QED BY <2>1, <3>3 DEF SentHasRow
  <2>5. \A t \in Trip : FinishedIn(log'[t]) # {} => tripRow'[t] # NoRow
    BY <2>1 DEF SentHasRow
  <2> QED BY <2>3, <2>4, <2>5 DEF SentHasRow, RowOf
<1>5. CASE ~Tick
  <2>1. /\ \A v \in Vehicle : fleet'[v].trip = fleet[v].trip
        /\ Held' \subseteq Held /\ (Sent' \subseteq Sent \/ EmitSamples)
    BY <1>0, <1>5, FleetSteps, SentSteps
  <2>2. ASSUME NEW s \in Sent', s.trip # 0 PROVE tripRow'[<<s.vehicle, s.trip>>] # NoRow
    <3>1. s \in Held /\ <<s.vehicle, s.trip>> \in Trip
      <4>1. s \in Held'
        BY DEF Held
      <4> QED BY <1>3, <2>1, <2>2, <4>1
    <3>2. CASE s \in Sent
      BY <1>1, <2>2, <3>1, <3>2 DEF SentHasRow, RowOf
    <3>3. CASE EmitSamples
      <4>1. opened = {}
        <5>1. pc["loop"] = "samples"
          BY <3>3 DEF EmitSamples
        <5> QED BY <5>1 DEF FlowInv, TickIsOver
      <4>2. s.vehicle \in Vehicle /\ s.trip \in 1 .. fleet[s.vehicle].trip
        <5>1. s.vehicle \in Vehicle /\ s.trip \in 0 .. MaxTrips /\ s.trip <= fleet[s.vehicle].trip
          BY <1>0, <3>1, HeldTyped DEF SampleType, SamplesTellTheWay
        <5>2. fleet[s.vehicle].trip \in 0 .. MaxTrips /\ MaxTrips \in Nat
          BY <5>1, FleetIs
        <5> QED BY <2>2, <5>1, <5>2
      <4> QED BY <1>1, <3>1, <4>1, <4>2 DEF SentHasRow
    <3> QED BY <2>1, <3>2, <3>3
  <2>3. ASSUME NEW v \in Vehicle, NEW n \in 1 .. fleet'[v].trip
        PROVE  tripRow'[<<v, n>>] # NoRow \/ <<v, n>> \in opened'
    <3>1. n \in 1 .. fleet[v].trip /\ fleet[v].trip \in 0 .. MaxTrips /\ MaxTrips \in Nat
      BY <2>1, FleetIs
    <3>2. <<v, n>> \in Trip
      BY <3>1 DEF Trip
    <3>3. tripRow[<<v, n>>] # NoRow \/ <<v, n>> \in opened
      BY <3>1 DEF SentHasRow
    <3> QED BY <1>1, <1>5, <3>2, <3>3, OpenedSteps
  <2>4. ASSUME NEW t \in Trip, FinishedIn(log'[t]) # {} PROVE tripRow'[t] # NoRow
    <3>1. FinishedIn(log[t]) # {} \/ (opened = {} /\ t[2] \in FinishedIn(queue["loop"][t[1]]))
      BY <1>0, <1>5, <2>4, FinishedSteps
    <3>2. CASE FinishedIn(log[t]) # {}
      BY <1>1, <3>2 DEF SentHasRow
    <3>3. CASE opened = {} /\ t[2] \in FinishedIn(queue["loop"][t[1]])
      <4>1. Completed(t)
        BY <1>0, <1>2, <3>3 DEF OnlyCompletedTripsClose
      <4>2. t[2] \in 1 .. fleet[t[1]].trip
        BY <1>2, <4>1, FleetIs DEF Completed
      <4>3. tripRow[<<t[1], t[2]>>] # NoRow
        BY <1>2, <3>3, <4>2 DEF SentHasRow
      <4> QED BY <1>1, <1>2, <4>3
    <3> QED BY <3>1, <3>2, <3>3
  <2> QED BY <2>2, <2>3, <2>4 DEF SentHasRow, RowOf
<1> QED BY <1>4, <1>5

\* What the group has read is in the rows.
LEMMA ReadStep ==
  ASSUME PipelineTyped, PipelineTyped', FlowInv, WayInv, [Next]_vars, SentHasRow, ReadIsApplied, ~lost'
  PROVE  ReadIsApplied'
<1>0. SamplesTellTheWay /\ OnlyCompletedTripsClose /\ DatabaseTyped /\ MaxTrips \in Nat
  BY PipelineAssumption DEF WayInv, PipelineTyped
<1>1. \A k \in Key : /\ read'[k] <= Len(log[k]) /\ Len(log[k]) \in Nat
                     /\ read[k] \in Nat /\ read'[k] \in Nat
                     /\ \A i \in 1 .. Len(log[k]) : log'[k][i] = log[k][i]
  BY LogSteps DEF PipelineTyped, BrokerTyped
<1>2. ASSUME NEW v \in Vehicle, NEW i \in 1 .. read'[v], log'[v][i].trip # 0
      PROVE  Covers(tripRow'[<<log'[v][i].vehicle, log'[v][i].trip>>], log'[v][i])
  <2>1. v \in Key /\ i \in 1 .. Len(log[v]) /\ log'[v][i] = log[v][i]
    BY <1>1 DEF Key
  <2>2. PICK s : s = log[v][i]
    OBVIOUS
  <2>3. s \in SampleType /\ s \in Logged(v) /\ s.trip # 0
    <3>1. log[v] \in Seq(SamplesBy(v))
      BY DEF PipelineTyped, BrokerTyped, Message, Key
    <3> QED BY <1>2, <2>1, <2>2, <3>1 DEF Logged, SamplesBy
  <2>4. <<s.vehicle, s.trip>> \in Trip
    BY <1>0, <2>3 DEF SampleType, Trip
  <2>5. CASE i <= read[v]
    <3>1. Covers(tripRow[<<s.vehicle, s.trip>>], s)
      BY <1>1, <2>1, <2>2, <2>3, <2>5 DEF ReadIsApplied, RowOf
    <3>2. Covers(tripRow'[<<s.vehicle, s.trip>>], s)
      BY <2>3, <2>4, <3>1, RowsKeep
    <3> QED BY <2>1, <2>2, <3>2
  <2>6. CASE ~(i <= read[v])
    <3>1. StoreBatch(v)
      <4>1. read'[v] <= read[v] \/ StoreBatch(v)
        BY <2>1, ReadCases, TripKeysApart
      <4> QED BY <1>1, <2>1, <2>6, <4>1
    <3>2. PICK n \in Nat : /\ read'[v] = n
                           /\ {log[v][j] : j \in read[v] + 1 .. n} \subseteq SampleType
                           /\ WriteTelemetryBatch({log[v][j] : j \in read[v] + 1 .. n})
                           /\ n <= Len(log[v])
      BY <3>1, StoreEffect
    <3>3. PICK rows : rows = {log[v][j] : j \in read[v] + 1 .. n}
      OBVIOUS
    <3>4. rows \in SUBSET SampleType /\ WriteTelemetryBatch(rows)
      BY <3>2, <3>3
    <3>5. i \in read[v] + 1 .. n
      BY <1>1, <2>1, <2>6, <3>2
    <3>6. s \in rows
      BY <2>2, <3>3, <3>5
    <3>7. rows \subseteq Logged(v)
      BY <1>1, <2>1, <3>2, <3>3 DEF Logged
    <3>8. rows \subseteq Held /\ s \in Sent
      BY <2>3, <3>7, SentIs DEF Held
    <3>9. tripRow[<<s.vehicle, s.trip>>] # NoRow
      BY <2>3, <3>8 DEF SentHasRow, RowOf
    <3>10. Covers(tripRow'[<<s.vehicle, s.trip>>], s)
      BY <1>0, <2>3, <3>4, <3>6, <3>8, <3>9, BatchCovers
    <3> QED BY <2>1, <2>2, <3>10
  <2> QED BY <2>5, <2>6
<1>3. ASSUME NEW t \in Trip, NEW i \in 1 .. read'[t], log'[t][i].type = "finished"
      PROVE  tripRow'[t].ended
  <2>1. t \in Key /\ i \in 1 .. Len(log[t]) /\ log'[t][i] = log[t][i]
    BY <1>1, TripKeysApart
  <2>2. CASE i <= read[t]
    <3>1. i \in 1 .. read[t] /\ log[t][i].type = "finished"
      BY <1>1, <1>3, <2>1, <2>2
    <3>2. tripRow[t].ended
      BY <3>1 DEF ReadIsApplied
    <3> QED BY <3>2, RowsKeep
  <2>3. CASE ~(i <= read[t])
    <3>1. ConsumeTripEvent(t)
      <4>1. read'[t] <= read[t] \/ ConsumeTripEvent(t)
        BY <2>1, ReadCases, TripKeysApart
      <4> QED BY <1>1, <2>1, <2>3, <4>1
    <3>2. /\ read'[t] = read[t] + 1 /\ log[t][read[t] + 1] \in EventsOn(t)
          /\ ApplyTripEvent(log[t][read[t] + 1]) \/ lost' = TRUE
      BY <3>1, ConsumeEffect
    <3>3. i = read[t] + 1
      BY <1>1, <2>1, <2>3, <3>2
    <3>4. PICK e : e = log[t][i]
      OBVIOUS
    <3>5. /\ e \in GoodEvents /\ <<e.vehicle, e.trip>> = t /\ e.type = "finished"
          /\ ApplyTripEvent(e)
      BY <1>3, <2>1, <3>2, <3>3, <3>4 DEF EventsOn
    <3>6. tripRow[t] # NoRow
      <4>1. FinishedIn(log[t]) # {}
        BY <2>1, <3>4, <3>5, FinishedSome
      <4> QED BY <4>1 DEF SentHasRow
    <3>7. CASE tripRow[t].ended
      BY <3>7, RowsKeep
    <3>8. CASE ~tripRow[t].ended
      BY <1>0, <3>5, <3>6, <3>8, EventOnRow
    <3> QED BY <3>7, <3>8
  <2> QED BY <2>2, <2>3
<1> QED BY <1>2, <1>3 DEF ReadIsApplied, RowOf

\* A row that has come as far as d has come so far for good.
LEMMA RowsReach ==
  ASSUME PipelineTyped, PipelineTyped', [Next]_vars, NEW t \in Trip, NEW d \in 0 .. Corridor,
         tripRow[t].ended \/ tripRow[t].distance >= d
  PROVE  tripRow'[t].ended \/ tripRow'[t].distance >= d
<1>1. RowStep(tripRow[t], tripRow'[t])
  BY RowSteps
<1>2. /\ tripRow[t].distance \in 0 .. Corridor /\ tripRow'[t].distance \in 0 .. Corridor
      /\ Corridor \in Nat
  BY PipelineAssumption DEF PipelineTyped, DatabaseTyped, RowType
<1>3. CASE tripRow'[t] = tripRow[t]
  BY <1>3
<1>4. CASE tripRow[t] = NoRow /\ tripRow'[t] = [state |-> "driving", distance |-> 0, ended |-> FALSE]
  BY <1>2, <1>4, NoRowIsTyped
<1>5. CASE ~tripRow[t].ended /\ tripRow'[t].distance >= tripRow[t].distance
  BY <1>2, <1>5
<1>6. CASE tripRow'[t].ended
  BY <1>6
<1> QED BY <1>1, <1>3, <1>4, <1>5, <1>6 DEF RowStep

\* A vehicle's last sample stays on its way until a batch has brought it to the row.
LEMMA DistanceStaysKnown ==
  ASSUME PipelineTyped, PipelineTyped', FlowInv, WayInv, [Next]_vars, ~Tick, SentHasRow, ~lost',
         NEW s \in Held, s.trip # 0
  PROVE  \/ s \in Held'
         \/ tripRow'[<<s.vehicle, s.trip>>].ended \/ tripRow'[<<s.vehicle, s.trip>>].distance >= s.distance
<1>0. SamplesTellTheWay /\ DatabaseTyped
  BY DEF WayInv, PipelineTyped
<1>1. \/ Held \subseteq Held'
      \/ \E p \in Coroutine : /\ writing[p] # None /\ writing[p].kind = "batch"
                              /\ writing[p].rows \subseteq Sent
                              /\ WriteTelemetryBatch(writing[p].rows)
                              /\ Held \subseteq Held' \cup writing[p].rows
  BY <1>0, SentSteps
<1>2. ASSUME NEW p \in Coroutine,
             writing[p].rows \subseteq Sent, WriteTelemetryBatch(writing[p].rows),
             Held \subseteq Held' \cup writing[p].rows, s \notin Held'
      PROVE  Covers(tripRow'[<<s.vehicle, s.trip>>], s)
  <2>1. PICK rows : rows = writing[p].rows
    OBVIOUS
  <2>2. rows \subseteq Held /\ rows \subseteq SampleType /\ s \in rows /\ s \in Sent
    BY <1>2, <2>1, HeldTyped DEF Held
  <2>3. tripRow[<<s.vehicle, s.trip>>] # NoRow
    BY <2>2 DEF SentHasRow, RowOf
  <2>4. rows \in SUBSET SampleType /\ WriteTelemetryBatch(rows)
    BY <1>2, <2>1, <2>2
  <2> QED BY <1>0, <2>2, <2>3, <2>4, BatchCovers
<1> QED BY <1>1, <1>2 DEF Covers

LEMMA ForgottenStep ==
  ASSUME PipelineTyped, PipelineTyped', FlowInv, WayInv, [Next]_vars, SentHasRow, NothingForgotten, ~lost'
  PROVE  NothingForgotten'
<1>0. /\ SamplesTellTheWay /\ OnlyCompletedTripsClose /\ RowsBehind /\ DatabaseTyped
      /\ MaxTrips \in Nat /\ Corridor \in Nat
  BY PipelineAssumption DEF WayInv, PipelineTyped
<1>1. \A v \in Vehicle : /\ fleet[v].trip \in 0 .. MaxTrips /\ fleet[v].distance \in 0 .. Corridor
                         /\ fleet'[v].trip \in 0 .. MaxTrips /\ fleet'[v].distance \in 0 .. Corridor
  BY FleetIs DEF PipelineTyped, EngineTyped, FleetType
<1>2. CASE Tick
  <2>1. /\ samples = {} /\ queue["loop"] = NoEvents
        /\ UNCHANGED <<tripRow, log, buffer, writing>>
    BY <1>2, TickMoves
  <2>2. Held \subseteq Held'
    BY <2>1, NothingSent DEF Held
  <2>3. ASSUME NEW v \in Vehicle, fleet'[v].trip # 0, fleet'[v].distance # 0
        PROVE  \/ tripRow'[<<v, fleet'[v].trip>>].ended
               \/ tripRow'[<<v, fleet'[v].trip>>].distance >= fleet'[v].distance
               \/ \E s \in Held' : s.vehicle = v /\ s.trip = fleet'[v].trip /\ s.distance = fleet'[v].distance
    <3>1. CASE fleet'[v].trip = fleet[v].trip /\ fleet'[v].distance = fleet[v].distance
      BY <2>1, <2>2, <2>3, <3>1 DEF NothingForgotten
    <3>2. CASE ~(fleet'[v].trip = fleet[v].trip /\ fleet'[v].distance = fleet[v].distance)
      <4>1. IF fleet'[v].trip = fleet[v].trip THEN fleet'[v].distance # fleet[v].distance
            ELSE fleet'[v].distance # 0
        BY <2>3, <3>2
      <4>2. PICK s \in samples' : s.vehicle = v /\ s.trip = fleet'[v].trip /\ s.distance = fleet'[v].distance
        BY <1>2, <4>1, TickMoves
      <4>3. s \in Held'
        BY <4>2 DEF Held
      <4> QED BY <4>2, <4>3
    <3> QED BY <3>1, <3>2
  <2>4. ASSUME NEW v \in Vehicle, NEW n \in 1 .. fleet'[v].trip, Completed(<<v, n>>)'
        PROVE  \/ tripRow'[<<v, n>>].ended
               \/ n \in FinishedIn(queue'["loop"][v])
               \/ FinishedIn(log'[<<v, n>>]) # {}
    <3>1. n < fleet'[v].trip \/ (n = fleet'[v].trip /\ fleet'[v].state = "idle")
      BY <2>4 DEF Completed
    <3>2. \/ fleet'[v].trip = fleet[v].trip
          \/ fleet'[v].trip = fleet[v].trip + 1 /\ fleet[v].state = "idle"
      BY <1>2, TickMoves
    <3>3. CASE n < fleet[v].trip \/ (n = fleet[v].trip /\ fleet[v].state = "idle")
      <4>1. n \in 1 .. fleet[v].trip
        BY <1>1, <3>3
      <4>2. Completed(<<v, n>>)
        BY <3>3 DEF Completed
      <4>3. FinishedIn(queue["loop"][v]) = {}
        BY <2>1, NothingFinished DEF Coroutine
      <4>4. tripRow[<<v, n>>].ended \/ FinishedIn(log[<<v, n>>]) # {}
        BY <4>1, <4>2, <4>3 DEF NothingForgotten
      <4> QED BY <2>1, <4>4
    <3>4. CASE ~(n < fleet[v].trip \/ (n = fleet[v].trip /\ fleet[v].state = "idle"))
      <4>1. /\ n = fleet'[v].trip /\ fleet'[v].state = "idle"
            /\ fleet[v].state # "idle" \/ fleet'[v].trip # fleet[v].trip
        BY <1>1, <3>1, <3>2, <3>4
      <4> QED BY <1>2, <4>1, TickMoves
    <3> QED BY <3>3, <3>4
  <2> QED BY <2>3, <2>4 DEF NothingForgotten
<1>3. CASE ~Tick
  <2>1. /\ opened' \subseteq opened
        /\ \A v \in Vehicle : /\ fleet'[v].trip = fleet[v].trip
                              /\ fleet'[v].distance = fleet[v].distance
                              /\ fleet'[v].state = "idle" <=> fleet[v].state = "idle"
    BY <1>3, FleetSteps
  <2>2. ASSUME NEW v \in Vehicle, fleet'[v].trip # 0, fleet'[v].distance # 0
        PROVE  \/ tripRow'[<<v, fleet'[v].trip>>].ended
               \/ tripRow'[<<v, fleet'[v].trip>>].distance >= fleet'[v].distance
               \/ \E s \in Held' : s.vehicle = v /\ s.trip = fleet'[v].trip /\ s.distance = fleet'[v].distance
    <3>1. PICK t : t = <<v, fleet[v].trip>>
      OBVIOUS
    <3>2. t \in Trip /\ t = <<v, fleet'[v].trip>>
      BY <1>0, <1>1, <2>1, <2>2, <3>1 DEF Trip
    <3>3. CASE tripRow[t].ended \/ tripRow[t].distance >= fleet[v].distance
      <4>1. tripRow'[t].ended \/ tripRow'[t].distance >= fleet[v].distance
        BY <1>1, <3>2, <3>3, RowsReach
      <4> QED BY <2>1, <3>2, <4>1
    <3>4. ASSUME NEW s \in Held, s.vehicle = v, s.trip = fleet[v].trip, s.distance = fleet[v].distance
          PROVE  \/ s \in Held'
                 \/ tripRow'[t].ended \/ tripRow'[t].distance >= fleet[v].distance
      <4>1. s.trip # 0
        BY <2>1, <2>2, <3>4
      <4> QED BY <1>3, <3>1, <3>4, <4>1, DistanceStaysKnown
    <3>5. \/ tripRow[t].ended \/ tripRow[t].distance >= fleet[v].distance
          \/ \E s \in Held : s.vehicle = v /\ s.trip = fleet[v].trip /\ s.distance = fleet[v].distance
      BY <2>1, <2>2, <3>1 DEF NothingForgotten
    <3> QED BY <2>1, <3>2, <3>3, <3>4, <3>5
  <2>3. ASSUME NEW v \in Vehicle, NEW n \in 1 .. fleet'[v].trip, Completed(<<v, n>>)'
        PROVE  \/ tripRow'[<<v, n>>].ended
               \/ n \in FinishedIn(queue'["loop"][v])
               \/ FinishedIn(log'[<<v, n>>]) # {}
    <3>1. n \in 1 .. fleet[v].trip /\ Completed(<<v, n>>)
      BY <2>1, <2>3, CompletedStays
    <3>2. <<v, n>> \in Trip
      BY <1>0, <1>1, <3>1 DEF Trip
    <3>3. PICK t : t = <<v, n>>
      OBVIOUS
    <3>4. CASE tripRow[t].ended
      <4>1. tripRow'[t].ended
        BY <3>2, <3>3, <3>4, RowsKeep
      <4> QED BY <3>3, <4>1
    <3>5. CASE FinishedIn(log[t]) # {}
      <4>1. t \in Key
        BY <3>2, <3>3, TripKeysApart
      <4>2. /\ Len(log[t]) \in Nat /\ Len(log[t]) <= Len(log'[t])
            /\ \A i \in 1 .. Len(log[t]) : log'[t][i] = log[t][i]
        BY <4>1, LogSteps
      <4>3. Len(log'[t]) \in Nat
        BY <4>1 DEF PipelineTyped, BrokerTyped
      <4>4. PICK i \in 1 .. Len(log[t]) : log[t][i].type = "finished"
        BY <3>5, FinishedSome
      <4>5. i \in 1 .. Len(log'[t]) /\ log'[t][i].type = "finished"
        BY <4>2, <4>3, <4>4
      <4>6. FinishedIn(log'[t]) # {}
        BY <4>5, FinishedSome
      <4> QED BY <3>3, <4>6
    <3>6. CASE n \in FinishedIn(queue["loop"][v])
      <4>1. \/ n \in FinishedIn(queue'["loop"][v])
            \/ FinishedIn(log'[<<v, n>>]) # {}
            \/ /\ opened = {}
               /\ \E e \in GoodEvents : /\ e.type = "finished" /\ e.vehicle = v /\ e.trip = n
                                        /\ ApplyTripEvent(e)
        BY <1>0, <1>3, <3>6, FinishedSteps
      <4>2. ASSUME opened = {}, NEW e \in GoodEvents, e.type = "finished", e.vehicle = v, e.trip = n,
                   ApplyTripEvent(e)
            PROVE  tripRow'[t].ended
        <5>1. tripRow[t] # NoRow
          BY <3>1, <3>3, <4>2 DEF SentHasRow
        <5>2. CASE tripRow[t].ended
          BY <3>2, <3>3, <5>2, RowsKeep
        <5>3. CASE ~tripRow[t].ended
          BY <1>0, <3>2, <3>3, <4>2, <5>1, <5>3, EventOnRow
        <5> QED BY <5>2, <5>3
      <4> QED BY <3>3, <4>1, <4>2
    <3>7. tripRow[t].ended \/ n \in FinishedIn(queue["loop"][v]) \/ FinishedIn(log[t]) # {}
      BY <3>1, <3>3 DEF NothingForgotten
    <3> QED BY <3>3, <3>4, <3>5, <3>6, <3>7
  <2> QED BY <2>2, <2>3 DEF NothingForgotten
<1> QED BY <1>2, <1>3

LEMMA DeliveryStep ==
  ASSUME PipelineTyped, PipelineTyped', FlowInv, WayInv, DeliveryInv, [Next]_vars
  PROVE  DeliveryInv'
<1>1. SUFFICES ASSUME ~lost' PROVE SentHasRow' /\ ReadIsApplied' /\ NothingForgotten'
  BY DEF DeliveryInv
<1>2. ~lost
  BY <1>1, LogSteps
<1>3. SentHasRow /\ ReadIsApplied /\ NothingForgotten
  BY <1>2 DEF DeliveryInv
<1> QED BY <1>1, <1>3, SentHasRowStep, ReadStep, ForgottenStep

LEMMA InitDelivers == Init => DeliveryInv
<1> SUFFICES ASSUME Init PROVE DeliveryInv
  OBVIOUS
<1>1. /\ buffer = {} /\ Coroutine = {"loop", "stop"}
      /\ \A p \in Coroutine : writing[p] = None
      /\ \A k \in Key : log[k] = <<>> /\ read[k] = 0
      /\ \A v \in Vehicle : fleet[v].trip = 0
  BY DEF Init, Coroutine
<1>2. Len(<<>>) = 0 /\ 1 .. 0 = {}
  OBVIOUS
<1>3. Sent = {}
  <2>1. \A p \in Coroutine : InTransit(p) = {}
    BY <1>1 DEF InTransit
  <2>2. \A v \in Vehicle : Logged(v) = {}
    BY <1>1, <1>2 DEF Logged, Key
  <2> QED BY <1>1, <2>1, <2>2, SentIs
<1>4. SentHasRow
  <2>1. \A t \in Trip : FinishedIn(log[t]) = {}
    <3>1. \A t \in Trip : log[t] = <<>>
      BY <1>1, TripKeysApart
    <3> QED BY <1>2, <3>1 DEF FinishedIn
  <2> QED BY <1>1, <1>2, <1>3, <2>1 DEF SentHasRow
<1>5. ReadIsApplied
  <2>1. \A k \in Key : 1 .. read[k] = {}
    BY <1>1
  <2>2. \A v \in Vehicle : 1 .. read[v] = {}
    BY <2>1, TripKeysApart
  <2>3. \A t \in Trip : 1 .. read[t] = {}
    BY <2>1, TripKeysApart
  <2> QED BY <2>2, <2>3 DEF ReadIsApplied
<1>6. NothingForgotten
  BY <1>1, <1>2 DEF NothingForgotten
<1> QED BY <1>4, <1>5, <1>6 DEF DeliveryInv

\* THEOREM.  As long as nothing is given up, how far a vehicle has come and that it has
\* arrived are never forgotten between the vehicle and the row of its trip: the row has it,
\* or a sample or a trip event that says it is buffered, being written, queued or in the log;
\* what the group has read is in the rows, and no row is ever ahead of its vehicle
\* (engine.py, the tick loop; sinks.py; consumer.py; persistence.py).
THEOREM NothingIsForgotten == Spec => [](WayInv /\ DeliveryInv)
<1>1. Init => WayInv /\ DeliveryInv
  BY InitWay, InitDelivers
<1>2. /\ PipelineTyped /\ FlowInv /\ (PipelineTyped /\ FlowInv)'
      /\ WayInv /\ DeliveryInv /\ [Next]_vars
      => (WayInv /\ DeliveryInv)'
  <2> SUFFICES ASSUME PipelineTyped, FlowInv, PipelineTyped', WayInv, DeliveryInv, [Next]_vars
               PROVE  WayInv' /\ DeliveryInv'
    OBVIOUS
  <2>1. WayInv'
    BY TickTellsTheWay, WayStays
  <2> QED BY <2>1, DeliveryStep
<1>3. Spec => [](PipelineTyped /\ FlowInv)
  BY PipelineAlwaysFlows
<1> QED BY <1>1, <1>2, <1>3, PTL DEF Spec

\* What is left in the rows once the run is over and the log is read to its end.
LEMMA DrainedExact ==
  ASSUME PipelineTyped, FlowInv, WayInv, DeliveryInv, Drained, ~lost,
         NEW v \in Vehicle, NEW n \in 1 .. fleet[v].trip
  PROVE  /\ tripRow[<<v, n>>] # NoRow
         /\ tripRow[<<v, n>>].ended <=> n < fleet[v].trip \/ fleet[v].state = "idle"
         /\ tripRow[<<v, n>>].distance = IF n < fleet[v].trip THEN Corridor ELSE fleet[v].distance
<1>0. /\ SamplesTellTheWay /\ OnlyCompletedTripsClose /\ RowsBehind
      /\ SentHasRow /\ ReadIsApplied /\ NothingForgotten /\ SinkTyped
  BY DEF WayInv, DeliveryInv, PipelineTyped
<1>1. /\ pc["loop"] = "ended" /\ \A p \in Coroutine : writing[p] = None
      /\ \A k \in Key : read[k] = Len(log[k])
  BY DEF Drained
<1>2. opened = {} /\ samples = {} /\ buffer = {} /\ queue["loop"] = NoEvents
  BY <1>1 DEF FlowInv, TickIsOver
<1>3. /\ fleet[v].trip \in 0 .. MaxTrips /\ fleet[v].distance \in 0 .. Corridor
      /\ fleet[v].state = "idle" /\ fleet[v].trip # 0 => fleet[v].distance = Corridor
      /\ MaxTrips \in Nat /\ Corridor \in Nat
  BY FleetIs
<1>4. PICK t : t = <<v, n>>
  OBVIOUS
<1>5. t \in Trip /\ t \in Key /\ t[1] = v /\ t[2] = n
  BY <1>3, <1>4, TripKeysApart DEF Trip
<1>6. tripRow[t] # NoRow
  BY <1>0, <1>2, <1>4 DEF SentHasRow
<1>7. Completed(t) <=> n < fleet[v].trip \/ fleet[v].state = "idle"
  BY <1>3, <1>5 DEF Completed
<1>8. tripRow[t].ended => Completed(t) /\ tripRow[t].distance = Corridor
  BY <1>0, <1>5 DEF OnlyCompletedTripsClose
<1>9. ASSUME Completed(t) PROVE tripRow[t].ended
  <2>1. FinishedIn(queue["loop"][v]) = {}
    BY <1>2, NothingFinished DEF Coroutine
  <2>2. tripRow[t].ended \/ FinishedIn(log[t]) # {}
    BY <1>0, <1>4, <1>9, <2>1 DEF NothingForgotten
  <2>3. ASSUME FinishedIn(log[t]) # {} PROVE tripRow[t].ended
    <3>1. PICK i \in 1 .. Len(log[t]) : log[t][i].type = "finished"
      BY <2>3, FinishedSome
    <3>2. i \in 1 .. read[t]
      BY <1>1, <1>5, <3>1
    <3> QED BY <1>0, <1>5, <3>1, <3>2 DEF ReadIsApplied
  <2> QED BY <2>2, <2>3
<1>10. ASSUME ~Completed(t) PROVE tripRow[t].distance = fleet[v].distance
  <2>1. n = fleet[v].trip /\ ~tripRow[t].ended
    BY <1>3, <1>7, <1>8, <1>10
  <2>2. tripRow[t].distance <= fleet[v].distance /\ tripRow[t].distance \in 0 .. Corridor
    <3>1. n \in 1 .. MaxTrips
      BY <1>3
    <3>2. tripRow[t].distance <= fleet[v].distance
      BY <1>0, <1>4, <2>1, <3>1 DEF RowsBehind
    <3> QED BY <1>5, <3>2 DEF PipelineTyped, DatabaseTyped, RowType
  <2>3. fleet[v].distance # 0 => tripRow[t].distance >= fleet[v].distance
    <3>1. SUFFICES ASSUME fleet[v].distance # 0 PROVE tripRow[t].distance >= fleet[v].distance
      OBVIOUS
    <3>2. \/ tripRow[t].distance >= fleet[v].distance
          \/ \E s \in Held : s.vehicle = v /\ s.trip = fleet[v].trip /\ s.distance = fleet[v].distance
      <4>1. fleet[v].trip # 0
        BY <1>3, <2>1
      <4> QED BY <1>0, <1>4, <2>1, <3>1, <4>1 DEF NothingForgotten
    <3>3. ASSUME NEW s \in Held, s.vehicle = v, s.trip = fleet[v].trip, s.distance = fleet[v].distance
          PROVE  tripRow[t].distance >= fleet[v].distance
      <4>1. \A p \in Coroutine : InTransit(p) = {}
        BY <1>0, <1>1, InTransitIs
      <4>2. PICK u \in Vehicle : s \in Logged(u)
        BY <1>2, <3>3, <4>1, SentIs DEF Held
      <4>3. PICK i \in 1 .. Len(log[u]) : s = log[u][i]
        BY <4>2 DEF Logged
      <4>4. i \in 1 .. read[u]
        BY <1>1, <4>3, TripKeysApart
      <4>5. s.trip # 0
        BY <1>3, <2>1, <3>3
      <4>6. Covers(tripRow[<<s.vehicle, s.trip>>], s)
        BY <1>0, <4>3, <4>4, <4>5 DEF ReadIsApplied, RowOf
      <4> QED BY <1>4, <2>1, <3>3, <4>6 DEF Covers
    <3> QED BY <3>2, <3>3
  <2> QED BY <1>3, <2>2, <2>3
<1>11. tripRow[t].ended <=> n < fleet[v].trip \/ fleet[v].state = "idle"
  BY <1>7, <1>8, <1>9
<1>12. tripRow[t].distance = IF n < fleet[v].trip THEN Corridor ELSE fleet[v].distance
  <2>1. CASE Completed(t)
    <3>1. tripRow[t].distance = Corridor
      BY <1>8, <1>9, <2>1
    <3>2. n < fleet[v].trip \/ fleet[v].distance = Corridor
      BY <1>3, <1>7, <2>1
    <3> QED BY <3>1, <3>2
  <2>2. CASE ~Completed(t)
    BY <1>7, <1>10, <2>2
  <2> QED BY <2>1, <2>2
<1> QED BY <1>4, <1>6, <1>11, <1>12

\* THEOREM.  When a run is over, its log is read to the end and nothing was given up, every
\* trip of every vehicle has its row with the distance the vehicle drove, closed exactly if
\* it arrived -- over either transport, with any stop handler beside the loop, any failure of
\* a transaction that lost nothing, and any redelivery (sinks.py, consumer.py,
\* persistence.py: the aggregates' guard and the totals of a finished trip).
THEOREM DrainedTripsAlwaysExact == Spec => []DrainedTripsAreExact
<1>1. PipelineTyped /\ FlowInv /\ WayInv /\ DeliveryInv => DrainedTripsAreExact
  <2> SUFFICES ASSUME PipelineTyped, FlowInv, WayInv, DeliveryInv, Drained, ~lost,
                      NEW v \in Vehicle, NEW n \in 1 .. fleet[v].trip
               PROVE  LET row == tripRow[<<v, n>>]
                      IN /\ row # NoRow
                         /\ row.ended <=> n < fleet[v].trip \/ fleet[v].state = "idle"
                         /\ row.distance = IF n < fleet[v].trip THEN Corridor ELSE fleet[v].distance
    BY DEF DrainedTripsAreExact
  <2> QED BY DrainedExact
<1>2. Spec => [](PipelineTyped /\ FlowInv)
  BY PipelineAlwaysFlows
<1>3. Spec => [](WayInv /\ DeliveryInv)
  BY NothingIsForgotten
<1> QED BY <1>1, <1>2, <1>3, PTL

-----------------------------------------------------------------------------
(* What the vehicles table shows while nothing but the loop emits.           *)

\* Samples of v that are on their way to the table.
Pending(v) == SamplesOf(samples \cup buffer \cup InTransit("loop"), v)

\* The state a vehicle's row will show once everything on its way is written: what the
\* last of its trip events says, or its newest sample, or what the row says already.
Settles(v) ==
  IF queue["loop"][v] # <<>>
  THEN TripEventStates[queue["loop"][v][Len(queue["loop"][v])].type].vehicle
  ELSE IF Pending(v) # {} THEN Newest(Pending(v)).state ELSE vehicleRow[v]

\* Parked and plugged in are told apart from each other and from being on the road.
Shows(a, b) == \A s \in {"idle", "charging"} : a = s <=> b = s

\* Places of the loop where a run is closed out, which without a stop handler or an error
\* is for its duration.
ClosingOut == {"pause", "flush", "close", "closing", "ended"}

\* The loop stays in its ticks while the run is running, a transaction has taken the whole
\* buffer, and a vehicle that was seen to when the run is closed out settles as it is.
Settled ==
  /\ \A k \in Key : log[k] = <<>>
  /\ pc["loop"] \notin ClosingOut => run = "running"
  /\ writing["loop"] # None => buffer = {}
  /\ pc["loop"] \in ClosingOut \ {"pause"} => left["loop"] = {}
  /\ \A v \in Vehicle :
       /\ Shows(Settles(v), fleet[v].state)
       /\ pc["loop"] \in ClosingOut /\ v \notin left["loop"] => Settles(v) = fleet[v].state

LoopAlone == transport = "database" /\ pc["stop"] = "none" /\ ~lost

CurrentInv == LoopAlone => Settled

\* What an outcome leaves says how the vehicle is: the last of its trip events, or its
\* sample, or, of a vehicle that raised, what was said before.
OutcomeShows(f, o) ==
  /\ o.events # <<>> => Shows(TripEventStates[o.events[Len(o.events)]].vehicle, After(o).state)
  /\ o.events = <<>> => IF o.sampled THEN o.after.state = After(o).state ELSE After(o) = f

LEMMA DriveShows ==
  ASSUME NEW f \in OnTheRoad, NEW o \in DriveStep(f)
  PROVE  /\ o.sampled = TRUE
         /\ \/ o.events = <<>> /\ o.after.state \in {"driving", "stopped"}
            \/ o.events = <<"charging_started">> /\ o.after.state = "charging"
            \/ o.events = <<"finished">> /\ o.after.state = "completed"
<1>0. f = [state |-> f.state, trip |-> f.trip, distance |-> f.distance]
  BY DEF OnTheRoad
<1> DEFINE moved == [f EXCEPT !.distance = @ + 1]
<1>1. \/ o = Outcome([f EXCEPT !.state = "stopped"], <<>>)
      \/ o = Outcome([f EXCEPT !.state = "charging"], <<"charging_started">>)
      \/ o = Outcome([moved EXCEPT !.state = "completed"], <<"finished">>)
      \/ o = Outcome([moved EXCEPT !.state = "driving"], <<>>)
  BY DEF DriveStep
<1>2. CASE o = Outcome([f EXCEPT !.state = "stopped"], <<>>)
  BY <1>0, <1>2 DEF Outcome
<1>3. CASE o = Outcome([f EXCEPT !.state = "charging"], <<"charging_started">>)
  BY <1>0, <1>3 DEF Outcome
<1>4. CASE o = Outcome([moved EXCEPT !.state = "completed"], <<"finished">>)
  BY <1>0, <1>4 DEF Outcome
<1>5. CASE o = Outcome([moved EXCEPT !.state = "driving"], <<>>)
  BY <1>0, <1>5 DEF Outcome
<1> QED BY <1>1, <1>2, <1>3, <1>4, <1>5

\* The last element of the lists of events a tick leaves.
LEMMA LastEvents ==
  /\ \A e \in EventNames : /\ Len(<<e>>) = 1 /\ <<e>>[1] = e /\ <<e>> # <<>>
                           /\ <<"started">> \o <<e>> # <<>>
                           /\ Len(<<"started">> \o <<e>>) = 2
                           /\ (<<"started">> \o <<e>>)[2] = e
  /\ <<"started">> \o <<>> = <<"started">>
  OBVIOUS

\* The state of a vehicle once its sample is out.
LEMMA AfterState ==
  ASSUME NEW f, NEW o, OutcomeOK(f, o)
  PROVE  IF o.after.state = "completed" THEN After(o).state = "idle" ELSE After(o) = o.after
<1>1. /\ o.after \in [state : VehicleState, trip : 0 .. MaxTrips, distance : 0 .. Corridor]
      /\ o.after.state = "completed" => o.sampled
  BY DEF OutcomeOK
<1> QED BY <1>1 DEF After, Released

LEMMA OutcomesShow ==
  ASSUME NEW f \in FleetType, NEW o \in Advance(f) \cup Raises(f)
  PROVE  OutcomeShows(f, o)
<1>0. /\ f.state \in {"idle", "driving", "charging", "stopped"}
      /\ f.trip \in 0 .. MaxTrips /\ f.distance \in 0 .. Corridor
      /\ f.state # "idle" => f.trip # 0 /\ f.distance < Corridor
      /\ f = [state |-> f.state, trip |-> f.trip, distance |-> f.distance]
      /\ MaxTrips \in Nat /\ Corridor \in Nat /\ Corridor # 0
  BY PipelineAssumption DEF FleetType
<1>1. IF o.after.state = "completed" THEN After(o).state = "idle" ELSE After(o) = o.after
  BY AdvanceOutcomes, AfterState
<1>2. ASSUME o.after = f, o.events = <<>> PROVE OutcomeShows(f, o)
  BY <1>0, <1>1, <1>2 DEF OutcomeShows
<1>3. ASSUME o.events = <<>>, o.sampled, o.after.state # "completed" PROVE OutcomeShows(f, o)
  BY <1>1, <1>3 DEF OutcomeShows
<1>4. ASSUME NEW e \in EventNames, o.events # <<>>, o.events[Len(o.events)] = e,
             \/ e \in {"started", "charging_finished"} /\ o.after.state \in {"driving", "stopped"}
             \/ e = "charging_started" /\ o.after.state = "charging"
             \/ e = "finished" /\ o.after.state = "completed"
      PROVE  OutcomeShows(f, o)
  <2>1. \/ TripEventStates[e].vehicle = "driving" /\ After(o).state \in {"driving", "stopped"}
        \/ TripEventStates[e].vehicle = "charging" /\ After(o).state = "charging"
        \/ TripEventStates[e].vehicle = "idle" /\ After(o).state = "idle"
    BY <1>1, <1>4 DEF TripEventStates
  <2>2. Shows(TripEventStates[e].vehicle, After(o).state)
    BY <2>1 DEF Shows
  <2> QED BY <1>4, <2>2 DEF OutcomeShows
<1>5. /\ "started" \in EventNames /\ "charging_started" \in EventNames
      /\ "charging_finished" \in EventNames /\ "finished" \in EventNames
  BY DEF EventNames
<1>6. ASSUME f.state \in {"driving", "stopped"}, o \in DriveStep(f) PROVE OutcomeShows(f, o)
  <2>1. f \in OnTheRoad
    BY <1>0, <1>6 DEF OnTheRoad
  <2>2. /\ o.sampled = TRUE
        /\ \/ o.events = <<>> /\ o.after.state \in {"driving", "stopped"}
           \/ o.events = <<"charging_started">> /\ o.after.state = "charging"
           \/ o.events = <<"finished">> /\ o.after.state = "completed"
    BY <1>6, <2>1, DriveShows
  <2>3. ASSUME NEW e \in EventNames, o.events = <<e>>
        PROVE  o.events # <<>> /\ o.events[Len(o.events)] = e
    BY <2>3, LastEvents
  <2> QED BY <1>3, <1>4, <1>5, <2>2, <2>3
<1>7. ASSUME NeedsRoute(f), o \in Started(f) PROVE OutcomeShows(f, o)
  <2>1. BeginTrip(f) \in OnTheRoad
    BY <1>0, <1>7 DEF NeedsRoute, BeginTrip, OnTheRoad
  <2>2. PICK d \in DriveStep(BeginTrip(f)) : o = [d EXCEPT !.events = <<"started">> \o @]
    BY <1>7 DEF Started
  <2>3. /\ d.sampled = TRUE
        /\ \/ d.events = <<>> /\ d.after.state \in {"driving", "stopped"}
           \/ d.events = <<"charging_started">> /\ d.after.state = "charging"
           \/ d.events = <<"finished">> /\ d.after.state = "completed"
    BY <2>1, DriveShows
  <2>4. d = [after |-> d.after, events |-> d.events, sampled |-> TRUE]
    BY DriveShape
  <2>5. o.after = d.after /\ o.events = <<"started">> \o d.events
    BY <2>2, <2>4
  <2>6. CASE d.events = <<>> /\ d.after.state \in {"driving", "stopped"}
    <3>1. o.events = <<"started">>
      BY <2>5, <2>6, LastEvents
    <3>2. o.events # <<>> /\ o.events[Len(o.events)] = "started"
      BY <1>5, <3>1, LastEvents
    <3> QED BY <1>4, <1>5, <2>5, <2>6, <3>2
  <2>7. ASSUME NEW e \in EventNames, d.events = <<e>>
        PROVE  o.events # <<>> /\ o.events[Len(o.events)] = e
    BY <2>5, <2>7, LastEvents
  <2>8. CASE d.events = <<"charging_started">> /\ d.after.state = "charging"
    BY <1>4, <1>5, <2>5, <2>7, <2>8
  <2>9. CASE d.events = <<"finished">> /\ d.after.state = "completed"
    BY <1>4, <1>5, <2>5, <2>7, <2>9
  <2> QED BY <2>3, <2>6, <2>8, <2>9
<1>8. ASSUME o = Outcome([f EXCEPT !.state = "driving"], <<"charging_finished">>)
      PROVE  OutcomeShows(f, o)
  <2>1. o.after.state = "driving" /\ o.events = <<"charging_finished">>
    BY <1>0, <1>8 DEF Outcome
  <2> QED BY <1>4, <1>5, <2>1, LastEvents
<1>9. CASE o \in Raises(f)
  <2>1. \/ o = [after |-> f, events |-> <<>>, sampled |-> FALSE]
        \/ /\ NeedsRoute(f)
           /\ o = [after |-> BeginTrip(f), events |-> <<"started">>, sampled |-> FALSE]
    BY <1>9 DEF Raises
  <2>2. CASE o = [after |-> f, events |-> <<>>, sampled |-> FALSE]
    BY <1>2, <2>2
  <2>3. CASE o = [after |-> BeginTrip(f), events |-> <<"started">>, sampled |-> FALSE]
    <3>1. o.after.state = "driving" /\ o.events = <<"started">>
      BY <2>3 DEF BeginTrip
    <3> QED BY <1>4, <1>5, <3>1, LastEvents
  <2> QED BY <2>1, <2>2, <2>3
<1>10. CASE o \in Advance(f)
  <2>1. CASE o = Outcome(f, <<>>)
    BY <1>2, <2>1 DEF Outcome
  <2>2. CASE f.state = "charging"
    <3>1. \/ o = Outcome(f, <<>>)
          \/ o = Outcome([f EXCEPT !.state = "driving"], <<"charging_finished">>)
      BY <1>10, <2>2 DEF Advance, ChargeStep
    <3> QED BY <1>8, <2>1, <3>1
  <2>3. CASE f.state \in {"driving", "stopped"}
    BY <1>6, <1>10, <2>3 DEF Advance
  <2>4. CASE f.state = "idle"
    <3>1. o = Outcome(f, <<>>) \/ (NeedsRoute(f) /\ o \in Started(f))
      BY <1>10, <2>4 DEF Advance
    <3> QED BY <1>7, <2>1, <3>1
  <2> QED BY <1>0, <2>2, <2>3, <2>4
<1> QED BY <1>9, <1>10

\* What a tick leaves of a vehicle brings its row to what the vehicle is.
LEMMA TickSettles ==
  ASSUME PipelineTyped, PipelineTyped', FlowInv, Tick, NEW v \in Vehicle,
         Shows(Settles(v), fleet[v].state)
  PROVE  Shows(Settles(v)', fleet'[v].state)
<1>0. /\ EngineTyped /\ fleet[v] \in FleetType /\ QuietPlaces /\ TickIsOver /\ SamplesAreNew
      /\ queue \in [Coroutine -> [Vehicle -> Seq(GoodEvents)]] /\ "loop" \in Coroutine
      /\ clock \in Nat /\ buffer \subseteq SampleType
      /\ samples' \subseteq SampleType /\ buffer' \subseteq SampleType
  BY DEF FlowInv, PipelineTyped, EngineTyped, SinkTyped, Coroutine
<1>1. PICK skipped \in SUBSET Vehicle,
           out \in [Vehicle -> UNION {Advance(fleet[u]) \cup Raises(fleet[u]) : u \in Vehicle}] :
        /\ \A u \in Vehicle :
             out[u] \in IF u \in skipped THEN Raises(fleet[u]) ELSE Advance(fleet[u])
        /\ fleet'   = [u \in Vehicle |-> IF out[u].sampled THEN Released(out[u].after)
                                         ELSE out[u].after]
        /\ samples' = {Sample(u, out[u].after, clock + 1) : u \in Vehicle \ skipped}
        /\ queue'   = [queue EXCEPT !["loop"] = [u \in Vehicle |-> TripEvents(u, out[u])]]
  BY DEF Tick
<1>2. /\ pc["loop"] = "tick" /\ UNCHANGED <<buffer, writing, vehicleRow>>
  BY DEF Tick, sink, database
<1>3. /\ samples = {} /\ queue["loop"] = NoEvents /\ writing["loop"] = None
  BY <1>0, <1>2 DEF QuietPlaces, TickIsOver
<1>4. /\ InTransit("loop") = {} /\ InTransit("loop")' = {}
      /\ Pending(v) = SamplesOf(buffer, v)
      /\ Pending(v)' = SamplesOf(samples' \cup buffer, v)
  BY <1>2, <1>3 DEF InTransit, Pending
<1>5. /\ OutcomeOK(fleet[v], out[v]) /\ OutcomeShows(fleet[v], out[v])
      /\ fleet'[v] = After(out[v]) /\ queue'["loop"][v] = TripEvents(v, out[v])
  <2>1. out[v] \in Advance(fleet[v]) \cup Raises(fleet[v])
    BY <1>1
  <2>2. fleet'[v] = After(out[v])
    BY <1>1 DEF After
  <2>3. queue'["loop"][v] = TripEvents(v, out[v])
    BY <1>0, <1>1
  <2> QED BY <1>0, <2>1, <2>2, <2>3, AdvanceOutcomes, OutcomesShow
<1>6. queue["loop"][v] = <<>>
  BY <1>3 DEF NoEvents
<1>7. CASE out[v].events # <<>>
  <2>1. /\ Len(out[v].events) \in DOMAIN out[v].events
        /\ DOMAIN out[v].events = 1 .. Len(out[v].events)
    BY <1>5, <1>7 DEF OutcomeOK
  <2>2. /\ TripEvents(v, out[v]) \in Seq(EventsOf(v))
        /\ DOMAIN TripEvents(v, out[v]) = DOMAIN out[v].events
        /\ TripEvents(v, out[v])[Len(out[v].events)].type = out[v].events[Len(out[v].events)]
    BY <1>5, <2>1, TripEventsTyped
  <2>3. /\ TripEvents(v, out[v]) # <<>>
        /\ Len(TripEvents(v, out[v])) = Len(out[v].events)
    BY <2>1, <2>2
  <2>4. Settles(v)' = TripEventStates[out[v].events[Len(out[v].events)]].vehicle
    BY <1>5, <2>2, <2>3 DEF Settles
  <2> QED BY <1>5, <1>7, <2>4 DEF OutcomeShows
<1>8. CASE out[v].events = <<>>
  <2>1. queue'["loop"][v] = <<>>
    <3>1. TripEvents(v, out[v]) \in Seq(EventsOf(v)) /\ DOMAIN TripEvents(v, out[v]) = DOMAIN <<>>
      BY <1>5, <1>8, TripEventsTyped
    <3> QED BY <1>5, <3>1
  <2>2. Settles(v)' = IF Pending(v)' # {} THEN Newest(Pending(v)').state ELSE vehicleRow[v]
    BY <1>2, <2>1 DEF Settles
  <2>3. Settles(v) = IF Pending(v) # {} THEN Newest(Pending(v)).state ELSE vehicleRow[v]
    BY <1>6 DEF Settles
  <2>4. CASE v \in skipped
    <3>1. out[v].sampled = FALSE
      BY <1>1, <2>4 DEF Raises
    <3>2. fleet'[v] = fleet[v]
      BY <1>5, <1>8, <3>1 DEF OutcomeShows
    <3>3. \A s \in samples' : s.vehicle # v
      BY <1>1, <2>4 DEF Sample
    <3>4. Pending(v)' = Pending(v)
      BY <1>4, <3>3 DEF SamplesOf
    <3>5. Settles(v)' = Settles(v)
      BY <2>2, <2>3, <3>4
    <3> QED BY <3>2, <3>5
  <2>5. CASE v \notin skipped
    <3>1. out[v].sampled = TRUE
      BY <1>0, <1>1, <2>5, SampledWhenAdvanced
    <3>2. out[v].after.state = fleet'[v].state
      BY <1>5, <1>8, <3>1 DEF OutcomeShows
    <3>3. PICK s : s = Sample(v, out[v].after, clock + 1)
      OBVIOUS
    <3>4. s.vehicle = v /\ s.at = clock + 1 /\ s.state = out[v].after.state
      BY <3>3 DEF Sample
    <3>5. s \in Pending(v)'
      BY <1>1, <1>4, <2>5, <3>3, <3>4 DEF SamplesOf
    <3>6. ASSUME NEW x \in Pending(v)' PROVE x = s \/ x.at <= clock
      <4>1. x.vehicle = v /\ (x \in samples' \/ x \in buffer)
        BY <1>4 DEF SamplesOf
      <4>2. CASE x \in samples'
        <5>1. PICK u \in Vehicle : x = Sample(u, out[u].after, clock + 1)
          BY <1>1, <4>2
        <5>2. u = v
          BY <4>1, <5>1 DEF Sample
        <5> QED BY <3>3, <5>1, <5>2
      <4>3. CASE x \in buffer
        BY <1>0, <4>3 DEF SamplesAreNew
      <4> QED BY <4>1, <4>2, <4>3
    <3>7. Pending(v)' \subseteq SampleType
      BY <1>0, <1>2, <1>4 DEF SamplesOf
    <3>8. /\ Newest(Pending(v)') \in Pending(v)'
          /\ s.at <= Newest(Pending(v)').at
      BY <3>5, <3>7, NewestIsNewest
    <3>9. Newest(Pending(v)') = s
      <4>1. CASE Newest(Pending(v)').at <= clock
        <5>1. Newest(Pending(v)').at \in Nat
          BY <3>7, <3>8, PipelineAssumption DEF SampleType
        <5> QED BY <1>0, <3>4, <3>8, <4>1, <5>1
      <4> QED BY <3>6, <3>8, <4>1
    <3>10. Settles(v)' = fleet'[v].state
      BY <2>2, <3>2, <3>4, <3>5, <3>9
    <3> QED BY <3>10 DEF Shows
  <2> QED BY <2>4, <2>5
<1> QED BY <1>7, <1>8

\* What is on its way, a step that only moves it along leaves alone.
LEMMA MovedAlong ==
  ASSUME NEW v \in Vehicle, queue'["loop"][v] = queue["loop"][v], vehicleRow'[v] = vehicleRow[v],
         samples' \cup buffer' \cup InTransit("loop")' = samples \cup buffer \cup InTransit("loop")
  PROVE  Settles(v)' = Settles(v)
<1>1. Pending(v)' = Pending(v)
  BY DEF Pending
<1> QED BY <1>1 DEF Settles

\* The last element of a list stays the last until the list is empty.
LEMMA TailKeepsLast ==
  ASSUME NEW S, NEW q \in Seq(S), q # <<>>
  PROVE  \/ Len(q) = 1 /\ Tail(q) = <<>>
         \/ Tail(q) # <<>> /\ Tail(q)[Len(Tail(q))] = q[Len(q)]
<1>1. /\ Len(q) \in Nat /\ Len(q) # 0 /\ Tail(q) \in Seq(S) /\ Len(Tail(q)) = Len(q) - 1
      /\ \A i \in 1 .. Len(q) - 1 : Tail(q)[i] = q[i + 1]
  OBVIOUS
<1>0. \A t \in Seq(S) : t = <<>> <=> Len(t) = 0
  OBVIOUS
<1>2. CASE Len(q) = 1
  <2>1. Len(Tail(q)) = 0
    BY <1>1, <1>2
  <2>2. Tail(q) = <<>>
    BY <1>0, <1>1, <2>1
  <2> QED BY <1>2, <2>2
<1>3. CASE Len(q) # 1
  <2>1. Len(q) - 1 \in 1 .. Len(q) - 1
    BY <1>1, <1>3
  <2>2. Tail(q)[Len(q) - 1] = q[Len(q) - 1 + 1]
    BY <1>1, <2>1
  <2>3. Len(q) - 1 + 1 = Len(q) /\ Len(q) - 1 # 0
    BY <1>1, <1>3
  <2>4. Tail(q) # <<>>
    BY <1>0, <1>1, <2>3
  <2> QED BY <1>1, <2>2, <2>3, <2>4
<1> QED BY <1>2, <1>3

\* A transaction that commits brings the row nearer to what it will show.
LEMMA CommitSettles ==
  ASSUME PipelineTyped, FlowInv, Settled, WriteCommits("loop"), NEW v \in Vehicle
  PROVE  Settles(v)' = Settles(v)
<1>0. /\ "loop" \in Coroutine /\ EngineTyped /\ SinkTyped /\ DatabaseTyped
      /\ QuietPlaces /\ TickIsOver /\ HeadIsWriting
  BY DEF PipelineTyped, FlowInv, Coroutine
<1>1. /\ writing["loop"] # None /\ writing'["loop"] = None
      /\ UNCHANGED <<pc, samples, buffer>>
      /\ \/ /\ writing["loop"].kind = "batch" /\ writing["loop"].rows \subseteq SampleType
            /\ WriteTelemetryBatch(writing["loop"].rows) /\ UNCHANGED queue
         \/ /\ writing["loop"].kind = "event" /\ writing["loop"].event \in GoodEvents
            /\ ApplyTripEvent(writing["loop"].event)
            /\ Dequeue("loop", writing["loop"].event.vehicle)
  BY <1>0, CommitEffect
<1>2. buffer = {} /\ samples = {}
  BY <1>0, <1>1 DEF Settled, QuietPlaces, TickIsOver
<1>3. /\ Pending(v) = SamplesOf(InTransit("loop"), v)
      /\ InTransit("loop")' = {} /\ Pending(v)' = {}
  BY <1>1, <1>2 DEF Pending, InTransit, SamplesOf
<1>4. Settles(v)' = IF queue'["loop"][v] # <<>>
                    THEN TripEventStates[queue'["loop"][v][Len(queue'["loop"][v])].type].vehicle
                    ELSE vehicleRow'[v]
  BY <1>3 DEF Settles
<1>5. CASE writing["loop"].kind = "batch"
  <2>1. Pending(v) = SamplesOf(writing["loop"].rows, v)
    BY <1>1, <1>3, <1>5 DEF InTransit
  <2>2. vehicleRow'[v] = IF Pending(v) = {} THEN vehicleRow[v] ELSE Newest(Pending(v)).state
    BY <1>1, <1>5, <2>1 DEF WriteTelemetryBatch
  <2> QED BY <1>1, <1>4, <1>5, <2>2 DEF Settles
<1>6. CASE writing["loop"].kind = "event"
  <2>1. Pending(v) = {}
    BY <1>1, <1>3, <1>6 DEF InTransit, SamplesOf
  <2>2. PICK e \in GoodEvents : e = writing["loop"].event
    BY <1>1, <1>6
  <2>3. /\ e.vehicle \in Vehicle /\ ApplyTripEvent(e) /\ Dequeue("loop", e.vehicle)
        /\ queue["loop"][e.vehicle] # <<>> /\ Head(queue["loop"][e.vehicle]) = e
    BY <1>0, <1>1, <1>6, <2>2 DEF GoodEvents, EventType, HeadIsWriting
  <2>4. vehicleRow' = [vehicleRow EXCEPT ![e.vehicle] = TripEventStates[e.type].vehicle]
    BY <2>3 DEF ApplyTripEvent
  <2>5. /\ queue'["loop"][e.vehicle] = Tail(queue["loop"][e.vehicle])
        /\ v # e.vehicle => queue'["loop"][v] = queue["loop"][v]
    <3>1. queue' = [queue EXCEPT !["loop"][e.vehicle] = Tail(queue["loop"][e.vehicle])]
      BY <2>3 DEF Dequeue
    <3>2. queue \in [Coroutine -> [Vehicle -> Seq(GoodEvents)]]
      BY <1>0 DEF EngineTyped
    <3> QED BY <1>0, <2>3, <3>1, <3>2
  <2>6. CASE v # e.vehicle
    BY <1>0, <1>4, <2>1, <2>4, <2>5, <2>6 DEF Settles, DatabaseTyped
  <2>7. CASE v = e.vehicle
    <3>1. queue["loop"][v] \in Seq(EventsOf(v)) /\ queue["loop"][v] # <<>>
      BY <1>0, <2>3, <2>7 DEF EngineTyped
    <3>2. Settles(v) = TripEventStates[queue["loop"][v][Len(queue["loop"][v])].type].vehicle
      BY <3>1 DEF Settles
    <3>3. CASE Len(queue["loop"][v]) = 1 /\ Tail(queue["loop"][v]) = <<>>
      <4>1. queue["loop"][v][1] = e
        BY <2>3, <2>7, <3>1
      <4>2. Settles(v)' = TripEventStates[e.type].vehicle
        BY <1>0, <1>4, <2>4, <2>5, <2>7, <3>3 DEF DatabaseTyped
      <4> QED BY <3>2, <3>3, <4>1, <4>2
    <3>4. CASE /\ Tail(queue["loop"][v]) # <<>>
               /\ Tail(queue["loop"][v])[Len(Tail(queue["loop"][v]))] = queue["loop"][v][Len(queue["loop"][v])]
      BY <1>4, <2>5, <2>7, <3>2, <3>4
    <3> QED BY <3>1, <3>3, <3>4, TailKeepsLast
  <2> QED BY <2>6, <2>7
<1> QED BY <1>1, <1>5, <1>6

\* What a step other than a tick or a pause has to show.
LEMMA SettledCarries ==
  ASSUME Settled, UNCHANGED <<log, fleet>>,
         pc'["loop"] \notin ClosingOut => run' = "running",
         writing'["loop"] # None => buffer' = {},
         pc'["loop"] \in ClosingOut \ {"pause"} => left'["loop"] = {},
         pc'["loop"] \in ClosingOut =>
           left'["loop"] = Vehicle \/ (pc["loop"] \in ClosingOut /\ left'["loop"] = left["loop"]),
         \A v \in Vehicle : Settles(v)' = Settles(v)
  PROVE  Settled'
<1>1. ASSUME NEW v \in Vehicle
      PROVE  /\ Shows(Settles(v)', fleet'[v].state)
             /\ pc'["loop"] \in ClosingOut /\ v \notin left'["loop"] => Settles(v)' = fleet'[v].state
  BY DEF Settled
<1>2. \A k \in Key : log'[k] = <<>>
  BY DEF Settled
<1> QED BY <1>1, <1>2 DEF Settled

\* The steps that leave alone what the table is to show.
LEMMA QuietSettles ==
  ASSUME PipelineTyped, FlowInv, Settled, transport = "database", pc["stop"] = "none",
         pc'["stop"] = "none",
         OpenTrips \/ Moves
  PROVE  Settled'
<1>0. pc \in [Coroutine -> Places] /\ Coroutine = {"loop", "stop"} /\ QuietPlaces
  BY DEF PipelineTyped, EngineTyped, FlowInv, Coroutine
<1>1. UNCHANGED <<fleet, samples, queue, buffer, writing, log, vehicleRow>>
  BY MovesEffect DEF OpenTrips, sink, broker, database
<1>2. \A v \in Vehicle : Settles(v)' = Settles(v)
  BY <1>1 DEF Settles, Pending, InTransit
<1>3. writing'["loop"] # None => buffer' = {}
  BY <1>1 DEF Settled
<1>4. \/ pc'["loop"] \notin ClosingOut /\ pc["loop"] \notin ClosingOut /\ run' = run
      \/ pc'["loop"] = "pause" /\ left'["loop"] = Vehicle
      \/ /\ pc["loop"] \in ClosingOut /\ pc'["loop"] \in ClosingOut \ {"pause"}
         /\ pc["loop"] # "pause" /\ left' = left
  <2>1. CASE OpenTrips \/ SamplesOut
    BY <1>0, <2>1 DEF OpenTrips, SamplesOut, ClosingOut
  <2>2. CASE EndTick
    <3>1. pc["loop"] \notin ClosingOut
      BY <2>2 DEF EndTick, ClosingOut
    <3>2. run = "running"
      BY <3>1 DEF Settled
    <3>3. left \in [Coroutine -> SUBSET Vehicle]
      BY DEF PipelineTyped, EngineTyped
    <3> QED BY <1>0, <2>2, <3>1, <3>2, <3>3 DEF EndTick, ClosingOut
  <2>3. CASE LoopExits
    <3>1. pc["loop"] \notin ClosingOut /\ run # "running"
      BY <2>3 DEF LoopExits, ClosingOut
    <3> QED BY <3>1 DEF Settled
  <2>4. CASE Stop \/ StopReturns
    BY <1>0, <2>4 DEF Stop, StopReturns
  <2>5. CASE LoopEnds
    BY <1>0, <2>5 DEF LoopEnds, ClosingOut
  <2>6. ASSUME NEW p \in Coroutine, FinishRun(p)
        PROVE  /\ pc["loop"] \in ClosingOut /\ pc'["loop"] \in ClosingOut \ {"pause"}
               /\ pc["loop"] # "pause" /\ left' = left
    <3>1. pc[p] = "flush"
      BY <2>6 DEF FinishRun
    <3>2. p = "loop"
      BY <1>0, <3>1
    <3> QED BY <1>0, <2>6, <3>1, <3>2 DEF FinishRun, ClosingOut
  <2> QED BY <2>1, <2>2, <2>3, <2>4, <2>5, <2>6 DEF Moves
<1> QED BY <1>1, <1>2, <1>3, <1>4, SettledCarries DEF Settled, ClosingOut

\* The steps that hand something over to the sink or start a transaction.
LEMMA SendSettles ==
  ASSUME PipelineTyped, FlowInv, Settled, transport = "database", pc["stop"] = "none",
         EmitSamples \/ \E p \in Coroutine : EmitTripEvent(p) \/ Flushes(p)
  PROVE  Settled'
<1>0. /\ pc \in [Coroutine -> Places] /\ Coroutine = {"loop", "stop"} /\ QuietPlaces /\ SinkTyped
      /\ writing \in [Coroutine -> {None} \cup WriteType]
  BY DEF PipelineTyped, EngineTyped, SinkTyped, FlowInv, Coroutine
<1>1. SUFFICES /\ UNCHANGED <<fleet, queue, log, vehicleRow, run, left>>
               /\ writing["loop"] = None
               /\ \/ writing' = writing
                  \/ buffer' = {} /\ writing'["loop"] # None
               /\ samples' \cup buffer' \cup InTransit("loop")' = samples \cup buffer \cup InTransit("loop")
               /\ \/ pc'["loop"] \notin ClosingOut /\ pc["loop"] \notin ClosingOut
                  \/ pc'["loop"] = pc["loop"]
                  \/ /\ pc["loop"] \in ClosingOut /\ pc'["loop"] \in ClosingOut
                     /\ left["loop"] = {}
  <2>1. \A v \in Vehicle : Settles(v)' = Settles(v)
    BY <1>1, MovedAlong
  <2> QED BY <1>1, <2>1, SettledCarries DEF Settled, ClosingOut
<1>2. InTransit("loop") = IF writing["loop"] # None /\ writing["loop"].kind = "batch"
                          THEN writing["loop"].rows ELSE {}
  BY DEF InTransit
<1>3. CASE EmitSamples
  <2>1. /\ samples' = {} /\ pc["loop"] = "samples" /\ pc' = [pc EXCEPT !["loop"] = "acks"]
        /\ UNCHANGED <<fleet, run, queue, left, log, vehicleRow>>
        /\ buffer \cup samples \subseteq SampleType /\ IsFiniteSet(buffer \cup samples)
        /\ \/ buffer' = buffer \cup samples /\ writing' = writing
           \/ buffer' = {} /\ writing' = [writing EXCEPT !["loop"] = Batch(buffer \cup samples)]
    BY <1>3, EmitSamplesEffect DEF database
  <2>2. writing["loop"] = None /\ InTransit("loop") = {}
    BY <1>0, <1>2, <2>1 DEF QuietPlaces
  <2>3. CASE buffer' = buffer \cup samples /\ writing' = writing
    <3>1. InTransit("loop")' = {}
      BY <2>2, <2>3 DEF InTransit
    <3> QED BY <1>0, <2>1, <2>2, <2>3, <3>1 DEF ClosingOut
  <2>4. CASE buffer' = {} /\ writing' = [writing EXCEPT !["loop"] = Batch(buffer \cup samples)]
    <3>1. writing'["loop"] = Batch(buffer \cup samples)
      BY <1>0, <2>4
    <3>2. InTransit("loop")' = buffer \cup samples /\ writing'["loop"] # None
      BY <2>1, <3>1, BatchIsWrite DEF InTransit
    <3> QED BY <1>0, <2>1, <2>2, <2>4, <3>2 DEF ClosingOut
  <2> QED BY <2>1, <2>3, <2>4
<1>4. ASSUME NEW p \in Coroutine, EmitTripEvent(p)
      PROVE  /\ UNCHANGED <<fleet, queue, log, vehicleRow, run, left, samples, pc>>
             /\ writing["loop"] = None /\ buffer' = {} /\ writing'["loop"] # None
             /\ InTransit("loop")' = buffer
  <2>1. /\ pc[p] \in {"events", "pause"} /\ writing[p] = None
        /\ UNCHANGED <<fleet, vehicleRow, run, left, samples, pc>>
    BY <1>4 DEF EmitTripEvent, database
  <2>2. p = "loop"
    BY <1>0, <2>1
  <2>3. PICK v \in Vehicle :
          /\ Head(queue[p][v]) \in EventsOf(v)
          /\ UNCHANGED <<log, queue>> /\ buffer' = {}
          /\ \/ buffer = {} /\ writing' = [writing EXCEPT ![p] = Event(Head(queue[p][v]))]
             \/ buffer # {} /\ writing' = [writing EXCEPT ![p] = Batch(buffer)]
    BY <1>4, EmitEventEffect
  <2>4. CASE buffer = {} /\ writing' = [writing EXCEPT ![p] = Event(Head(queue[p][v]))]
    <3>1. Head(queue[p][v]) \in GoodEvents /\ writing'[p] = Event(Head(queue[p][v]))
      BY <1>0, <2>3, <2>4 DEF EventsOf
    <3>2. writing'[p] # None /\ writing'[p].kind = "event"
      BY <3>1, EventIsWrite
    <3> QED BY <2>1, <2>2, <2>3, <2>4, <3>2 DEF InTransit
  <2>5. CASE buffer # {} /\ writing' = [writing EXCEPT ![p] = Batch(buffer)]
    <3>1. writing'[p] = Batch(buffer) /\ buffer \subseteq SampleType /\ IsFiniteSet(buffer)
      BY <1>0, <2>5 DEF SinkTyped
    <3>2. writing'[p] # None /\ writing'[p].kind = "batch" /\ writing'[p].rows = buffer
      BY <3>1, BatchIsWrite
    <3> QED BY <2>1, <2>2, <2>3, <3>2 DEF InTransit
  <2> QED BY <2>3, <2>4, <2>5
<1>5. ASSUME NEW p \in Coroutine, Flushes(p)
      PROVE  /\ UNCHANGED <<fleet, queue, log, vehicleRow, run, left, samples>>
             /\ writing["loop"] = None /\ buffer' = {}
             /\ writing' = writing \/ writing'["loop"] # None
             /\ InTransit("loop")' = buffer
             /\ pc["loop"] \in ClosingOut /\ pc'["loop"] \in ClosingOut /\ left["loop"] = {}
  <2>1. /\ writing[p] = None /\ buffer' = {}
        /\ \/ buffer = {} /\ writing' = writing
           \/ buffer # {} /\ writing'[p] = Batch(buffer)
        /\ \/ pc[p] = "pause" /\ pc'[p] = "flush"
           \/ p = "loop" /\ pc[p] = "close" /\ pc'[p] = "closing"
        /\ UNCHANGED <<fleet, queue, log, vehicleRow, left, samples>>
    BY <1>5, FlushesEffect, <1>0 DEF broker, database
  <2>2. p = "loop"
    BY <1>0, <2>1
  <2>3. run' = run /\ left["loop"] = {}
    BY <1>5, <2>2 DEF Flushes, FlushTrips, CloseSink, Settled, ClosingOut
  <2>4. CASE buffer = {} /\ writing' = writing
    <3>1. InTransit("loop")' = buffer
      BY <2>1, <2>2, <2>4 DEF InTransit
    <3> QED BY <2>1, <2>2, <2>3, <2>4, <3>1 DEF ClosingOut
  <2>5. CASE buffer # {} /\ writing'[p] = Batch(buffer)
    <3>1. buffer \subseteq SampleType /\ IsFiniteSet(buffer)
      BY <1>0 DEF SinkTyped
    <3>2. writing'[p] # None /\ writing'[p].kind = "batch" /\ writing'[p].rows = buffer
      BY <2>5, <3>1, BatchIsWrite
    <3> QED BY <2>1, <2>2, <2>3, <3>2 DEF InTransit, ClosingOut
  <2> QED BY <2>1, <2>4, <2>5
<1>6. writing["loop"] = None => InTransit("loop") = {}
  BY <1>2
<1>7. ASSUME NEW p \in Coroutine, EmitTripEvent(p) \/ Flushes(p)
      PROVE  samples' \cup buffer' \cup InTransit("loop")' = samples \cup buffer \cup InTransit("loop")
  <2>1. /\ samples' = samples /\ buffer' = {} /\ InTransit("loop")' = buffer
        /\ InTransit("loop") = {}
    BY <1>4, <1>5, <1>6, <1>7
  <2> QED BY <2>1
<1> QED BY <1>3, <1>4, <1>5, <1>7

\* A pause is the last thing said of a trip that was open, and a vehicle without one is idle.
LEMMA PauseSettles ==
  ASSUME PipelineTyped, FlowInv, Settled, pc["stop"] = "none",
         NEW p \in Coroutine, PauseOpenTrip(p)
  PROVE  Settled'
<1>0. /\ Coroutine = {"loop", "stop"} /\ EngineTyped
      /\ fleet \in [Vehicle -> FleetType] /\ left \in [Coroutine -> SUBSET Vehicle]
      /\ queue \in [Coroutine -> [Vehicle -> Seq(GoodEvents)]]
  BY DEF PipelineTyped, EngineTyped, Coroutine
<1>1. p = "loop"
  <2>1. pc[p] = "pause"
    BY DEF PauseOpenTrip
  <2> QED BY <1>0, <2>1
<1>2. /\ pc["loop"] = "pause" /\ queue["loop"] = NoEvents /\ writing["loop"] = None
      /\ UNCHANGED <<pc, run, samples, buffer, writing, log, vehicleRow>>
  BY <1>1 DEF PauseOpenTrip, sink, broker, database
<1>3. PICK v \in left["loop"] :
        /\ left' = [left EXCEPT !["loop"] = @ \ {v}]
        /\ IF HasOpenTrip(fleet[v])
           THEN /\ fleet' = [fleet EXCEPT ![v] = PauseTrip(@)]
                /\ queue' = [queue EXCEPT !["loop"][v] = <<TripEvent(v, fleet[v], "paused")>>]
           ELSE UNCHANGED <<fleet, queue>>
  BY <1>1 DEF PauseOpenTrip
<1>4. v \in Vehicle /\ left'["loop"] = left["loop"] \ {v}
  BY <1>0, <1>3
<1>5. \A u \in Vehicle \ {v} : fleet'[u] = fleet[u] /\ Settles(u)' = Settles(u)
  <2>1. ASSUME NEW u \in Vehicle \ {v}
        PROVE  fleet'[u] = fleet[u] /\ queue'["loop"][u] = queue["loop"][u]
    BY <1>0, <1>3, <1>4
  <2>2. UNCHANGED <<samples, buffer, vehicleRow>> /\ InTransit("loop")' = InTransit("loop")
    BY <1>2 DEF InTransit
  <2> QED BY <2>1, <2>2, MovedAlong
<1>6. Settles(v)' = fleet'[v].state
  <2>1. CASE HasOpenTrip(fleet[v])
    <3>1. queue'["loop"][v] = <<TripEvent(v, fleet[v], "paused")>>
      BY <1>0, <1>3, <1>4, <2>1
    <3>2. /\ queue'["loop"][v] # <<>> /\ Len(queue'["loop"][v]) = 1
          /\ queue'["loop"][v][1] = TripEvent(v, fleet[v], "paused")
      BY <3>1
    <3>3. TripEvent(v, fleet[v], "paused").type = "paused"
      BY DEF TripEvent
    <3>4. Settles(v)' = "stopped"
      BY <3>2, <3>3 DEF Settles, TripEventStates
    <3>5. fleet[v] = [state |-> fleet[v].state, trip |-> fleet[v].trip, distance |-> fleet[v].distance]
      BY <1>0, <1>4 DEF FleetType
    <3>6. fleet'[v] = PauseTrip(fleet[v])
      BY <1>0, <1>3, <1>4, <2>1
    <3>7. fleet'[v].state = "stopped"
      BY <3>5, <3>6 DEF PauseTrip
    <3> QED BY <3>4, <3>7
  <2>2. CASE ~HasOpenTrip(fleet[v])
    <3>1. fleet[v] \in FleetType
      BY <1>0, <1>4
    <3>2. fleet[v].state = "idle"
      BY <2>2, <3>1 DEF HasOpenTrip, FleetType
    <3>3. Settles(v) = "idle"
      BY <1>4, <3>2 DEF Settled, Shows
    <3>4. UNCHANGED <<fleet, queue, samples, buffer, vehicleRow>>
          /\ InTransit("loop")' = InTransit("loop")
      BY <1>2, <1>3, <2>2 DEF InTransit
    <3>5. Settles(v)' = Settles(v)
      BY <1>4, <3>4, MovedAlong
    <3> QED BY <3>2, <3>3, <3>4, <3>5
  <2> QED BY <2>1, <2>2
<1>7. ASSUME NEW u \in Vehicle
      PROVE  /\ Shows(Settles(u)', fleet'[u].state)
             /\ pc'["loop"] \in ClosingOut /\ u \notin left'["loop"] => Settles(u)' = fleet'[u].state
  <2>1. CASE u = v
    BY <1>6, <2>1 DEF Shows
  <2>2. CASE u # v
    <3>1. Shows(Settles(u), fleet[u].state)
      BY DEF Settled
    <3>2. u \notin left["loop"] => Settles(u) = fleet[u].state
      BY <1>2 DEF Settled, ClosingOut
    <3> QED BY <1>4, <1>5, <2>2, <3>1, <3>2
  <2> QED BY <2>1, <2>2
<1> QED BY <1>2, <1>7 DEF Settled, ClosingOut

\* Nothing but the loop emits only if nothing else did before.
LEMMA AloneBefore ==
  ASSUME PipelineTyped, FlowInv, [Next]_vars, LoopAlone'
  PROVE  LoopAlone
<1>1. ~lost
  BY LogSteps DEF LoopAlone
<1>2. transport' = transport
  BY DEF Next, vars, engine, sink, Tick, OpenTrips, OpenTripsFails, EmitSamples, SamplesOut, EndTick,
         LoopExits, Stop, StopFails, StopReturns, CloseSink, LoopEnds, EmitTripEvent, WriteCommits,
         BatchFails, EventFails, PauseOpenTrip, FlushTrips, FinishRun, Redeliver, StoreBatch,
         ConsumeTripEvent
<1>3. pc["stop"] = "none"
  <2>1. pc \in [Coroutine -> Places] /\ Coroutine = {"loop", "stop"}
    BY DEF PipelineTyped, EngineTyped, Coroutine
  <2>2. \/ pc' = pc
        \/ \E w : pc' = [pc EXCEPT !["loop"] = w]
        \/ \E w : w # "none" /\ pc' = [pc EXCEPT !["stop"] = w]
    <3>1. CASE Tick \/ OpenTrips \/ OpenTripsFails \/ EmitSamples \/ SamplesOut \/ EndTick \/ LoopExits
               \/ CloseSink \/ LoopEnds
      BY <3>1 DEF Tick, OpenTrips, OpenTripsFails, EmitSamples, SamplesOut, EndTick, LoopExits,
                  CloseSink, LoopEnds
    <3>2. CASE Stop \/ StopFails \/ StopReturns
      BY <3>2 DEF Stop, StopFails, StopReturns
    <3>3. ASSUME NEW p \in Coroutine, \/ EmitTripEvent(p) \/ WriteCommits(p)
                                   \/ BatchFails(p) \/ PauseOpenTrip(p)
          PROVE  pc' = pc
      BY <3>3 DEF EmitTripEvent, WriteCommits, BatchFails, PauseOpenTrip, engine
    <3>4. ASSUME NEW p \in Coroutine, EventFails(p) \/ FlushTrips(p) \/ FinishRun(p)
          PROVE  \E w : w # "none" /\ pc' = [pc EXCEPT ![p] = w]
      <4>1. CASE EventFails(p)
        BY <4>1 DEF EventFails
      <4>2. CASE FlushTrips(p)
        BY <4>2 DEF FlushTrips
      <4>3. CASE FinishRun(p)
        BY <4>3 DEF FinishRun
      <4> QED BY <3>4, <4>1, <4>2, <4>3
    <3>5. CASE \/ \E k \in Key : Redeliver(k)
               \/ \E v \in Vehicle : StoreBatch(v)
               \/ \E t \in Trip : ConsumeTripEvent(t)
               \/ UNCHANGED vars
      BY <3>5 DEF Redeliver, StoreBatch, ConsumeTripEvent, vars, engine
    <3> QED BY <2>1, <3>1, <3>2, <3>3, <3>4, <3>5 DEF Next
  <2> QED BY <2>1, <2>2 DEF LoopAlone
<1> QED BY <1>1, <1>2, <1>3 DEF LoopAlone

LEMMA CurrentStep ==
  ASSUME PipelineTyped, PipelineTyped', FlowInv, CurrentInv, [Next]_vars
  PROVE  CurrentInv'
<1>1. SUFFICES ASSUME LoopAlone' PROVE Settled'
  BY DEF CurrentInv
<1>2. LoopAlone /\ Settled
  BY <1>1, AloneBefore DEF CurrentInv
<1>3. /\ transport = "database" /\ pc["stop"] = "none" /\ pc'["stop"] = "none" /\ ~lost'
      /\ Coroutine = {"loop", "stop"} /\ pc \in [Coroutine -> Places]
      /\ QuietPlaces /\ EngineTyped /\ SinkTyped
  BY <1>1, <1>2 DEF LoopAlone, PipelineTyped, EngineTyped, FlowInv, Coroutine
<1>4. CASE Tick
  <2>1. \A v \in Vehicle : Shows(Settles(v)', fleet'[v].state)
    BY <1>2, <1>4, TickSettles DEF Settled
  <2>2. /\ pc["loop"] = "tick" /\ pc' = [pc EXCEPT !["loop"] = "open"]
        /\ UNCHANGED <<log, run, writing, buffer>>
    BY <1>4 DEF Tick, sink, broker
  <2>3. pc'["loop"] = "open"
    BY <1>3, <2>2
  <2> QED BY <1>2, <2>1, <2>2, <2>3 DEF Settled, ClosingOut
<1>5. CASE OpenTrips \/ Moves
  BY <1>2, <1>3, <1>5, QuietSettles
<1>6. CASE EmitSamples \/ \E p \in Coroutine : EmitTripEvent(p) \/ Flushes(p)
  BY <1>2, <1>3, <1>6, SendSettles
<1>7. CASE OpenTripsFails \/ \E p \in Coroutine : BatchFails(p) \/ EventFails(p)
  BY <1>3, <1>7 DEF OpenTripsFails, BatchFails, EventFails
<1>8. CASE StopFails
  BY <1>3, <1>8 DEF StopFails
<1>9. ASSUME NEW p \in Coroutine, WriteCommits(p) PROVE Settled'
  <2>1. p = "loop"
    BY <1>3, <1>9 DEF QuietPlaces, WriteCommits
  <2>2. \A v \in Vehicle : Settles(v)' = Settles(v)
    BY <1>2, <1>9, <2>1, CommitSettles
  <2>3. UNCHANGED <<fleet, log, pc, run, left, buffer>>
    BY <1>9, CommitEffect
  <2>4. writing'["loop"] = None
    BY <1>9, <2>1, CommitEffect
  <2> QED BY <1>2, <2>2, <2>3, <2>4, SettledCarries DEF Settled
<1>10. ASSUME NEW p \in Coroutine, PauseOpenTrip(p) PROVE Settled'
  BY <1>2, <1>3, <1>10, PauseSettles
<1>11. \A k \in Key : Len(log[k]) = 0
  BY <1>2 DEF Settled
<1>12. ASSUME NEW v \in Vehicle, StoreBatch(v) PROVE FALSE
  <2>1. PICK n \in Nat : read[v] < n /\ n <= Len(log[v])
    BY <1>12, StoreEffect
  <2>2. v \in Key /\ read[v] \in Nat
    BY TripKeysApart DEF PipelineTyped, BrokerTyped
  <2> QED BY <1>11, <2>1, <2>2
<1>13. ASSUME NEW t \in Trip, ConsumeTripEvent(t) PROVE FALSE
  <2>1. read[t] + 1 \in 1 .. Len(log[t])
    BY <1>13, ConsumeEffect
  <2>2. t \in Key /\ read[t] \in Nat
    BY TripKeysApart DEF PipelineTyped, BrokerTyped
  <2> QED BY <1>11, <2>1, <2>2
<1>14. CASE (\E k \in Key : Redeliver(k)) \/ UNCHANGED vars
  <2>1. UNCHANGED <<fleet, log, pc, run, left, buffer, samples, queue, writing, vehicleRow>>
    BY <1>14, RedeliverEffect DEF vars, engine, sink, broker, database
  <2>2. \A v \in Vehicle : Settles(v)' = Settles(v)
    BY <2>1 DEF Settles, Pending, InTransit
  <2> QED BY <1>2, <2>1, <2>2, SettledCarries DEF Settled
<1> QED BY <1>4, <1>5, <1>6, <1>7, <1>8, <1>9, <1>10, <1>12, <1>13, <1>14, StepCases

LEMMA InitCurrent == Init => CurrentInv
<1> SUFFICES ASSUME Init PROVE Settled
  BY DEF CurrentInv
<1>1. /\ pc["loop"] = "tick" /\ run = "running" /\ writing["loop"] = None
      /\ samples = {} /\ buffer = {}
      /\ \A k \in Key : log[k] = <<>>
      /\ \A v \in Vehicle : /\ queue["loop"][v] = <<>>
                            /\ vehicleRow[v] = "idle" /\ fleet[v].state = "idle"
  BY DEF Init, Coroutine, NoEvents
<1>2. \A v \in Vehicle : Settles(v) = "idle"
  BY <1>1 DEF Settles, Pending, SamplesOf, InTransit
<1> QED BY <1>1, <1>2 DEF Settled, Shows, ClosingOut

\* Where nothing is on its way, the row shows already what it is to show.
LEMMA NothingPending ==
  ASSUME samples = {}, buffer = {}, writing["loop"] = None, queue["loop"] = NoEvents,
         NEW v \in Vehicle
  PROVE  Settles(v) = vehicleRow[v]
BY DEF Settles, Pending, SamplesOf, InTransit, NoEvents

\* THEOREM.  On the direct sink, with no stop handler and nothing given up, the vehicles
\* table never lags behind for good: between two ticks with an empty buffer it shows a
\* vehicle as parked or plugged in exactly if it is, and after a run that ended by its
\* duration it shows the state each vehicle was left in (sinks.py: emit_trip_event writes
\* the buffer before the event; engine.py: _pause_open_trips).
THEOREM DirectSinkAlwaysCurrent == Spec => []DirectSinkIsCurrent
<1>1. PipelineTyped /\ FlowInv /\ CurrentInv => DirectSinkIsCurrent
  <2> SUFFICES ASSUME PipelineTyped, FlowInv, Settled, transport = "database", pc["stop"] = "none"
               PROVE  /\ Drained => \A v \in Vehicle : vehicleRow[v] = fleet[v].state
                      /\ pc["loop"] = "tick" /\ buffer = {} =>
                           \A v \in Vehicle : Shows(vehicleRow[v], fleet[v].state)
    BY DEF DirectSinkIsCurrent, CurrentInv, LoopAlone, Shows
  <2>1. ASSUME pc["loop"] \in {"tick", "ended"}, buffer = {}, NEW v \in Vehicle
        PROVE  Settles(v) = vehicleRow[v]
    <3>1. samples = {} /\ writing["loop"] = None /\ queue["loop"] = NoEvents
      BY <2>1 DEF FlowInv, QuietPlaces, TickIsOver
    <3> QED BY <2>1, <3>1, NothingPending
  <2>2. pc["loop"] = "ended" => buffer = {} /\ left["loop"] = {}
    BY DEF FlowInv, TickIsOver, Settled, ClosingOut
  <2>3. Drained => pc["loop"] = "ended"
    BY DEF Drained
  <2> QED BY <2>1, <2>2, <2>3 DEF Settled, ClosingOut
<1>2. Spec => []CurrentInv
  <2>1. Spec => [](PipelineTyped /\ FlowInv)
    BY PipelineAlwaysFlows
  <2>2. /\ PipelineTyped /\ FlowInv /\ (PipelineTyped /\ FlowInv)' /\ CurrentInv /\ [Next]_vars
        => CurrentInv'
    BY CurrentStep
  <2> QED BY <2>1, <2>2, InitCurrent, PTL DEF Spec
<1> QED BY <1>1, <1>2, PipelineAlwaysFlows, PTL

=============================================================================
