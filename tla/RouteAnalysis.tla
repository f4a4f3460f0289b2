------------------------------ MODULE RouteAnalysis ------------------------------
(***************************************************************************)
(* POST /routes/analyze (route_analysis.py): a corridor is read from the   *)
(* database or planned, its segments adopt the weather observed and the    *)
(* traffic reported along it, and the energy model, corrected by the       *)
(* active ML model if there is one, turns them into a charge curve.        *)
(*                                                                         *)
(* The corridor is a straight line of cells.  A request is a record:       *)
(*   rows      stored segments (<<>>: none; Unknown: plan the route),      *)
(*   pieces    cells of each segment a planned route is cut into,          *)
(*   steps     of the routing engine: [cells, class, limit, speed],        *)
(*   average   the speed of the whole planned route,                       *)
(*   mode      of the stored or the routing data,                          *)
(*   events    [id, from, to, off, severity, starts, ends, mode],          *)
(*   readings  [id, station, at, off, time, temp, mode],                   *)
(*   buffer, radius, age    what counts as near and as fresh,              *)
(*   rate      Wh per cell the ML model predicts (Unknown: no model),      *)
(*   start, reserve         energy at the start, and wanted at the end.    *)
(* off is the distance from the line, and a distance along it adds to it.  *)
(***************************************************************************)
EXTENDS EnergyModel

CONSTANTS
  BoxPadding,   \* what the corridor's bounding box is padded with, in cells
  Usable        \* usable battery capacity, in Wh

ASSUME RouteAssumption == BoxPadding \in Nat /\ Usable \in Nat

Now == 10          \* when the analysis is for
SlowestSpeed == 1  \* _MIN_ANALYSIS_SPEED_KMH, in steps of 10 km/h

-----------------------------------------------------------------------------
(* What is asked *)

StoredRows ==
  Seq([cells : Nat, class : STRING, limit : Int \cup {Unknown}, assumed : Int \cup {Unknown}])

RoutingSteps == Seq([cells : Nat, class : STRING, limit : Int \cup {Unknown}, speed : Int])

TrafficReports ==
  [id : Nat, from : Int, to : Int, off : Nat, severity : 0 .. 3,
   starts : Int \cup {Unknown}, ends : Int \cup {Unknown}, mode : STRING]

WeatherReadings ==
  [id : Nat, station : Nat \cup {Unknown}, at : Int, off : Nat, time : Int,
   temp : ((-60) .. 60) \cup {Unknown}, mode : STRING]

\* The shares of the charge are 0 .. 100 % of the usable capacity.
RouteRequests ==
  [rows : {Unknown} \cup StoredRows, pieces : Seq(Nat), steps : RoutingSteps, average : Int,
   mode : STRING, events : SUBSET TrafficReports, readings : SUBSET WeatherReadings,
   buffer : Nat, radius : Nat, age : Nat, rate : Int \cup {Unknown},
   start : 0 .. Usable, reserve : 0 .. Usable]

-----------------------------------------------------------------------------
(* The segments *)

\* Where the i-th of consecutive stretches starts.
StartOf(lengths, i) == Added(SubSeq(lengths, 1, i - 1))

Shared(from1, to1, from2, to2) == Max({0, Min({to1, to2}) - Max({from1, from2})})

DefaultSpeed(class) == IF class = "motorway" THEN 13 ELSE 5

\* The engine's own speed, or the class's, capped by the posted limit.
SegmentSpeed(assumed, class, limit) ==
  IF assumed # Unknown /\ assumed > 0 THEN Max({SlowestSpeed, assumed})
  ELSE Max({SlowestSpeed, IF limit = Unknown THEN DefaultSpeed(class)
                          ELSE Min({DefaultSpeed(class), limit})})

\* A segment takes the class most of it lies in, the first of equals, the limit of that
\* class's first step, and the mean speed of the steps that have one.
Projected(steps, average, from, to) ==
  LET lengths == [i \in DOMAIN steps |-> steps[i].cells]
      on(i) == Shared(from, to, StartOf(lengths, i), StartOf(lengths, i + 1))
      met == {i \in DOMAIN steps : on(i) > 0}
      share == [i \in DOMAIN steps |->
                  Added([j \in DOMAIN steps |-> IF steps[j].class = steps[i].class THEN on(j) ELSE 0])]
      dominant == steps[CHOOSE i \in met : \A j \in met :
                          share[j] <= share[i] /\ (j < i => share[j] < share[i])]
      timed == [i \in DOMAIN steps |-> IF steps[i].speed > 0 THEN on(i) ELSE 0]
      covered == Added(timed)
  IN  IF met = {} THEN [class |-> "unknown", limit |-> Unknown, speed |-> average]
      ELSE [class |-> dominant.class, limit |-> dominant.limit,
            speed |-> IF covered = 0 THEN average
                      ELSE Added([i \in DOMAIN steps |-> timed[i] * steps[i].speed]) \div covered]

Segment(from, cells, class, limit, assumed) ==
  [from |-> from, cells |-> cells, class |-> class,
   limit |-> limit, free |-> SegmentSpeed(assumed, class, limit)]

StoredSegments(rows) ==
  LET lengths == [i \in DOMAIN rows |-> rows[i].cells]
  IN  [i \in DOMAIN rows |->
         Segment(StartOf(lengths, i), rows[i].cells, rows[i].class, rows[i].limit, rows[i].assumed)]

PlannedSegments(request) ==
  [i \in DOMAIN request.pieces |->
     LET from == StartOf(request.pieces, i)
         p == Projected(request.steps, request.average, from, from + request.pieces[i])
     IN  Segment(from, request.pieces[i], p.class, p.limit, p.speed)]

\* Empty for a corridor that does not exist or has no segments.
Resolved(request) ==
  IF request.rows = Unknown THEN PlannedSegments(request) ELSE StoredSegments(request.rows)

EndOfSegment(segment) == segment.from + segment.cells

RouteCells(segments) == EndOfSegment(Last(segments))

-----------------------------------------------------------------------------
(* The weather *)

InBoxUnpadded(segments, from, to, off) ==   \* mutant: the extent of the line itself
  off <= 0 /\ to >= 0 /\ from <= RouteCells(segments)

InBox(segments, from, to, off) ==
  /\ off <= BoxPadding
  /\ to >= -BoxPadding
  /\ from <= RouteCells(segments) + BoxPadding

\* The freshest row of every station in the box; a row without a station stands for itself.
Recent(segments, readings) ==
  LET seen == {r \in readings : r.time <= Now /\ InBox(segments, r.at, r.at, r.off)}
      key(r) == IF r.station = Unknown THEN r.id ELSE r.station
  IN  {r \in seen : \A o \in seen : key(o) = key(r) => o.time <= r.time}

\* In half cells, from the middle of the segment.
DistanceTo(segment, reading) ==
  Magnitude(2 * reading.at - 2 * segment.from - segment.cells) + 2 * reading.off

\* The nearest of these, as a set of at most one.
Adopted(segment, recent) ==
  {r \in recent : \A o \in recent \ {r} :
     \/ DistanceTo(segment, r) < DistanceTo(segment, o)
     \/ DistanceTo(segment, r) = DistanceTo(segment, o) /\ r.id < o.id}

UsableReading(request, segment, reading) ==
  /\ DistanceTo(segment, reading) <= 2 * request.radius
  /\ Now - reading.time <= request.age

WeatherOf(request, segments, i) ==
  {r \in Adopted(segments[i], Recent(segments, request.readings)) :
     UsableReading(request, segments[i], r)}

\* Over the segments, not over the stations.
MeanTemperature(request, segments) ==
  LET measured == {i \in DOMAIN segments :
                     \E r \in WeatherOf(request, segments, i) : r.temp # Unknown}
      at(i) == (CHOOSE r \in WeatherOf(request, segments, i) : TRUE).temp
      over(values) == Added([i \in DOMAIN segments |-> IF i \in measured THEN values[i] ELSE 0])
  IN  IF measured = {} THEN Reference
      ELSE over([i \in measured |-> at(i)]) \div over([i \in measured |-> 1])

-----------------------------------------------------------------------------
(* The traffic *)

Active(event) ==
  /\ event.starts = Unknown \/ event.starts <= Now
  /\ event.ends = Unknown \/ event.ends >= Now

\* From the event's own line, so that a long one reaches several segments.
ReachesSegment(request, segment, event) ==
  event.off + Max({0, segment.from - event.to, event.from - EndOfSegment(segment)}) <= request.buffer

EventsOn(request, segments, i) ==
  {e \in request.events :
     /\ Active(e)
     /\ InBox(segments, e.from, e.to, e.off)
     /\ ReachesSegment(request, segments[i], e)}

Worst(events) == Max({0} \cup {e.severity : e \in events})

\* Rows with a key each, and their order by it.
Keyed(rows) == IsFiniteSet(rows) /\ \A a, b \in rows : a.id = b.id => a = b

ById(rows) == Sorted(rows, {p \in rows \X rows : p[1].id < p[2].id})

\* Every event once, by its first segment, then by id.
EventsInOrder(request, segments) ==
  LET on(i) == EventsOn(request, segments, i)
      new(i) == on(i) \ UNION {on(j) : j \in 1 .. (i - 1)}
  IN  FlattenSeq([i \in DOMAIN segments |-> ById(new(i))])

-----------------------------------------------------------------------------
(* The energy *)

\* The slowed speed has a floor.
Slowed(free, severity) == Max({SlowestSpeed, (free * 100) \div DelayFactor(severity)})

SegmentCondition(request, segments, i) ==
  LET severity == Worst(EventsOn(request, segments, i))
      temperatures == {r.temp : r \in WeatherOf(request, segments, i)} \ {Unknown}
  IN  [cells |-> segments[i].cells, speed |-> Slowed(segments[i].free, severity),
       severity |-> severity, grade |-> 0, accel |-> 0, headwind |-> 0,
       battery |-> Unknown, duration |-> Unknown,
       temp |-> IF temperatures = {} THEN MeanTemperature(request, segments)
                ELSE CHOOSE t \in temperatures : TRUE]

PredictedUnbounded(request, cells) == request.rate * cells   \* mutant: a negative rate charges

Predicted(request, cells) == Max({0, request.rate}) * cells

\* What the model predicts, on every segment the physical model finds some energy on.
Served(request, condition) ==
  LET physical == SegmentEnergy(condition).kwh
  IN  IF request.rate = Unknown \/ physical <= 0 THEN physical
      ELSE Predicted(request, condition.cells)

\* Run again with the traffic, the weather, or both taken away.
WithoutTraffic(c) == [c EXCEPT !.speed = FreeFlowSpeed(c), !.severity = 0, !.duration = Unknown]

WithoutWeather(c) == [c EXCEPT !.temp = Reference, !.battery = Reference, !.headwind = 0]

\* In percent of the counterfactual.
Penalty(actual, counterfactual) ==
  IF counterfactual <= 0 THEN 0 ELSE ((actual - counterfactual) * 100) \div counterfactual

\* Against the nominal consumption, in percent.
Intensity(kwh, nominal) ==
  CASE 100 * kwh < 95 * nominal  -> "low"
    [] 100 * kwh < 110 * nominal -> "medium"
    [] 100 * kwh < 130 * nominal -> "high"
    [] OTHER                     -> "critical"

-----------------------------------------------------------------------------
(* The response *)

\* What is read from the database is never live.
StoredMode(mode) == IF mode = "fixture" THEN "fixture" ELSE "cache"

WeakestMode(modes) == IF modes = {} \/ "fixture" \in modes THEN "fixture"
                      ELSE IF "cache" \in modes THEN "cache" ELSE "live"

Clamped(charge) == Max({0, Min({Usable, charge})})

Respond(request, segments, conditions, energies) ==
  LET total(n) == Added(SubSeq(energies, 1, n))
      physical == TripEnergy(conditions).kwh
      without(Change(_)) == TripEnergy([i \in DOMAIN conditions |-> Change(conditions[i])]).kwh
      arrival == request.start - total(Len(segments))
      adopted == UNION {Adopted(segments[i], Recent(segments, request.readings)) : i \in DOMAIN segments}
      events == EventsInOrder(request, segments)
  IN  [rows |-> [i \in DOMAIN segments |->
                   [from |-> segments[i].from, class |-> segments[i].class,
                    severity |-> conditions[i].severity, temp |-> conditions[i].temp,
                    events |-> Cardinality(EventsOn(request, segments, i)),
                    charge |-> Clamped(request.start - total(i)),
                    intensity |-> Intensity(energies[i], 850 * segments[i].cells)]],
       arrival |-> Clamped(arrival),
       deficit |-> Max({0, request.reserve - arrival}),
       weather |-> Penalty(physical, without(WithoutWeather)),
       traffic |-> Penalty(physical, without(WithoutTraffic)),
       penalty |-> Penalty(physical, without(LAMBDA c : WithoutWeather(WithoutTraffic(c)))),
       events |-> events,
       points |-> UNION {WeatherOf(request, segments, i) : i \in DOMAIN segments},
       modes |-> [routing |-> IF request.rows = Unknown THEN request.mode
                              ELSE StoredMode(request.mode),
                  weather |-> WeakestMode({StoredMode(r.mode) : r \in adopted}),
                  traffic |-> WeakestMode({StoredMode(e.mode) : e \in ToSet(events)})]]

ConditionsOf(request, segments) ==
  [i \in DOMAIN segments |-> SegmentCondition(request, segments, i)]

Analyse(request, segments, conditions) ==
  IF segments = <<>> THEN Refused
  ELSE Respond(request, segments, conditions, [i \in DOMAIN segments |-> Served(request, conditions[i])])
=============================================================================
