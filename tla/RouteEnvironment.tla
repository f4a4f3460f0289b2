----------------------------- MODULE RouteEnvironment -----------------------------
(***************************************************************************)
(* The world a simulated vehicle drives through: corridors and their       *)
(* return directions, the road profile in bins, observed or synthetic      *)
(* traffic and weather, and the charging sites along the way.              *)
(*                                                                         *)
(* Offsets are cells of a quarter kilometre, a bin is two of them.  What   *)
(* a seeded generator draws (hills, the propensity of a bin to congest,    *)
(* the synthetic climate) is a field of the route or of the database       *)
(* snapshot; a return direction shares its corridor's, as it shares the    *)
(* slug they are seeded with.                                              *)
(***************************************************************************)
EXTENDS Integers, Sequences, FiniteSets, FiniteSetsExt, SequencesExt

CONSTANTS
  Unknown,   \* a missing value
  Bin        \* BIN_LENGTH_M

Severity == 0 .. 3   \* low, moderate, high, severe

ASSUME EnvironmentAssumption ==
  /\ Bin \in Nat \ {0} /\ Bin % 2 = 0
  /\ Unknown \notin Severity

-----------------------------------------------------------------------------
(* Corridors *)

RoadClass == {"motorway", "trunk", "primary", "secondary", "unknown"}

Segment ==
  [ordinal : Nat, from : Int, cells : Nat, class : RoadClass, limit : {Unknown} \cup Nat]

Route ==
  [length : Nat, distance : Nat, duration : Nat, segments : Seq(Segment),
   hills : Seq(Int), propensity : Seq(Nat), reverse : BOOLEAN, stored : BOOLEAN]

SegmentEnd(s) == s.from + s.cells

\* The segments an analysis writes cover the corridor from its start, end to end.
EndToEnd(segments) ==
  /\ segments # <<>>
  /\ segments[1].from = 0
  /\ \A i \in 2 .. Len(segments) : segments[i].from = SegmentEnd(segments[i - 1])

\* A route as it is loaded, the way out.
Corridor == {r \in Route : EndToEnd(r.segments) /\ r.hills # <<>> /\ ~r.reverse}

ByOrdinal(s, t) == s.ordinal < t.ordinal

\* A stretch of 250 m in 9 s is driven at 100 km/h.
AverageSpeed(row) == IF row.duration > 0 THEN (100 * row.distance) \div row.duration ELSE 0

FallbackClass(speed) ==
  CASE speed >= 95 -> [class |-> "motorway", limit |-> Unknown]
    [] speed >= 75 -> [class |-> "trunk", limit |-> 120]
    [] speed >= 55 -> [class |-> "primary", limit |-> 100]
    [] OTHER       -> [class |-> "secondary", limit |-> 80]

\* A corridor without stored segments is one stretch of the class its speed suggests.
FallbackSegments(row) ==
  LET road == FallbackClass(AverageSpeed(row))
  IN  <<[ordinal |-> 0, from |-> 0, cells |-> row.distance, class |-> road.class, limit |-> road.limit]>>

\* The route of a row of routes; length is that of the line, distance the stored one.
RouteFromRow(row) ==
  [row EXCEPT !.segments =
     IF @ = {} THEN FallbackSegments(row) ELSE SetToSortSeq(@, ByOrdinal)]

\* Mutant: the segments change places and keep their offsets.
TurnedInPlace(route) ==
  [route EXCEPT !.segments = Reverse(@), !.reverse = ~@]

ReversedRoute(route) ==
  LET segments == route.segments
      total == IF segments = <<>> THEN route.distance ELSE SegmentEnd(Last(segments))
  IN  [route EXCEPT
         !.segments = [i \in DOMAIN segments |->
           LET s == Reverse(segments)[i] IN [s EXCEPT !.from = total - SegmentEnd(s)]],
         !.reverse = ~@]

-----------------------------------------------------------------------------
(* What the database knows about a corridor.  Stations, events and sites   *)
(* have a place along the line and a distance off it.                      *)

TrafficEvent == [at : Nat, off : Nat, severity : Severity, blocked : BOOLEAN, active : BOOLEAN]

Station == [id : Nat, at : Nat, off : Nat, kw : Nat]

\* The place of the line that is nearest lies on the line (ST_LineLocatePoint).
Along(route, things) == {[t EXCEPT !.at = Min({@, route.length})] : t \in things}

RouteWeather(route, config, readings) ==
  LET usable == {w \in readings : w.age <= config.age /\ w.temp # Unknown /\ w.off <= config.radius}
      rain == {w \in usable : w.rain # Unknown}
      mean(S, value(_)) == IF S = {} THEN 0 ELSE MapThenSumSet(value, S) \div Cardinality(S)
  IN  IF ~route.stored \/ usable = {} THEN Unknown
      ELSE [temp |-> mean(usable, LAMBDA w : w.temp), rain |-> mean(rain, LAMBDA w : w.rain)]

\* Positions are those along the stored line, whichever way the route is driven.
RouteTraffic(route, config, events) ==
  Along(route, {e \in events : route.stored /\ e.active /\ e.off <= config.buffer})

MinSitePower == 50

SiteBuffer == 20   \* CHARGING_CORRIDOR_BUFFER_KM

SiteLimit == 200

NearerFirst(s, t) == s.at < t.at \/ (s.at = t.at /\ s.id < t.id)

ChargingSites(route, sites) ==
  LET near == Along(route, {s \in sites : route.stored /\ s.kw >= MinSitePower /\ s.off <= SiteBuffer})
  IN  {s \in near : Cardinality({t \in near : NearerFirst(t, s)}) < SiteLimit}

-----------------------------------------------------------------------------
(* Bins *)

BinCount(route) == Max({1, (route.length + Bin - 1) \div Bin})

BinOf(route, offset) == Max({0, Min({BinCount(route) - 1, offset \div Bin})})

Midpoint(b) == b * Bin + Bin \div 2

\* The segment of a bin: the walk passes those that end before the bin's midpoint, never
\* goes back, and stays on the last one.
SegmentOfBin(route, b) ==
  LET segments == route.segments
      n == Len(segments)
  IN  Min({i \in 1 .. n : i = n \/ SegmentEnd(segments[i]) > Midpoint(b)})

NoRoad == [class |-> "unknown", limit |-> Unknown]

RoadOfBin(route, b) ==
  IF route.segments = <<>> THEN NoRoad
  ELSE LET s == route.segments[SegmentOfBin(route, b)]
       IN  [class |-> s.class, limit |-> s.limit]

EventSeverity(e) == IF e.blocked THEN 3 ELSE e.severity

\* Severities of the events that reach bin b.
Reported(env, b) ==
  LET reach == Max({1, env.config.reach \div Bin})
  IN  {EventSeverity(e) : e \in {v \in env.events : b \in (v.at \div Bin - reach) .. (v.at \div Bin + reach)}}

\* Mutant: of several events the mildest is painted.
MildestOfBin(env, b) ==
  IF env.config.traffic # "observed" \/ Reported(env, b) = {} THEN Unknown ELSE Min(Reported(env, b))

PaintedOnBin(env, b) ==
  IF env.config.traffic # "observed" \/ Reported(env, b) = {} THEN Unknown ELSE Max(Reported(env, b))

-----------------------------------------------------------------------------
(* The environment of one direction *)

Environment(route, config, database) ==
  [route    |-> route,
   config   |-> config,
   climate  |-> database.climate,
   events   |-> RouteTraffic(route, config, database.events),
   observed |-> RouteWeather(route, config, database.readings),
   sites    |-> ChargingSites(route, database.sites)]

\* Every route, each followed by its return direction if the run drives both.
Environments(routes, config, database) ==
  LET directed(i) == IF ~config.both THEN routes[i]
                     ELSE IF i % 2 = 1 THEN routes[(i + 1) \div 2] ELSE ReversedRoute(routes[i \div 2])
      directions == IF config.both THEN 2 ELSE 1
  IN  [i \in 1 .. directions * Len(routes) |-> Environment(directed(i), config, database)]

\* What the generator draws for a place repeats along the route.
Drawn(values, place) == values[(place % Len(values)) + 1]

Gradient(env, offset) ==
  IF env.route.reverse THEN - Drawn(env.route.hills, env.route.length - offset)
  ELSE Drawn(env.route.hills, offset)

\* Baseline weight, in per cent, and peak severity of an intensity.
Intensities ==
  [observed |-> <<20, 2>>, none |-> <<0, 0>>, light |-> <<10, 1>>, moderate |-> <<25, 2>>, heavy |-> <<45, 3>>]

\* Rush hours: start and end in minutes of the local day, and the weight of the peak.
RushHours == {<<390, 540, 100>>, <<930, 1110, 100>>, <<660, 810, 45>>}

\* The raised cosine of a rush hour, by quarters of it.
Bump == <<0, 50, 100, 50, 0>>

RushWeight(when) ==
  IF when.weekend THEN 35
  ELSE Max({0} \cup {(h[3] * Bump[1 + (4 * (when.minute - h[1])) \div (h[2] - h[1])]) \div 100 :
                       h \in {r \in RushHours : r[1] <= when.minute /\ when.minute <= r[2]}})

FromPressure(pressure, peak) ==
  Min({peak, Cardinality({t \in {25, 45, 65} : pressure >= t})})

TrafficAt(env, offset, when) ==
  LET b == BinOf(env.route, offset)
      baseline == Intensities[env.config.traffic][1]
      load == baseline + ((100 - baseline) * RushWeight(when)) \div 100
  IN  IF PaintedOnBin(env, b) # Unknown THEN PaintedOnBin(env, b)
      ELSE IF env.config.traffic = "none" THEN 0
      ELSE FromPressure((Drawn(env.route.propensity, b) * load) \div 100, Intensities[env.config.traffic][2])

FixedTemperature == [cold |-> -10, mild |-> 20, hot |-> 35]

WeatherAt(env) ==
  LET mode == env.config.weather
  IN  IF mode \in DOMAIN FixedTemperature THEN [temp |-> FixedTemperature[mode], rain |-> 0]
      ELSE IF mode = "observed" /\ env.observed # Unknown THEN env.observed
      ELSE env.climate

WeatherCondition(weather) ==
  IF weather.rain > 0 THEN (IF weather.temp <= 1 THEN "snow" ELSE "rain") ELSE "clear"

ConditionsAt(env, offset, when) ==
  LET road == RoadOfBin(env.route, BinOf(env.route, offset))
      weather == WeatherAt(env)
  IN  [class |-> road.class, limit |-> road.limit, grade |-> Gradient(env, offset),
       temp |-> weather.temp, condition |-> WeatherCondition(weather),
       severity |-> TrafficAt(env, offset, when)]

\* Of two sites, the one a search prefers.
Preferred(s, t) == s.kw > t.kw \/ (s.kw = t.kw /\ NearerFirst(s, t))

\* The strongest site between two offsets, the first of equals.
NextSite(env, from, upto) ==
  LET within == {s \in env.sites : from <= s.at /\ s.at <= upto}
  IN  IF within = {} THEN Unknown ELSE CHOOSE s \in within : \A t \in within : ~Preferred(t, s)
=============================================================================
