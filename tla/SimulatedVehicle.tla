----------------------------- MODULE SimulatedVehicle -----------------------------
(***************************************************************************)
(* One vehicle of the fleet on the road: trips over the corridors of its   *)
(* run, the driver's speed, the charging stops it books on the way, the    *)
(* rescue charge when it misjudges them, and the intervals its telemetry   *)
(* samples are aggregated from.                                            *)
(*                                                                         *)
(* Distances are cells, charge is counted in units of which a flat cell    *)
(* takes one, speed is in cells per half step: a step from speed v to w    *)
(* covers v + w cells, and braking from v to a stop covers v * v.  The     *)
(* noise of the driver model is a choice among neighbouring speeds, the    *)
(* moving average of the consumption a choice between the old value and    *)
(* the new sample.                                                         *)
(***************************************************************************)
EXTENDS RouteEnvironment

CONSTANTS
  Worlds,        \* what a run is given: routes, configuration, database, driver, first
                 \* charge, time of day and, as a bound, the number of trips
  Pack,          \* usable capacity
  Critical,      \* CRITICAL_SOC_PERCENT of it
  Retry,         \* CHARGE_SEARCH_RETRY_KM
  Separation,    \* _CANDIDATE_SEPARATION_KM
  StepsPerTick,  \* physics steps between two samples
  MaxHalt,       \* bound: steps of a standstill
  MaxDwell       \* bound: steps of the pause between two trips

ASSUME VehicleAssumption ==
  /\ Pack \in Nat /\ Critical \in 0 .. Pack
  /\ Retry \in Nat /\ Separation \in Nat
  /\ StepsPerTick \in Nat \ {0}
  /\ MaxHalt \in Nat \ {0} /\ MaxDwell \in Nat \ {0}

Nominal == 1   \* nominal_consumption_kwh_100km, per cell

\* What a cell of a slope takes at most, uphill in one of the two directions.
Climb(slope) == Nominal + Max({slope, -slope})

\* Cells of the fastest step: two half steps at the highest target speed.
FastestStep == 4

\* Loaded corridors on which the rescue charge starts in time: what is left above
\* Critical lasts for the steepest step, and for the pause after an arrival and the
\* first step of the next trip.
ASSUME WorldsAssumption == \A w \in Worlds :
  /\ w.routes \in Seq(Corridor) /\ w.routes # <<>>
  /\ w.config.traffic \in DOMAIN Intensities /\ w.config.both \in BOOLEAN /\ w.config.reach \in Nat
  /\ w.database.events \subseteq TrafficEvent
  /\ w.database.sites \subseteq Station /\ IsFiniteSet(w.database.sites)
  /\ w.soc \in Nat /\ w.driver.departure \in Nat /\ w.driver.departure > Critical
  /\ \A i \in DOMAIN w.routes : \A slope \in ToSet(w.routes[i].hills) :
       /\ FastestStep * Climb(slope) <= Critical
       /\ Climb(slope) + MaxDwell + StepsPerTick <= Critical
       /\ Climb(slope) < w.soc

VARIABLES
  world,     \* environments of both directions, driver, time of day, trips; fixed
  car,       \* SimulatedVehicle
  interval,  \* _IntervalAccumulator: steps, distance and energy since the last sample
  sampled,   \* history: distance and energy of the trip's samples
  passed     \* history: sites driven past since the last departure

vehicleVars == <<world, car, interval, sampled, passed>>

NoInterval == [steps |-> 0, distance |-> 0, energy |-> 0]

MaxBelief == 5 * Nominal   \* MAX_ROLLING_CONSUMPTION_FACTOR

NewCar(soc) ==
  [state |-> "idle", env |-> 1, at |-> 0, speed |-> 0, soc |-> soc, odometer |-> 0, used |-> 0,
   belief |-> Nominal, booked |-> Unknown, power |-> 0, target |-> 0, searched |-> Unknown,
   dwell |-> 0, halted |-> 0, trip |-> 0]

VehicleInit ==
  /\ \E w \in Worlds :
       /\ world = [environments |-> Environments(w.routes, w.config, w.database),
                   driver |-> w.driver, when |-> w.when, trips |-> w.trips]
       /\ car = NewCar(w.soc)
  /\ interval = NoInterval
  /\ sampled  = [distance |-> 0, energy |-> 0]
  /\ passed   = {}

Driver == world.driver

Env == world.environments[car.env]

Conditions == ConditionsAt(Env, car.at, world.when)

-----------------------------------------------------------------------------
(* Trips *)

\* Mutant: a trip goes on counting where the last one ended.
BeginTripOn(e) ==
  [car EXCEPT !.trip = @ + 1, !.env = e, !.at = 0, !.speed = 0, !.state = "driving",
     !.booked = Unknown, !.power = 0, !.target = 0, !.searched = Unknown]

BeginTrip(e) ==
  [car EXCEPT !.trip = @ + 1, !.env = e, !.at = 0, !.speed = 0, !.odometer = 0, !.used = 0,
     !.state = "driving", !.booked = Unknown, !.power = 0, !.target = 0, !.searched = Unknown]

\* The engine gives an idle vehicle a corridor at the start of a tick.
Depart ==
  /\ interval.steps = 0
  /\ car.state = "idle" /\ car.dwell = 0
  /\ car.trip < world.trips
  /\ \E e \in DOMAIN world.environments : car' = BeginTrip(e)
  /\ sampled' = [distance |-> 0, energy |-> 0]
  /\ passed' = {}
  /\ UNCHANGED <<world, interval>>

\* A step of the current tick; a vehicle that is free departs first.
Stepping(c, distance, energy) ==
  /\ interval.steps < StepsPerTick
  /\ ~(interval.steps = 0 /\ car.state = "idle" /\ car.dwell = 0)
  /\ car' = c
  /\ interval' = [steps |-> interval.steps + 1, distance |-> interval.distance + distance,
                  energy |-> interval.energy + energy]
  /\ UNCHANGED <<world, sampled>>

\* The sample of a tick closes its interval; a completed trip is reported once.
Sample ==
  /\ interval.steps = StepsPerTick
  /\ sampled' = [distance |-> sampled.distance + interval.distance,
                 energy |-> sampled.energy + interval.energy]
  /\ interval' = NoInterval
  /\ car' = IF car.state = "completed" THEN [car EXCEPT !.state = "idle"] ELSE car
  /\ UNCHANGED <<world, passed>>

IdleEnergy == 1

Idle ==
  /\ car.state \in {"idle", "completed"}
  /\ Stepping([car EXCEPT !.dwell = Max({0, @ - 1}), !.speed = 0, !.soc = Max({0, @ - IdleEnergy})],
              0, IdleEnergy)
  /\ UNCHANGED passed

-----------------------------------------------------------------------------
(* Charging stops *)

BelievedRange == car.soc \div Max({1, car.belief})

\* Mutant: a site right behind the best one counts as the next chance.
BookedWithoutSeparation ==
  LET reach == car.at + (BelievedRange * 100) \div 115
      best == NextSite(Env, car.at, reach)
      later == IF best = Unknown THEN Unknown ELSE NextSite(Env, best.at, reach)
  IN  IF best = Unknown \/ (car.soc > Driver.reserve /\ later # Unknown) THEN Unknown ELSE best

\* The site a search books: the strongest one within reach, unless there is charge
\* left and another chance behind it.
Booked ==
  LET reach == car.at + (BelievedRange * 100) \div 115
      best == NextSite(Env, car.at, reach)
      later == IF best = Unknown THEN Unknown ELSE NextSite(Env, best.at + Separation, reach)
  IN  IF best = Unknown \/ (car.soc > Driver.reserve /\ later # Unknown) THEN Unknown ELSE best

Searches ==
  /\ car.booked = Unknown
  /\ car.searched = Unknown \/ car.at >= car.searched + Retry

Planned ==
  IF ~Searches THEN car
  ELSE IF Booked = Unknown THEN [car EXCEPT !.searched = car.at]
  ELSE [car EXCEPT !.searched = car.at, !.booked = Booked, !.power = Booked.kw,
          !.target = Driver.departure]

NextStop(c) ==
  IF c.booked = Unknown THEN Env.route.length ELSE Min({Env.route.length, c.booked.at})

\* The target speed while braking into a stop.
ApproachOverride(c) ==
  LET remaining == Max({0, NextStop(c) - c.at})
  IN  IF NextStop(c) - c.at > c.speed * c.speed THEN Unknown
      ELSE Max({v \in 0 .. c.speed : v * v <= remaining})

-----------------------------------------------------------------------------
(* The driver *)

Cruise == [motorway |-> 130, trunk |-> 110, primary |-> 100, secondary |-> 85, unknown |-> 80]

DelayPercent == <<100, 125, 160, 200>>   \* TrafficSeverity.delay_factor

WeatherPercent == [clear |-> 100, rain |-> 93, snow |-> 75]

SpeedUnit == 60   \* km/h

TargetSpeed(conditions) ==
  LET free == IF conditions.limit = Unknown THEN Cruise[conditions.class]
              ELSE Min({Cruise[conditions.class], conditions.limit})
  IN  Max({1, ((free * WeatherPercent[conditions.condition]) \div DelayPercent[conditions.severity + 1])
                \div SpeedUnit})

\* What the driver aims at: the target speed, and the standstill left after this step.
Aims(c, conditions) ==
  LET override == ApproachOverride(c)
      aim(t, h) == [target |-> t, halted |-> h]
  IN  IF override # Unknown THEN {aim(override, IF override = 0 THEN 0 ELSE c.halted)}
      ELSE IF c.halted > 0 THEN {aim(0, c.halted - 1)}
      ELSE {aim(TargetSpeed(conditions), 0)}
             \cup (IF conditions.severity >= 2 THEN {aim(0, h) : h \in 1 .. MaxHalt} ELSE {})

\* Noise fades out at low speed: a standing vehicle that wants to move moves.
NextSpeeds(v, t) ==
  CASE v = 0 -> {Min({1, t})}
    [] v > 0 /\ v < t -> {v, v + 1}
    [] v > 0 /\ v >= t -> {v - 1, v}

-----------------------------------------------------------------------------
(* A physics step on the road *)

\* A segment is never a net source of energy (PhysicalEnergyModel.segment_energy).
Energy(distance, conditions) == distance * Max({0, Nominal + conditions.grade})

Beliefs(distance, energy) ==
  IF distance = 0 THEN {car.belief}
  ELSE LET new == Min({MaxBelief, energy \div distance})
       IN  {car.belief, new}

Moved(c, move, energy, belief) ==
  [c EXCEPT !.at = Min({Env.route.length, @ + move.distance}), !.speed = move.speed,
     !.odometer = @ + move.distance, !.used = @ + energy, !.soc = Max({0, @ - energy}),
     !.belief = belief, !.halted = move.aim.halted,
     !.state = IF move.speed = 0 /\ move.aim.halted > 0 THEN "stopped" ELSE "driving"]

AtStop(c) == c.booked # Unknown /\ c.at >= c.booked.at

\* Charging at the booked site, the rescue charge, arrival, in this order.
Resolved(c) ==
  IF AtStop(c) THEN {[c EXCEPT !.state = "charging", !.speed = 0]}
  ELSE IF c.soc <= Critical
  THEN {[c EXCEPT !.state = "charging", !.speed = 0, !.booked = Unknown, !.power = MinSitePower,
           !.target = Driver.departure]}
  ELSE IF c.at >= Env.route.length
  THEN {[c EXCEPT !.state = "completed", !.speed = 0, !.dwell = d] : d \in 1 .. MaxDwell}
  ELSE {c}

\* Every way a driver may aim and move from here, with the vehicle as it then is.
Moves ==
  {[aim |-> aim, speed |-> speed, distance |-> car.speed + speed] :
     aim \in Aims(Planned, Conditions), speed \in 0 .. (car.speed + 1)}

Drive ==
  /\ car.state \in {"driving", "stopped"}
  /\ \E move \in {m \in Moves : m.speed \in NextSpeeds(car.speed, m.aim.target)} :
       \E energy \in {Energy(move.distance, Conditions)} :
         \E belief \in Beliefs(move.distance, energy) :
           \E moved \in {Moved(Planned, move, energy, belief)} :
             /\ \E c \in Resolved(moved) : Stepping(c, move.distance, energy)
             /\ passed' = IF AtStop(moved) THEN passed
                          ELSE passed \cup {s \in Env.sites : car.at < s.at /\ s.at <= moved.at}

\* What the vehicle takes at a station of some power, less what it uses meanwhile.
ChargePerStep(c) ==
  LET accepted == IF c.soc >= (Pack * 4) \div 5 THEN Pack \div 10 ELSE Pack \div 4
  IN  Max({0, Min({c.power, accepted}) - IdleEnergy})

\* Mutant: the booking outlives the charging stop.
DepartedBooked(c) ==
  [c EXCEPT !.state = "driving", !.power = 0, !.target = 0, !.searched = c.at]

Departed(c) ==
  [c EXCEPT !.state = "driving", !.booked = Unknown, !.power = 0, !.target = 0, !.searched = c.at]

Charge ==
  /\ car.state = "charging"
  /\ LET charged == [car EXCEPT !.soc = Min({Pack, @ + ChargePerStep(car)})]
         full == charged.soc >= car.target
     IN  /\ Stepping(IF full THEN Departed(charged) ELSE charged, 0, 0)
         /\ passed' = IF full THEN {} ELSE passed

VehicleNext ==
  \/ Depart
  \/ Sample
  \/ Idle
  \/ Drive
  \/ Charge

VehicleSpec == VehicleInit /\ [][VehicleNext]_vehicleVars

-----------------------------------------------------------------------------
(* Fairness: the tick loop goes on as long as a trip is left, and a driver *)
(* on the road is not held in standstills for ever.  Both are written out, *)
(* because what enables a step is costly to evaluate.                      *)

Finished ==
  /\ car.trip = world.trips /\ car.state = "idle" /\ car.dwell = 0
  /\ interval.steps = 0

OnTheRoad == car.state \in {"driving", "stopped"}

VehicleFairness ==
  /\ []<>Finished \/ []<><<VehicleNext>>_vehicleVars
  /\ []<>(~OnTheRoad) \/ []<><<car'.odometer > car.odometer>>_vehicleVars

FairVehicleSpec == VehicleSpec /\ VehicleFairness

-----------------------------------------------------------------------------
(* What the road promises *)

\* The environments never change: they are looked at before the first trip.
AtStart == car.trip = 0

\* Segments of a corridor that contain a point, its ends included.
SegmentsAt(segments, at) == {i \in DOMAIN segments : segments[i].from <= at /\ at <= SegmentEnd(segments[i])}

\* Driving back means the same road: a bin of either direction has the road class of a
\* segment its midpoint lies on, and every hill is climbed in one direction and descended
\* in the other.  (reversed_route: "flips the geometry, the segment offsets and
\* is_reverse, which the terrain model reads to mirror and negate the gradient profile".)
BothWaysAreOneRoad ==
  AtStart => \A e \in DOMAIN world.environments :
    LET back == world.environments[e]
        forth == world.environments[e - 1]
        segments == forth.route.segments
        total == SegmentEnd(Last(segments))
        classes(at) == {segments[i].class : i \in SegmentsAt(segments, at)}
    IN  back.route.reverse =>
          /\ \A b \in 0 .. (BinCount(forth.route) - 1) : Midpoint(b) <= total =>
               /\ RoadOfBin(forth.route, b).class \in classes(Midpoint(b))
               /\ RoadOfBin(back.route, b).class \in classes(total - Midpoint(b))
          /\ \A x \in 0 .. forth.route.length :
               Gradient(forth, x) + Gradient(back, forth.route.length - x) = 0

\* On the way out an observed event is felt, at least as badly as it was reported, as
\* far as the whole bins of its reach, also across the ends of bins and of the corridor;
\* a scenario without traffic has none.  (_bin_observed_traffic; the way back is the subject of the
\* README.)
EventsAreFelt ==
  AtStart => \A e \in DOMAIN world.environments :
    LET env == world.environments[e]
        config == env.config
        reach == Max({1, config.reach \div Bin}) * Bin
    IN  /\ config.traffic = "observed" =>
             \A v \in env.events, x \in 0 .. env.route.length :
               (x - v.at \in -reach .. reach)
                 => TrafficAt(env, x, world.when) >= EventSeverity(v)
        /\ config.traffic = "none" => \A x \in 0 .. env.route.length : TrafficAt(env, x, world.when) = 0

\* A vehicle drives through the corridor as it was loaded, out and back.
CorridorIsFaithful == BothWaysAreOneRoad /\ EventsAreFelt

\* The samples of a trip add up to what the trip reports, and the vehicle is where its
\* odometer says; the pack is never empty, whatever hills, standstills and idle hours
\* come between two charges.  (_IntervalAccumulator and the trip's own totals are kept
\* apart; CRITICAL_SOC_PERCENT: "instead of accumulating bricked vehicles".)
JourneyAddsUp ==
  /\ car.odometer = sampled.distance + interval.distance
  /\ car.used <= sampled.energy + interval.energy
  /\ car.at = Min({car.odometer, Env.route.length})
  /\ car.soc > 0

\* With a believable range and sites far enough apart, a vehicle that has to be rescued
\* had no chance to charge on the way: it has driven past no site since it departed.
\* (_maybe_plan_charging_stop: "driving past it means the next stop is the synthetic
\* fallback charger"; "without it a corridor whose chargers are unevenly spaced strands
\* cars between them".)
RescueIsTheLastChance ==
  car.state = "charging" /\ car.booked = Unknown =>
    \/ passed = {}
    \/ \E x \in 0 .. Env.route.length : Gradient(Env, x) # 0
    \/ \E s, t \in Env.sites : s # t /\ s.at <= t.at /\ t.at < s.at + Retry + 4
    \/ Driver.reserve < 8 * Critical

\* Every trip that is begun is finished, over hills, jams, stops and rescues.
TripsFinish == (car.state = "driving") ~> (car.state \in {"completed", "idle"})
=============================================================================
