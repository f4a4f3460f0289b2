------------------------------ MODULE PhysicsSweep ------------------------------
(***************************************************************************)
(* A trip of the physics sweep (dataset.py): drawn window by window, each  *)
(* a drive cycle of one speed per second, integrated with the energy model *)
(* of the analyses.                                                        *)
(*                                                                         *)
(* Speeds are in 0.1 m/s, accelerations in 0.1 m/s2, distances in 0.1 m,   *)
(* energy and charge in units of 100 W s, the temperature of the pack in   *)
(* tenths of a degree.  A draw is a record with the segment that is drawn  *)
(* if one is due ([length, free, grade, severity]), the share of the free  *)
(* speed the traffic aims at, the kicks the speed gets, second by second,  *)
(* and the noise of the label, both in percent.                            *)
(***************************************************************************)
EXTENDS EnergyModel, TrainingWindows

Braking == -34         \* _MAX_DECELERATION_MS2
Accelerating == 26     \* _MAX_ACCELERATION_MS2
EmptyPack == 80        \* what 8 % of the pack are here

Within(low, high, n) == Max({low, Min({high, n})})

\* Back towards the target, kicked, within what a car can do and between zero and the top.
DriveCycle(entry, target, top, kicks) ==
  LET next(speed, kick) ==
        Within(0, top, speed + Within(Braking, Accelerating, (9 * (target - speed)) \div 100 + kick))
  IN  FoldLeft(LAMBDA trace, kick : Append(trace, next(Last(trace), kick)),
               <<Within(0, top, entry)>>, kicks)

Accelerations(trace) == [i \in 1 .. (Len(trace) - 1) |-> trace[i + 1] - trace[i]]

\* What a window adds up to; every second counts with the speed it starts with, and
\* recuperation is credited within the window only.
IntegrateWindow(trace, segment, weather, battery) ==
  LET speeds == Front(trace)
      accel == Accelerations(trace)
      power(i) == InstantaneousPower(
                    [cells |-> 0, speed |-> (speeds[i] * 36) \div 1000, grade |-> segment.grade,
                     temp |-> weather.temp, battery |-> battery \div 10, accel |-> accel[i],
                     severity |-> segment.severity, headwind |-> 0, duration |-> 1])
  IN  [distance |-> Added(speeds),
       energy |-> Max({0, Added([i \in DOMAIN speeds |-> power(i)])}),
       accel |-> Added([i \in DOMAIN accel |-> Magnitude(accel[i])]) \div Len(accel),
       events |-> Len(SelectSeq(accel, LAMBDA a : Magnitude(a) > 5))]

\* The pack approaches its steady temperature.
Warmed(battery, steady) == battery + (35 * (steady - battery)) \div 1000

\* One planned window: a segment is drawn when the last one has been driven.  A window of
\* almost no distance leaves no row and changes nothing but the time.
SweepWindow(trip, draw) ==
  LET due == trip.remaining <= 0
      segment == IF due THEN draw.segment ELSE trip.segment
      target == (segment.free * draw.share) \div DelayFactor(segment.severity)
      trace == DriveCycle(trip.entry, target, (segment.free * 5) \div 4, draw.kicks)
      window == IntegrateWindow(trace, segment, trip.weather, trip.battery)
      energy == Max({1, window.energy + (window.energy * draw.label) \div 100})
      next == [trip EXCEPT !.start = @ + Window, !.segment = segment, !.entry = Last(trace),
                           !.remaining = IF due THEN segment.length ELSE @]
      row == [start |-> trip.start, charge |-> trip.charge, battery |-> trip.battery,
              segment |-> segment, trace |-> trace, distance |-> window.distance,
              energy |-> energy, accel |-> window.accel,
              events |-> (10000 * window.events) \div window.distance]
  IN  IF trip.over THEN trip
      ELSE IF window.distance <= 1 THEN next
      ELSE [next EXCEPT !.rows = Append(@, row), !.remaining = @ - window.distance,
                        !.charge = @ - energy, !.battery = Warmed(@, trip.steady),
                        !.over = trip.charge - energy <= EmptyPack]

\* The weather of a trip is drawn once; the pack starts near it and warms up.
SweepTrip(charge, weather, draws) ==
  FoldLeft(SweepWindow,
           [start |-> 0, charge |-> charge, weather |-> weather, battery |-> 10 * weather.temp,
            steady |-> 10 * weather.temp + 120, entry |-> 0, remaining |-> 0,
            segment |-> [length |-> 0, free |-> 0, grade |-> 0, severity |-> 0],
            rows |-> <<>>, over |-> FALSE],
           draws)
=============================================================================
