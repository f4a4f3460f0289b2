------------------------------- MODULE EnergyModel -------------------------------
(***************************************************************************)
(* The physical energy model of a road segment (baseline.py, types.py,     *)
(* constants.py), for one vehicle.                                         *)
(*                                                                         *)
(* Lengths are in cells of 5 km, speeds in steps of 10 km/h, gradients in  *)
(* percent, accelerations in 0.1 m/s2, power in units of 100 W, durations  *)
(* in seconds, energy in Wh.  The conditions of a segment are a record:    *)
(* cells, speed, grade, temp, battery (Unknown: as cold as the air),       *)
(* accel, severity (0 low .. 3 severe), headwind, duration (Unknown: from  *)
(* distance and speed), rain.                                              *)
(***************************************************************************)
EXTENDS Sums

CONSTANTS
  Unknown,   \* no value
  Refused    \* an error instead of an answer

Reference == 20        \* where the climate load is zero and the pack is not cold

Base == 4              \* the auxiliary load that is always on
RegenFloor == -500     \* -50 kW

\* What a segment may be driven under; more than that is refused.  The bounds on speed,
\* gradient and temperature are those of the code.
SegmentConditions ==
  [cells : Nat, speed : {v \in Int : v <= 40}, grade : (-30) .. 30, temp : (-60) .. 60,
   battery : Int \cup {Unknown}, accel : Int, severity : 0 .. 3, headwind : Int,
   duration : Nat \cup {Unknown}]

ASSUME EnergyAssumption == Unknown \notin Int

Magnitude(n) == IF n < 0 THEN -n ELSE n

\* Linear between the breakpoints, clamped outside them.
Interpolate(curve, x) ==
  IF x <= curve[1][1] THEN curve[1][2]
  ELSE IF x >= Last(curve)[1] THEN Last(curve)[2]
  ELSE LET i == CHOOSE j \in 2 .. Len(curve) : curve[j - 1][1] <= x /\ x < curve[j][1]
           low == curve[i - 1]
           high == curve[i]
       IN  low[2] + ((x - low[1]) * (high[2] - low[2])) \div (high[1] - low[1])

Hvac(temp) ==
  Interpolate(<<<<-20, 45>>, <<-10, 35>>, <<0, 22>>, <<10, 9>>, <<20, 0>>,
                <<25, 5>>, <<30, 12>>, <<35, 20>>, <<45, 32>>>>, temp)

\* The internal-resistance factor in thousandths.
ColdFactor(battery) == 1000 + 8 * Max({0, 15 - battery})

\* Relative to 15 degrees, in percent.
AirDensity(temp) == 28815 \div (273 + temp)

\* The delay factors in hundredths, low to severe.
DelayFactor(severity) == <<100, 115, 140, 200>>[severity + 1]

FreeFlowSpeed(c) == (c.speed * DelayFactor(c.severity)) \div 100

PackTemperature(c) == IF c.battery = Unknown THEN c.temp ELSE c.battery

Duration(c) ==
  IF c.duration # Unknown THEN c.duration
  ELSE IF c.speed <= 0 THEN 0 ELSE (1800 * c.cells) \div c.speed

-----------------------------------------------------------------------------
(* Power at the wheel and at the battery *)

Terms == {"rolling", "aero", "gradient", "inertia"}

\* A tailwind stronger than the speed pushes.
WheelPower(c) ==
  LET air == c.speed + c.headwind
  IN  [rolling  |-> 5 * c.speed,
       aero     |-> (c.speed * air * Magnitude(air) * AirDensity(c.temp)) \div 1300,
       gradient |-> 5 * c.grade * c.speed,
       inertia  |-> 5 * c.accel * c.speed]

Total(terms) == terms.rolling + terms.aero + terms.gradient + terms.inertia

BatteryPowerColdTwice(wheel, battery) ==   \* mutant: a cold pack recovers more
  IF wheel >= 0 THEN (wheel * ColdFactor(battery)) \div 900
  ELSE Max({RegenFloor, (wheel * 65 * ColdFactor(battery)) \div 100000})

\* The cold pack costs more on the way out and accepts less on the way back.
BatteryPower(wheel, battery) ==
  IF wheel >= 0 THEN (wheel * ColdFactor(battery)) \div 900
  ELSE Max({RegenFloor, (wheel * 650) \div ColdFactor(battery)})

\* Every term is converted with the one factor that the sum of the terms was; the factor
\* is never negative.
Allocated(c) ==
  LET wheel == WheelPower(c)
      battery == BatteryPower(Total(wheel), PackTemperature(c))
  IN  [t \in Terms |->
         IF Total(wheel) = 0 THEN 0
         ELSE (wheel[t] * Magnitude(battery) * Duration(c)) \div (Magnitude(Total(wheel)) * 36)]

\* The negative terms shrunk so that they and the standing load add up to nothing.
Capped(terms, standing) ==
  LET negative == Total([t \in Terms |-> Min({0, terms[t]})])
      excess == Total(terms) + standing
  IN  [t \in Terms |->
         IF terms[t] < 0 THEN (terms[t] * (excess - negative)) \div (-negative) ELSE terms[t]]

\* At one moment, without the floor of a segment.
InstantaneousPower(c) ==
  Base + Hvac(c.temp)
    + (IF c.speed <= 0 THEN 0 ELSE BatteryPower(Total(WheelPower(c)), PackTemperature(c)))

-----------------------------------------------------------------------------
(* Energy *)

NoTerms == [t \in Terms |-> 0]

EnergyOf(terms, c, kwh) ==
  [kwh |-> kwh, terms |-> terms, regen |-> Min({0, Total(terms)}), seconds |-> Duration(c),
   auxiliary |-> (Base * Duration(c)) \div 36, hvac |-> (Hvac(c.temp) * Duration(c)) \div 36]

\* No time, no energy; standing still costs the standing loads; no segment is a source.
SegmentEnergy(c) ==
  LET standing == (Base * Duration(c)) \div 36 + (Hvac(c.temp) * Duration(c)) \div 36
      terms == IF c.speed <= 0 \/ Duration(c) <= 0 THEN NoTerms ELSE Allocated(c)
  IN  IF Total(terms) + standing < 0
      THEN EnergyOf(Capped(terms, standing), c, 0)
      ELSE EnergyOf(terms, c, Total(terms) + standing)

NoEnergy == [kwh |-> 0, terms |-> NoTerms, regen |-> 0, seconds |-> 0, auxiliary |-> 0, hvac |-> 0]

Plus(a, b) ==
  [kwh |-> a.kwh + b.kwh, terms |-> [t \in Terms |-> a.terms[t] + b.terms[t]],
   regen |-> a.regen + b.regen, seconds |-> a.seconds + b.seconds,
   auxiliary |-> a.auxiliary + b.auxiliary, hvac |-> a.hvac + b.hvac]

TripEnergy(conditions) ==
  FoldLeft(LAMBDA sum, c : Plus(sum, SegmentEnergy(c)), NoEnergy, conditions)
=============================================================================
