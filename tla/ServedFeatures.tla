---------------------------- MODULE ServedFeatures ----------------------------
(***************************************************************************)
(* The feature vector of a model from both sides: projected from a row of  *)
(* the training set, and built from the conditions of a segment that is to *)
(* be predicted (features.py, inference.py); and what the attribution of a *)
(* prediction reports of its features (explain.py).                        *)
(*                                                                         *)
(* Conditions have the fields speed, distance, grade, temp, battery,       *)
(* accel, severity (0 low .. 3 severe), rain, wind, class and limit, in    *)
(* the units of TrainingWindows.  Contributions are in hundredths.         *)
(***************************************************************************)
EXTENDS EnergyModel, PhysicsSweep, TrainingFrame

\* GENERIC_VEHICLE_PROFILES: mass in kg, the drag area in cm2, consumption in 0.1 kWh/100 km.
Profiles ==
  <<[code |-> "compact_ev",     mass |-> 1700, area |-> 5940,  nominal |-> 155],
    [code |-> "sedan_ev",       mass |-> 2100, area |-> 5290,  nominal |-> 165],
    [code |-> "performance_ev", mass |-> 2200, area |-> 5875,  nominal |-> 200],
    [code |-> "suv_ev",         mass |-> 2400, area |-> 7685,  nominal |-> 195],
    [code |-> "van_ev",         mass |-> 2500, area |-> 10890, nominal |-> 230]>>

DefaultLimit ==
  [motorway |-> 130, trunk |-> 120, primary |-> 100, secondary |-> 100, tertiary |-> 80,
   residential |-> 50, service |-> 30, unknown |-> 100]

-----------------------------------------------------------------------------
(* The two builders *)

RowFeatures(row, vehicle) ==
  [speed_kmh |-> row.speed, avg_speed_kmh |-> row.average, speed_std_kmh |-> row.spread,
   acceleration_abs_mean_ms2 |-> row.accel, accel_events_per_km |-> row.events,
   outside_temperature_c |-> row.temp, battery_temperature_c |-> row.battery,
   soc_percent |-> row.soc, road_class_ordinal |-> ClassOrdinal[row.class],
   speed_limit_kmh |-> row.limit, traffic_severity_ordinal |-> row.severity,
   precipitation_mm |-> row.rain, wind_speed_ms |-> row.wind, gradient_percent |-> row.grade,
   segment_distance_km |-> row.distance, mass_kg |-> vehicle.mass, drag_area |-> vehicle.area,
   nominal_consumption_kwh_100km |-> vehicle.nominal, hvac_load_kw |-> Hvac(row.temp),
   is_motorway |-> IF row.class = "motorway" THEN 1 ELSE 0]

\* What the caller gives, or what stands for it.
Given(value, default) == IF value = Unknown THEN default ELSE value

SeverityFromZero(c) == c.severity   \* mutant: the ordinals of the training start at 1

SeverityOrdinal(c) == c.severity + 1

\* given: soc, average, spread, accel, events and length, each possibly Unknown.
Features(vehicle, c, given) ==
  LET atLeastZero(n) == Max({0, n}) IN
  [speed_kmh |-> atLeastZero(c.speed),
   avg_speed_kmh |-> atLeastZero(Given(given.average, c.speed)),
   speed_std_kmh |-> atLeastZero(Given(given.spread, 0)),
   acceleration_abs_mean_ms2 |-> Magnitude(Given(given.accel, c.accel)),
   accel_events_per_km |-> atLeastZero(Given(given.events, 0)),
   outside_temperature_c |-> c.temp,
   battery_temperature_c |-> PackTemperature(c),
   soc_percent |-> Given(given.soc, 60),
   road_class_ordinal |-> ClassOrdinal[c.class],
   speed_limit_kmh |-> IF c.limit = Absent THEN DefaultLimit[c.class] ELSE c.limit,
   traffic_severity_ordinal |-> SeverityOrdinal(c),
   precipitation_mm |-> atLeastZero(c.rain),
   wind_speed_ms |-> atLeastZero(c.wind),
   gradient_percent |-> c.grade,
   segment_distance_km |-> IF given.length = Unknown THEN c.distance ELSE atLeastZero(given.length),
   mass_kg |-> vehicle.mass, drag_area |-> vehicle.area,
   nominal_consumption_kwh_100km |-> vehicle.nominal,
   hvac_load_kw |-> Hvac(c.temp),
   is_motorway |-> IF c.class = "motorway" THEN 1 ELSE 0]

-----------------------------------------------------------------------------
(* A prediction from features alone: its baseline needs a vehicle and conditions again *)

\* The first of the generic vehicles that are nearest by mass, drag area and consumption.
NearestProfile(values) ==
  LET distance(p) == 20 * Magnitude(p.mass - values.mass_kg)
                       + 5 * Magnitude(p.area - values.drag_area)
                       + 200 * Magnitude(p.nominal - values.nominal_consumption_kwh_100km)
  IN  CHOOSE i \in DOMAIN Profiles : \A j \in DOMAIN Profiles :
        \/ distance(Profiles[i]) < distance(Profiles[j])
        \/ distance(Profiles[i]) = distance(Profiles[j]) /\ i <= j

\* base is the vehicle the rest is taken from.
ReconstructProfile(values) ==
  IF values.mass_kg <= 0 \/ values.drag_area <= 0 \/ values.nominal_consumption_kwh_100km <= 0
  THEN Refused
  ELSE [base |-> Profiles[NearestProfile(values)].code, mass |-> values.mass_kg,
        area |-> values.drag_area, nominal |-> values.nominal_consumption_kwh_100km]

\* A kilometre of it, without the road's class and the traffic.
ConditionsFromFeatures(values) ==
  IF values.speed_kmh <= 0 THEN Refused
  ELSE [speed |-> values.speed_kmh, distance |-> 1000, grade |-> values.gradient_percent,
        temp |-> values.outside_temperature_c, battery |-> values.battery_temperature_c,
        accel |-> 0, severity |-> 0, rain |-> values.precipitation_mm,
        wind |-> values.wind_speed_ms, class |-> "unknown", limit |-> values.speed_limit_kmh]

\* consumption_kwh_per_100km: here what the physical model takes for a cell.
Baseline(c) ==
  SegmentEnergy([cells |-> 1, speed |-> (c.speed * 36) \div 100, grade |-> c.grade, temp |-> c.temp,
                 battery |-> c.battery, accel |-> c.accel, severity |-> c.severity, headwind |-> 0,
                 duration |-> Unknown]).kwh

\* The baseline is exact if the vehicle and the conditions are given...
PredictConditions(vehicle, c, given) ==
  [features |-> Features(vehicle, c, given), baseline |-> Baseline(c), approximate |-> FALSE]

\* ... and of reconstructed ones otherwise.
PredictFeatures(values) ==
  LET vehicle == ReconstructProfile(values)
      c == ConditionsFromFeatures(values)
  IN  IF vehicle = Refused \/ c = Refused THEN Refused
      ELSE [features |-> values, vehicle |-> vehicle, conditions |-> c, baseline |-> Baseline(c),
            approximate |-> TRUE]

-----------------------------------------------------------------------------
(* The attribution *)

\* INSIGHT_FACTOR_BY_FEATURE; the features it does not name are "other".
FactorOf(feature) ==
  CASE feature \in {"speed_kmh", "avg_speed_kmh", "speed_std_kmh", "acceleration_abs_mean_ms2",
                    "accel_events_per_km", "road_class_ordinal", "speed_limit_kmh",
                    "is_motorway"} -> "speed_profile"
    [] feature \in {"outside_temperature_c", "battery_temperature_c", "hvac_load_kw"} -> "temperature"
    [] feature = "traffic_severity_ordinal" -> "traffic"
    [] feature = "gradient_percent" -> "gradient"
    [] feature = "wind_speed_ms" -> "wind"
    [] OTHER -> "other"

\* By magnitude; equal ones stay in the order of the features.
RankedByMagnitude(values) ==
  LET place(f) == SelectInSeq(FeatureOrder, LAMBDA g : g = f)
      before(f, g) == \/ Magnitude(values[f]) > Magnitude(values[g])
                      \/ Magnitude(values[f]) = Magnitude(values[g]) /\ place(f) < place(g)
  IN  SortSeq(FeatureOrder, before)

Effect(contribution) ==
  IF Magnitude(contribution) < 5 THEN "neutral"
  ELSE IF contribution > 0 THEN "increase" ELSE "decrease"

Contributions(values) ==
  LET ranked == RankedByMagnitude(values)
  IN  [i \in DOMAIN ranked |-> [feature |-> ranked[i], contribution |-> values[ranked[i]],
                                direction |-> Effect(values[ranked[i]]),
                                factor |-> FactorOf(ranked[i])]]

ByInsightFactor(contributions) ==
  [factor \in {contributions[i].factor : i \in DOMAIN contributions} |->
     Added([i \in DOMAIN contributions |->
              IF contributions[i].factor = factor THEN contributions[i].contribution ELSE 0])]

\* The mean magnitudes over the rows of a sample, largest first, with their shares of the
\* sum in hundredths of it.
GlobalImportance(sample) ==
  LET magnitudes == [f \in FeatureNames |->
                       Added([i \in DOMAIN sample |-> Magnitude(sample[i][f])]) \div Len(sample)]
      total == Added([i \in DOMAIN FeatureOrder |-> magnitudes[FeatureOrder[i]]])
      ranked == RankedByMagnitude(magnitudes)
  IN  [i \in DOMAIN ranked |-> [feature |-> ranked[i], mean |-> magnitudes[ranked[i]],
                                share |-> (100 * magnitudes[ranked[i]]) \div Max({1, total})]]
=============================================================================
