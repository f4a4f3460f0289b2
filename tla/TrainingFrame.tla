----------------------------- MODULE TrainingFrame -----------------------------
(***************************************************************************)
(* From the training file to a fitted model: the cleaning rules, what a    *)
(* training is refused for, and the number of trees (dataset.py,           *)
(* features.py, training.py).                                              *)
(*                                                                         *)
(* A row has the columns the rules read; null and infinite name the        *)
(* columns without a value and those whose value is not finite.  Speeds    *)
(* are in km/h, consumption in kWh/100 km, errors in units of 1e-6.        *)
(***************************************************************************)
EXTENDS Integers, Sequences, FiniteSets, SequencesExt, FiniteSetsExt

\* FEATURE_NAMES: the order of the columns of every matrix.
FeatureOrder ==
  <<"speed_kmh", "avg_speed_kmh", "speed_std_kmh", "acceleration_abs_mean_ms2",
    "accel_events_per_km", "outside_temperature_c", "battery_temperature_c", "soc_percent",
    "road_class_ordinal", "speed_limit_kmh", "traffic_severity_ordinal", "precipitation_mm",
    "wind_speed_ms", "gradient_percent", "segment_distance_km", "mass_kg", "drag_area",
    "nominal_consumption_kwh_100km", "hvac_load_kw", "is_motorway">>

FeatureNames == ToSet(FeatureOrder)

Numeric ==
  FeatureNames \cup {"energy_consumption_kwh_100km", "distance_km", "duration_s", "energy_kwh"}

-----------------------------------------------------------------------------
(* Cleaning *)

Rules ==
  <<"null_identifier", "null_numeric", "non_finite_numeric", "zero_or_negative_distance",
    "zero_or_negative_duration", "non_positive_target", "implausible_low_target",
    "implausible_target", "implausible_speed", "soc_out_of_range", "implausible_temperature",
    "negative_energy">>

Keeps(rule, row) ==
  CASE rule = "null_identifier"           -> row.null \cap {"trip_id", "vehicle_code"} = {}
    [] rule = "null_numeric"              -> row.null \cap Numeric = {}
    [] rule = "non_finite_numeric"        -> row.infinite \cap Numeric = {}
    [] rule = "zero_or_negative_distance" -> row.distance > 0
    [] rule = "zero_or_negative_duration" -> row.duration > 0
    [] rule = "non_positive_target"       -> row.target > 0
    [] rule = "implausible_low_target"    -> row.target >= 1
    [] rule = "implausible_target"        -> row.target <= 120
    [] rule = "implausible_speed"         -> row.speed \in 0 .. 250
    [] rule = "soc_out_of_range"          -> row.soc \in 0 .. 100
    [] rule = "implausible_temperature"   -> row.temp \in -40 .. 55 /\ row.battery \in -40 .. 80
    [] rule = "negative_energy"           -> row.energy >= 0

\* The first row of each window of a trip.
FirstOfEach(rows) ==
  LET key(i) == <<rows[i].trip, rows[i].start>>
      kept == {i \in DOMAIN rows : \A j \in 1 .. (i - 1) : key(j) # key(i)}
  IN  [i \in 1 .. Cardinality(kept) |-> rows[SetToSortSeq(kept, <)[i]]]

Applied(cleaned, rule) ==
  LET rows == SelectSeq(cleaned.rows, LAMBDA r : Keeps(rule, r))
  IN  [rows |-> rows, rejected |-> Append(cleaned.rejected, Len(cleaned.rows) - Len(rows))]

\* A bug Clean guards against: a bad row of a window shuts out the good one after it.
CleanDuplicatesFirst(frame) ==
  LET unique == FirstOfEach(frame)
      cleaned == FoldLeft(Applied, [rows |-> unique, rejected |-> <<>>], Rules)
  IN  [cleaned EXCEPT !.rejected = Append(@, Len(frame) - Len(unique))]

\* Rule after rule, the duplicates last; the counters are in the order of the rules.
Clean(frame) ==
  LET cleaned == FoldLeft(Applied, [rows |-> frame, rejected |-> <<>>], Rules)
      unique == FirstOfEach(cleaned.rows)
  IN  [rows |-> unique, rejected |-> Append(cleaned.rejected, Len(cleaned.rows) - Len(unique))]

-----------------------------------------------------------------------------
(* What the matrices of a training are refused for *)

\* validate_feature_frame: any feature without a finite value.
Unusable(rows) ==
  \/ rows = <<>>
  \/ \E i \in DOMAIN rows : (rows[i].null \cup rows[i].infinite) \cap FeatureNames # {}

\* get_vehicle_profile knows the generic vehicles only.
UnknownVehicle(rows, known) == \E i \in DOMAIN rows : rows[i].code \notin known

TripsOf(rows) == {rows[i].trip : i \in DOMAIN rows}

\* "auto" prefers LightGBM; asked for by name it is never replaced.
SelectAlgorithm(requested, available) ==
  CASE requested = "auto" -> IF available THEN "lightgbm" ELSE "sklearn"
    [] requested = "lightgbm" /\ available -> "lightgbm"
    [] requested = "sklearn" -> "sklearn"
    [] OTHER -> "refused"

-----------------------------------------------------------------------------
(* The number of trees *)

StepSize == 50     \* _SKLEARN_STEP
Patience == 3      \* _SKLEARN_PATIENCE_STEPS

\* errors[i] is the error on the validation fold with i steps of trees.
Probed(fit, error) ==
  IF fit.stale >= Patience THEN fit
  ELSE IF fit.best = <<>> \/ error < fit.best[1] - 1
       THEN [probes |-> fit.probes + 1, best |-> <<error>>, steps |-> fit.probes + 1, stale |-> 0]
       ELSE [fit EXCEPT !.probes = @ + 1, !.stale = @ + 1]

Fit(errors) ==
  FoldLeft(Probed, [probes |-> 0, best |-> <<>>, steps |-> 1, stale |-> 0], errors)

\* The estimator that is kept is fitted again with this many trees.
Trees(errors) == StepSize * Fit(errors).steps

-----------------------------------------------------------------------------
(* A training, up to what evaluates it *)

\* The order of its refusals; the split itself is TripSplit's.  The vehicles are looked
\* up only after the fit.
Train(request) ==
  LET cleaned == Clean(request.frame)
      algorithm == SelectAlgorithm(request.algorithm, request.available)
      refusal ==
        CASE request.frame = <<>> \/ cleaned.rows = <<>>       -> "every row was rejected"
          [] Cardinality(TripsOf(cleaned.rows)) < 3            -> "too few trips"
          [] Unusable(cleaned.rows)                            -> "unusable features"
          [] algorithm = "refused"                             -> "no such backend"
          [] UnknownVehicle(cleaned.rows, request.known)       -> "unknown vehicle"
          [] OTHER                                             -> "none"
  IN  [cleaned |-> cleaned, refusal |-> refusal, algorithm |-> algorithm,
       trees |-> IF algorithm = "sklearn" THEN Trees(request.errors) ELSE 0]
=============================================================================
