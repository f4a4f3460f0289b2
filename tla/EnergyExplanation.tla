---------------------------- MODULE EnergyExplanation ----------------------------
(***************************************************************************)
(* The explanation of a route's energy (insights.py): a ladder of runs of  *)
(* the physical model, each restoring one more group of the conditions the *)
(* route was analysed under, and the differences between its rungs, ranked *)
(* and cut.  The texts and the two summaries they quote are left out.      *)
(***************************************************************************)
EXTENDS EnergyModel

Nominal == 850   \* Wh the vehicle nominally takes for a cell: 17 kWh / 100 km

\* In the order of their names.
Factors ==
  <<"auxiliary", "gradient", "model_correction", "speed_profile", "temperature", "traffic", "wind">>

AtReference(c) ==
  [c EXCEPT !.speed = FreeFlowSpeed(c), !.severity = 0, !.grade = 0, !.temp = Reference,
            !.battery = Reference, !.headwind = 0, !.duration = Unknown]

WithGradient(c) == [AtReference(c) EXCEPT !.grade = c.grade]

\* An explicit duration is restored with the speed it belongs to.
WithTraffic(c) ==
  [WithGradient(c) EXCEPT !.speed = c.speed, !.severity = c.severity, !.duration = c.duration]

AirOnly(c) == [WithTraffic(c) EXCEPT !.temp = c.temp]   \* mutant: the pack stays at its reference

WithTemperature(c) == [WithTraffic(c) EXCEPT !.temp = c.temp, !.battery = c.battery]

WithWind(c) == [WithTemperature(c) EXCEPT !.headwind = c.headwind]

Rung(Condition(_), segments) == TripEnergy([i \in DOMAIN segments |-> Condition(segments[i])])

\* What each factor adds to the nominal energy, in Wh over the route.
Deltas(segments, actual, nominal) ==
  LET reference == Rung(AtReference, segments)
      standing == reference.auxiliary + reference.hvac
      gradient == Rung(WithGradient, segments).kwh
      traffic == Rung(WithTraffic, segments).kwh
      temperature == Rung(WithTemperature, segments).kwh
      wind == Rung(WithWind, segments).kwh
  IN  [speed_profile    |-> reference.kwh - standing - nominal,
       auxiliary        |-> standing,
       gradient         |-> gradient - reference.kwh,
       traffic          |-> traffic - gradient,
       temperature      |-> temperature - traffic,
       wind             |-> wind - temperature,
       model_correction |-> actual - wind]

\* At least half a percent of the nominal energy.
Notable(delta, nominal) == 200 * Magnitude(delta) >= nominal

Place(factor) == CHOOSE i \in DOMAIN Factors : Factors[i] = factor

Larger(deltas, f, g) ==
  \/ Magnitude(deltas[f]) > Magnitude(deltas[g])
  \/ Magnitude(deltas[f]) = Magnitude(deltas[g]) /\ Place(f) < Place(g)

\* The largest is listed whatever its size.
Listed(deltas, nominal) ==
  LET ranked == SortSeq(Factors, LAMBDA f, g : Larger(deltas, f, g))
      kept == SelectSeq(ranked, LAMBDA f : Notable(deltas[f], nominal))
  IN  IF kept = <<>> THEN <<ranked[1]>> ELSE kept

Direction(delta, nominal) ==
  CASE 200 * delta > nominal  -> "increase"
    [] 200 * delta < -nominal -> "decrease"
    [] OTHER                  -> "neutral"

\* The factors the headline names: none when the total is within three percent.
Reasons(deltas, actual, nominal) ==
  LET moving == SelectSeq(Listed(deltas, nominal),
                          LAMBDA f : Direction(deltas[f], nominal) # "neutral")
  IN  IF 100 * Magnitude(actual - nominal) < 3 * nominal THEN <<>>
      ELSE SubSeq(moving, 1, Min({2, Len(moving)}))

\* energies is the energy per segment the explanation is asked for.
Explain(segments, energies) ==
  LET cells == Added([i \in DOMAIN segments |-> segments[i].cells])
      actual == Added(energies)
      deltas == Deltas(segments, actual, Nominal * cells)
  IN  IF Len(segments) # Len(energies) \/ cells <= 0 THEN Refused
      ELSE [deltas |-> deltas,
            drivers |-> Listed(deltas, Nominal * cells),
            reasons |-> Reasons(deltas, actual, Nominal * cells),
            total |-> actual - Nominal * cells]
=============================================================================
