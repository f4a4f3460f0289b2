-------------------------------- MODULE Analyses --------------------------------
(***************************************************************************)
(* What the API computes about a route, one task at a time: the energy of  *)
(* a segment, the explanation of a route's energy, the analysis of a       *)
(* corridor.                                                               *)
(***************************************************************************)
EXTENDS EnergyExplanation, RouteAnalysis

CONSTANTS
  Tasks,     \* sets of tasks; a task is a record with a kind and its inputs
  Pending    \* no result yet

ASSUME AnalysesAssumption ==
  \A tasks \in Tasks : \A t \in tasks :
    /\ t.kind = "energy" => t.condition \in SegmentConditions
    /\ t.kind = "analyse" => t.request \in RouteRequests /\ Keyed(t.request.events)

VARIABLES task, result

Asked(kind) == task.kind = kind /\ result = Pending

Done(kind) == task.kind = kind /\ result # Pending

MeasureEnergy ==
  /\ Asked("energy")
  /\ result' = SegmentEnergy(task.condition)
  /\ UNCHANGED task

ExplainEnergy ==
  /\ Asked("explain")
  /\ result' = Explain(task.segments, task.energies)
  /\ UNCHANGED task

AnalyseRoute ==
  /\ Asked("analyse")
  /\ \E segments \in {Resolved(task.request)} :
       \E conditions \in {ConditionsOf(task.request, segments)} :
         result' = Analyse(task.request, segments, conditions)
  /\ UNCHANGED task

AnalysesNext ==
  \/ MeasureEnergy
  \/ ExplainEnergy
  \/ AnalyseRoute

-----------------------------------------------------------------------------
(* Energy *)

Rounding == Cardinality(Terms)   \* one Wh per term of a segment

\* A colder pack never makes a segment cheaper, uphill, downhill, braking or standing, and
\* no segment gives more back than it takes; what it takes is the sum of its parts.
\* (battery_power_w: "applied as a penalty in both directions"; segment_energy: "never
\* allowed to be a net energy source"; the additive identity of EnergyResult.)
ColdNeverHelps ==
  Done("energy") =>
    LET c == task.condition
    IN  /\ result.kwh >= 0
        /\ Magnitude(Total(result.terms) + result.auxiliary + result.hvac - result.kwh) <= Rounding
        /\ \A b \in (-20) .. PackTemperature(c) :
             SegmentEnergy([c EXCEPT !.battery = b]).kwh + Rounding >= result.kwh

\* The drivers of an explanation add up to the deviation from the nominal energy; the
\* correction of the ML model is measured against the physical energy under exactly the
\* conditions of the route; and nothing left out of the list weighs more than what is in
\* it.  (explain_route_energy: "the last rung's condition set is identical to the
\* caller's segments field for field".)
ExplanationAddsUp ==
  Done("explain") /\ result # Refused =>
    LET deltas == result.deltas
        listed == ToSet(result.drivers)
        physical(i) == SegmentEnergy(task.segments[i]).kwh
    IN  /\ MapThenSumSet(LAMBDA f : deltas[f], ToSet(Factors)) = result.total
        /\ deltas.model_correction =
             MapThenSumSet(LAMBDA i : task.energies[i] - physical(i), DOMAIN task.segments)
        /\ listed # {}
        /\ \A f \in listed, g \in ToSet(Factors) \ listed : Magnitude(deltas[f]) >= Magnitude(deltas[g])
        /\ ToSet(result.reasons) \subseteq listed

-----------------------------------------------------------------------------
(* Routes *)

\* Charging is called required exactly if the charge falls below the reserve somewhere on
\* the way, whatever the segments' energies are and wherever they came from; of a reserve
\* of nothing, if the battery is emptied before the end.
\* (_build_response compares only the arrival; optimise_charging then asks for the reserve
\* at every point.)
ChargeCurveHolds ==
  Done("analyse") /\ result # Refused =>
    LET charges == {result.rows[i].charge : i \in DOMAIN result.rows}
        reserve == task.request.reserve
        below == \E c \in charges : c < reserve
    IN  /\ below => result.deficit > 0
        /\ result.deficit > 0 => below \/ (reserve = 0 /\ 0 \in charges)
        /\ \A i, j \in DOMAIN result.rows : i < j => result.rows[i].charge >= result.rows[j].charge
        /\ result.arrival = Min(charges)

\* Every event on the corridor is found, of a buffer that is no wider than the padding:
\* the severity and the count of a segment are those of the active events within the
\* buffer of it, the list has each of them once, in the order of the road.
\* (_TRAFFIC_SQL and BBOX_PADDING_DEG: the box test "can only ever admit extra candidates,
\* never drop a true one".)
TrafficIsComplete ==
  Done("analyse") /\ result # Refused /\ task.request.buffer <= BoxPadding =>
    \A segments \in {Resolved(task.request)} :
    LET request == task.request
        on(i) == {e \in request.events : Active(e) /\ ReachesSegment(request, segments[i], e)}
        first(e) == Min({i \in DOMAIN segments : e \in on(i)})
        listed == result.events
    IN  /\ \A i \in DOMAIN segments :
             /\ result.rows[i].events = Cardinality(on(i))
             /\ result.rows[i].severity = Worst(on(i))
        /\ ToSet(listed) = UNION {on(i) : i \in DOMAIN segments}
        /\ \A j, k \in DOMAIN listed : j < k => listed[j] # listed[k] /\ first(listed[j]) <= first(listed[k])

\* No reading from too far away or too long ago decides the temperature of any segment,
\* and what the response claims of its data's freshness no part of them contradicts.
\* (_SegmentWeather.is_usable, the mean temperature, _stored_mode, _weakest_mode.)
WeatherIsUsable ==
  Done("analyse") /\ result # Refused =>
    \A segments \in {Resolved(task.request)} :
    LET request == task.request
        near(r) == \E i \in DOMAIN segments : UsableReading(request, segments[i], r)
        usable == {r \in request.readings : r.time <= Now /\ near(r)}
        known == {r.temp : r \in {u \in usable : u.temp # Unknown}}
    IN  /\ result.points \subseteq usable
        /\ \A i \in DOMAIN result.rows :
             \/ result.rows[i].temp = Reference
             \/ known # {} /\ result.rows[i].temp \in Min(known) .. Max(known)
        /\ \A r \in result.points :
             /\ r.mode = "fixture" => result.modes.weather = "fixture"
             /\ result.modes.weather # "live"

\* What the analysis reports of the world around the route is complete and usable.
RouteDataHolds == TrafficIsComplete /\ WeatherIsUsable
=============================================================================
