---------------------------- MODULE ChargingPlanner ----------------------------
(***************************************************************************)
(* The charging plan of POST /charging/optimize: the corridor's sites are  *)
(* thinned to one per stretch, and a beam search over at most `stops`      *)
(* stops picks the sites and the state of charge to leave each with.       *)
(*                                                                         *)
(* Distances are in cells of 5 km, energy and state of charge in           *)
(* percentage points of the usable capacity, costs in hundredths of a      *)
(* minute.  Charging is integrated in steps of one point, and the          *)
(* temperature derating, one factor per plan, is part of Peak.             *)
(*                                                                         *)
(* A trip is a record: segments (a sequence of [from, cells, energy]),     *)
(* sites (a set of [id, at, off, kw], off being the way there and back),   *)
(* start, reserve, target, stops, spacing.                                 *)
(***************************************************************************)
EXTENDS Integers, Sequences, SequencesExt

CONSTANTS
  Peak,        \* the vehicle's peak DC power, in kW
  Capacity,    \* its usable capacity, in kWh
  Detouring,   \* points a cell of detour takes at nominal consumption
  Grid,        \* departure states of charge the search may choose from
  BeamWidth,   \* partial plans kept per depth
  MaxSites     \* sites handed to the search at most

Full == 100
MinLeg == 1           \* _MIN_LEG_KM, one cell
MinUseful == 2        \* _MIN_USEFUL_CHARGE_PERCENT
RiskBuffer == 5
RiskPenalty == 200    \* per point inside the comfort band
CellDetour == 500     \* 5 km at 60 km/h

Positive(n) == IF n > 0 THEN n ELSE 0

-----------------------------------------------------------------------------
(* The charging curve *)

\* SOC_TAPER_CURVE in thousandths, between state of charge s and s + 1.
Taper(s) ==
  CASE s < 50  -> 1000
    [] s \in 50 .. 79 -> 1000 - (450 * (2 * (s - 50) + 1)) \div 60
    [] OTHER   -> 550 - (370 * (2 * (s - 80) + 1)) \div 40

\* The vehicle's side of the limit has a floor of 1 kW, the site's has none.
Power(kw, s) == Min({kw * 1000, Max({1000, Peak * Taper(s)})})

ChargeTime(kw, from, to) ==
  MapThenSumSet(LAMBDA s : (Capacity * 60 * 1000) \div Power(kw, s), from .. (to - 1))

-----------------------------------------------------------------------------
(* The route *)

Unsorted(trip) == trip.segments   \* mutant: in the caller's order

Ordered(trip) ==
  SortSeq(trip.segments, LAMBDA a, b : \/ a.from < b.from
                                       \/ a.from = b.from /\ a.cells < b.cells)

EndOf(segment) == segment.from + segment.cells

RouteEnd(trip) == EndOf(Last(Ordered(trip)))

\* Energy between two offsets; a segment partly inside counts by its share.
Integrate(trip, from, to) ==
  LET Share(g) == (g.energy * Positive(Min({to, EndOf(g)}) - Max({from, g.from}))) \div g.cells
  IN  IF to <= from THEN 0 ELSE MapThenSumSet(Share, ToSet(trip.segments))

-----------------------------------------------------------------------------
(* The candidates *)

\* The strongest site, then the shortest detour, then the id.
Stronger(a, b) ==
  \/ a.kw > b.kw
  \/ a.kw = b.kw /\ a.off < b.off
  \/ a.kw = b.kw /\ a.off = b.off /\ a.id < b.id

Thinned(trip) ==
  LET bucket(s) == s.at \div trip.spacing
      best == {s \in trip.sites : \A o \in trip.sites :
                 bucket(o) = bucket(s) => o = s \/ Stronger(s, o)}
      rank(s) == Cardinality({o \in best : Stronger(o, s)})
  IN  {s \in best : rank(s) < MaxSites}

Candidates(trip) ==
  SetToSortSeq({s \in Thinned(trip) : s.at <= RouteEnd(trip) + MinLeg},
               LAMBDA a, b : a.at < b.at \/ (a.at = b.at /\ a.id < b.id))

-----------------------------------------------------------------------------
(* The search: a partial plan is where it is, how full, and what it cost *)

Initial(trip) == [at |-> 0, soc |-> trip.start, charging |-> 0, detours |-> 0,
                  risk |-> 0, lowest |-> trip.start, stops |-> <<>>]

Incurred(p) == p.charging + 2 * p.detours + p.risk

Risk(trip, arrival) ==
  RiskPenalty * Positive(Min({Full, trip.reserve + RiskBuffer}) - arrival)

Needed(trip, from) == Integrate(trip, from, RouteEnd(trip))

\* Drive on to the destination: the complete plan, or nothing.
Finish(trip, p) ==
  LET arrival == p.soc - Needed(trip, p.at)
  IN  IF arrival < trip.reserve \/ arrival < trip.target
      THEN {}
      ELSE {[p EXCEPT !.at = RouteEnd(trip), !.soc = arrival,
                      !.risk = @ + Risk(trip, arrival),
                      !.lowest = Min({@, arrival})]}

\* The deficit charged at 60 % of the peak power.
Remaining(trip, p) ==
  (Positive(Needed(trip, p.at) - (p.soc - trip.target)) * Capacity * 100) \div Peak

Ids(p) == [i \in DOMAIN p.stops |-> p.stops[i].site.id]

LexLess(s, t) ==
  \E k \in 1 .. Len(t) :
    /\ \A i \in 1 .. (k - 1) : i \in DOMAIN s /\ s[i] = t[i]
    /\ k \notin DOMAIN s \/ s[k] < t[k]

\* Cost, then fewer stops, then the station ids.
Before(cost, p, other, q) ==
  \/ cost < other
  \/ cost = other /\ Len(p.stops) < Len(q.stops)
  \/ cost = other /\ Len(p.stops) = Len(q.stops) /\ LexLess(Ids(p), Ids(q))

Arrival(trip, p, site) ==
  p.soc - Integrate(trip, p.at, site.at) - site.off * Detouring

\* The grid and the charge that is just enough to finish.
Targets(trip, site, arrival) ==
  SetToSortSeq({t \in Grid \cup {Needed(trip, site.at) + trip.target} :
                  arrival + MinUseful <= t /\ t <= Full}, <)

Visit(trip, p, site) ==
  LET arrival == Arrival(trip, p, site)
      targets == Targets(trip, site, arrival)
  IN  IF \/ site \in {p.stops[i].site : i \in DOMAIN p.stops}
         \/ site.at <= p.at + MinLeg
         \/ arrival < trip.reserve
      THEN <<>>
      ELSE [i \in DOMAIN targets |->
              LET time == ChargeTime(site.kw, arrival, targets[i])
              IN  [at |-> site.at, soc |-> targets[i],
                   charging |-> p.charging + time,
                   detours |-> p.detours + site.off * CellDetour,
                   risk |-> p.risk + Risk(trip, arrival),
                   lowest |-> Min({p.lowest, arrival}),
                   stops |-> Append(p.stops, [site |-> site, arrival |-> arrival,
                                              departure |-> targets[i], time |-> time])]]

Expansions(trip, beam) ==
  LET sites == Candidates(trip)
  IN  FlattenSeq([i \in DOMAIN beam |->
        FlattenSeq([j \in DOMAIN sites |-> Visit(trip, beam[i], sites[j])])])

\* The BeamWidth best by cost and estimate, in order; ties keep their order.
Kept(trip, expansions) ==
  LET scored == [i \in DOMAIN expansions |->
                   [plan |-> expansions[i], rank |-> i,
                    score |-> Incurred(expansions[i]) + Remaining(trip, expansions[i])]]
      Ahead(a, b) == \/ Before(a.score, a.plan, b.score, b.plan)
                     \/ /\ ~Before(b.score, b.plan, a.score, a.plan)
                        /\ a.rank < b.rank
      sorted == SortSeq(scored, Ahead)
  IN  [i \in 1 .. Min({BeamWidth, Len(sorted)}) |-> sorted[i].plan]

CheapestCharging(plans) ==   \* mutant: without detours and risk
  FoldLeft(LAMBDA best, p : IF best = {} \/ \E b \in best : p.charging < b.charging
                            THEN {p} ELSE best, {}, plans)

Best(plans) ==
  FoldLeft(LAMBDA best, p : IF best = {} \/ \E b \in best : Before(Incurred(p), p, Incurred(b), b)
                            THEN {p} ELSE best, {}, plans)

\* What the search holds after each depth; pruned: a partial plan was let go.
Optimise(trip) ==
  LET finished(ps) == FlattenSeq([i \in DOMAIN ps |-> SetToSeq(Finish(trip, ps[i]))])
      first == <<Initial(trip)>>
      search[d \in 0 .. trip.stops] ==
        IF d = 0 THEN [beam |-> first, best |-> Best(finished(first)), pruned |-> FALSE]
        ELSE LET before == search[d - 1]
                 next == Expansions(trip, before.beam)
             IN  [beam |-> Kept(trip, next),
                  best |-> Best(SetToSeq(before.best) \o finished(next)),
                  pruned |-> before.pruned \/ (d < trip.stops /\ Len(next) > BeamWidth)]
      last == search[trip.stops]
  IN  [plan |-> last.best, pruned |-> last.pruned]
=============================================================================
