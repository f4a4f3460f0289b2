---------------------------- MODULE CorridorCoverage ----------------------------
(***************************************************************************)
(* The gap analysis of a corridor (_COVERAGE_SQL) and the two endpoints'   *)
(* reading of it.  A corridor is a record: length, parts (the pieces the   *)
(* line is subdivided into, as <<from, to>> offsets), sites (a set of      *)
(* [id, at, off, kw], at being the projection and off the lateral          *)
(* distance).  A query is a record: buffer, power, top, threshold, all.    *)
(* Lengths are in cells.                                                   *)
(***************************************************************************)
EXTENDS Sums

\* A line and the sites projected onto it; its pieces are all of it.
IsCorridor(corridor) ==
  /\ corridor.length \in Nat
  /\ IsFiniteSet(corridor.sites)
  /\ \A s \in corridor.sites :
       s.at \in 0 .. corridor.length /\ s.off \in Nat /\ s.kw \in Nat /\ s.id \in Int
  /\ \A s, t \in corridor.sites : s.id = t.id => s = t
  /\ \A part \in corridor.parts : part[1] \in Nat /\ part[2] \in Nat
  /\ \A x \in 0 .. corridor.length : \E part \in corridor.parts : part[1] <= x /\ x <= part[2]

\* What the endpoints let through.
IsQuery(query) ==
  /\ query.buffer \in Nat /\ query.power \in Nat /\ query.threshold \in Nat
  /\ query.top \in Nat \ {0} /\ query.all \in BOOLEAN

\* How far a site is from one piece of the line, around its nearer end.
FromPart(site, part) == site.off + Max({0, part[1] - site.at, site.at - part[2]})

Joined(corridor, query) ==
  {row \in corridor.sites \X corridor.parts :
     /\ row[1].kw >= (IF query.all THEN 0 ELSE query.power)
     /\ FromPart(row[1], row[2]) <= query.buffer}

\* DISTINCT: a site near the join of two pieces matches both.
InCorridor(corridor, query) == {row[1] : row \in Joined(corridor, query)}

\* Ordered by position, then id.
Qualifying(corridor, query) ==
  LET sites == {s \in InCorridor(corridor, query) : s.kw >= query.power}
  IN  Sorted(sites, {p \in sites \X sites :
                       \/ p[1].at < p[2].at
                       \/ p[1].at = p[2].at /\ p[1].id < p[2].id})

Gap(from, to, kind) == [from |-> from, to |-> to, kind |-> kind]

GapLength(gap) == gap.to - gap.from

Between(stops) == [i \in 1 .. (Len(stops) - 1) |-> Gap(stops[i].at, stops[i + 1].at, "between")]

GapsWithoutEdges(corridor, query) ==   \* mutant: the stretches between sites only
  LET stops == Qualifying(corridor, query)
  IN  IF Len(stops) < 2 THEN <<Gap(0, corridor.length, "whole_route")>> ELSE Between(stops)

Gaps(corridor, query) ==
  LET stops == Qualifying(corridor, query)
  IN  IF stops = <<>>
      THEN <<Gap(0, corridor.length, "whole_route")>>
      ELSE <<Gap(0, stops[1].at, "origin")>> \o Between(stops)
             \o <<Gap(Last(stops).at, corridor.length, "destination")>>

\* The longest first, then the first along the route.
Ranked(gaps) ==
  LET places == DOMAIN gaps
      order == Sorted(places, {p \in places \X places :
                                 \/ GapLength(gaps[p[1]]) > GapLength(gaps[p[2]])
                                 \/ GapLength(gaps[p[1]]) = GapLength(gaps[p[2]]) /\ p[1] < p[2]})
  IN  [k \in places |-> gaps[order[k]]]

ReportedAboveThreshold(ranked, query) ==   \* mutant: a corridor that breaches nothing is lost
  AtPlaces(ranked, {k \in DOMAIN ranked : k <= query.top /\ GapLength(ranked[k]) >= query.threshold})

\* The first rank stays whatever the threshold.
Reported(ranked, query) ==
  AtPlaces(ranked, {k \in DOMAIN ranked :
                      k <= query.top /\ (GapLength(ranked[k]) >= query.threshold \/ k = 1)})

\* compute_corridor_coverage for one route; counts are -1 where they are withheld.
Coverage(corridor, query) ==
  LET gaps == Gaps(corridor, query)
      ranked == Ranked(gaps)
      inside == InCorridor(corridor, query)
  IN  [qualifying |-> Cardinality({s \in inside : s.kw >= query.power}),
       stations |-> IF query.all /\ inside # {} THEN Cardinality(inside) ELSE -1,
       count |-> Len(gaps),
       longest |-> GapLength(ranked[1]),
       total |-> Added([i \in DOMAIN gaps |-> GapLength(gaps[i])]),
       gaps |-> Reported(ranked, query)]

\* underserved: the stretches above the threshold of a corridor that breaches it.
Underserved(coverage, query) ==
  IF coverage.longest > query.threshold
  THEN AtPlaces(coverage.gaps, {k \in DOMAIN coverage.gaps :
                                  GapLength(coverage.gaps[k]) > query.threshold})
  ELSE <<>>
=============================================================================
