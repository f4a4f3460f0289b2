------------------------------- MODULE Algorithms -------------------------------
(***************************************************************************)
(* The parts of the program that work by themselves, one task at a time: a *)
(* charging plan, a coverage analysis, the analyses of a route, the        *)
(* validation of a source document, the split of a training frame, a       *)
(* live-map client, the database under its migrations.                     *)
(***************************************************************************)
EXTENDS Analyses, ChargingPlanner, CorridorCoverage, QualityGate, LiveStream, TripSplit, Database,
        ProviderCalls, WeatherFetch, ServedFeatures, TrainingFiles, DataLake, Fleet

ASSUME CoverageAssumption ==
  \A tasks \in Tasks : \A t \in tasks :
    t.kind = "coverage" => IsCorridor(t.corridor) /\ IsQuery(t.query)

vars == <<task, result, streamVars, splitVars, databaseVars, providerVars, filesVars, lakeVars, fleetVars>>

Init ==
  /\ \E tasks \in Tasks : task \in tasks
  /\ result = Pending
  /\ StreamInit /\ (task.kind # "stream" => boxed = (CHOOSE b \in Boxes : TRUE))
  /\ SplitInit /\ (task.kind # "split" => frameRows = 0)
  /\ DatabaseInit /\ (task.kind # "database" => ~sparse)
  /\ ProviderInit /\ (task.kind # "provider" => policy = "live" /\ kind = "place")
  /\ FilesInit /\ LakeInit /\ FleetInit

PlanCharging ==
  /\ Asked("plan")
  /\ result' = Optimise(task.trip)
  /\ UNCHANGED <<task, streamVars, splitVars, databaseVars, providerVars, filesVars, lakeVars, fleetVars>>

AnalyseCoverage ==
  /\ Asked("coverage")
  /\ result' = Coverage(task.corridor, task.query)
  /\ UNCHANGED <<task, streamVars, splitVars, databaseVars, providerVars, filesVars, lakeVars, fleetVars>>

ValidateDocument ==
  /\ Asked("quality")
  /\ result' = Validate(task.rules, task.rows, task.strict)
  /\ UNCHANGED <<task, streamVars, splitVars, databaseVars, providerVars, filesVars, lakeVars, fleetVars>>

ReadWeather ==
  /\ Asked("weather")
  /\ result' = FetchObservations([task.request EXCEPT !.points = SamplePoints(@)])
  /\ UNCHANGED <<task, streamVars, splitVars, databaseVars, providerVars, filesVars, lakeVars, fleetVars>>

Analysis ==
  /\ AnalysesNext
  /\ UNCHANGED <<streamVars, splitVars, databaseVars, providerVars, filesVars, lakeVars, fleetVars>>

FollowStream ==
  /\ task.kind = "stream"
  /\ StreamNext
  /\ UNCHANGED <<task, result, splitVars, databaseVars, providerVars, filesVars, lakeVars, fleetVars>>

SplitFrame ==
  /\ task.kind = "split"
  /\ SplitNext
  /\ UNCHANGED <<task, result, streamVars, databaseVars, providerVars, filesVars, lakeVars, fleetVars>>

UseDatabase ==
  /\ task.kind = "database"
  /\ DatabaseNext
  /\ UNCHANGED <<task, result, streamVars, splitVars, providerVars, filesVars, lakeVars, fleetVars>>

AskProviders ==
  /\ task.kind = "provider"
  /\ ProviderNext
  /\ UNCHANGED <<task, result, streamVars, splitVars, databaseVars, filesVars, lakeVars, fleetVars>>

GenerateWindows ==
  /\ Asked("windows")
  /\ result' = Generate(task.batches, task.trips, task.horizon)
  /\ UNCHANGED <<task, streamVars, splitVars, databaseVars, providerVars, filesVars, lakeVars, fleetVars>>

GenerateSweep ==
  /\ Asked("sweep")
  /\ result' = SweepTrip(task.charge, task.weather, task.draws)
  /\ UNCHANGED <<task, streamVars, splitVars, databaseVars, providerVars, filesVars, lakeVars, fleetVars>>

TrainModel ==
  /\ Asked("train")
  /\ result' = Train(task.request)
  /\ UNCHANGED <<task, streamVars, splitVars, databaseVars, providerVars, filesVars, lakeVars, fleetVars>>

\* A segment is predicted from its conditions, and once more from its features alone.
Predict ==
  /\ Asked("predict")
  /\ LET prediction == PredictConditions(task.vehicle, task.conditions, task.given) IN
     result' = [first |-> prediction, again |-> PredictFeatures(prediction.features)]
  /\ UNCHANGED <<task, streamVars, splitVars, databaseVars, providerVars, filesVars, lakeVars, fleetVars>>

\* The first row of the sample is the prediction that is explained.
Attribute ==
  /\ Asked("attribute")
  /\ result' = [contributions |-> Contributions(Head(task.sample)),
                importance |-> GlobalImportance(task.sample)]
  /\ UNCHANGED <<task, streamVars, splitVars, databaseVars, providerVars, filesVars, lakeVars, fleetVars>>

WriteTrainingData ==
  /\ task.kind = "files"
  /\ FilesNext
  /\ UNCHANGED <<task, result, streamVars, splitVars, databaseVars, providerVars, lakeVars, fleetVars>>

WriteLake ==
  /\ task.kind = "lake"
  /\ LakeNext
  /\ UNCHANGED <<task, result, streamVars, splitVars, databaseVars, providerVars, filesVars, fleetVars>>

KeepFleet ==
  /\ task.kind = "fleet"
  /\ FleetNext
  /\ UNCHANGED <<task, result, streamVars, splitVars, databaseVars, providerVars, filesVars, lakeVars>>

Next ==
  \/ KeepFleet
  \/ WriteLake
  \/ GenerateWindows
  \/ GenerateSweep
  \/ TrainModel
  \/ Predict
  \/ Attribute
  \/ WriteTrainingData
  \/ PlanCharging
  \/ AnalyseCoverage
  \/ ValidateDocument
  \/ ReadWeather
  \/ Analysis
  \/ FollowStream
  \/ SplitFrame
  \/ UseDatabase
  \/ AskProviders

Spec == Init /\ [][Next]_vars

-----------------------------------------------------------------------------
(* The rows of the database *)

\* Deleting rows, migrating the schema, seeding a demo and starting runs leave the rows of
\* the others as they are (the tables' ON DELETE rules; seed_demo, register_vehicles).
RowsAreKept == RowsOutliveTheRest /\ FleetIsKept

-----------------------------------------------------------------------------
(* A charging plan, driven cell by cell *)

\* The energy of the cell that starts at offset c.
CellEnergy(trip, c) ==
  LET g == CHOOSE h \in ToSet(trip.segments) : h.from <= c /\ c < EndOf(h)
  IN  g.energy \div g.cells

End(trip) == Max({EndOf(g) : g \in ToSet(trip.segments)})

Driven(trip, from, to) ==
  MapThenSumSet(LAMBDA c : CellEnergy(trip, c), from .. (Min({to, End(trip)}) - 1))

\* An itinerary is a sequence of [site, departure]; Arrivals lists the states of charge
\* at its sites and at the destination.
Arrivals(trip, stops) ==
  LET at(i) == IF i = 0 THEN 0 ELSE IF i > Len(stops) THEN End(trip) ELSE stops[i].site.at
      off(i) == IF i > Len(stops) THEN 0 ELSE stops[i].site.off * Detouring
      leaving(i) == IF i = 0 THEN trip.start ELSE stops[i].departure
  IN  [i \in 1 .. (Len(stops) + 1) |-> leaving(i - 1) - Driven(trip, at(i - 1), at(i)) - off(i)]

Completes(trip, stops) ==
  LET arrivals == Arrivals(trip, stops)
      n == Len(stops)
  IN  /\ \A i \in 1 .. (n + 1) : arrivals[i] >= trip.reserve
      /\ arrivals[n + 1] >= trip.target
      /\ \A i \in 1 .. n :
           /\ stops[i].departure >= arrivals[i] + MinUseful
           /\ stops[i].departure <= Full
           /\ stops[i].site.at > (IF i = 1 THEN 0 ELSE stops[i - 1].site.at) + MinLeg

\* The objective without the driving time, which no plan can change.
Objective(trip, stops) ==
  LET arrivals == Arrivals(trip, stops)
      below(i) == Positive(Min({Full, trip.reserve + RiskBuffer}) - arrivals[i])
      at(i) == ChargeTime(stops[i].site.kw, arrivals[i], stops[i].departure)
                 + 2 * stops[i].site.off * CellDetour
  IN  MapThenSumSet(at, DOMAIN stops) + RiskPenalty * MapThenSumSet(below, DOMAIN arrivals)

\* Every itinerary the search may choose from, whatever its order of exploration.
Itineraries(trip) ==
  LET sites == ToSet(Candidates(trip))
      halts == {[site |-> s, departure |-> t] : s \in sites, t \in Grid}
                 \cup {[site |-> s, departure |-> Driven(trip, s.at, End(trip)) + trip.target]
                         : s \in sites}
  IN  {i \in UNION {[1 .. n -> halts] : n \in 0 .. trip.stops} : Completes(trip, i)}

\* A plan that is returned can be driven: on every leg, cell by cell, the charge stays
\* at or above the reserve, the destination is reached with the target, and the
\* arrival states, the lowest one and the objective are those of the drive.
\* (optimise_charging; _ordered_segments sorts the segments it is given, _integrate
\* prorates them.)
PlanIsSound ==
  Done("plan") =>
    \A plan \in result.plan :
      LET arrivals == Arrivals(task.trip, plan.stops)
      IN  /\ Completes(task.trip, plan.stops)
          /\ Len(plan.stops) <= task.trip.stops
          /\ plan.soc = Last(arrivals)
          /\ plan.lowest = Min({task.trip.start} \cup ToSet(arrivals))
          /\ \A i \in DOMAIN plan.stops : plan.stops[i].arrival = arrivals[i]
          /\ Incurred(plan) = Objective(task.trip, plan.stops)

\* As long as the beam had room for every partial plan, the plan is the best of all
\* itineraries, and there is none only if no itinerary completes the route.
\* (optimise_charging: "The best complete plan by objective wins.")
PlanIsBest ==
  Done("plan") /\ ~result.pruned =>
    LET all == Itineraries(task.trip)
    IN  /\ result.plan = {} <=> all = {}
        /\ \A plan \in result.plan, i \in all : Incurred(plan) <= Objective(task.trip, i)

\* A plan is sound and, while the beam has room, the best there is (optimise_charging).
PlanIsOptimal == PlanIsSound /\ PlanIsBest

-----------------------------------------------------------------------------
(* A coverage analysis, cell by cell *)

\* The sites that count, by the distance to the line itself.
Counts(corridor, query) ==
  {s \in corridor.sites : s.kw >= query.power /\ s.off <= query.buffer}

\* No site that counts strictly inside the stretch.
Bare(corridor, query, from, to) ==
  ~ \E s \in Counts(corridor, query) : from < s.at /\ s.at < to

\* The gaps lay the route end to end exactly once, however many sites share a place or
\* a join of two pieces of the line; no site lies inside one, and the longest is the
\* longest stretch without a site.  (_COVERAGE_SQL, _check_gap_invariant: "the gaps
\* [...] tile the route exactly once".)
GapsTileTheRoute ==
  Done("coverage") =>
    LET corridor == task.corridor
        query == task.query
        gaps == Gaps(corridor, query)
        counts == Counts(corridor, query)
        stretches == {p \in (0 .. corridor.length) \X (0 .. corridor.length) :
                        p[1] <= p[2] /\ Bare(corridor, query, p[1], p[2])}
    IN  /\ \A c \in 0 .. (corridor.length - 1) :
             Cardinality({i \in DOMAIN gaps : gaps[i].from <= c /\ c < gaps[i].to}) = 1
        /\ \A i \in DOMAIN gaps : Bare(corridor, query, gaps[i].from, gaps[i].to)
        /\ result.count = Cardinality(counts) + 1
        /\ result.qualifying = Cardinality(counts)
        /\ result.total = corridor.length
        /\ result.longest = Max({s[2] - s[1] : s \in stretches})

\* A corridor is called underserved exactly if some stretch without a site is longer
\* than the threshold, and then every maximal such stretch is listed, longest first,
\* up to the cap; whatever the threshold, the worst gap is there to be reported.
\* (underserved and the last WHERE of _COVERAGE_SQL.)
UnderservedIsExact ==
  Done("coverage") =>
    LET corridor == task.corridor
        query == task.query
        ends == {0, corridor.length} \cup {s.at : s \in Counts(corridor, query)}
        long == {p \in ends \X ends :
                   p[2] - p[1] > query.threshold /\ Bare(corridor, query, p[1], p[2])}
        listed == Underserved(result, query)
    IN  /\ result.gaps # <<>> /\ GapLength(result.gaps[1]) = result.longest
        /\ Len(listed) = Min({query.top, Cardinality(long)})
        /\ \A i \in DOMAIN listed :
             /\ <<listed[i].from, listed[i].to>> \in long
             /\ Cardinality({p \in long : p[2] - p[1] > GapLength(listed[i])}) < i

\* What coverage and underserved report is what the line and its sites say.
CoverageIsExact == GapsTileTheRoute /\ UnderservedIsExact

-----------------------------------------------------------------------------
(* A source document *)

\* What a rule has against the i-th row, whatever it was asked before.
Breaks(rule, rows, i) ==
  LET key == Key(rule, rows[i])
      before == {j \in 1 .. (i - 1) : ~NoKey(key) /\ Key(rule, rows[j]) = key}
  IN  CASE rule.test = "no_duplicate_key"     -> before # {}
        [] rule.test = "monotonic_timestamps" ->
             \E j \in before : /\ {rows[k][rule.field].kind : k \in {i, j}} = {"time"}
                              /\ rows[j][rule.field].n > rows[i][rule.field].n
        [] OTHER                              -> Fires(rule, rows[i], NothingSeen)

\* A report says what each rule has against each row by itself: a row is let through if no
\* rule has anything, every violation is counted however many are kept, what is withheld of
\* the kept ones is said, and the reports of chunks add up to that of the whole.
\* (RecordValidator, StreamingValidation, QualityReport: "received == accepted + rejected +
\* duplicate".)
ReportsAreExact ==
  Done("quality") =>
    \E report \in {result.report} :
      LET rows == task.rows
          rules == ToSet(task.rules)
          broken == [i \in DOMAIN rows |-> {r \in rules : Breaks(r, rows, i)}]
          total == MapThenSumSet(LAMBDA i : Cardinality(broken[i]), DOMAIN rows)
          duplicates == {i \in DOMAIN rows : {r.name : r \in broken[i]} = {Duplicate}}
          shown == ShownReport(StoredReport(report))
          first(n) == Stream(task.rules, SubSeq(rows, 1, n))
          rest(n) == FoldLeft(LAMBDA r, row : Check(r, task.rules, row),
                              [Fresh(task.rules) EXCEPT !.memory = first(n).memory],
                              SubSeq(rows, n + 1, Len(rows)))
          counters(r) == <<r.received, r.accepted, r.rejected, r.duplicate, r.stats>>
      IN  /\ \A r \in rules : report.stats[r.name] = Cardinality({i \in DOMAIN rows : r \in broken[i]})
          /\ report.accepted = [k \in 1 .. Len(report.accepted) |->
                                  rows[SetToSortSeq({i \in DOMAIN rows : broken[i] = {}}, <)[k]]]
          /\ report.duplicate = Cardinality(duplicates)
          /\ report.received = Len(report.accepted) + report.rejected + report.duplicate
          /\ Len(report.violations) = Min({MaxViolations, total})
          /\ Len(shown.violations) + shown.truncated = Min({MaxStored, total})
          /\ result.raised => Len(report.accepted) < report.rejected + report.duplicate
          /\ \A n \in 1 .. (Len(rows) - 1) : counters(Merge(first(n), rest(n))) = counters(report)

\* Of the rows of one key the first decides: it is written if it is valid, and shuts out
\* the others either way.  So no key is written twice, in one upsert or in two, and a run
\* without a rejected row drops no key.
\* (NoDuplicateKey remembers a key whatever else is wrong with its row;
\* StreamingValidation keeps that memory for the whole document; batched.)
KeysAreWrittenOnce ==
  Done("quality") =>
    \A rule \in {r \in ToSet(task.rules) : <<r.test>> = Duplicate} :
      LET document == task.rows
          written == FlattenSeq(Batched(result.report.accepted, task.size))
          keys == {Key(rule, document[i]) : i \in DOMAIN document}
          first(k) == SelectInSeq(document, LAMBDA r : Key(rule, r) = k)
          valid(i) == \A r \in ToSet(task.rules) : ~Breaks(r, document, i)
      IN  \A k \in {q \in keys : ~NoKey(q)} :
            LET copies == Cardinality({i \in DOMAIN written : Key(rule, written[i]) = k})
            IN  /\ copies = (IF valid(first(k)) THEN 1 ELSE 0)
                /\ Outcome(result.report) = "success" => copies = 1

-----------------------------------------------------------------------------
(* The weather along a route *)

\* A report is of a station that no other beats for some point of the route, and says what
\* that station measured at one moment: the last one by the moment asked for, if there is
\* one; nothing of another moment or of a sentinel gets into it.  Every sampled point is
\* answered by its nearest station as long as the cap allows, the route's ends are
\* sampled, and an answer is called live only if all of it is.
\* (_nearest_stations, _observation_for, _select_timestamp, _corridor_points.)
ReportsAreMeasured ==
  Done("weather") =>
    LET request == task.request
        points == ToSet(SamplePoints(request.points))
        stations == DOMAIN request.stations
        distance(i, p) == Apart(request.stations[i], p)
        near(p) == {i \in stations : \A j \in stations : distance(i, p) <= distance(j, p)}
        measured(x, product, column, value) ==
          LET file == request.files[x.station][product]
          IN  value # Unreported => /\ x.time \in DOMAIN file.rows
                                    /\ file.rows[x.time][column] = value
                                    /\ value > Missing
    IN  /\ {Head(request.points), Last(request.points)} \subseteq points
        /\ Cardinality(result.reports) <= request.cap
        /\ Cardinality(stations) <= request.cap =>
             \A p \in points :
               \/ \E i \in near(p) : \A q \in ToSet(Products) : ~HasRows(request.files[i][q])
               \/ \E x \in result.reports : x.station \in near(p)
        /\ \A x \in result.reports :
             LET air == request.files[x.station]["air"]
             IN  /\ \E p \in points : x.station \in near(p)
                 /\ \A y \in result.reports : x.station = y.station => x = y
                 /\ HasRows(air) /\ request.at # Unreported =>
                      \A t \in DOMAIN air.rows : t <= request.at => t <= x.time /\ x.time <= request.at
                 /\ measured(x, "air", "temp", x.temp)
                 /\ measured(x, "wind", "speed", x.wind)
                 /\ measured(x, "precipitation", "rain", x.rain)
                 /\ AtLeast(x.rain, Wet) => x.condition \in {"rain", "snow", "storm"}
                 /\ x.condition = "snow" => x.temp # Unreported /\ x.temp <= Freezing
                 /\ result.mode = "live" =>
                      \A q \in ToSet(Products) :
                        \/ request.files[x.station][q] = Unreported
                        \/ request.files[x.station][q].mode = "live"

\* What a run says of its document, and what it makes of the documents about the weather,
\* is what is in them.  (RecordValidator, StreamingValidation, DWDWeatherProvider.)
DocumentsAreJudged == ReportsAreExact /\ KeysAreWrittenOnce /\ ReportsAreMeasured

-----------------------------------------------------------------------------
(* Where the data come from *)

\* What a source is said to have answered, it has; a sidecar describes the file that is
\* there, a training believes none that does not, and the lake holds the documents and the
\* rows of the run that is said to have written them.
\* (BaseProvider, describe_training_source, DataLake.adopt_raw, ParquetPartWriter.)
SourcesAreHonest == ProvidersHold /\ SourcesAreVerified /\ SidecarsDescribe /\ LakeHoldsTheRun

-----------------------------------------------------------------------------
(* The training set and what is trained on it *)

\* A window is a minute of a trip counted from its first sample, whatever interval the
\* samples have: its row exists exactly if the whole of it was driven and long enough, and
\* says what its samples add up to; a window that leaves no row is counted; no trip has two
\* rows of one start, and the rows of all batches are in one order.  Only the ticks up to
\* the last trip asked for, or the horizon, are in it.
\* (WindowAggregator, generate_seasonal_training_data.)
WindowsAreExact ==
  Done("windows") =>
    LET n == Len(task.batches)
        ticks(b) == task.batches[b]
        wanted == PerBatch(task.trips, n)
        ended(b, i) == {x \in ToSet(ticks(b)[i]) : x.completed}
        over(b, i) == Cardinality(UNION {ended(b, j) : j \in 1 .. i}) >= wanted
        run(b) == {i \in DOMAIN ticks(b) : i <= task.horizon /\ (i = 1 \/ ~over(b, i - 1))}
        samples(b) == {x \in UNION {ToSet(ticks(b)[i]) : i \in run(b)} : x.trip # Absent}
        first(b, t) == Min({x.at : x \in {y \in samples(b) : y.trip = t}})
        start(b, x) == first(b, x.trip) + Window * ((x.at - first(b, x.trip)) \div Window)
        minutes(b) == {[trip |-> x.trip, start |-> start(b, x)] : x \in samples(b)}
        within(b, m) == {x \in samples(b) : x.trip = m.trip /\ start(b, x) = m.start}
        sum(b, m, field) == MapThenSumSet(LAMBDA x : x.interval[field], within(b, m))
        mean(b, m, q) == MapThenSumSet(LAMBDA x : x.interval.sums[q], within(b, m))
                           \div sum(b, m, "steps")
        good(b) == {m \in minutes(b) :
                      /\ sum(b, m, "driving") = sum(b, m, "steps")
                      /\ sum(b, m, "distance") >= MinDistance}
        anchor(b) == SeasonalStarts(n)[b]
        rows(b, m) == {i \in DOMAIN result.rows :
                         /\ result.rows[i].trip = TripName(m.trip, anchor(b))
                         /\ result.rows[i].start = m.start + 360 * anchor(b)}
    IN  /\ \A b \in 1 .. n : \A m \in good(b) :
             /\ Cardinality(rows(b, m)) = 1
             /\ \A i \in rows(b, m) :
                  LET row == result.rows[i]
                  IN  /\ row.distance = sum(b, m, "distance")
                      /\ row.energy = sum(b, m, "energy")
                      /\ row.seconds = sum(b, m, "seconds")
                      /\ row.soc = mean(b, m, "soc") /\ row.limit = mean(b, m, "limit")
                      /\ row.class \in UNION {ToSet(x.interval.classes) : x \in within(b, m)}
                      /\ row.severity \in 1 .. 4
        /\ Len(result.rows) = MapThenSumSet(LAMBDA b : Cardinality(good(b)), 1 .. n)
        /\ Len(result.rows) + result.dropped
             = MapThenSumSet(LAMBDA b : Cardinality(minutes(b)), 1 .. n)
        /\ result.trips = MapThenSumSet(LAMBDA b : Cardinality(UNION {ended(b, i) : i \in run(b)}),
                                        1 .. n)
        /\ \A i, j \in DOMAIN result.rows : i < j =>
             \/ result.rows[i].start < result.rows[j].start
             \/ result.rows[i].start = result.rows[j].start /\ result.rows[i].trip < result.rows[j].trip

\* A trip of the sweep is one drive: its charge is what its earlier windows left, none of
\* them gave anything back, nothing is driven on an empty pack, each segment is driven to
\* its end, over as many windows as that takes, before another is drawn, and inside a
\* window no car brakes or accelerates beyond what it can.  (_generate_trip, _drive_cycle:
\* "the trace can never contain a physically impossible jump".)
SweepsAddUp ==
  Done("sweep") =>
    LET rows == result.rows
        of(i) == {j \in DOMAIN rows : rows[j].segment = rows[i].segment}
        driven(s) == MapThenSumSet(LAMBDA j : rows[j].distance, s)
        used(i) == MapThenSumSet(LAMBDA j : rows[j].energy, 1 .. (i - 1))
    IN  \A i \in DOMAIN rows :
          /\ rows[i].charge = task.charge - used(i)
          /\ rows[i].energy > 0
          /\ i > 1 => /\ rows[i].charge > EmptyPack
                      /\ rows[i - 1].start + Window <= rows[i].start
                      /\ rows[i - 1].battery <= rows[i].battery
          /\ rows[i].battery <= 10 * task.weather.temp + 120
          /\ of(i) = Min(of(i)) .. Max(of(i))
          /\ driven(of(i) \ {Max(of(i))}) < rows[i].segment.length
          /\ Max(of(i)) < Len(rows) => driven(of(i)) >= rows[i].segment.length
          /\ \A a \in ToSet(Accelerations(rows[i].trace)) : a \in Braking .. Accelerating

\* Every row of the file is kept or counted once, under the first rule it breaks; of the
\* sound rows of a window the first is kept, whatever stands before it; what is left never
\* fails the check of the matrices; and no size that was tried is better than the one kept
\* by more than the tolerance.  (clean_training_frame, validate_feature_frame, _fit_sklearn.)
CleaningIsExact ==
  Done("train") =>
    LET frame == task.request.frame
        errors == task.request.errors
        kept == result.cleaned.rows
        broken == {<<i, SelectInSeq(Rules, LAMBDA rule : ~Keeps(rule, frame[i]))>> : i \in DOMAIN frame}
        sound == {b[1] : b \in {p \in broken : p[2] = 0}}
        window(row) == <<row.trip, row.start>>
        steps == result.trees \div StepSize
    IN  /\ \A k \in DOMAIN Rules :
             result.cleaned.rejected[k] = Cardinality({b \in broken : b[2] = k})
        /\ Added(result.cleaned.rejected) + Len(kept) = Len(frame)
        /\ \A i \in sound :
             LET same == {j \in sound : window(frame[j]) = window(frame[i])}
             IN  {k \in ToSet(kept) : window(k) = window(frame[i])} = {frame[Min(same)]}
        /\ IsInjective([i \in DOMAIN kept |-> window(kept[i])])
        /\ result.refusal # "unusable features"
        /\ result.trees > 0 =>
             \A i \in 1 .. Min({Len(errors), steps + Patience}) : errors[i] >= errors[steps] - 1

\* The rows a training learns from are those of the drives.
\* (WindowAggregator, _generate_trip, clean_training_frame.)
TrainingIsSound == WindowsAreExact /\ SweepsAddUp /\ CleaningIsExact

\* A minute driven under unchanging conditions is the same vector for the training as for
\* a prediction from these conditions, with two exceptions: a hard acceleration counts as
\* an event only if it was seen, and a stretch without a limit is one of 130 km/h where the
\* prediction assumes the default of its class.  A prediction made from the vector alone
\* finds its generic vehicle and its conditions again, and the same physical baseline
\* unless the car was accelerating.
\* (TrainingWindow, features_from_conditions, _reconstruct_profile, _conditions_from_features.)
ServingMatchesTraining ==
  Done("predict") =>
    LET c == task.conditions
        vehicle == task.vehicle
        step == [driving |-> TRUE, speed |-> c.speed, accel |-> c.accel, energy |-> 1,
                 class |-> c.class, limit |-> c.limit, temp |-> c.temp,
                 battery |-> PackTemperature(c), soc |-> Given(task.given.soc, 60),
                 grade |-> c.grade, rain |-> c.rain, wind |-> c.wind, severity |-> c.severity + 1]
        half == IntervalStatistics([i \in 1 .. 5 |-> step])
        sample(at) == [trip |-> 1, car |-> vehicle.code, at |-> at, completed |-> FALSE,
                       interval |-> half]
        minute == Flush(AddSample(AddSample(NoWindows, sample(0)), sample(3))).windows
        steady == {Magnitude(c.accel) < 5, c.limit # Absent \/ c.class = "motorway",
                   c.distance = 10 * c.speed}
    IN  /\ minute # <<>> /\ steady = {TRUE} => RowFeatures(minute[1], vehicle) = result.first.features
        /\ result.again = Refused <=> c.speed <= 0
        /\ c.speed > 0 =>
             /\ result.again.vehicle.base = vehicle.code
             /\ \A q \in {"speed", "temp", "grade", "rain", "wind"} : result.again.conditions[q] = c[q]
             /\ c.limit # Absent => result.again.conditions.limit = c.limit
             /\ c.accel = 0 => result.again.baseline = result.first.baseline

\* Every feature's contribution is in exactly one factor, so that the factors add up to
\* what the features do, the factors are those an insight has, and the largest come first;
\* an importance is never more than the whole.
\* (ShapExplainer, PredictionExplanation.by_insight_factor.)
AttributionAddsUp ==
  Done("attribute") =>
    LET factors == ByInsightFactor(result.contributions)
        values == Head(task.sample)
    IN  /\ MapThenSumSet(LAMBDA f : factors[f], DOMAIN factors)
             = MapThenSumSet(LAMBDA f : values[f], FeatureNames)
        /\ DOMAIN factors \subseteq ToSet(Factors) \cup {"other"}
        /\ \A i, j \in DOMAIN result.contributions : i < j =>
             Magnitude(result.contributions[i].contribution)
               >= Magnitude(result.contributions[j].contribution)
        /\ Added([i \in DOMAIN result.importance |-> result.importance[i].share]) <= 100

\* What explains an energy adds up to it, and a prediction is asked of the model in the
\* terms it was trained in.
PredictionsHold == ExplanationAddsUp /\ ServingMatchesTraining /\ AttributionAddsUp
=============================================================================
