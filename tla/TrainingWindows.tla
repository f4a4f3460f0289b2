---------------------------- MODULE TrainingWindows ----------------------------
(***************************************************************************)
(* The rows of a training set: samples of simulated trips folded into      *)
(* windows of a minute (training_data.py, with the interval statistics of  *)
(* vehicle.py).                                                            *)
(*                                                                         *)
(* Times are in units of 10 s, lengths in metres, energy in Wh.            *)
(***************************************************************************)
EXTENDS Sums, FiniteSets, FiniteSetsExt, TLC

CONSTANTS Absent   \* no trip, no limit

Window == 6            \* WINDOW_SECONDS
MinDistance == 50      \* MIN_WINDOW_DISTANCE_KM
Unrestricted == 130    \* UNRESTRICTED_SPEED_LIMIT_KMH

\* Residential and service roads share a rank.
ClassOrdinal ==
  [unknown |-> 0, service |-> 1, residential |-> 1, tertiary |-> 2, secondary |-> 3, primary |-> 4,
   trunk |-> 5, motorway |-> 6]


-----------------------------------------------------------------------------
(* The statistics of the physics steps between two samples *)

\* What is averaged over the steps of a window.
Averaged == {"speed", "square", "accel", "temp", "battery", "soc", "grade", "rain", "wind", "limit",
             "severity"}

\* What one step adds: an unrestricted stretch counts as one of 130.
Measured(step) ==
  [q \in Averaged |->
     CASE q = "square" -> step.speed * step.speed
       [] q = "accel"  -> IF step.accel < 0 THEN -step.accel ELSE step.accel
       [] q = "limit"  -> IF step.limit = Absent THEN Unrestricted ELSE step.limit
       [] OTHER        -> step[q]]

Sums(steps) == [q \in Averaged |-> Added([i \in DOMAIN steps |-> Measured(steps[i])[q]])]

\* Speeds are in m/s here, accelerations in 0.1 m/s2, a step takes a second.  The classes
\* are sorted by name, which matters where two of one rank meet.
IntervalStatistics(steps) ==
  [steps    |-> Len(steps),
   driving  |-> Len(SelectSeq(steps, LAMBDA s : s.driving)),
   seconds  |-> Len(steps),
   distance |-> Added([i \in DOMAIN steps |-> steps[i].speed]),
   energy   |-> Added([i \in DOMAIN steps |-> steps[i].energy]),
   events   |-> Len(SelectSeq(steps, LAMBDA s : s.accel >= 5 \/ s.accel <= -5)),
   sums     |-> Sums(steps),
   classes  |-> LET classes == [i \in DOMAIN steps |-> steps[i].class]
                IN  SelectSeq(classes, LAMBDA c : c # "service")
                      \o SelectSeq(classes, LAMBDA c : c = "service")]

-----------------------------------------------------------------------------
(* The aggregator *)

NoWindows == [open |-> <<>>, windows |-> <<>>, completed |-> {}, dropped |-> 0]

StartWindow(sample, index, anchor) ==
  [trip |-> sample.trip, car |-> sample.car, index |-> index, start |-> anchor,
   intervals |-> <<>>, drivingOnly |-> TRUE]

WindowIndex(window, at) == window.index + (at - window.start) \div Window

Whole(window, field) == Added([i \in DOMAIN window.intervals |-> window.intervals[i][field]])

\* Of the classes with the most steps the highest, of one rank the first that was met.
DominantClass(classes) ==
  LET steps(class) == Len(SelectSeq(classes, LAMBDA c : c = class))
      met(class) == SelectInSeq(classes, LAMBDA c : c = class)
      before(c, d) == \/ steps(c) > steps(d)
                      \/ steps(c) = steps(d) /\ ClassOrdinal[c] > ClassOrdinal[d]
                      \/ steps(c) = steps(d) /\ ClassOrdinal[c] = ClassOrdinal[d] /\ met(c) <= met(d)
  IN  IF classes = <<>> THEN "unknown"
      ELSE CHOOSE c \in ToSet(classes) : \A d \in ToSet(classes) : before(c, d)

\* To the nearest integer, halves to the even one.
Rounded(n, d) ==
  LET low == n \div d
      twice == 2 * (n % d)
  IN  IF twice > d \/ (twice = d /\ low % 2 = 1) THEN low + 1 ELSE low

\* Back from the mean of the ordinals 1 (low) to 4 (severe).
MeanSeverity(sum, steps) ==
  IF steps = 0 THEN 1 ELSE Max({1, Min({4, Rounded(sum, steps)})})

Qualifies(window) ==
  /\ window.drivingOnly
  /\ window.intervals # <<>>
  /\ Whole(window, "steps") > 0
  /\ Whole(window, "distance") >= MinDistance
  /\ Whole(window, "seconds") > 0

\* The row of a window, without the derived columns of its class and vehicle.
Aggregate(window) ==
  LET steps == Whole(window, "steps")
      sum(q) == Added([i \in DOMAIN window.intervals |-> window.intervals[i].sums[q]])
      mean(q) == sum(q) \div steps
      classes == FlattenSeq([i \in DOMAIN window.intervals |-> window.intervals[i].classes])
  IN  [trip |-> window.trip, car |-> window.car, start |-> window.start, end |-> window.start + Window,
       distance |-> Whole(window, "distance"), seconds |-> Whole(window, "seconds"),
       energy |-> Whole(window, "energy"),
       speed |-> mean("speed"),
       average |-> Whole(window, "distance") \div Whole(window, "seconds"),
       spread |-> Max({0, mean("square") - mean("speed") * mean("speed")}),
       accel |-> mean("accel"),
       events |-> (1000 * Whole(window, "events")) \div Whole(window, "distance"),
       temp |-> mean("temp"), battery |-> mean("battery"), soc |-> mean("soc"),
       class |-> DominantClass(classes), limit |-> mean("limit"),
       severity |-> MeanSeverity(sum("severity"), steps),
       rain |-> mean("rain"), wind |-> mean("wind"), grade |-> mean("grade")]

Close(aggregator, window) ==
  IF Qualifies(window) THEN [aggregator EXCEPT !.windows = Append(@, Aggregate(window))]
  ELSE [aggregator EXCEPT !.dropped = @ + 1]

\* A bug AddSample guards against: the next window starts where its first sample is.
AddSampleDrifting(aggregator, sample) ==
  LET started == [aggregator EXCEPT !.completed = IF sample.completed THEN @ \cup {sample.trip} ELSE @]
      current == IF sample.trip \in DOMAIN aggregator.open THEN aggregator.open[sample.trip]
                 ELSE StartWindow(sample, 0, sample.at)
      index == WindowIndex(current, sample.at)
      kept == IF index = current.index THEN started ELSE Close(started, current)
      window == IF index = current.index THEN current ELSE StartWindow(sample, index, sample.at)
      grown == [window EXCEPT
                  !.intervals = Append(@, sample.interval),
                  !.drivingOnly = @ /\ sample.interval.driving = sample.interval.steps]
  IN  IF sample.trip = Absent THEN aggregator
      ELSE [kept EXCEPT !.open = (sample.trip :> grown) @@ @]

\* A sample without a trip is ignored; one of a later window closes the trip's open one.
AddSample(aggregator, sample) ==
  LET started == [aggregator EXCEPT !.completed = IF sample.completed THEN @ \cup {sample.trip} ELSE @]
      current == IF sample.trip \in DOMAIN aggregator.open THEN aggregator.open[sample.trip]
                 ELSE StartWindow(sample, 0, sample.at)
      index == WindowIndex(current, sample.at)
      anchor == current.start + Window * (index - current.index)
      kept == IF index = current.index THEN started ELSE Close(started, current)
      window == IF index = current.index THEN current ELSE StartWindow(sample, index, anchor)
      grown == [window EXCEPT
                  !.intervals = Append(@, sample.interval),
                  !.drivingOnly = @ /\ sample.interval.driving = sample.interval.steps]
  IN  IF sample.trip = Absent THEN aggregator
      ELSE [kept EXCEPT !.open = (sample.trip :> grown) @@ @]

\* Windows of trips that are over stay open until here.
Flush(aggregator) ==
  LET rest == SetToSeq({aggregator.open[t] : t \in DOMAIN aggregator.open})
  IN  [FoldLeft(Close, aggregator, rest) EXCEPT !.open = <<>>]

-----------------------------------------------------------------------------
(* A generation *)

\* The anchors of the batches, in hours after the first: days apart, at changing hours.
SeasonalStarts(batches) ==
  [i \in 1 .. batches |-> 24 * Rounded((i - 1) * 365, batches) + (((i - 1) * 5) % 24)]

\* Tick after tick until enough trips have completed or the horizon is reached.
GenerateBatch(ticks, trips, horizon) ==
  LET tick(aggregator, i) ==
        IF Cardinality(aggregator.completed) >= trips \/ i > horizon THEN aggregator
        ELSE FoldLeft(AddSample, aggregator, ticks[i])
  IN  Flush(FoldLeft(tick, NoWindows, [i \in DOMAIN ticks |-> i]))

\* By time, then by trip.
InOrder(rows) ==
  SortSeq(rows, LAMBDA a, b : a.start < b.start \/ (a.start = b.start /\ a.trip < b.trip))

PerBatch(trips, batches) == Max({1, -((-trips) \div batches)})

\* Every batch drives the same fleet: only its anchor tells its trips from those of another.
TripName(trip, hour) == IF trip = Absent THEN Absent ELSE 10 * hour + trip

\* The samples of a batch count their time from its anchor, six units a minute.
Anchored(ticks, hour) ==
  [i \in DOMAIN ticks |-> [j \in DOMAIN ticks[i] |->
     [ticks[i][j] EXCEPT !.at = @ + 360 * hour, !.trip = TripName(@, hour)]]]

Generate(batches, trips, horizon) ==
  LET n == Len(batches)
      starts == SeasonalStarts(n)
      done == [i \in 1 .. n |->
                 GenerateBatch(Anchored(batches[i], starts[i]), PerBatch(trips, n), horizon)]
  IN  [rows |-> InOrder(FlattenSeq([i \in 1 .. n |-> done[i].windows])),
       trips |-> Added([i \in 1 .. n |-> Cardinality(done[i].completed)]),
       dropped |-> Added([i \in 1 .. n |-> done[i].dropped])]
=============================================================================
