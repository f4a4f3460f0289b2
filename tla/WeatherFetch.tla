------------------------------ MODULE WeatherFetch ------------------------------
(***************************************************************************)
(* What the weather service's observations along a route are: the stations *)
(* nearest to the sampled points, and for each of them one report put      *)
(* together from up to three product files.  Places lie on a line, times   *)
(* are ten-minute intervals, humidity is in per cent, the rest in tenths.  *)
(***************************************************************************)
EXTENDS Integers, Sequences, FiniteSets, SequencesExt, FiniteSetsExt

CONSTANTS Unreported   \* no measurement, no file, no moment asked for

Missing == -9990       \* MISSING_VALUE, in tenths
Freezing == 5          \* _SNOW_TEMPERATURE_C
Wet == 1               \* _WET_THRESHOLD_MM
Gale == 172            \* _STORM_WIND_MS
Foggy == 98            \* _FOG_HUMIDITY_PERCENT
Cloudy == 85           \* _CLOUD_HUMIDITY_PERCENT

\* The order in which a station's files are read.
Products == <<"air", "wind", "precipitation">>

Apart(a, b) == IF a < b THEN b - a ELSE a - b

-----------------------------------------------------------------------------
(* The points of a corridor *)

PointsPerRoute == 4

\* Every step-th vertex and the last one, none twice.
SamplePoints(vertices) ==
  LET last == Len(vertices)
      step == Max({1, (last - 1) \div (PointsPerRoute - 1)})
      taken == {i \in 1 .. last : (i - 1) % step = 0 \/ i = last}
      new == {i \in taken : \A j \in taken : j < i => vertices[j] # vertices[i]}
  IN  [i \in 1 .. Cardinality(new) |-> vertices[SetToSortSeq(new, <)[i]]]

-----------------------------------------------------------------------------
(* The stations *)

\* The first of the stations that are nearest to a point.
Nearest(stations, point) ==
  CHOOSE i \in DOMAIN stations : \A j \in DOMAIN stations :
    \/ Apart(point, stations[i]) < Apart(point, stations[j])
    \/ Apart(point, stations[i]) = Apart(point, stations[j]) /\ i <= j

\* The stations of all points, the nearest to its point first, no more than the cap.
Contacted(request) ==
  LET stations == request.stations
      points == request.points
      serves(i) == {p \in DOMAIN points : Nearest(stations, points[p]) = i}
      reach(i) == Min({Apart(points[p], stations[i]) : p \in serves(i)})
      before(i, j) == \/ reach(i) < reach(j)
                      \/ reach(i) = reach(j) /\ Min(serves(i)) < Min(serves(j))
      ranked == SetToSortSeq({i \in DOMAIN stations : serves(i) # {}}, before)
  IN  SubSeq(ranked, 1, Min({request.cap, Len(ranked)}))

-----------------------------------------------------------------------------
(* The report of a station *)

\* A bug SelectTimestamp guards against: the row nearest to the moment, which may be later.
SelectNearest(rows, at) ==
  IF at = Unreported THEN Max(DOMAIN rows)
  ELSE CHOOSE t \in DOMAIN rows : \A u \in DOMAIN rows : Apart(t, at) <= Apart(u, at)

\* The latest row, or the last one by the moment asked for if there is one.
SelectTimestamp(rows, at) ==
  LET earlier == {t \in DOMAIN rows : at = Unreported \/ t <= at}
  IN  IF earlier # {} THEN Max(earlier) ELSE Min(DOMAIN rows)

\* The files a station has, by product; a file is [mode, rows], rows a function of time.
Files(request, i) == [p \in ToSet(Products) |-> request.files[i][p]]

HasRows(file) == file # Unreported /\ DOMAIN file.rows # {}

\* The file that settles the moment: the temperatures', or else the first with any rows.
Primary(files) == SelectInSeq(Products, LAMBDA p : HasRows(files[p]))

\* A sentinel is no measurement, and neither is a row of another moment.
Measurement(files, product, time, column) ==
  LET file == files[product]
  IN  IF file = Unreported THEN Unreported
      ELSE IF time \notin DOMAIN file.rows THEN Unreported
      ELSE IF file.rows[time][column] <= Missing THEN Unreported
      ELSE file.rows[time][column]

AtLeast(value, threshold) == value # Unreported /\ value >= threshold

DeriveCondition(temp, rain, wind, humidity) ==
  CASE AtLeast(wind, Gale) -> "storm"
    [] ~AtLeast(wind, Gale) /\ AtLeast(rain, Wet) ->
         IF temp # Unreported /\ temp <= Freezing THEN "snow" ELSE "rain"
    [] OTHER ->
         IF humidity # Unreported
         THEN IF humidity >= Foggy THEN "fog" ELSE IF humidity >= Cloudy THEN "clouds" ELSE "clear"
         ELSE IF temp # Unreported \/ rain # Unreported THEN "clear" ELSE "unknown"

ClampPercent(value) == IF value = Unreported THEN value ELSE Max({0, Min({100, value})})

\* The report of station i as a set: empty if it has no rows at all.
ObservationFor(request, i) ==
  LET files == Files(request, i)
      primary == Primary(files)
      time == SelectTimestamp(files[Products[primary]].rows, request.at)
      temp == Measurement(files, "air", time, "temp")
      humidity == Measurement(files, "air", time, "humidity")
      wind == Measurement(files, "wind", time, "speed")
      rain == Measurement(files, "precipitation", time, "rain")
  IN  IF primary = 0 THEN {}
      ELSE {[station |-> i, time |-> time, temp |-> temp, rain |-> rain, wind |-> wind,
             humidity |-> ClampPercent(humidity),
             condition |-> DeriveCondition(temp, rain, wind, humidity)]}

\* The least live of what contributed; what nothing contributed to is the sample.
LeastLive(modes) ==
  IF modes = {} \/ "fixture" \in modes THEN "fixture"
  ELSE IF "cache" \in modes THEN "cache" ELSE "live"

StationMode(request, i) ==
  LeastLive({f.mode : f \in {request.files[i][p] : p \in ToSet(Products)} \ {Unreported}})

FetchObservations(request) ==
  LET contacted == Contacted(request)
  IN  [reports |-> UNION {ObservationFor(request, i) : i \in ToSet(contacted)},
       mode |-> LeastLive({request.mode} \cup {StationMode(request, i) : i \in ToSet(contacted)})]
=============================================================================
