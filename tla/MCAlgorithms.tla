------------------------------ MODULE MCAlgorithms ------------------------------
EXTENDS Algorithms, TLC

Leg(from, cells, rate) == [from |-> from, cells |-> cells, energy |-> rate * cells]

Site(id, at, off, kw) == [id |-> id, at |-> at, off |-> off, kw |-> kw]

Trip(segments, sites, start, reserve, stops) ==
  [segments |-> segments, sites |-> sites, start |-> start, reserve |-> reserve,
   target |-> reserve, stops |-> stops, spacing |-> 2]

\* A short and a long route of two segments each, in order and shuffled.
MCRoutes ==
  {<<Leg(0, 20, 2), Leg(20, 20, 1)>>, <<Leg(20, 20, 2), Leg(0, 20, 1)>>,
   <<Leg(0, 30, 2), Leg(30, 30, 2)>>}

\* Slow and fast sites near and off the route; sites 1 and 2 are in one stretch of it.
MCSites ==
  {Site(1, 10, 0, 50), Site(2, 11, 1, 150), Site(3, 16, 0, 150), Site(4, 24, 1, 300),
   Site(5, 32, 0, 50)}

MCTrips ==
  {Trip(r, s, b, v, n) : r \in MCRoutes, s \in SUBSET MCSites, b \in {45, 70, 100},
                         v \in {10, 20}, n \in {1, 2}}

MCCorridors ==
  {[length |-> 8, parts |-> {<<0, 4>>, <<4, 8>>}, sites |-> s] :
     s \in SUBSET {Site(1, 0, 0, 150), Site(2, 3, 1, 50), Site(3, 4, 0, 150),
                   Site(4, 4, 1, 150), Site(5, 6, 2, 300), Site(6, 8, 1, 50)}}

MCQueries ==
  {[buffer |-> b, power |-> p, top |-> n, threshold |-> t, all |-> a] :
     b \in {1, 2}, p \in {50, 150}, n \in {1, 9}, t \in {2, 5}, a \in BOOLEAN}

Conditions(cells, speed, grade, temp, battery, accel, severity, headwind, duration) ==
  [cells |-> cells, speed |-> speed, grade |-> grade, temp |-> temp, battery |-> battery,
   accel |-> accel, severity |-> severity, headwind |-> headwind, duration |-> duration]

MCConditions ==
  {Conditions(1, v, g, t, b, a, 0, h, d) :
     v \in {0, 5, 13}, g \in {-6, -1, 0, 4}, t \in {-10, 8, 35}, b \in {Unknown, -20, 12},
     a \in {-5, 0, 3}, h \in {-8, 0, 4}, d \in {Unknown, 0, 600}}

\* Two segments: slow and fast, flat and steep, warm and cold.
MCDrives ==
  {<<Conditions(1, v, g, t, Unknown, 0, s, h, d), Conditions(2, 10, -g, 20, b, 0, 0, 0, Unknown)>> :
     v \in {5, 13}, g \in {-6, 0, 3}, t \in {-10, 20}, b \in {Unknown, -10}, s \in {0, 3},
     h \in {0, 4}, d \in {Unknown, 400}}

Event(id, from, to, off, severity, ends, mode) ==
  [id |-> id, from |-> from, to |-> to, off |-> off, severity |-> severity,
   starts |-> Unknown, ends |-> ends, mode |-> mode]

Reading(id, station, at, off, time, temp, mode) ==
  [id |-> id, station |-> station, at |-> at, off |-> off, time |-> time, temp |-> temp, mode |-> mode]

Stored(cells, class, assumed) == [cells |-> cells, class |-> class, limit |-> Unknown, assumed |-> assumed]

Step(cells, class, speed) == [cells |-> cells, class |-> class, limit |-> 8, speed |-> speed]

Request(rows, steps, events, readings, buffer, radius, rate) ==
  [rows |-> rows, pieces |-> <<2, 2, 1>>, steps |-> steps, average |-> 9, mode |-> "live",
   events |-> events, readings |-> readings, buffer |-> buffer, radius |-> radius, age |-> 3,
   rate |-> rate, start |-> 6000, reserve |-> 1500]

MCRows ==
  {<<>>, <<Stored(2, "motorway", Unknown), Stored(2, "urban", 4), Stored(1, "motorway", 12)>>}

MCSteps ==
  {<<>>, <<Step(1, "urban", 4), Step(1, "motorway", 0), Step(2, "motorway", 12)>>,
   <<Step(3, "motorway", 13), Step(1, "urban", 0), Step(1, "urban", 5)>>}

MCEvents ==
  {Event(1, 1, 4, 0, 3, Unknown, "live"), Event(2, 4, 4, 1, 1, 12, "fixture"),
   Event(3, 6, 6, 0, 2, 10, "live"), Event(4, 0, 5, 0, 3, 8, "live")}

MCReadings ==
  {Reading(1, 7, 1, 0, 9, -10, "live"), Reading(2, 7, 1, 0, 11, 30, "live"),
   Reading(3, 7, 1, 0, 5, 35, "fixture"), Reading(4, 8, 4, 1, 2, 25, "live"),
   Reading(5, Unknown, 5, 1, 8, 0, "fixture"), Reading(6, 9, 3, 0, 10, Unknown, "live")}

MCRequests ==
  {Request(r, <<>>, e, w, b, 1, Unknown) :
     r \in MCRows, e \in SUBSET MCEvents, w \in {{}, MCReadings}, b \in {0, 1}}
    \cup {Request(r, <<>>, e, w, 1, 1, Unknown) :
     r \in MCRows, e \in {{}, MCEvents}, w \in SUBSET MCReadings}
    \cup {Request(Unknown, s, e, {}, 1, 1, p) :
     s \in MCSteps, e \in SUBSET MCEvents, p \in {Unknown, -300, 1000}}
    \cup {[Request(Unknown, s, {}, {}, 1, 1, p) EXCEPT !.start = b, !.reserve = 0] :
     s \in MCSteps, p \in {Unknown, 1000}, b \in {0, 3000, 5000}}

MCAnalyses ==
  {{[kind |-> "energy", condition |-> c] : c \in MCConditions},
   {[kind |-> "explain", segments |-> s, energies |-> e] :
            s \in MCDrives, e \in {<<900, 1500>>, <<0, 2500>>, <<1000>>}},
   {[kind |-> "analyse", request |-> r] : r \in MCRequests}}

File(mode, rows) == [mode |-> mode, rows |-> rows]

Air(temp, humidity) == [temp |-> temp, humidity |-> humidity]

\* The files of a station: all, some or none; rows of the same and of different moments.
MCFiles ==
  {[air |-> a, wind |-> w, precipitation |-> p] :
     a \in {Unreported, File("live", <<>>), File("live", (1 :> Air(-20, 101))),
            File("cache", (1 :> Air(Missing, 90)) @@ (4 :> Air(120, 60)))},
     w \in {Unreported, File("live", (2 :> [speed |-> 30]) @@ (4 :> [speed |-> 180]))},
     p \in {Unreported, File("fixture", (1 :> [rain |-> 4])),
            File("live", (1 :> [rain |-> 0]) @@ (4 :> [rain |-> Missing]))}}

MCWeather ==
  {[stations |-> <<0, 4, 9>>, points |-> p, at |-> t, cap |-> c, mode |-> "live",
    files |-> <<f, [air |-> File("live", (2 :> Air(10, Missing))), wind |-> Unreported,
                    precipitation |-> Unreported], g>>] :
     p \in {<<2>>, <<8, 1>>, <<0, 1, 2, 5, 6, 7, 8, 9, 9>>}, t \in {Unreported, 0, 3},
     c \in {1, 3}, f \in MCFiles, g \in MCFiles}

MCPlace(lat, lon) == ("coordinate.latitude" :> lat) @@ ("coordinate.longitude" :> lon)

Stuttgart == MCPlace(Number(49), Number(9))
Swapped == MCPlace(Number(9), Number(49))

\* A site is sound, of an unknown power, or wrong in one way or another.
MCStationRows ==
  {("external_id" :> Thing(k)) @@ ("operator" :> Thing("text")) @@ ("city" :> Thing(c)) @@ Stuttgart
     @@ ("max_power_kw" :> p) :
     k \in {"a", "b"}, c \in {"text", "blank"}, p \in {Number(150), Thing("null"), Number(0)}}

MCEventRows ==
  {("external_id" :> Thing(k)) @@ ("title" :> t) @@ w :
     k \in {"a", "null"}, t \in {Thing("text"), Thing("null")}, w \in {Stuttgart, Swapped}}
    \cup {("external_id" :> Thing("a")) @@ Stuttgart}

MCObservationRows ==
  {("station_id" :> Thing(k)) @@ ("observed_at" :> t) @@ ("temperature_c" :> c) @@ Stuttgart :
     k \in {"a", "null"}, t \in {Instant(-10), Instant(20), Thing("text")}, c \in {Number(7), Number(-999)}}

MCSampleRows ==
  {("vehicle_id" :> Thing(k)) @@ ("recorded_at" :> t) @@ ("battery_soc_percent" :> c)
     @@ ("lat" :> Number(50)) @@ ("lng" :> l) :
     k \in {"a", "b"}, t \in {Instant(1), Instant(2), Instant(3)}, c \in {Number(40), Thing("flag")},
     l \in {Number(8)}}
    \cup {("vehicle_id" :> Thing("a")) @@ ("recorded_at" :> Thing("null")) @@ ("latitude" :> Thing("null"))
           @@ ("lat" :> Number(50)) @@ ("battery_soc_percent" :> Number(101))}

Documents(rules, rows, longest) ==
  {[kind |-> "quality", rules |-> rules, rows |-> d, size |-> 2, strict |-> s] :
     d \in UNION {[1 .. n -> rows] : n \in 0 .. longest}, s \in BOOLEAN}

MCDocuments ==
  {Documents(RegisterRules, MCStationRows, 2), Documents(TrafficRules, MCEventRows, 3),
   Documents(WeatherRules, MCObservationRows, 2), Documents(SampleRules, MCSampleRows, 3)}

\* A moment of a trip: five steps, the last of them perhaps at a standstill, charging or
\* on another road.
MCMoment(driving, speed, class, severity) ==
  LET step == [driving |-> TRUE, speed |-> speed, accel |-> 6, energy |-> speed, class |-> "primary",
               limit |-> Absent, temp |-> -3, battery |-> 4, soc |-> 70, grade |-> -2, rain |-> 1,
               wind |-> 5, severity |-> severity]
  IN  IntervalStatistics([i \in 1 .. 4 |-> step]
        \o <<[step EXCEPT !.driving = driving, !.class = class, !.limit = 50, !.soc = 60]>>)

Halted == MCMoment(FALSE, 0, "primary", 1)

\* Samples are taken every `every`; trip 2 starts late, and the car goes on without a trip.
MCBatch(every, pause, class, arrival) ==
  LET sample(trip, i, last) ==
        [trip |-> IF i <= last THEN trip ELSE Absent, car |-> trip, at |-> every * i,
         completed |-> i = last,
         interval |-> IF i = pause THEN Halted ELSE MCMoment(TRUE, 2 + 3 * (i % 3), class, 1 + (i % 4))]
  IN  [i \in 1 .. 9 |->
         IF i < 3 THEN <<sample(1, i, arrival)>>
         ELSE <<sample(2, i, 9), sample(1, i, arrival)>>]

MCBatches ==
  {<<MCBatch(e, p, c, a)>> : e \in {1, 2, 4, 7}, p \in {2, 4, 5, 7, 9}, c \in {"primary", "trunk"}, a \in {5, 7}}
    \cup {<<MCBatch(e, 4, "service", 6), MCBatch(f, 8, "residential", 8)>> : e, f \in {1, 3, 9}}

\* Each segment has a length of its own; some windows stand still, some recuperate.
MCDraws ==
  {[i \in 1 .. 5 |->
      [segment |-> [length |-> l + i, free |-> f[1 + (i % 2)], grade |-> g, severity |-> s],
       share |-> 100, label |-> 2, kicks |-> <<k[1 + (i % 2)], 0, -10>>]] :
     l \in {20, 400, 900}, f \in {<<40, 350>>, <<350, 100>>}, g \in {-5, 4}, s \in {0, 3},
     k \in [1 .. 2 -> {-50, 3, 40}]}

Row(trip, start) ==
  [trip |-> trip, code |-> "suv_ev", start |-> start, null |-> {}, infinite |-> {}, distance |-> 900,
   duration |-> 60, target |-> 18, speed |-> 50, soc |-> 60, temp |-> 10, battery |-> 12, energy |-> 1]

\* Sound rows, rows that break a rule or several, and a vehicle nobody knows.
MCFrameRows(start) ==
  LET row == Row(1, start)
  IN  {row, [row EXCEPT !.target = 0], [row EXCEPT !.null = {"speed_kmh"}, !.soc = 101],
       [row EXCEPT !.infinite = {"grade", "drag_area"}, !.energy = -1],
       [row EXCEPT !.target = 121, !.battery = 81], [row EXCEPT !.code = "tractor"]}

MCErrors == {<<>>, <<9, 5, 4, 4, 3, 1>>, <<9, 8, 9, 9, 9, 1>>, <<7, 5, 3, 1>>}

MCFrames ==
  {<<a, b, c, Row(2, 1)>> \o rest :
     a \in MCFrameRows(1), b \in MCFrameRows(1), c \in MCFrameRows(1) \cup MCFrameRows(2),
     rest \in {<<>>, <<Row(3, 1), Row(1, 1)>>}}

Road(speed, accel, class, limit, battery, temp, severity, distance) ==
  [speed |-> speed, distance |-> distance, grade |-> 2, temp |-> temp, battery |-> battery,
   accel |-> accel, severity |-> severity, rain |-> 1, wind |-> 4, class |-> class, limit |-> limit]

MCRoads ==
  {Road(v, a, c, l, b, t, s, 10 * v) :
     v \in {0, 6, 30}, a \in {-4, 0, 7}, c \in {"motorway", "residential", "service"},
     l \in {Absent, 80}, b \in {Unknown, -5}, t \in {-8, 20}, s \in {0, 2, 3}}

NothingGiven == [soc |-> Unknown, average |-> Unknown, spread |-> Unknown, accel |-> Unknown,
                 events |-> Unknown, length |-> Unknown]

Effects(values) == [f \in FeatureNames |-> IF f \in DOMAIN values THEN values[f] ELSE 0]

MCEffects ==
  {Effects([speed_kmh |-> a, hvac_load_kw |-> b, outside_temperature_c |-> c, mass_kg |-> d,
            wind_speed_ms |-> -7]) : a \in {-90, 4}, b \in {-30, 31}, c \in {0, 30}, d \in {-5, 200}}

MCTraining ==
  {
    {[kind |-> "windows", batches |-> b, trips |-> t, horizon |-> h] :
     b \in MCBatches, t \in {1, 4}, h \in {6, 20}},
    {[kind |-> "sweep", charge |-> c, weather |-> [temp |-> t], draws |-> d] :
       c \in {300, 5000}, t \in {-10, 20}, d \in MCDraws},
    {[kind |-> "train", request |->
             [frame |-> f, algorithm |-> a, available |-> FALSE, known |-> {"suv_ev"}, errors |-> e]] :
            f \in MCFrames, a \in {"auto"}, e \in MCErrors},
    {[kind |-> "train", request |->
             [frame |-> f, algorithm |-> a, available |-> b, known |-> {"suv_ev"}, errors |-> <<2, 1>>]] :
            f \in {<<>>, <<Row(1, 1), Row(2, 1), Row(3, 1)>>}, a \in {"auto", "lightgbm", "sklearn"},
            b \in BOOLEAN},
    {[kind |-> "predict", vehicle |-> v, conditions |-> c, given |-> [NothingGiven EXCEPT !.soc = g]] :
            v \in ToSet(Profiles), c \in MCRoads, g \in {Unknown, 35}},
    {[kind |-> "attribute", sample |-> <<v, w>>] : v \in MCEffects, w \in MCEffects},
    {[kind |-> "files"]}}

MCTasks ==
  {
    {[kind |-> "plan", trip |-> t] : t \in MCTrips},
    {[kind |-> "coverage", corridor |-> c, query |-> q] : c \in MCCorridors, q \in MCQueries},
    {[kind |-> "weather", request |-> r] : r \in MCWeather},
    {[kind |-> k] : k \in {"stream", "split", "database", "provider", "lake", "fleet"}}}
    \cup MCDocuments \cup MCAnalyses \cup MCTraining

\* Documents of no row, of rows that are let through, rejected, and both in several parts.
MCLakeDocs == {<<>>, <<FALSE>>, <<TRUE, TRUE>>, <<FALSE, TRUE, TRUE>>, <<TRUE, FALSE, TRUE, TRUE, TRUE>>}

MCLake == {{[kind |-> "lake"]}}

MCFleet == {{[kind |-> "fleet"]}}

\* No weight at all, equal ones, and two that leave unequal remainders.
MCMixes == {[c \in {Codes[i] : i \in DOMAIN Codes} |-> 0],
            [compact_ev |-> 1, performance_ev |-> 0, sedan_ev |-> 1, suv_ev |-> 1, van_ev |-> 0],
            [compact_ev |-> 2, performance_ev |-> 0, sedan_ev |-> 0, suv_ev |-> 0, van_ev |-> 7]}

MCDatabase == {{[kind |-> "database"]}}

\* Callers are alike.
Callers == Permutations(Caller)

MCRatio == [f \in Fold |-> IF f = "train" THEN 70 ELSE 15]
=============================================================================
