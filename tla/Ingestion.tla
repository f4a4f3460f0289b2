------------------------------- MODULE Ingestion -------------------------------
(***************************************************************************)
(* The ingestion pipelines: the run row every pipeline keeps, the          *)
(* live -> cache -> fixture chain its provider walks, and the transactions *)
(* that write what was read.                                               *)
(*                                                                         *)
(*   "traffic"   roadworks and closures -> traffic_events: one upsert, then*)
(*               a sweep, in its own transaction, that ends what vanished  *)
(*   "register"  the Ladesaeulenregister -> charging_stations and          *)
(*               charging_points, in one transaction                       *)
(*   "routes"    demo corridors -> routes and route_segments, one          *)
(*               transaction for each corridor                             *)
(*   "weather"   the DWD's stations -> weather_stations in a transaction   *)
(*               of its own, then what they measure -> weather_observations*)
(*                                                                         *)
(* A process may die between any two steps.  Pipelines use disjoint tables *)
(* and cache namespaces, so a behaviour follows the runs of one of them.   *)
(* The DAGs run with max_active_runs=1, a command line knows no such limit.*)
(*                                                                         *)
(* Stations and corridors are parent rows with child rows (connectors,     *)
(* segments) that are deleted and inserted again.  Their upsert locks the  *)
(* parent row until the transaction ends; a statement sees what is         *)
(* committed when it starts.                                               *)
(***************************************************************************)
EXTENDS Integers, Sequences, FiniteSets

CONSTANTS
  Event,         \* traffic event identifiers
  Endpoint,      \* the (road, service) requests of one poll, numbered
  Home,          \* [Event -> Endpoint \cup {None}]: where an event is published
  Road,          \* [Event -> roads]: its road_name
  Polled,        \* the roads the pipeline was configured with
  SampleEvents,  \* events of the bundled traffic sample
  Station,       \* sites of the register, or weather stations, in file order
  SampleStations,\* those of the bundled excerpt
  Corridor,      \* demo corridors, numbered in seeding order
  Policies,      \* DataMode of a run: a subset of {"live", "auto", "fixture"}
  Overlapping,   \* pipelines of which two runs may be under way at once
  MaxRuns,       \* bound: runs of each pipeline
  MaxActive,     \* bound: runs under way at once
  MaxChanges,    \* bound: changes of what the sources publish
  MaxFaults,     \* bound: failed writes, lost files and dead processes
  None           \* nothing there

ASSUME IngestionAssumption ==
  /\ None \notin Nat
  /\ Home \in [Event -> Endpoint \cup {None}]
  /\ SampleEvents \subseteq Event
  /\ Endpoint \subseteq Nat /\ Station \subseteq Nat /\ Corridor \subseteq Nat
  /\ Station \cap Corridor = {}
  /\ SampleStations \subseteq Station
  /\ Policies \subseteq {"live", "auto", "fixture"}
  /\ MaxActive \in Nat /\ MaxChanges \in Nat
  /\ MaxFaults \in Nat

Pipeline == {"traffic", "register", "routes", "weather"}
ASSUME RunsAssumption == MaxRuns \in [Pipeline -> Nat]

ProviderMode == {"live", "cache", "fixture"}
Parent == Station \cup Corridor

\* Edition 0 of the register is the bundled excerpt.
Edition == 0 .. MaxChanges + 1

VARIABLES
  followed,   \* the pipeline whose runs the behaviour follows
  \* What the sources publish
  listed,     \* traffic events published now
  broken,     \* events whose published form the quality rules reject
  edition,    \* edition of the register that can be downloaded
  \* Files
  cache,      \* [Endpoint -> cached listing or None]
  pointer,    \* edition the register's cache pointer names, or None
  archived,   \* edition of the newest file of the raw zone, or None
  \* Processes
  run,        \* one record for each run started
  \* The database
  row,        \* data_ingestion_runs: one record for each run
  events,     \* traffic_events: "missing", "open" or "ended"
  parent,     \* stations and routes: the edition and the run of the stored row
  children,   \* the runs whose connectors, segments or observations are stored
  \* History and bounds
  unseen,     \* events unpublished, or hidden by a lost cache write, since stored
  outdated,   \* endpoints whose cached listing is not the last one received
  changes,
  faults

feed == <<followed, listed, broken, edition, changes>>
files == <<cache, pointer, archived, outdated>>
tables == <<events, parent, children, unseen>>
vars == <<feed, files, run, row, tables, faults>>

NoRow == [edition |-> None, by |-> None]

Listing(good, bad) == [good |-> good, bad |-> bad]

\* What an endpoint answers now, split by the verdict of the quality rules.
Published(e) ==
  LET here == {x \in listed : Home[x] = e} IN Listing(here \ broken, here \cap broken)

Init ==
  /\ followed \in Pipeline
  /\ listed = {x \in Event : Home[x] # None}
  /\ broken = {}
  /\ edition = 1
  /\ cache = [e \in Endpoint |-> None]
  /\ pointer = None /\ archived = None
  /\ run = <<>> /\ row = <<>>
  /\ events = [x \in Event |-> "missing"]
  /\ parent = [p \in Parent |-> NoRow]
  /\ children = [p \in Parent |-> {}]
  /\ unseen = Event \ listed
  /\ outdated = {}
  /\ changes = 0 /\ faults = 0

Fault == faults < MaxFaults /\ faults' = faults + 1

--------------------------------------------------------------------------------
\* What is read may change at any time.

EventChanges(x) ==
  /\ followed = "traffic" /\ changes < MaxChanges /\ Home[x] # None
  /\ changes' = changes + 1
  /\ \/ listed' = (listed \ {x}) \cup ({x} \ listed) /\ UNCHANGED broken
     \/ broken' = (broken \ {x}) \cup ({x} \ broken) /\ UNCHANGED listed
  /\ unseen' = unseen \cup (Event \ (listed' \ broken'))
  /\ UNCHANGED <<followed, edition, files, run, row, events, parent, children, faults>>

NewEdition ==
  /\ followed = "register" /\ changes < MaxChanges
  /\ changes' = changes + 1
  /\ edition' = edition + 1
  /\ UNCHANGED <<followed, listed, broken, files, run, row, tables, faults>>

\* The cache directory goes (a new container); the raw zone is kept.
CacheLost ==
  /\ Fault
  /\ cache' = [e \in Endpoint |-> None]
  /\ pointer' = None
  /\ outdated' = {}
  /\ UNCHANGED <<feed, archived, run, row, tables>>

--------------------------------------------------------------------------------
\* The run row.

\* What is left of a run that has ended; closing its session rolled it back.
Ended(record, pc) == [record EXCEPT !.pc = pc, !.policy = None, !.todo = {}, !.locks = {},
                                    !.touched = {}, !.deleted = [p \in Parent |-> {}]]

Active == {r \in DOMAIN run : run[r].pc \notin {"done", "dead"}}

At(r, p, pc) == followed = p /\ r \in Active /\ run[r].pc = pc

\* Sites and corridors are done in order.  The requests of a poll are answered
\* in any order, but touch nothing in common: one order stands for all.
First(r, i) == i \in run[r].todo /\ \A j \in run[r].todo : i <= j

\* The work a pipeline starts with: requests, or corridors.
Work == CASE followed = "traffic"  -> Endpoint
          [] followed \in {"register", "weather"} -> {}
          [] followed = "routes"   -> Corridor

\* A bug InFlight guards against: the row opens with the outcome hoped for.
InFlightOptimistic == [status |-> "success", mode |-> "fixture", finished |-> FALSE]

\* The row claims the worst until the run has ended.
InFlight == [status |-> "failed", mode |-> "fixture", finished |-> FALSE]

StartRun(policy) ==
  /\ Len(run) < MaxRuns[followed]
  /\ Active = {} \/ (followed \in Overlapping /\ Cardinality(Active) < MaxActive)
  /\ run' = Append(run,
       [policy |-> policy, pc |-> "load", todo |-> Work,
        good |-> {}, bad |-> {}, modes |-> {}, stored |-> {},
        fetched |-> None, served |-> None, disturbed |-> FALSE, known |-> {},
        locks |-> {}, touched |-> {}, deleted |-> [q \in Parent |-> {}]])
  /\ row' = Append(row, InFlight)
  /\ UNCHANGED <<feed, files, tables, faults>>

Weakest(modes) == IF modes = {} \/ "fixture" \in modes THEN "fixture"
                  ELSE IF "cache" \in modes THEN "cache" ELSE "live"

Mode(r) == Weakest(run[r].modes)

Outcome(r) == IF run[r].bad = {} THEN "success"
              ELSE IF run[r].good # {} THEN "partial" ELSE "failed"

\* The body has ended: the counters and the mode go onto the row.  When that
\* update fails, the row stays as it was opened.
CloseRun(r) ==
  /\ r \in Active /\ run[r].pc = "close"
  /\ run' = [run EXCEPT ![r] = Ended(@, "done")]
  /\ \/ /\ row' = [row EXCEPT ![r] = [status |-> Outcome(r), mode |-> Mode(r), finished |-> TRUE]]
        /\ UNCHANGED faults
     \/ Fault /\ UNCHANGED row
  /\ UNCHANGED <<feed, files, tables>>

\* The body raised: its transaction is rolled back and the row closed, if the
\* database answers.  The fault that made it raise is the caller's.
Raise(r) ==
  /\ run' = [run EXCEPT ![r] = Ended(@, "done")]
  /\ \/ row' = [row EXCEPT ![r].finished = TRUE]
     \/ UNCHANGED row

Crash(r) ==
  /\ r \in Active
  /\ Fault
  /\ run' = [run EXCEPT ![r] = Ended(@, "dead")]
  /\ UNCHANGED <<feed, files, row, tables>>

\* A transaction, or the write of the lake before it, fails.
WriteFails(r) ==
  /\ r \in Active /\ run[r].pc \in {"write", "sweep", "store"}
  /\ Fault
  /\ Raise(r)
  /\ UNCHANGED <<feed, files, tables>>

--------------------------------------------------------------------------------
\* Traffic: each request walks its own chain.  A request that raises ends the
\* run at once; what its other requests would still cache is left out.

Received(r, e, listing, mode) ==
  run' = [run EXCEPT ![r].todo = @ \ {e},
                     ![r].good = @ \cup listing.good,
                     ![r].bad = @ \cup listing.bad,
                     ![r].modes = @ \cup {mode}]

\* FileCache.set_json reports a failed write only by its result, and the
\* provider does not look at it.
LoadLive(r, e) ==
  /\ At(r, "traffic", "load") /\ First(r, e)
  /\ run[r].policy # "fixture"
  /\ Received(r, e, Published(e), "live")
  /\ \/ /\ cache' = [cache EXCEPT ![e] = Published(e)]
        /\ outdated' = outdated \ {e}
        /\ UNCHANGED faults
     \/ /\ Fault
        /\ outdated' = IF cache[e] = None THEN outdated ELSE outdated \cup {e}
        /\ UNCHANGED cache
  /\ UNCHANGED <<feed, pointer, archived, row, tables>>

\* A source may fail to answer any request.  A live run uses nothing else.
LoadRaises(r, e) ==
  /\ At(r, "traffic", "load") /\ First(r, e)
  /\ run[r].policy = "live"
  /\ Raise(r)
  /\ UNCHANGED <<feed, files, tables, faults>>

LoadCached(r, e) ==
  /\ At(r, "traffic", "load") /\ First(r, e)
  /\ run[r].policy = "auto" /\ cache[e] # None
  /\ Received(r, e, cache[e], "cache")
  /\ unseen' = IF e \in outdated THEN unseen \cup {x \in Event : Home[x] = e} ELSE unseen
  /\ UNCHANGED <<feed, files, row, events, parent, children, faults>>

LoadSample(r, e) ==
  /\ At(r, "traffic", "load") /\ First(r, e)
  /\ \/ run[r].policy = "auto" /\ cache[e] = None
     \/ run[r].policy = "fixture"
  /\ Received(r, e, Listing(SampleEvents, {}), "fixture")
  /\ UNCHANGED <<feed, files, row, tables, faults>>

\* Every column is refreshed, ends_at included: a published event is open.
Refreshed(r) == [x \in Event |-> IF x \in run[r].good THEN "open" ELSE events[x]]

UpsertEvents(r) ==
  /\ At(r, "traffic", "load") /\ run[r].todo = {}
  /\ events' = Refreshed(r)
  /\ unseen' = (unseen \ run[r].good) \cup (Event \ (listed \ broken))
  /\ run' = [run EXCEPT ![r].pc = "sweep", ![r].stored = run[r].good]
  /\ UNCHANGED <<feed, files, row, parent, children, faults>>

\* The upsert's transaction fails.
UpsertEventsFails(r) ==
  /\ At(r, "traffic", "load") /\ run[r].todo = {}
  /\ Fault
  /\ Raise(r)
  /\ UNCHANGED <<feed, files, tables>>

\* A bug Swept guards against: a poll answered in part by the sample sweeps.
SweptInFixtureMode(r) == {Road[x] : x \in run[r].good} \cap Polled

\* The roads a run may sweep: polled, and answered with an accepted event.
Swept(r) == IF Mode(r) = "fixture" THEN {}
            ELSE {Road[x] : x \in run[r].good} \cap Polled

\* A bug Vanished guards against: the events just stored are not spared.
VanishedUnfiltered(r) == {x \in Event : events[x] = "open" /\ Road[x] \in Swept(r)}

Vanished(r) == {x \in Event : events[x] = "open" /\ Road[x] \in Swept(r) /\ x \notin run[r].good}

CloseVanished(r) ==
  /\ At(r, "traffic", "sweep")
  /\ events' = [x \in Event |-> IF x \in Vanished(r) THEN "ended" ELSE events[x]]
  /\ run' = [run EXCEPT ![r].pc = "close"]
  /\ UNCHANGED <<feed, files, row, parent, children, unseen, faults>>

--------------------------------------------------------------------------------
\* The register: the provider is asked for one record, which settles the mode;
\* the file to stream is then looked up again.

Disturb(self) == [r \in DOMAIN run |->
  IF r # self /\ At(r, "register", "locate") THEN [run[r] EXCEPT !.disturbed = TRUE] ELSE run[r]]

\* A bug NewPointer guards against: an entry that is there is not replaced.
NewPointerOnce == IF pointer = None THEN edition ELSE pointer

\* The pointer's key is the same for every edition; it names the last download.
NewPointer == edition

ProbeLive(r) ==
  /\ At(r, "register", "load") /\ run[r].policy # "fixture"
  /\ archived' = edition
  /\ \E kept \in BOOLEAN :
       /\ IF kept THEN pointer' = NewPointer /\ UNCHANGED faults
                  ELSE UNCHANGED pointer /\ Fault
       /\ run' = [Disturb(r) EXCEPT ![r].pc = "locate", ![r].modes = {"live"},
                                    ![r].fetched = edition, ![r].disturbed = ~kept]
  /\ UNCHANGED <<feed, cache, outdated, row, tables>>

ProbeRaises(r) ==
  /\ At(r, "register", "load") /\ run[r].policy = "live"
  /\ Raise(r)
  /\ UNCHANGED <<feed, files, tables, faults>>

ProbeFallback(r) ==
  /\ At(r, "register", "load") /\ run[r].policy # "live"
  /\ LET cached == run[r].policy = "auto" /\ pointer # None IN
     run' = [run EXCEPT ![r].pc = "locate",
                        ![r].modes = {IF cached THEN "cache" ELSE "fixture"},
                        ![r].fetched = IF cached THEN pointer ELSE 0]
  /\ UNCHANGED <<feed, files, row, tables, faults>>

\* _locate_csv: the pointer, else the newest archived file.
Located(r) == IF Mode(r) = "fixture" THEN 0
              ELSE IF pointer # None THEN pointer ELSE archived

LocateFile(r) ==
  /\ At(r, "register", "locate")
  /\ LET file == Located(r)
         sites == IF file = 0 THEN SampleStations ELSE Station IN
     run' = [run EXCEPT ![r].pc = "write", ![r].served = file,
                        ![r].todo = sites, ![r].good = sites]
  /\ UNCHANGED <<feed, files, row, tables, faults>>

--------------------------------------------------------------------------------
\* Parent rows and their child rows.

\* A bug Locked guards against: the parent's id is read, the row not locked.
LockedNever(p) == FALSE

\* A row a transaction has upserted is locked until that transaction ends.
Locked(p) == \E r \in DOMAIN run : p \in run[r].locks

\* The register writes a site only if it differs from the stored row, and
\* replaces the connectors of the sites it wrote.
Changed(r, p) == followed \in {"routes", "weather"} \/ parent[p].edition # run[r].served

\* One row: the upsert, then the removal of the child rows it can see.
UpsertParent(r, p) ==
  /\ r \in Active /\ run[r].pc = "write"
  /\ First(r, p)
  /\ ~Locked(p)
  /\ run' = [run EXCEPT ![r].todo = @ \ {p}, ![r].locks = @ \cup {p},
                        ![r].touched = IF Changed(r, p) THEN @ \cup {p} ELSE @,
                        ![r].deleted[p] = children[p]]
  /\ UNCHANGED <<feed, files, row, tables, faults>>

Replaced(r, p) == (children[p] \ run[r].deleted[p]) \cup {r}

\* What the transaction wrote becomes visible.
Commit(r) ==
  /\ parent' = [p \in Parent |-> IF p \in run[r].touched
                                 THEN [edition |-> run[r].served, by |-> r] ELSE parent[p]]
  /\ children' = [p \in Parent |-> IF p \in run[r].touched THEN Replaced(r, p) ELSE children[p]]

\* A bug WholeRegister guards against: a transaction for every batch.
EveryBatch(r) == run[r].locks # {}

\* The register's one transaction ends with its last site.
WholeRegister(r) == run[r].todo = {}

CommitRegister(r) ==
  /\ At(r, "register", "write") /\ WholeRegister(r)
  /\ Commit(r)
  /\ run' = [run EXCEPT ![r].pc = IF run[r].todo = {} THEN "close" ELSE "write",
                        ![r].locks = {}, ![r].touched = {},
                        ![r].stored = run[r].good \ run[r].todo]
  /\ UNCHANGED <<feed, files, row, events, unseen, faults>>

\* A corridor is routed and its transaction starts, or it is passed over.
RouteCorridor(r, c) ==
  /\ At(r, "routes", "load") /\ First(r, c)
  /\ \E mode \in ProviderMode :
       /\ run[r].policy = "live" => mode = "live"
       /\ run[r].policy = "fixture" => mode = "fixture"
       /\ run' = [run EXCEPT ![r].modes = @ \cup {mode}, ![r].good = @ \cup {c}, ![r].pc = "write"]
  /\ UNCHANGED <<feed, files, row, tables, faults>>

CorridorFails(r, c) ==
  /\ At(r, "routes", "load") /\ First(r, c)
  /\ run' = [run EXCEPT ![r].bad = @ \cup {c}, ![r].todo = @ \ {c}]
  /\ UNCHANGED <<feed, files, row, tables, faults>>

CommitCorridor(r) ==
  /\ At(r, "routes", "write") /\ run[r].locks # {}
  /\ Commit(r)
  /\ run' = [run EXCEPT ![r].pc = "load", ![r].locks = {}, ![r].touched = {},
                        ![r].stored = run[r].good]
  /\ UNCHANGED <<feed, files, row, events, unseen, faults>>

CorridorsDone(r) ==
  /\ At(r, "routes", "load") /\ run[r].todo = {}
  /\ run' = [run EXCEPT ![r].pc = "close"]
  /\ UNCHANGED <<feed, files, row, tables, faults>>

--------------------------------------------------------------------------------
\* Weather: the list of stations is asked for twice, once to be stored and once to find
\* the stations near the sampled points, and each time it may come from elsewhere.

\* Modes in which a source answers under the policy of run r.
Answering(r) == CASE run[r].policy = "live"    -> {"live"}
                  [] run[r].policy = "fixture" -> {"fixture"}
                  [] OTHER                     -> ProviderMode

Catalogue(mode) == IF mode = "fixture" THEN SampleStations ELSE Station

ListStations(r) ==
  /\ At(r, "weather", "load")
  /\ \E mode \in Answering(r) :
       run' = [run EXCEPT ![r].pc = "write", ![r].todo = Catalogue(mode),
                          ![r].fetched = IF mode = "fixture" THEN mode ELSE None]
  /\ UNCHANGED <<feed, files, row, tables, faults>>

\* Either request may raise, the first before anything is written.
WeatherRaises(r) ==
  /\ At(r, "weather", "load") \/ At(r, "weather", "observe")
  /\ run[r].policy = "live"
  /\ Raise(r)
  /\ UNCHANGED <<feed, files, tables, faults>>

\* The stations become visible, and the ids of all that are stored are read.
CommitStations(r) ==
  /\ At(r, "weather", "write") /\ run[r].todo = {}
  /\ parent' = [p \in Parent |-> IF p \in run[r].touched THEN [edition |-> 0, by |-> r] ELSE parent[p]]
  /\ run' = [run EXCEPT ![r].pc = "observe", ![r].locks = {}, ![r].touched = {},
                        ![r].known = {p \in Station : parent'[p] # NoRow}]
  /\ UNCHANGED <<feed, files, row, events, children, unseen, faults>>

\* Some of the stations listed now report; the rules accept some of the reports.
Observe(r) ==
  /\ At(r, "weather", "observe")
  /\ \E mode, product \in Answering(r) : \E good \in SUBSET Catalogue(mode) :
     \E bad \in {{}, Catalogue(mode) \ good} :
       run' = [run EXCEPT ![r].pc = "store", ![r].modes = {Weakest({mode, product})},
                          ![r].good = good, ![r].bad = bad, ![r].fetched = None,
                          ![r].disturbed = run[r].fetched = "fixture" /\ mode # "fixture"]
  /\ UNCHANGED <<feed, files, row, tables, faults>>

\* A report of a station whose id is not known is passed over.
Storable(r) == run[r].good \cap run[r].known

\* A report replaces what is stored of its station and its ten minutes.
StoreObservations(r) ==
  /\ At(r, "weather", "store")
  /\ children' = [p \in Parent |-> IF p \in Storable(r) THEN {r} ELSE children[p]]
  /\ run' = [run EXCEPT ![r].pc = "close", ![r].stored = Storable(r), ![r].known = {}]
  /\ UNCHANGED <<feed, files, row, events, parent, unseen, faults>>

--------------------------------------------------------------------------------
TrafficStep(r) ==
  \/ \E e \in Endpoint : LoadLive(r, e) \/ LoadRaises(r, e) \/ LoadCached(r, e) \/ LoadSample(r, e)
  \/ UpsertEvents(r) \/ UpsertEventsFails(r) \/ CloseVanished(r)

RegisterStep(r) ==
  \/ ProbeLive(r) \/ ProbeRaises(r) \/ ProbeFallback(r) \/ LocateFile(r) \/ CommitRegister(r)

RoutesStep(r) ==
  \/ \E c \in Corridor : RouteCorridor(r, c) \/ CorridorFails(r, c)
  \/ CommitCorridor(r) \/ CorridorsDone(r)

WeatherStep(r) ==
  \/ ListStations(r) \/ WeatherRaises(r) \/ CommitStations(r) \/ Observe(r) \/ StoreObservations(r)

Next ==
  \/ \E x \in Event : EventChanges(x)
  \/ NewEdition
  \/ CacheLost
  \/ \E policy \in Policies : StartRun(policy)
  \/ \E r \in Active :
       \/ TrafficStep(r) \/ RegisterStep(r) \/ RoutesStep(r) \/ WeatherStep(r)
       \/ \E p \in Parent : UpsertParent(r, p)
       \/ WriteFails(r) \/ CloseRun(r) \/ Crash(r)

Spec == Init /\ [][Next]_vars

--------------------------------------------------------------------------------
\* A run row never claims more than the database holds: a run that is not
\* "failed" has committed every row it accepted, and one that says "live" read
\* nothing from a cache or a sample.  Whatever the process dies of, and
\* whichever write fails, the row under-claims (IngestionPipeline._open_run).
\* Only the reports of stations that were not on the bundled list, when that was the one
\* stored, go without a word on the row (WeatherIngestionPipeline._upsert_observations).
RunRowsUnderclaim ==
  \A r \in DOMAIN run :
    /\ row[r].status # "failed" => \/ run[r].stored = run[r].good
                                 \/ /\ followed = "weather" /\ run[r].disturbed
                                    /\ run[r].stored \subseteq run[r].good
                                    /\ run[r].good \cap SampleStations \subseteq run[r].stored
    /\ row[r].mode = "live" => run[r].modes = {"live"}

\* After a poll that ran to its end, the open events of every polled road that
\* answered are those the poll accepted: what vanished is ended, and what came
\* back is open again (TrafficIngestionPipeline._upsert, _close_vanished_events).
PollMirrorsFeed ==
  \A r \in DOMAIN run :
    (followed = "traffic" /\ run[r].pc = "close" /\ Mode(r) # "fixture")
    => \A x \in Event : Road[x] \in {Road[y] : y \in run[r].good} \cap Polled
                          => (events[x] = "open" <=> x \in run[r].good)

\* No end is made up: an event is ended only if, since it was last stored, its
\* source did not publish it in an acceptable form - or an older listing was
\* read from the cache because writing the newer one had failed.
EndedWereUnseen == \A x \in Event : events[x] = "ended" => x \in unseen

\* The stored events follow the sources in both directions.
EventsFollowSources == PollMirrorsFeed /\ EndedWereUnseen

\* A run that dies half way, or that overlaps another, never leaves the stations
\* describing two editions of the register (ChargingIngestionPipeline._execute).
\* Only the bundled excerpt, which lists some sites of an edition of its own,
\* can mix with what was stored before.
StationsAreOneEdition ==
  \/ \E s \in Station : parent[s].edition = 0
  \/ \A s, t \in Station : parent[s].edition = parent[t].edition

\* Connectors and segments belong to the stored version of their station or
\* route: overlapping runs neither double them nor lose them
\* (ChargingIngestionPipeline._replace_points, RouteSeedPipeline._replace_segments).
\* A station has one report of its ten minutes, and only once it is stored itself.
ChildrenMatchParent ==
  \A p \in Parent :
    IF followed = "weather" THEN /\ Cardinality(children[p]) <= 1
                                 /\ parent[p] = NoRow => children[p] = {}
    ELSE children[p] = IF parent[p] = NoRow THEN {} ELSE {parent[p].by}

\* A register run that says "live" streamed the file it downloaded, unless the
\* pointer was not written or another run or a clean-up replaced it between the
\* download and the look-up (BundesnetzagenturChargingProvider._fetch_live,
\* ChargingIngestionPipeline._locate_csv).
LiveRunsServeTheirDownload ==
  \A r \in DOMAIN run :
    (followed = "register" /\ row[r].mode = "live" /\ ~run[r].disturbed)
      => run[r].served = run[r].fetched

\* What is stored of the register is one edition, and the one the run claims.
RegisterIsConsistent == StationsAreOneEdition /\ LiveRunsServeTheirDownload
================================================================================
