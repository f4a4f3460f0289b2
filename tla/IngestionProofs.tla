--------------------------- MODULE IngestionProofs ---------------------------
(***************************************************************************)
(* Proofs about the ingestion pipelines.                                   *)
(*                                                                         *)
(* What a run claims follows from what it keeps of itself: at each point   *)
(* of its pipeline, what it has accepted, stored and locked (RunsOK).      *)
(* What the tables hold follows from locks: a row is locked from its       *)
(* upsert to the end of the transaction, so the child rows a run removed   *)
(* are still those that are there when it commits, and a site it left      *)
(* alone still has the edition it serves (TablesOK).  A register run finds *)
(* the file it downloaded as long as nobody disturbed it (DownloadIsThere).*)
(* The traffic events need more: one poll at a time, and what the caches   *)
(* say of what was last received (FeedInv).                                *)
(*                                                                         *)
(* For each action a lemma says what it does to its run, field by field    *)
(* (StartEffect to StoreEffect); the rest of the proof uses these.         *)
(***************************************************************************)
EXTENDS Ingestion, FiniteSetTheorems, TLAPS

-----------------------------------------------------------------------------
(* Types.                                                                    *)

Ends == {"done", "dead"}

PC == {"load", "sweep", "locate", "write", "observe", "store", "close"} \cup Ends

\* What a run accepts or rejects: traffic events, or numbered sites and corridors.
Thing == Event \cup Nat

RunType ==
  [policy : Policies \cup {None}, pc : PC, todo : SUBSET Nat,
   good : SUBSET Thing, bad : SUBSET Thing, modes : SUBSET ProviderMode, stored : SUBSET Thing,
   fetched : Nat \cup {None, "fixture"}, served : Nat \cup {None}, disturbed : BOOLEAN,
   known : SUBSET Station, locks : SUBSET Parent, touched : SUBSET Parent,
   deleted : [Parent -> SUBSET Nat]]

RowType ==
  [status : {"failed", "success", "partial"}, mode : ProviderMode, finished : BOOLEAN]

FeedTyped ==
  /\ followed \in Pipeline
  /\ listed \subseteq {x \in Event : Home[x] # None} /\ broken \subseteq Event
  /\ edition \in Nat

FilesTyped ==
  /\ cache \in [Endpoint -> {None} \cup [good : SUBSET Event, bad : SUBSET Event]]
  /\ pointer \in Nat \cup {None} /\ archived \in Nat \cup {None}
  /\ outdated \subseteq Endpoint

RunsTyped ==
  run \in Seq(RunType) /\ row \in Seq(RowType) /\ Len(row) = Len(run)

TablesTyped ==
  /\ events \in [Event -> {"missing", "open", "ended"}]
  /\ parent \in [Parent -> [edition : Nat \cup {None}, by : Nat \cup {None}]]
  /\ children \in [Parent -> SUBSET Nat]
  /\ unseen \subseteq Event

IngestionTyped == FeedTyped /\ FilesTyped /\ RunsTyped /\ TablesTyped

-----------------------------------------------------------------------------
(* What a run of pipeline f knows of itself.                                 *)

\* All that was accepted is stored -- but for reports of stations that were not on the
\* bundled list.
AllStored(f, u) ==
  \/ u.stored = u.good
  \/ /\ f = "weather" /\ u.disturbed
     /\ u.stored \subseteq u.good /\ u.good \cap SampleStations \subseteq u.stored

\* The row stays as it was opened until the run is over.
RowWaits(f, u, w) ==
  /\ u.pc # "done" => w.status = "failed" /\ w.mode = "fixture"
  /\ w.status # "failed" => AllStored(f, u)
  /\ w.mode = "live" => /\ u.modes = {"live"}
                        /\ f = "register" /\ ~u.disturbed => u.served = u.fetched

LocksWhileWriting(u) ==
  /\ u.touched \subseteq u.locks
  /\ u.pc # "write" => u.locks = {}

TrafficRun(u) ==
  /\ u.pc \in {"load", "sweep", "close"} \cup Ends
  /\ u.pc \in {"sweep", "close"} => u.stored = u.good

Sites(file) == IF file = 0 THEN SampleStations ELSE Station

\* A register run writes the sites of one file, the one it downloaded if it says so.
RegisterRun(u) ==
  /\ u.pc \in {"load", "locate", "write", "close"} \cup Ends
  /\ u.pc = "write" => u.todo \cup u.locks = Sites(u.served) /\ u.good = Sites(u.served)
  /\ u.pc = "close" => u.stored = u.good
  /\ u.pc \in {"write", "close"} /\ u.modes = {"live"} /\ ~u.disturbed => u.served = u.fetched

RoutesRun(u) ==
  /\ u.pc \in {"load", "write", "close"} \cup Ends
  /\ u.todo \subseteq Corridor /\ u.locks \subseteq Corridor
  /\ u.pc \in {"load", "close"} => u.stored = u.good

\* A weather run knows every station of the list it stored.
WeatherRun(u) ==
  /\ u.pc \in {"load", "write", "observe", "store", "close"} \cup Ends
  /\ u.locks \subseteq Station /\ u.todo \subseteq Station /\ u.touched = u.locks
  /\ u.pc = "write" => /\ SampleStations \subseteq u.todo \cup u.locks
                       /\ u.fetched # "fixture" => Station \subseteq u.todo \cup u.locks
  /\ u.pc = "observe" => /\ SampleStations \subseteq u.known
                         /\ u.fetched # "fixture" => Station \subseteq u.known
  /\ u.pc = "store" => \/ u.good \subseteq u.known
                       \/ u.disturbed /\ u.good \cap SampleStations \subseteq u.known
  /\ u.pc = "close" => AllStored("weather", u)

OwnOK(f, u, w) ==
  /\ RowWaits(f, u, w) /\ LocksWhileWriting(u)
  /\ f = "traffic"  => TrafficRun(u)
  /\ f = "register" => RegisterRun(u)
  /\ f = "routes"   => RoutesRun(u)
  /\ f = "weather"  => WeatherRun(u)

RunsOK == \A r \in DOMAIN run : OwnOK(followed, run[r], row[r])

-----------------------------------------------------------------------------
(* What runs know of each other, of the files and of the tables.             *)

LocksApart ==
  \A r, s \in DOMAIN run : r # s => run[r].locks \cap run[s].locks = {}

\* Nobody changes what a run has locked: the child rows it has removed are those that are
\* there, and what it left alone is what it serves.
LockedRowsStay ==
  \A r \in DOMAIN run : \A p \in run[r].locks :
    /\ followed \in {"register", "routes"} => run[r].deleted[p] = children[p]
    /\ p \notin run[r].touched => followed = "register" /\ parent[p].edition = run[r].served

\* Which pipeline writes which parent rows.
ParentsOf ==
  /\ followed \in {"traffic", "routes"} => \A s \in Station : parent[s] = NoRow
  /\ followed = "traffic" => \A p \in Parent : parent[p] = NoRow
  /\ followed = "weather" => \A s \in Station : parent[s] = NoRow \/ parent[s].edition = 0

\* A station whose id a weather run has read is stored, and stays stored.
KnownAreStored ==
  \A r \in DOMAIN run : run[r].pc \in {"observe", "store"} => \A p \in run[r].known : parent[p] # NoRow

TablesOK ==
  /\ LocksApart /\ LockedRowsStay /\ ParentsOf /\ KnownAreStored
  /\ ChildrenMatchParent /\ StationsAreOneEdition

\* Between the download and the look-up the file is where the run will find it.
DownloadIsThere ==
  \A r \in DOMAIN run :
    followed = "register" /\ run[r].pc = "locate" /\ run[r].modes = {"live"} /\ ~run[r].disturbed
      => /\ run[r].fetched \in Nat /\ archived = run[r].fetched
         /\ pointer = None \/ pointer = run[r].fetched

-----------------------------------------------------------------------------
(* The traffic events, with one run at a time.                               *)

OneAtATime == followed \notin Overlapping => \A r, s \in Active : r = s

\* Only a traffic run writes events.
EventsAreTraffic == followed # "traffic" => \A x \in Event : events[x] # "ended"

\* The bundled sample has no event that is published now.
SampleIsApart == \A x \in SampleEvents : Home[x] = None

TrafficAlone == followed = "traffic" /\ "traffic" \notin Overlapping /\ SampleIsApart

UnlistedIsUnseen == Event \ (listed \ broken) \subseteq unseen

\* What the last listing received did not have has not been seen since.
CacheIsTheLast ==
  \A e \in Endpoint : cache[e] # None =>
    /\ \A x \in cache[e].good : Home[x] = e
    /\ e \notin outdated => \A x \in Event : Home[x] = e => x \in cache[e].good \/ x \in unseen

\* What a poll has received so far of the endpoints it has asked.
PollSoFar ==
  \A r \in Active : run[r].pc = "load" =>
    /\ "fixture" \notin run[r].modes =>
         \A x \in Event : Home[x] \in Endpoint \ run[r].todo => x \in run[r].good \/ x \in unseen
    /\ \A x \in run[r].good \cap Event : Home[x] # None =>
         /\ Home[x] \notin run[r].todo
         /\ cache[Home[x]] = None \/ Home[x] \in outdated \/ x \in cache[Home[x]].good

\* What the sweep will find.
SweepIsRight ==
  \A r \in Active : run[r].pc = "sweep" =>
    /\ \A x \in run[r].good \cap Event : events[x] = "open"
    /\ Mode(r) # "fixture" => \A x \in Event : x \in run[r].good \/ x \in unseen

FeedInv ==
  TrafficAlone => UnlistedIsUnseen /\ CacheIsTheLast /\ PollSoFar /\ SweepIsRight
                  /\ EventsFollowSources

-----------------------------------------------------------------------------
(* Lemmas about the sequence of runs.                                        *)

LEMMA RunsAre ==
  ASSUME RunsTyped
  PROVE  /\ Len(run) \in Nat /\ DOMAIN run = 1 .. Len(run) /\ DOMAIN row = DOMAIN run
         /\ \A r \in DOMAIN run : run[r] \in RunType /\ row[r] \in RowType /\ r \in Nat
BY DEF RunsTyped

LEMMA ActiveIs ==
  ASSUME NEW r
  PROVE  r \in Active <=> r \in DOMAIN run /\ run[r].pc \notin Ends
BY DEF Active, Ends

LEMMA ReplaceOne ==
  ASSUME NEW S, NEW f \in Seq(S), NEW r \in DOMAIN f, NEW x \in S, NEW g, g = [f EXCEPT ![r] = x]
  PROVE  /\ g \in Seq(S) /\ Len(g) = Len(f) /\ DOMAIN g = DOMAIN f
         /\ g[r] = x /\ \A s \in DOMAIN f \ {r} : g[s] = f[s]
<1>1. f \in [1 .. Len(f) -> S] /\ Len(f) \in Nat /\ DOMAIN f = 1 .. Len(f)
  OBVIOUS
<1>2. g \in [1 .. Len(f) -> S]
  BY <1>1
<1>3. g \in Seq(S) /\ Len(g) = Len(f)
  BY <1>1, <1>2
<1> QED BY <1>1, <1>2, <1>3

LEMMA AppendOne ==
  ASSUME NEW S, NEW f \in Seq(S), NEW x \in S, NEW g, g = Append(f, x)
  PROVE  /\ g \in Seq(S) /\ Len(g) = Len(f) + 1 /\ DOMAIN g = DOMAIN f \cup {Len(f) + 1}
         /\ Len(f) + 1 \notin DOMAIN f
         /\ g[Len(f) + 1] = x /\ \A s \in DOMAIN f : g[s] = f[s]
OBVIOUS

\* A step of run r that is about nobody else's record.
Moves(r) ==
  /\ run' \in Seq(RunType) /\ DOMAIN run' = DOMAIN run /\ Len(run') = Len(run)
  /\ \A s \in DOMAIN run \ {r} : run'[s] = run[s]

LEMMA MovesIf ==
  ASSUME RunsTyped, NEW r \in DOMAIN run, NEW u \in RunType, run' = [run EXCEPT ![r] = u]
  PROVE  Moves(r) /\ run'[r] = u
BY ReplaceOne DEF RunsTyped, Moves

LEMMA RowIf ==
  ASSUME RunsTyped, NEW r \in DOMAIN run, NEW w \in RowType, row' = [row EXCEPT ![r] = w]
  PROVE  /\ row' \in Seq(RowType) /\ Len(row') = Len(row) /\ row'[r] = w
         /\ \A s \in DOMAIN run \ {r} : row'[s] = row[s]
BY ReplaceOne, RunsAre DEF RunsTyped

\* What the fields of a run hold.
LEMMA FieldsAre ==
  ASSUME NEW u \in RunType
  PROVE  /\ u.policy \in Policies \cup {None} /\ u.pc \in PC
         /\ u.todo \subseteq Nat /\ u.good \subseteq Thing /\ u.bad \subseteq Thing
         /\ u.modes \subseteq ProviderMode /\ u.stored \subseteq Thing
         /\ u.fetched \in Nat \cup {None, "fixture"} /\ u.served \in Nat \cup {None}
         /\ u.disturbed \in BOOLEAN /\ u.known \subseteq Station
         /\ u.locks \subseteq Parent /\ u.touched \subseteq Parent
         /\ u.deleted \in [Parent -> SUBSET Nat]
BY DEF RunType

LEMMA WeakestIs ==
  ASSUME NEW modes \in SUBSET ProviderMode
  PROVE  /\ Weakest(modes) \in ProviderMode
         /\ Weakest(modes) = "live" <=> modes = {"live"}
         /\ Weakest(modes) # "fixture" <=> modes # {} /\ "fixture" \notin modes
         /\ modes # {} => Weakest(modes) \in modes
BY DEF Weakest, ProviderMode

\* A run that has ended keeps what it accepted and stored, and no lock.
EndsAs(r, pc) ==
  /\ Moves(r)
  /\ run'[r].pc = pc /\ run'[r].locks = {} /\ run'[r].touched = {} /\ run'[r].todo = {}
  /\ run'[r].good = run[r].good /\ run'[r].stored = run[r].stored /\ run'[r].modes = run[r].modes
  /\ run'[r].fetched = run[r].fetched /\ run'[r].served = run[r].served
  /\ run'[r].disturbed = run[r].disturbed

LEMMA EndsIf ==
  ASSUME RunsTyped, NEW r \in DOMAIN run, NEW pc \in Ends,
         run' = [run EXCEPT ![r] = Ended(@, pc)]
  PROVE  EndsAs(r, pc)
<1>1. PICK u : u = Ended(run[r], pc)
  OBVIOUS
<1>2. run[r] \in RunType
  BY RunsAre
<1>3. u \in RunType
  BY <1>1, <1>2 DEF Ended, RunType, PC
<1>4. run' = [run EXCEPT ![r] = u]
  BY <1>1
<1>5. Moves(r) /\ run'[r] = u
  BY <1>3, <1>4, MovesIf
<1> QED BY <1>1, <1>2, <1>5 DEF EndsAs, Ended, RunType

LEMMA RaiseEnds ==
  ASSUME RunsTyped, NEW r \in DOMAIN run, Raise(r)
  PROVE  /\ EndsAs(r, "done") /\ row' \in Seq(RowType) /\ Len(row') = Len(row)
         /\ row'[r].status = row[r].status /\ row'[r].mode = row[r].mode
         /\ \A s \in DOMAIN run \ {r} : row'[s] = row[s]
<1>1. EndsAs(r, "done")
  BY EndsIf DEF Raise, Ends
<1>2. row[r] \in RowType
  BY RunsAre
<1>3. CASE row' = [row EXCEPT ![r].finished = TRUE]
  <2>1. PICK w : w = [row[r] EXCEPT !.finished = TRUE]
    OBVIOUS
  <2>2. w \in RowType /\ w.status = row[r].status /\ w.mode = row[r].mode
    BY <1>2, <2>1 DEF RowType
  <2>3. row' = [row EXCEPT ![r] = w]
    BY <1>3, <2>1
  <2> QED BY <1>1, <2>2, <2>3, RowIf
<1>4. CASE row' = row
  BY <1>1, <1>4 DEF RunsTyped
<1> QED BY <1>3, <1>4 DEF Raise

-----------------------------------------------------------------------------
(* What each step does to the run that takes it.                             *)

\* The run goes on as u.
Becomes(r, u) == u \in RunType /\ run' = [run EXCEPT ![r] = u]

LEMMA BecomesIs ==
  ASSUME RunsTyped, NEW r \in DOMAIN run, NEW u, Becomes(r, u)
  PROVE  Moves(r) /\ run'[r] = u /\ u \in RunType
BY MovesIf DEF Becomes

LEMMA StartEffect ==
  ASSUME IngestionTyped, NEW policy \in Policies, StartRun(policy)
  PROVE  /\ UNCHANGED <<feed, files, tables, faults>>
         /\ Active = {} \/ followed \in Overlapping
         /\ run' \in Seq(RunType) /\ row' \in Seq(RowType)
         /\ Len(run') = Len(run) + 1 /\ Len(row') = Len(run')
         /\ DOMAIN run' = DOMAIN run \cup {Len(run) + 1} /\ Len(run) + 1 \notin DOMAIN run
         /\ \A r \in DOMAIN run : run'[r] = run[r] /\ row'[r] = row[r]
         /\ row'[Len(run) + 1] = InFlight
         /\ run'[Len(run) + 1] =
              [policy |-> policy, pc |-> "load", todo |-> Work,
               good |-> {}, bad |-> {}, modes |-> {}, stored |-> {},
               fetched |-> None, served |-> None, disturbed |-> FALSE, known |-> {},
               locks |-> {}, touched |-> {}, deleted |-> [q \in Parent |-> {}]]
<1>1. RunsTyped
  BY DEF IngestionTyped
<1>2. PICK u : u = [policy |-> policy, pc |-> "load", todo |-> Work,
                    good |-> {}, bad |-> {}, modes |-> {}, stored |-> {},
                    fetched |-> None, served |-> None, disturbed |-> FALSE, known |-> {},
                    locks |-> {}, touched |-> {}, deleted |-> [q \in Parent |-> {}]]
  OBVIOUS
<1>3. Work \subseteq Nat
  BY IngestionAssumption DEF Work, IngestionTyped, FeedTyped, Pipeline
<1>4. u \in RunType
  BY <1>2, <1>3 DEF RunType, PC
<1>5. InFlight \in RowType
  BY DEF InFlight, RowType, ProviderMode
<1>6. run' = Append(run, u) /\ row' = Append(row, InFlight)
  BY <1>2 DEF StartRun
<1>7. /\ run' \in Seq(RunType) /\ Len(run') = Len(run) + 1 /\ DOMAIN run' = DOMAIN run \cup {Len(run) + 1}
      /\ Len(run) + 1 \notin DOMAIN run /\ run'[Len(run) + 1] = u
      /\ \A s \in DOMAIN run : run'[s] = run[s]
  BY <1>1, <1>4, <1>6, AppendOne DEF RunsTyped
<1>8. /\ row' \in Seq(RowType) /\ Len(row') = Len(row) + 1 /\ row'[Len(row) + 1] = InFlight
      /\ \A s \in DOMAIN row : row'[s] = row[s]
  BY <1>1, <1>5, <1>6, AppendOne DEF RunsTyped
<1>9. Len(row) = Len(run) /\ DOMAIN row = DOMAIN run
  BY <1>1, RunsAre DEF RunsTyped
<1> QED BY <1>2, <1>7, <1>8, <1>9 DEF StartRun

LEMMA CloseRunEffect ==
  ASSUME IngestionTyped, NEW r \in DOMAIN run, CloseRun(r)
  PROVE  /\ EndsAs(r, "done") /\ run[r].pc = "close" /\ UNCHANGED <<feed, files, tables>>
         /\ row' \in Seq(RowType) /\ Len(row') = Len(row)
         /\ \A s \in DOMAIN run \ {r} : row'[s] = row[s]
         /\ \/ row'[r].status = Outcome(r) /\ row'[r].mode = Mode(r)
            \/ row'[r] = row[r]
<1>1. RunsTyped /\ run[r] \in RunType
  BY RunsAre DEF IngestionTyped
<1>2. EndsAs(r, "done")
  BY <1>1, EndsIf DEF CloseRun, Ends
<1>3. PICK w : w = [status |-> Outcome(r), mode |-> Mode(r), finished |-> TRUE]
  OBVIOUS
<1>4. w \in RowType
  <2>1. Mode(r) \in ProviderMode
    BY <1>1, FieldsAre, WeakestIs DEF Mode
  <2>2. Outcome(r) \in {"failed", "success", "partial"}
    BY DEF Outcome
  <2> QED BY <1>3, <2>1, <2>2 DEF RowType
<1>8. run[r].pc = "close" /\ UNCHANGED <<feed, files, tables>>
  BY DEF CloseRun
<1>5. row' = [row EXCEPT ![r] = w] \/ UNCHANGED row
  BY <1>3 DEF CloseRun
<1>6. CASE row' = [row EXCEPT ![r] = w]
  <2>1. /\ row' \in Seq(RowType) /\ Len(row') = Len(row) /\ row'[r] = w
        /\ \A s \in DOMAIN run \ {r} : row'[s] = row[s]
    BY <1>1, <1>4, <1>6, RowIf
  <2>2. w.status = Outcome(r) /\ w.mode = Mode(r)
    BY <1>3
  <2> QED BY <1>2, <1>8, <2>1, <2>2
<1>7. CASE UNCHANGED row
  BY <1>1, <1>2, <1>7, <1>8 DEF RunsTyped
<1> QED BY <1>5, <1>6, <1>7

\* Every way a run may end without closing its row as it hoped.
LEMMA FailEffect ==
  ASSUME IngestionTyped, NEW r \in Active,
         \/ Crash(r) \/ WriteFails(r) \/ UpsertEventsFails(r) \/ ProbeRaises(r) \/ WeatherRaises(r)
         \/ \E e \in Endpoint : LoadRaises(r, e)
  PROVE  /\ \E pc \in Ends : EndsAs(r, pc)
         /\ UNCHANGED <<feed, files, tables>>
         /\ row' \in Seq(RowType) /\ Len(row') = Len(row)
         /\ row'[r].status = row[r].status /\ row'[r].mode = row[r].mode
         /\ \A s \in DOMAIN run \ {r} : row'[s] = row[s]
<1>1. RunsTyped /\ r \in DOMAIN run
  BY DEF IngestionTyped, Active
<1>2. CASE Crash(r)
  <2>1. EndsAs(r, "dead")
    BY <1>1, <1>2, EndsIf DEF Crash, Ends
  <2> QED BY <1>1, <1>2, <2>1 DEF Crash, Ends, RunsTyped
<1>3. CASE Raise(r) /\ UNCHANGED <<feed, files, tables>>
  BY <1>1, <1>3, RaiseEnds DEF Ends
<1> QED BY <1>2, <1>3 DEF WriteFails, UpsertEventsFails, ProbeRaises, WeatherRaises, LoadRaises

-----------------------------------------------------------------------------
\* Traffic.

LEMMA ReceivedEffect ==
  ASSUME RunsTyped, NEW r \in DOMAIN run, NEW e, NEW good \in SUBSET Event, NEW bad \in SUBSET Event,
         NEW mode \in ProviderMode, Received(r, e, Listing(good, bad), mode)
  PROVE  Becomes(r, [run[r] EXCEPT !.todo = @ \ {e}, !.good = @ \cup good, !.bad = @ \cup bad,
                                   !.modes = @ \cup {mode}])
<1>1. PICK u : u = [run[r] EXCEPT !.todo = @ \ {e}, !.good = @ \cup good, !.bad = @ \cup bad,
                                  !.modes = @ \cup {mode}]
  OBVIOUS
<1>2. run[r] \in RunType
  BY RunsAre
<1>3. u \in RunType
  BY <1>1, <1>2, FieldsAre DEF RunType, Thing
<1>4. PICK l : l = Listing(good, bad)
  OBVIOUS
<1>5. l.good = good /\ l.bad = bad
  BY <1>4 DEF Listing
<1>6. run' = [run EXCEPT ![r] = u]
  BY <1>1, <1>4, <1>5 DEF Received
<1> QED BY <1>1, <1>3, <1>6 DEF Becomes

\* A request is answered, live, from the cache, or from the sample.
LEMMA LoadEffect ==
  ASSUME IngestionTyped, NEW r \in Active, NEW e \in Endpoint,
         LoadLive(r, e) \/ LoadCached(r, e) \/ LoadSample(r, e)
  PROVE  /\ followed = "traffic" /\ run[r].pc = "load" /\ e \in run[r].todo
         /\ UNCHANGED <<feed, pointer, archived, row, events, parent, children>>
         /\ \E good \in SUBSET Event, bad \in SUBSET Event, mode \in ProviderMode :
              /\ Becomes(r, [run[r] EXCEPT !.todo = @ \ {e}, !.good = @ \cup good, !.bad = @ \cup bad,
                                           !.modes = @ \cup {mode}])
              /\ \/ /\ good = {x \in listed : Home[x] = e} \ broken /\ UNCHANGED unseen
                    /\ \/ /\ \E l \in [good : {good}, bad : SUBSET Event] : cache' = [cache EXCEPT ![e] = l]
                          /\ outdated' = outdated \ {e}
                       \/ /\ outdated' = IF cache[e] = None THEN outdated ELSE outdated \cup {e}
                          /\ UNCHANGED cache
                 \/ /\ cache[e] # None /\ good = cache[e].good /\ UNCHANGED <<cache, outdated>>
                    /\ unseen' = IF e \in outdated THEN unseen \cup {x \in Event : Home[x] = e} ELSE unseen
                 \/ mode = "fixture" /\ good = SampleEvents /\ UNCHANGED <<cache, outdated, unseen>>
<1>0. /\ RunsTyped /\ r \in DOMAIN run /\ listed \subseteq Event
      /\ cache \in [Endpoint -> {None} \cup [good : SUBSET Event, bad : SUBSET Event]]
  BY DEF IngestionTyped, Active, FeedTyped, FilesTyped
<1>1. /\ followed = "traffic" /\ run[r].pc = "load" /\ e \in run[r].todo
      /\ UNCHANGED <<feed, pointer, archived, row, events, parent, children>>
  BY DEF LoadLive, LoadCached, LoadSample, At, First, files, tables
<1>2. CASE LoadLive(r, e)
  <2>1. PICK good, bad : /\ good = {x \in listed : Home[x] = e} \ broken
                         /\ bad = {x \in listed : Home[x] = e} \cap broken
    OBVIOUS
  <2>2. Published(e) = Listing(good, bad) /\ good \in SUBSET Event /\ bad \in SUBSET Event
    BY <1>0, <2>1 DEF Published
  <2>3. Listing(good, bad) \in [good : {good}, bad : SUBSET Event]
    BY <2>2 DEF Listing
  <2>4. /\ Received(r, e, Listing(good, bad), "live") /\ UNCHANGED unseen
        /\ \/ cache' = [cache EXCEPT ![e] = Listing(good, bad)] /\ outdated' = outdated \ {e}
           \/ /\ outdated' = IF cache[e] = None THEN outdated ELSE outdated \cup {e}
              /\ UNCHANGED cache
    BY <1>2, <2>2 DEF LoadLive, tables
  <2>5. /\ "live" \in ProviderMode
        /\ Becomes(r, [run[r] EXCEPT !.todo = @ \ {e}, !.good = @ \cup good, !.bad = @ \cup bad,
                                     !.modes = @ \cup {"live"}])
    BY <1>0, <2>2, <2>4, ReceivedEffect DEF ProviderMode
  <2>6. \/ /\ \E l \in [good : {good}, bad : SUBSET Event] : cache' = [cache EXCEPT ![e] = l]
           /\ outdated' = outdated \ {e}
        \/ /\ outdated' = IF cache[e] = None THEN outdated ELSE outdated \cup {e}
           /\ UNCHANGED cache
    BY <2>3, <2>4
  <2> QED BY <1>1, <2>1, <2>2, <2>4, <2>5, <2>6
<1>3. CASE LoadCached(r, e)
  <2>1. cache[e] # None /\ UNCHANGED <<cache, outdated>>
        /\ unseen' = IF e \in outdated THEN unseen \cup {x \in Event : Home[x] = e} ELSE unseen
    BY <1>3 DEF LoadCached, files
  <2>2. PICK good, bad : good = cache[e].good /\ bad = cache[e].bad
    OBVIOUS
  <2>3. /\ good \in SUBSET Event /\ bad \in SUBSET Event /\ "cache" \in ProviderMode
        /\ cache[e] = Listing(good, bad)
    BY <1>0, <2>1, <2>2 DEF Listing, ProviderMode
  <2>4. Received(r, e, Listing(good, bad), "cache")
    BY <1>3, <2>3 DEF LoadCached
  <2>5. Becomes(r, [run[r] EXCEPT !.todo = @ \ {e}, !.good = @ \cup good, !.bad = @ \cup bad,
                                  !.modes = @ \cup {"cache"}])
    BY <1>0, <2>3, <2>4, ReceivedEffect
  <2> QED BY <1>1, <2>1, <2>2, <2>3, <2>5
<1>4. CASE LoadSample(r, e)
  <2>1. /\ Received(r, e, Listing(SampleEvents, {}), "fixture") /\ UNCHANGED <<cache, outdated, unseen>>
    BY <1>4 DEF LoadSample, files, tables
  <2>2. /\ SampleEvents \in SUBSET Event /\ {} \in SUBSET Event /\ "fixture" \in ProviderMode
    BY IngestionAssumption DEF ProviderMode
  <2>3. Becomes(r, [run[r] EXCEPT !.todo = @ \ {e}, !.good = @ \cup SampleEvents, !.bad = @ \cup {},
                                  !.modes = @ \cup {"fixture"}])
    BY <1>0, <2>1, <2>2, ReceivedEffect
  <2> QED BY <1>1, <2>1, <2>2, <2>3
<1> QED BY <1>2, <1>3, <1>4

LEMMA UpsertEffect ==
  ASSUME IngestionTyped, NEW r \in Active, UpsertEvents(r)
  PROVE  /\ followed = "traffic" /\ run[r].pc = "load" /\ run[r].todo = {}
         /\ UNCHANGED <<feed, files, row, parent, children>>
         /\ events' = Refreshed(r)
         /\ unseen' = (unseen \ run[r].good) \cup (Event \ (listed \ broken))
         /\ Becomes(r, [run[r] EXCEPT !.pc = "sweep", !.stored = run[r].good])
<1>1. run[r] \in RunType
  BY RunsAre DEF IngestionTyped, Active
<1>2. PICK u : u = [run[r] EXCEPT !.pc = "sweep", !.stored = run[r].good]
  OBVIOUS
<1>3. u \in RunType
  BY <1>1, <1>2 DEF RunType, PC
<1>4. run' = [run EXCEPT ![r] = u]
  BY <1>2 DEF UpsertEvents
<1> QED BY <1>2, <1>3, <1>4 DEF UpsertEvents, Becomes, At

LEMMA SweepEffect ==
  ASSUME IngestionTyped, NEW r \in Active, CloseVanished(r)
  PROVE  /\ followed = "traffic" /\ run[r].pc = "sweep"
         /\ UNCHANGED <<feed, files, row, parent, children, unseen>>
         /\ events' = [x \in Event |-> IF x \in Vanished(r) THEN "ended" ELSE events[x]]
         /\ Becomes(r, [run[r] EXCEPT !.pc = "close"])
<1>1. run[r] \in RunType
  BY RunsAre DEF IngestionTyped, Active
<1>2. PICK u : u = [run[r] EXCEPT !.pc = "close"]
  OBVIOUS
<1>3. u \in RunType
  BY <1>1, <1>2 DEF RunType, PC
<1>4. run' = [run EXCEPT ![r] = u]
  BY <1>2 DEF CloseVanished
<1> QED BY <1>2, <1>3, <1>4 DEF CloseVanished, Becomes, At

-----------------------------------------------------------------------------
\* The register.

LEMMA ProbeLiveEffect ==
  ASSUME IngestionTyped, NEW r \in Active, ProbeLive(r)
  PROVE  /\ followed = "register" /\ run[r].pc = "load"
         /\ UNCHANGED <<feed, cache, outdated, row, tables>>
         /\ archived' = edition
         /\ run' \in Seq(RunType) /\ DOMAIN run' = DOMAIN run /\ Len(run') = Len(run)
         /\ \E kept \in BOOLEAN :
              /\ IF kept THEN pointer' = edition ELSE UNCHANGED pointer
              /\ run'[r] = [run[r] EXCEPT !.pc = "locate", !.modes = {"live"},
                                          !.fetched = edition, !.disturbed = ~kept]
         /\ \A s \in DOMAIN run \ {r} :
              run'[s] = IF run[s].pc = "locate" THEN [run[s] EXCEPT !.disturbed = TRUE] ELSE run[s]
<1>1. RunsTyped /\ r \in DOMAIN run /\ edition \in Nat
  BY DEF IngestionTyped, Active, FeedTyped
<1>2. PICK kept \in BOOLEAN :
        /\ IF kept THEN pointer' = NewPointer ELSE UNCHANGED pointer
        /\ run' = [Disturb(r) EXCEPT ![r].pc = "locate", ![r].modes = {"live"},
                                     ![r].fetched = edition, ![r].disturbed = ~kept]
  BY DEF ProbeLive
<1>3. /\ followed = "register" /\ run[r].pc = "load" /\ archived' = edition
      /\ UNCHANGED <<feed, cache, outdated, row, tables>>
  BY DEF ProbeLive, At
<1>4. PICK u : u = [run[r] EXCEPT !.pc = "locate", !.modes = {"live"},
                                  !.fetched = edition, !.disturbed = ~kept]
  OBVIOUS
<1>5. run[r] \in RunType
  BY <1>1, RunsAre
<1>6. u \in RunType
  BY <1>1, <1>4, <1>5 DEF RunType, PC, ProviderMode
<1>7. PICK d : d = Disturb(r)
  OBVIOUS
<1>8. ASSUME NEW s \in DOMAIN run
      PROVE  d[s] = IF s # r /\ run[s].pc = "locate" THEN [run[s] EXCEPT !.disturbed = TRUE] ELSE run[s]
  BY <1>3, <1>7, ActiveIs DEF Disturb, At, Ends
<1>9. d \in Seq(RunType) /\ DOMAIN d = DOMAIN run /\ Len(d) = Len(run)
  <2>1. DOMAIN run = 1 .. Len(run) /\ Len(run) \in Nat /\ \A s \in DOMAIN run : run[s] \in RunType
    BY <1>1, RunsAre
  <2>2. \A s \in DOMAIN run : [run[s] EXCEPT !.disturbed = TRUE] \in RunType
    BY <2>1 DEF RunType
  <2>3. d \in [1 .. Len(run) -> RunType]
    BY <1>7, <1>8, <2>1, <2>2 DEF Disturb
  <2> QED BY <2>1, <2>3
<1>10. d[r] = run[r]
  BY <1>1, <1>8
<1>11. run' = [d EXCEPT ![r] = u]
  <2>1. run' = [d EXCEPT ![r] = [d[r] EXCEPT !.pc = "locate", !.modes = {"live"},
                                             !.fetched = edition, !.disturbed = ~kept]]
    BY <1>2, <1>7
  <2> QED BY <1>4, <1>10, <2>1
<1>12. /\ run' \in Seq(RunType) /\ Len(run') = Len(d) /\ DOMAIN run' = DOMAIN d
       /\ run'[r] = u /\ \A s \in DOMAIN d \ {r} : run'[s] = d[s]
  BY <1>1, <1>6, <1>9, <1>11, ReplaceOne
<1> QED BY <1>2, <1>3, <1>4, <1>8, <1>9, <1>12 DEF NewPointer

LEMMA ProbeFallbackEffect ==
  ASSUME IngestionTyped, NEW r \in Active, ProbeFallback(r)
  PROVE  /\ followed = "register" /\ run[r].pc = "load"
         /\ UNCHANGED <<feed, files, row, tables>>
         /\ \E mode \in {"cache", "fixture"}, edn \in Nat :
              Becomes(r, [run[r] EXCEPT !.pc = "locate", !.modes = {mode}, !.fetched = edn])
<1>1. run[r] \in RunType /\ pointer \in Nat \cup {None}
  BY RunsAre DEF IngestionTyped, Active, FilesTyped
<1>2. PICK cached : cached = (run[r].policy = "auto" /\ pointer # None)
  OBVIOUS
<1>3. PICK mode, edn : mode = (IF cached THEN "cache" ELSE "fixture") /\ edn = (IF cached THEN pointer ELSE 0)
  OBVIOUS
<1>4. mode \in {"cache", "fixture"} /\ edn \in Nat
  BY <1>1, <1>2, <1>3
<1>5. PICK u : u = [run[r] EXCEPT !.pc = "locate", !.modes = {mode}, !.fetched = edn]
  OBVIOUS
<1>6. u \in RunType
  BY <1>1, <1>4, <1>5 DEF RunType, PC, ProviderMode
<1>7. run' = [run EXCEPT ![r] = u]
  BY <1>2, <1>3, <1>5 DEF ProbeFallback
<1> QED BY <1>4, <1>5, <1>6, <1>7 DEF ProbeFallback, Becomes, At

LEMMA LocateEffect ==
  ASSUME IngestionTyped, NEW r \in Active, LocateFile(r)
  PROVE  /\ followed = "register" /\ run[r].pc = "locate"
         /\ UNCHANGED <<feed, files, row, tables>>
         /\ \E file \in Nat \cup {None} :
              /\ DownloadIsThere /\ run[r].modes = {"live"} /\ ~run[r].disturbed => file = run[r].fetched
              /\ Becomes(r, [run[r] EXCEPT !.pc = "write", !.served = file,
                                           !.todo = Sites(file), !.good = Sites(file)])
<1>1. /\ run[r] \in RunType /\ pointer \in Nat \cup {None} /\ archived \in Nat \cup {None}
      /\ r \in DOMAIN run
  BY RunsAre DEF IngestionTyped, Active, FilesTyped
<1>2. PICK file : file = Located(r)
  OBVIOUS
<1>3. file \in Nat \cup {None}
  BY <1>1, <1>2 DEF Located
<1>4. /\ followed = "register" /\ run[r].pc = "locate"
      /\ UNCHANGED <<feed, files, row, tables>>
  BY DEF LocateFile, At
<1>5. PICK sites : sites = Sites(file)
  OBVIOUS
<1>6. sites \subseteq Nat /\ sites \subseteq Thing
  BY <1>5, IngestionAssumption DEF Sites, Thing
<1>7. PICK u : u = [run[r] EXCEPT !.pc = "write", !.served = file, !.todo = sites, !.good = sites]
  OBVIOUS
<1>8. u \in RunType
  BY <1>1, <1>3, <1>6, <1>7 DEF RunType, PC
<1>9. run' = [run EXCEPT ![r] = u]
  BY <1>2, <1>5, <1>7 DEF LocateFile, Sites
<1>10. ASSUME DownloadIsThere, run[r].modes = {"live"}, ~run[r].disturbed PROVE file = run[r].fetched
  <2>1. Mode(r) = "live"
    BY <1>10 DEF Mode, Weakest
  <2>2. /\ archived = run[r].fetched
        /\ pointer = None \/ pointer = run[r].fetched
    BY <1>1, <1>4, <1>10 DEF DownloadIsThere
  <2> QED BY <1>2, <2>1, <2>2 DEF Located
<1> QED BY <1>3, <1>4, <1>5, <1>7, <1>8, <1>9, <1>10 DEF Becomes

-----------------------------------------------------------------------------
\* Parent rows.

LEMMA UpsertParentEffect ==
  ASSUME IngestionTyped, NEW r \in Active, NEW p \in Parent, UpsertParent(r, p)
  PROVE  /\ run[r].pc = "write" /\ p \in run[r].todo
         /\ \A s \in DOMAIN run : p \notin run[s].locks
         /\ UNCHANGED <<feed, files, row, tables>>
         /\ Becomes(r, [run[r] EXCEPT !.todo = @ \ {p}, !.locks = @ \cup {p},
                                      !.touched = IF Changed(r, p) THEN @ \cup {p} ELSE @,
                                      !.deleted = [@ EXCEPT ![p] = children[p]]])
<1>1. run[r] \in RunType /\ children \in [Parent -> SUBSET Nat]
  BY RunsAre DEF IngestionTyped, Active, TablesTyped
<1>2. PICK t, d : /\ t = (IF Changed(r, p) THEN run[r].touched \cup {p} ELSE run[r].touched)
                  /\ d = [run[r].deleted EXCEPT ![p] = children[p]]
  OBVIOUS
<1>3. t \subseteq Parent /\ d \in [Parent -> SUBSET Nat]
  BY <1>1, <1>2, FieldsAre
<1>4. PICK u : u = [run[r] EXCEPT !.todo = @ \ {p}, !.locks = @ \cup {p}, !.touched = t, !.deleted = d]
  OBVIOUS
<1>5. u \in RunType
  BY <1>1, <1>3, <1>4, FieldsAre DEF RunType
<1>6. run' = [run EXCEPT ![r] = u]
  BY <1>2, <1>4 DEF UpsertParent
<1>7. u = [run[r] EXCEPT !.todo = @ \ {p}, !.locks = @ \cup {p},
                         !.touched = IF Changed(r, p) THEN @ \cup {p} ELSE @,
                         !.deleted = [@ EXCEPT ![p] = children[p]]]
  BY <1>2, <1>4
<1> QED BY <1>5, <1>6, <1>7 DEF UpsertParent, Becomes, First, Locked

LEMMA CommitTyped ==
  ASSUME IngestionTyped, NEW r \in Active, Commit(r)
  PROVE  /\ parent' \in [Parent -> [edition : Nat \cup {None}, by : Nat \cup {None}]]
         /\ children' \in [Parent -> SUBSET Nat]
<1>1. /\ run[r] \in RunType /\ children \in [Parent -> SUBSET Nat] /\ r \in Nat
      /\ parent \in [Parent -> [edition : Nat \cup {None}, by : Nat \cup {None}]]
  BY RunsAre DEF IngestionTyped, Active, TablesTyped
<1>2. [edition |-> run[r].served, by |-> r] \in [edition : Nat \cup {None}, by : Nat \cup {None}]
  BY <1>1, FieldsAre
<1>3. \A p \in Parent : Replaced(r, p) \in SUBSET Nat
  BY <1>1 DEF Replaced
<1> QED BY <1>1, <1>2, <1>3 DEF Commit

LEMMA CommitRegisterEffect ==
  ASSUME IngestionTyped, NEW r \in Active, CommitRegister(r)
  PROVE  /\ followed = "register" /\ run[r].pc = "write" /\ run[r].todo = {} /\ Commit(r)
         /\ UNCHANGED <<feed, files, row, events, unseen>>
         /\ Becomes(r, [run[r] EXCEPT !.pc = "close", !.locks = {}, !.touched = {},
                                      !.stored = run[r].good])
<1>1. run[r] \in RunType
  BY RunsAre DEF IngestionTyped, Active
<1>2. run[r].todo = {}
  BY DEF CommitRegister, WholeRegister
<1>3. PICK u : u = [run[r] EXCEPT !.pc = "close", !.locks = {}, !.touched = {}, !.stored = run[r].good]
  OBVIOUS
<1>4. u \in RunType
  BY <1>1, <1>3 DEF RunType, PC
<1>5. run[r].good \ run[r].todo = run[r].good
  BY <1>2
<1>6. run' = [run EXCEPT ![r] = u]
  BY <1>2, <1>3, <1>5 DEF CommitRegister
<1> QED BY <1>2, <1>3, <1>4, <1>6 DEF CommitRegister, Becomes, At

-----------------------------------------------------------------------------
\* Corridors.

LEMMA CorridorEffect ==
  ASSUME IngestionTyped, NEW r \in Active, NEW c \in Corridor,
         RouteCorridor(r, c) \/ CorridorFails(r, c)
  PROVE  /\ followed = "routes" /\ run[r].pc = "load"
         /\ UNCHANGED <<feed, files, row, tables>>
         /\ \/ \E mode \in ProviderMode :
                 Becomes(r, [run[r] EXCEPT !.modes = @ \cup {mode}, !.good = @ \cup {c}, !.pc = "write"])
            \/ Becomes(r, [run[r] EXCEPT !.bad = @ \cup {c}, !.todo = @ \ {c}])
<1>1. run[r] \in RunType /\ c \in Thing
  BY RunsAre, IngestionAssumption DEF IngestionTyped, Active, Thing
<1>2. /\ followed = "routes" /\ run[r].pc = "load" /\ UNCHANGED <<feed, files, row, tables>>
  BY DEF RouteCorridor, CorridorFails, At
<1>3. CASE RouteCorridor(r, c)
  <2>1. PICK mode \in ProviderMode :
          run' = [run EXCEPT ![r].modes = @ \cup {mode}, ![r].good = @ \cup {c}, ![r].pc = "write"]
    BY <1>3 DEF RouteCorridor
  <2>2. PICK u : u = [run[r] EXCEPT !.modes = @ \cup {mode}, !.good = @ \cup {c}, !.pc = "write"]
    OBVIOUS
  <2>3. u \in RunType
    BY <1>1, <2>2, FieldsAre DEF RunType, PC
  <2>4. run' = [run EXCEPT ![r] = u]
    BY <2>1, <2>2
  <2> QED BY <1>2, <2>2, <2>3, <2>4 DEF Becomes
<1>4. CASE CorridorFails(r, c)
  <2>1. run' = [run EXCEPT ![r].bad = @ \cup {c}, ![r].todo = @ \ {c}]
    BY <1>4 DEF CorridorFails
  <2>2. PICK u : u = [run[r] EXCEPT !.bad = @ \cup {c}, !.todo = @ \ {c}]
    OBVIOUS
  <2>3. u \in RunType
    BY <1>1, <2>2, FieldsAre DEF RunType
  <2>4. run' = [run EXCEPT ![r] = u]
    BY <2>1, <2>2
  <2> QED BY <1>2, <2>2, <2>3, <2>4 DEF Becomes
<1> QED BY <1>3, <1>4

LEMMA CorridorsEndEffect ==
  ASSUME IngestionTyped, NEW r \in Active, CommitCorridor(r) \/ CorridorsDone(r)
  PROVE  /\ followed = "routes" /\ UNCHANGED <<feed, files, row, events, unseen>>
         /\ \/ /\ run[r].pc = "write" /\ Commit(r)
               /\ Becomes(r, [run[r] EXCEPT !.pc = "load", !.locks = {}, !.touched = {},
                                            !.stored = run[r].good])
            \/ /\ run[r].pc = "load" /\ UNCHANGED <<parent, children>>
               /\ Becomes(r, [run[r] EXCEPT !.pc = "close"])
<1>1. run[r] \in RunType
  BY RunsAre DEF IngestionTyped, Active
<1>2. followed = "routes" /\ UNCHANGED <<feed, files, row, events, unseen>>
  BY DEF CommitCorridor, CorridorsDone, At, tables
<1>3. CASE CommitCorridor(r)
  <2>1. PICK u : u = [run[r] EXCEPT !.pc = "load", !.locks = {}, !.touched = {}, !.stored = run[r].good]
    OBVIOUS
  <2>2. u \in RunType
    BY <1>1, <2>1 DEF RunType, PC
  <2>3. run' = [run EXCEPT ![r] = u] /\ run[r].pc = "write" /\ Commit(r)
    BY <1>3, <2>1 DEF CommitCorridor, At
  <2> QED BY <1>2, <2>1, <2>2, <2>3 DEF Becomes
<1>4. CASE CorridorsDone(r)
  <2>1. PICK u : u = [run[r] EXCEPT !.pc = "close"]
    OBVIOUS
  <2>2. u \in RunType
    BY <1>1, <2>1 DEF RunType, PC
  <2>3. run' = [run EXCEPT ![r] = u] /\ run[r].pc = "load" /\ UNCHANGED <<parent, children>>
    BY <1>4, <2>1 DEF CorridorsDone, At, tables
  <2> QED BY <1>2, <2>1, <2>2, <2>3 DEF Becomes
<1> QED BY <1>3, <1>4

-----------------------------------------------------------------------------
\* Weather.

LEMMA ListEffect ==
  ASSUME IngestionTyped, NEW r \in Active, ListStations(r)
  PROVE  /\ followed = "weather" /\ run[r].pc = "load"
         /\ UNCHANGED <<feed, files, row, tables>>
         /\ \E mode \in ProviderMode, from \in {"fixture", None} :
              /\ mode = "fixture" \/ from = None
              /\ mode = "fixture" => from = "fixture"
              /\ Becomes(r, [run[r] EXCEPT !.pc = "write", !.todo = Catalogue(mode), !.fetched = from])
<1>1. run[r] \in RunType
  BY RunsAre DEF IngestionTyped, Active
<1>2. PICK mode \in Answering(r) :
        run' = [run EXCEPT ![r].pc = "write", ![r].todo = Catalogue(mode),
                           ![r].fetched = IF mode = "fixture" THEN mode ELSE None]
  BY DEF ListStations
<1>3. mode \in ProviderMode
  BY <1>1, FieldsAre DEF Answering, ProviderMode
<1>4. PICK from, c : from = (IF mode = "fixture" THEN mode ELSE None) /\ c = Catalogue(mode)
  OBVIOUS
<1>5. from \in {"fixture", None} /\ c \subseteq Nat
  BY <1>4, IngestionAssumption DEF Catalogue
<1>6. PICK u : u = [run[r] EXCEPT !.pc = "write", !.todo = c, !.fetched = from]
  OBVIOUS
<1>7. u \in RunType
  BY <1>1, <1>5, <1>6 DEF RunType, PC
<1>8. run' = [run EXCEPT ![r] = u]
  BY <1>2, <1>4, <1>6
<1>9. followed = "weather" /\ run[r].pc = "load" /\ UNCHANGED <<feed, files, row, tables>>
  BY DEF ListStations, At
<1> QED BY <1>3, <1>4, <1>5, <1>6, <1>7, <1>8, <1>9 DEF Becomes

LEMMA CommitStationsEffect ==
  ASSUME IngestionTyped, NEW r \in Active, CommitStations(r)
  PROVE  /\ followed = "weather" /\ run[r].pc = "write" /\ run[r].todo = {}
         /\ UNCHANGED <<feed, files, row, events, children, unseen>>
         /\ parent' = [p \in Parent |-> IF p \in run[r].touched
                                        THEN [edition |-> 0, by |-> r] ELSE parent[p]]
         /\ parent' \in [Parent -> [edition : Nat \cup {None}, by : Nat \cup {None}]]
         /\ \E known \in SUBSET Station :
              /\ \A p \in Station : p \in run[r].touched => p \in known
              /\ \A p \in known : parent'[p] # NoRow
              /\ Becomes(r, [run[r] EXCEPT !.pc = "observe", !.locks = {}, !.touched = {},
                                           !.known = known])
<1>1. /\ run[r] \in RunType /\ r \in Nat
      /\ parent \in [Parent -> [edition : Nat \cup {None}, by : Nat \cup {None}]]
  BY RunsAre DEF IngestionTyped, Active, TablesTyped
<1>2. /\ followed = "weather" /\ run[r].pc = "write" /\ run[r].todo = {}
      /\ UNCHANGED <<feed, files, row, events, children, unseen>>
      /\ parent' = [p \in Parent |-> IF p \in run[r].touched
                                     THEN [edition |-> 0, by |-> r] ELSE parent[p]]
      /\ run' = [run EXCEPT ![r].pc = "observe", ![r].locks = {}, ![r].touched = {},
                            ![r].known = {p \in Station : parent'[p] # NoRow}]
  BY DEF CommitStations, At
<1>3. PICK known : known = {p \in Station : parent'[p] # NoRow}
  OBVIOUS
<1>4. PICK u : u = [run[r] EXCEPT !.pc = "observe", !.locks = {}, !.touched = {}, !.known = known]
  OBVIOUS
<1>5. u \in RunType
  BY <1>1, <1>3, <1>4 DEF RunType, PC
<1>6. run' = [run EXCEPT ![r] = u]
  BY <1>2, <1>3, <1>4
<1>7. [edition |-> 0, by |-> r] # NoRow
  BY <1>1, IngestionAssumption DEF NoRow
<1>8. \A p \in Station : p \in run[r].touched => p \in known
  BY <1>2, <1>3, <1>7 DEF Parent
<1>9. parent' \in [Parent -> [edition : Nat \cup {None}, by : Nat \cup {None}]]
  BY <1>1, <1>2
<1> QED BY <1>2, <1>3, <1>4, <1>5, <1>6, <1>8, <1>9 DEF Becomes

LEMMA ObserveEffect ==
  ASSUME IngestionTyped, NEW r \in Active, Observe(r)
  PROVE  /\ followed = "weather" /\ run[r].pc = "observe"
         /\ UNCHANGED <<feed, files, row, tables>>
         /\ \E mode, product \in ProviderMode, good, bad \in SUBSET Station :
              /\ good \subseteq Catalogue(mode)
              /\ Becomes(r, [run[r] EXCEPT !.pc = "store", !.modes = {Weakest({mode, product})},
                               !.good = good, !.bad = bad, !.fetched = None,
                               !.disturbed = run[r].fetched = "fixture" /\ mode # "fixture"])
<1>1. run[r] \in RunType
  BY RunsAre DEF IngestionTyped, Active
<1>11. PICK mode \in Answering(r), product \in Answering(r) :
         \E good \in SUBSET Catalogue(mode) : \E bad \in {{}, Catalogue(mode) \ good} :
           run' = [run EXCEPT ![r].pc = "store", ![r].modes = {Weakest({mode, product})},
                              ![r].good = good, ![r].bad = bad, ![r].fetched = None,
                              ![r].disturbed = run[r].fetched = "fixture" /\ mode # "fixture"]
  BY DEF Observe
<1>12. PICK good \in SUBSET Catalogue(mode) : \E bad \in {{}, Catalogue(mode) \ good} :
           run' = [run EXCEPT ![r].pc = "store", ![r].modes = {Weakest({mode, product})},
                              ![r].good = good, ![r].bad = bad, ![r].fetched = None,
                              ![r].disturbed = run[r].fetched = "fixture" /\ mode # "fixture"]
  BY <1>11
<1>2. PICK bad \in {{}, Catalogue(mode) \ good} :
        run' = [run EXCEPT ![r].pc = "store", ![r].modes = {Weakest({mode, product})},
                           ![r].good = good, ![r].bad = bad, ![r].fetched = None,
                           ![r].disturbed = run[r].fetched = "fixture" /\ mode # "fixture"]
  BY <1>12
<1>3. mode \in ProviderMode /\ product \in ProviderMode
  BY <1>1, FieldsAre DEF Answering, ProviderMode
<1>4. good \subseteq Station /\ bad \subseteq Station /\ Station \subseteq Thing
  BY <1>2, IngestionAssumption DEF Catalogue, Thing
<1>5. PICK w, b : w = Weakest({mode, product}) /\ b = (run[r].fetched = "fixture" /\ mode # "fixture")
  OBVIOUS
<1>6. w \in ProviderMode /\ b \in BOOLEAN
  BY <1>3, <1>5, WeakestIs
<1>7. PICK u : u = [run[r] EXCEPT !.pc = "store", !.modes = {w}, !.good = good, !.bad = bad,
                                  !.fetched = None, !.disturbed = b]
  OBVIOUS
<1>8. u \in RunType
  BY <1>1, <1>4, <1>6, <1>7 DEF RunType, PC
<1>9. run' = [run EXCEPT ![r] = u]
  BY <1>2, <1>5, <1>7
<1>10. followed = "weather" /\ run[r].pc = "observe" /\ UNCHANGED <<feed, files, row, tables>>
  BY DEF Observe, At
<1> QED BY <1>3, <1>4, <1>5, <1>7, <1>8, <1>9, <1>10 DEF Becomes

LEMMA StoreEffect ==
  ASSUME IngestionTyped, NEW r \in Active, StoreObservations(r)
  PROVE  /\ followed = "weather" /\ run[r].pc = "store"
         /\ UNCHANGED <<feed, files, row, events, parent, unseen>>
         /\ children' = [p \in Parent |-> IF p \in Storable(r) THEN {r} ELSE children[p]]
         /\ children' \in [Parent -> SUBSET Nat]
         /\ Becomes(r, [run[r] EXCEPT !.pc = "close", !.stored = Storable(r), !.known = {}])
<1>1. run[r] \in RunType /\ r \in Nat /\ children \in [Parent -> SUBSET Nat]
  BY RunsAre DEF IngestionTyped, Active, TablesTyped
<1>2. PICK s : s = Storable(r)
  OBVIOUS
<1>3. s \subseteq Thing
  BY <1>1, <1>2, FieldsAre DEF Storable
<1>4. PICK u : u = [run[r] EXCEPT !.pc = "close", !.stored = s, !.known = {}]
  OBVIOUS
<1>5. u \in RunType
  BY <1>1, <1>3, <1>4 DEF RunType, PC
<1>6. run' = [run EXCEPT ![r] = u]
  BY <1>2, <1>4 DEF StoreObservations
<1>7. /\ followed = "weather" /\ run[r].pc = "store"
      /\ UNCHANGED <<feed, files, row, events, parent, unseen>>
      /\ children' = [p \in Parent |-> IF p \in Storable(r) THEN {r} ELSE children[p]]
  BY DEF StoreObservations, At
<1>8. children' \in [Parent -> SUBSET Nat]
  BY <1>1, <1>7
<1> QED BY <1>2, <1>4, <1>5, <1>6, <1>7, <1>8 DEF Becomes

-----------------------------------------------------------------------------
(* The steps, by what they may touch, and the types.                         *)

\* Sources and directories change beside the runs.
SourceSteps == NewEdition \/ CacheLost \/ \E x \in Event : EventChanges(x)

Fails(r) ==
  \/ Crash(r) \/ WriteFails(r) \/ UpsertEventsFails(r) \/ ProbeRaises(r) \/ WeatherRaises(r)
  \/ \E e \in Endpoint : LoadRaises(r, e)

Loads(r) == \E e \in Endpoint : LoadLive(r, e) \/ LoadCached(r, e) \/ LoadSample(r, e)

LEMMA StepCases ==
  ASSUME [Next]_vars
  PROVE  \/ SourceSteps \/ UNCHANGED vars
         \/ \E policy \in Policies : StartRun(policy)
         \/ \E r \in Active :
              \/ CloseRun(r) \/ Fails(r)
              \/ Loads(r) \/ UpsertEvents(r) \/ CloseVanished(r)
              \/ ProbeLive(r) \/ ProbeFallback(r) \/ LocateFile(r) \/ CommitRegister(r)
              \/ \E p \in Parent : UpsertParent(r, p)
              \/ (\E c \in Corridor : RouteCorridor(r, c) \/ CorridorFails(r, c))
              \/ CommitCorridor(r) \/ CorridorsDone(r)
              \/ ListStations(r) \/ CommitStations(r) \/ Observe(r) \/ StoreObservations(r)
BY DEF Next, TrafficStep, RegisterStep, RoutesStep, WeatherStep, SourceSteps, Fails, Loads

LEMMA SourceEffect ==
  ASSUME IngestionTyped, SourceSteps
  PROVE  /\ UNCHANGED <<followed, run, row, events, parent, children>>
         /\ FeedTyped' /\ FilesTyped' /\ unseen' \subseteq Event /\ unseen \subseteq unseen'
         /\ UNCHANGED archived /\ pointer' \in {pointer, None}
         /\ \/ UNCHANGED <<cache, outdated>>
            \/ outdated' = {} /\ cache' = [e \in Endpoint |-> None]
         /\ \/ UNCHANGED <<listed, broken>>
            \/ Event \ (listed' \ broken') \subseteq unseen'
<1>0. FeedTyped /\ FilesTyped /\ unseen \subseteq Event
  BY DEF IngestionTyped, TablesTyped
<1>1. CASE NewEdition
  BY <1>0, <1>1 DEF NewEdition, files, tables, FeedTyped, FilesTyped
<1>2. CASE CacheLost
  BY <1>0, <1>2 DEF CacheLost, feed, tables, FeedTyped, FilesTyped
<1>3. ASSUME NEW x \in Event, EventChanges(x)
      PROVE  /\ UNCHANGED <<followed, edition, files, run, row, events, parent, children>>
             /\ listed' \subseteq {y \in Event : Home[y] # None} /\ broken' \subseteq Event
             /\ unseen' = unseen \cup (Event \ (listed' \ broken'))
  <2>1. \/ listed' = (listed \ {x}) \cup ({x} \ listed) /\ UNCHANGED broken
        \/ broken' = (broken \ {x}) \cup ({x} \ broken) /\ UNCHANGED listed
    BY <1>3 DEF EventChanges
  <2>2. Home[x] # None
    BY <1>3 DEF EventChanges
  <2>3. listed \subseteq {y \in Event : Home[y] # None} /\ broken \subseteq Event
    BY <1>0 DEF FeedTyped
  <2> QED BY <1>3, <2>1, <2>2, <2>3 DEF EventChanges
<1>4. ASSUME NEW x \in Event, EventChanges(x)
      PROVE  /\ UNCHANGED <<followed, run, row, events, parent, children>>
             /\ FeedTyped' /\ FilesTyped' /\ unseen' \subseteq Event /\ unseen \subseteq unseen'
             /\ UNCHANGED <<archived, pointer, cache, outdated>>
             /\ Event \ (listed' \ broken') \subseteq unseen'
  BY <1>0, <1>3, <1>4 DEF FeedTyped, FilesTyped, files
<1> QED BY <1>1, <1>2, <1>4 DEF SourceSteps

LEMMA BecomesTyped ==
  ASSUME RunsTyped, NEW r \in DOMAIN run, NEW u, Becomes(r, u), UNCHANGED row
  PROVE  RunsTyped'
BY BecomesIs DEF RunsTyped, Moves

LEMMA TypedStep ==
  ASSUME IngestionTyped, [Next]_vars
  PROVE  IngestionTyped'
<1>0. /\ FeedTyped /\ FilesTyped /\ RunsTyped /\ TablesTyped
      /\ \A r \in Active : r \in DOMAIN run /\ run[r] \in RunType
  BY RunsAre DEF IngestionTyped, Active
<1>1. ASSUME UNCHANGED <<feed, files>> PROVE FeedTyped' /\ FilesTyped'
  BY <1>0, <1>1 DEF FeedTyped, FilesTyped, feed, files
<1>2. ASSUME UNCHANGED tables PROVE TablesTyped'
  BY <1>0, <1>2 DEF TablesTyped, tables
<1>3. CASE UNCHANGED vars
  BY <1>0, <1>1, <1>2, <1>3 DEF IngestionTyped, vars, RunsTyped
<1>4. CASE SourceSteps
  <2>1. /\ UNCHANGED <<run, row, events, parent, children>>
        /\ FeedTyped' /\ FilesTyped' /\ unseen' \subseteq Event
    BY <1>4, SourceEffect
  <2> QED BY <1>0, <2>1 DEF IngestionTyped, RunsTyped, TablesTyped
<1>5. ASSUME NEW policy \in Policies, StartRun(policy) PROVE IngestionTyped'
  <2>1. /\ UNCHANGED <<feed, files, tables>> /\ run' \in Seq(RunType) /\ row' \in Seq(RowType)
        /\ Len(row') = Len(run')
    BY <1>5, StartEffect
  <2> QED BY <1>1, <1>2, <2>1 DEF IngestionTyped, RunsTyped
<1>6. ASSUME NEW r \in Active, CloseRun(r) \/ Fails(r) PROVE IngestionTyped'
  <2>1. /\ \E pc \in Ends : EndsAs(r, pc)
        /\ UNCHANGED <<feed, files, tables>> /\ row' \in Seq(RowType) /\ Len(row') = Len(row)
    BY <1>0, <1>6, CloseRunEffect, FailEffect DEF Fails, Ends
  <2> QED BY <1>0, <1>1, <1>2, <2>1 DEF IngestionTyped, RunsTyped, EndsAs, Moves
<1>7. ASSUME NEW r \in Active, Loads(r) PROVE IngestionTyped'
  <2>1. PICK e \in Endpoint : LoadLive(r, e) \/ LoadCached(r, e) \/ LoadSample(r, e)
    BY <1>7 DEF Loads
  <2>2. PICK good \in SUBSET Event, bad \in SUBSET Event, mode \in ProviderMode :
          /\ Becomes(r, [run[r] EXCEPT !.todo = @ \ {e}, !.good = @ \cup good, !.bad = @ \cup bad,
                                       !.modes = @ \cup {mode}])
          /\ \/ /\ good = {x \in listed : Home[x] = e} \ broken /\ UNCHANGED unseen
                /\ \/ /\ \E l \in [good : {good}, bad : SUBSET Event] : cache' = [cache EXCEPT ![e] = l]
                      /\ outdated' = outdated \ {e}
                   \/ /\ outdated' = IF cache[e] = None THEN outdated ELSE outdated \cup {e}
                      /\ UNCHANGED cache
             \/ /\ cache[e] # None /\ good = cache[e].good /\ UNCHANGED <<cache, outdated>>
                /\ unseen' = IF e \in outdated THEN unseen \cup {x \in Event : Home[x] = e} ELSE unseen
             \/ mode = "fixture" /\ good = SampleEvents /\ UNCHANGED <<cache, outdated, unseen>>
    BY <2>1, LoadEffect
  <2>3. UNCHANGED <<feed, pointer, archived, row, events, parent, children>>
    BY <2>1, LoadEffect
  <2>4. RunsTyped'
    <3>1. PICK u : u = [run[r] EXCEPT !.todo = @ \ {e}, !.good = @ \cup good, !.bad = @ \cup bad,
                                      !.modes = @ \cup {mode}]
      OBVIOUS
    <3> QED BY <1>0, <2>2, <2>3, <3>1, BecomesTyped
  <2>5. cache' \in [Endpoint -> {None} \cup [good : SUBSET Event, bad : SUBSET Event]]
    <3>1. \A l \in [good : {good}, bad : SUBSET Event] : l \in [good : SUBSET Event, bad : SUBSET Event]
      OBVIOUS
    <3>2. UNCHANGED cache \/ \E l \in [good : SUBSET Event, bad : SUBSET Event] : cache' = [cache EXCEPT ![e] = l]
      BY <2>2, <3>1
    <3> QED BY <1>0, <3>2 DEF FilesTyped
  <2>6. outdated' \subseteq Endpoint /\ unseen' \subseteq Event
    BY <1>0, <2>2 DEF FilesTyped, TablesTyped
  <2> QED BY <1>0, <2>3, <2>4, <2>5, <2>6 DEF IngestionTyped, FeedTyped, FilesTyped, TablesTyped, feed
<1>8. ASSUME NEW r \in Active, UpsertEvents(r) \/ CloseVanished(r) PROVE IngestionTyped'
  <2>1. /\ UNCHANGED <<feed, files, row, parent, children>>
        /\ \E u : Becomes(r, u)
    BY <1>8, UpsertEffect, SweepEffect
  <2>2. events' \in [Event -> {"missing", "open", "ended"}] /\ unseen' \subseteq Event
    <3>1. CASE UpsertEvents(r)
      BY <1>0, <3>1, UpsertEffect DEF TablesTyped, Refreshed
    <3>2. CASE CloseVanished(r)
      BY <1>0, <3>2, SweepEffect DEF TablesTyped
    <3> QED BY <1>8, <3>1, <3>2
  <2> QED BY <1>0, <1>1, <2>1, <2>2, BecomesTyped DEF IngestionTyped, TablesTyped
<1>9. ASSUME NEW r \in Active, ProbeLive(r) PROVE IngestionTyped'
  <2>1. /\ UNCHANGED <<feed, cache, outdated, row, tables>> /\ archived' = edition
        /\ run' \in Seq(RunType) /\ Len(run') = Len(run)
        /\ pointer' \in {pointer, edition}
    BY <1>9, ProbeLiveEffect
  <2> QED BY <1>0, <1>2, <2>1 DEF IngestionTyped, FeedTyped, FilesTyped, RunsTyped, feed
<1>10. ASSUME NEW r \in Active,
              \/ ProbeFallback(r) \/ LocateFile(r) \/ ListStations(r) \/ Observe(r)
              \/ \E p \in Parent : UpsertParent(r, p)
              \/ \E c \in Corridor : RouteCorridor(r, c) \/ CorridorFails(r, c)
       PROVE  IngestionTyped'
  <2>1. /\ UNCHANGED <<feed, files, row, tables>> /\ \E u : Becomes(r, u)
    BY <1>10, ProbeFallbackEffect, LocateEffect, ListEffect, ObserveEffect, UpsertParentEffect,
       CorridorEffect
  <2> QED BY <1>0, <1>1, <1>2, <2>1, BecomesTyped DEF IngestionTyped
<1>11. ASSUME NEW r \in Active, CommitRegister(r) \/ CommitCorridor(r) \/ CorridorsDone(r)
       PROVE  IngestionTyped'
  <2>1. /\ UNCHANGED <<feed, files, row, events, unseen>> /\ (Commit(r) \/ UNCHANGED <<parent, children>>)
        /\ \E u : Becomes(r, u)
    BY <1>11, CommitRegisterEffect, CorridorsEndEffect
  <2>2. TablesTyped'
    BY <1>0, <2>1, CommitTyped DEF TablesTyped
  <2> QED BY <1>0, <1>1, <2>1, <2>2, BecomesTyped DEF IngestionTyped
<1>12. ASSUME NEW r \in Active, CommitStations(r) \/ StoreObservations(r) PROVE IngestionTyped'
  <2>1. /\ UNCHANGED <<feed, files, row, events, unseen>> /\ \E u : Becomes(r, u)
    BY <1>12, CommitStationsEffect, StoreEffect
  <2>2. TablesTyped'
    BY <1>0, <1>12, CommitStationsEffect, StoreEffect DEF TablesTyped
  <2> QED BY <1>0, <1>1, <2>1, <2>2, BecomesTyped DEF IngestionTyped
<1> QED BY <1>3, <1>4, <1>5, <1>6, <1>7, <1>8, <1>9, <1>10, <1>11, <1>12, StepCases

LEMMA InitTyped == Init => IngestionTyped
<1> SUFFICES ASSUME Init PROVE IngestionTyped
  OBVIOUS
<1>1. FeedTyped /\ FilesTyped
  BY DEF Init, FeedTyped, FilesTyped
<1>2. RunsTyped
  BY DEF Init, RunsTyped
<1>3. TablesTyped
  BY DEF Init, TablesTyped, NoRow
<1> QED BY <1>1, <1>2, <1>3 DEF IngestionTyped

-----------------------------------------------------------------------------
(* Every run keeps what it knows of itself.                                  *)

LEMMA OthersStayOK ==
  ASSUME RunsTyped, RunsOK, UNCHANGED followed, NEW r \in DOMAIN run, Moves(r),
         \A s \in DOMAIN run \ {r} : row'[s] = row[s],
         OwnOK(followed, run'[r], row'[r])
  PROVE  RunsOK'
BY DEF RunsOK, Moves

LEMMA BecomesOK ==
  ASSUME RunsTyped, RunsOK, UNCHANGED <<followed, row>>, NEW r \in DOMAIN run, NEW u, Becomes(r, u),
         OwnOK(followed, u, row[r])
  PROVE  RunsOK'
<1>1. Moves(r) /\ run'[r] = u
  BY BecomesIs
<1> QED BY <1>1, OthersStayOK

LEMMA EndedOK ==
  ASSUME IngestionTyped, RunsOK, NEW r \in Active, CloseRun(r) \/ Fails(r)
  PROVE  RunsOK'
<1>0. /\ RunsTyped /\ r \in DOMAIN run /\ OwnOK(followed, run[r], row[r]) /\ run[r].pc \notin Ends
      /\ run[r] \in RunType
  BY ActiveIs, RunsAre DEF IngestionTyped, RunsOK
<1>1. /\ \E pc \in Ends : EndsAs(r, pc)
      /\ UNCHANGED followed /\ \A s \in DOMAIN run \ {r} : row'[s] = row[s]
  BY <1>0, CloseRunEffect, FailEffect DEF Fails, feed, Ends
<1>2. PICK pc \in Ends : EndsAs(r, pc)
  BY <1>1
<1>3. PICK u, v, w, x : u = run[r] /\ v = run'[r] /\ w = row[r] /\ x = row'[r]
  OBVIOUS
<1>4. /\ v.pc = pc /\ v.locks = {} /\ v.touched = {} /\ v.todo = {}
      /\ v.good = u.good /\ v.stored = u.stored /\ v.modes = u.modes
      /\ v.fetched = u.fetched /\ v.served = u.served /\ v.disturbed = u.disturbed
  BY <1>2, <1>3 DEF EndsAs
<1>5. w.status = "failed" /\ w.mode = "fixture"
  BY <1>0, <1>3 DEF OwnOK, RowWaits, Ends
<1>6. RowWaits(followed, v, x)
  <2>1. CASE x.status = w.status /\ x.mode = w.mode
    BY <1>5, <2>1 DEF RowWaits
  <2>2. CASE u.pc = "close" /\ v.pc = "done" /\ x.status = Outcome(r) /\ x.mode = Mode(r)
    <3>1. AllStored(followed, u)
      <4>1. followed \in Pipeline
        BY DEF IngestionTyped, FeedTyped
      <4> QED BY <1>0, <1>3, <2>2, <4>1
             DEF OwnOK, TrafficRun, RegisterRun, RoutesRun, WeatherRun, AllStored, Pipeline
    <3>2. AllStored(followed, v)
      BY <1>4, <3>1 DEF AllStored
    <3>3. x.mode = "live" => u.modes = {"live"}
      BY <1>0, <1>3, <2>2, FieldsAre, WeakestIs DEF Mode
    <3>4. followed = "register" /\ u.modes = {"live"} /\ ~u.disturbed => u.served = u.fetched
      BY <1>0, <1>3, <2>2 DEF OwnOK, RegisterRun
    <3> QED BY <1>4, <2>2, <3>2, <3>3, <3>4 DEF RowWaits
  <2>3. CASE CloseRun(r)
    <3>1. EndsAs(r, "done") /\ u.pc = "close"
      BY <1>0, <1>3, <2>3, CloseRunEffect
    <3>2. v.pc = "done"
      BY <1>3, <3>1 DEF EndsAs
    <3>3. (x.status = Outcome(r) /\ x.mode = Mode(r)) \/ x = w
      BY <1>0, <1>3, <2>3, CloseRunEffect
    <3> QED BY <2>1, <2>2, <3>1, <3>2, <3>3
  <2>4. CASE Fails(r)
    <3>1. x.status = w.status /\ x.mode = w.mode
      BY <1>3, <2>4, FailEffect DEF Fails
    <3> QED BY <2>1, <3>1
  <2> QED BY <2>3, <2>4
<1>7. /\ LocksWhileWriting(v) /\ TrafficRun(v) /\ RegisterRun(v) /\ RoutesRun(v)
  BY <1>4 DEF LocksWhileWriting, TrafficRun, RegisterRun, RoutesRun, Ends
<1>8. WeatherRun(v)
  BY <1>4 DEF WeatherRun, Ends
<1>9. OwnOK(followed, v, x)
  BY <1>6, <1>7, <1>8 DEF OwnOK
<1> QED BY <1>0, <1>1, <1>2, <1>3, <1>9, OthersStayOK DEF EndsAs

LEMMA TrafficOK ==
  ASSUME IngestionTyped, RunsOK, NEW r \in Active, Loads(r) \/ UpsertEvents(r) \/ CloseVanished(r)
  PROVE  RunsOK'
<1>0. /\ RunsTyped /\ r \in DOMAIN run /\ OwnOK(followed, run[r], row[r]) /\ run[r].pc \notin Ends
      /\ run[r] \in RunType
  BY ActiveIs, RunsAre DEF IngestionTyped, RunsOK
<1>1. PICK u, w : u = run[r] /\ w = row[r]
  OBVIOUS
<1>2. /\ u \in RunType
      /\ w.status = "failed" /\ w.mode = "fixture" /\ LocksWhileWriting(u)
      /\ followed = "traffic" => TrafficRun(u)
  BY <1>0, <1>1 DEF OwnOK, RowWaits, Ends
<1>3. CASE Loads(r)
  <2>1. PICK e \in Endpoint : LoadLive(r, e) \/ LoadCached(r, e) \/ LoadSample(r, e)
    BY <1>3 DEF Loads
  <2>2. followed = "traffic" /\ u.pc = "load" /\ UNCHANGED <<followed, row>>
    BY <1>1, <2>1, LoadEffect DEF feed
  <2>3. PICK good \in SUBSET Event, bad \in SUBSET Event, mode \in ProviderMode :
          Becomes(r, [u EXCEPT !.todo = @ \ {e}, !.good = @ \cup good, !.bad = @ \cup bad,
                               !.modes = @ \cup {mode}])
    BY <1>1, <2>1, LoadEffect
  <2>4. PICK v : v = [u EXCEPT !.todo = @ \ {e}, !.good = @ \cup good, !.bad = @ \cup bad,
                               !.modes = @ \cup {mode}]
    OBVIOUS
  <2>5. v.pc = "load" /\ v.touched = u.touched /\ v.locks = u.locks
    BY <1>2, <2>2, <2>4 DEF RunType
  <2>6. OwnOK(followed, v, w)
    BY <1>2, <2>2, <2>5 DEF OwnOK, RowWaits, LocksWhileWriting, TrafficRun
  <2> QED BY <1>0, <1>1, <2>2, <2>3, <2>4, <2>6, BecomesOK
<1>4. CASE UpsertEvents(r)
  <2>1. PICK v : v = [u EXCEPT !.pc = "sweep", !.stored = u.good]
    OBVIOUS
  <2>2. followed = "traffic" /\ u.pc = "load" /\ UNCHANGED <<followed, row>> /\ Becomes(r, v)
    BY <1>1, <1>4, <2>1, UpsertEffect DEF feed
  <2>3. v.pc = "sweep" /\ v.touched = u.touched /\ v.locks = u.locks /\ v.stored = v.good
    BY <1>2, <2>1 DEF RunType
  <2>4. OwnOK(followed, v, w)
    BY <1>2, <2>2, <2>3 DEF OwnOK, RowWaits, LocksWhileWriting, TrafficRun
  <2> QED BY <1>0, <1>1, <2>2, <2>4, BecomesOK
<1>5. CASE CloseVanished(r)
  <2>1. PICK v : v = [u EXCEPT !.pc = "close"]
    OBVIOUS
  <2>2. followed = "traffic" /\ u.pc = "sweep" /\ UNCHANGED <<followed, row>> /\ Becomes(r, v)
    BY <1>1, <1>5, <2>1, SweepEffect DEF feed
  <2>3. v.pc = "close" /\ v.touched = u.touched /\ v.locks = u.locks /\ v.stored = u.stored /\ v.good = u.good
    BY <1>2, <2>1 DEF RunType
  <2>4. OwnOK(followed, v, w)
    BY <1>2, <2>2, <2>3 DEF OwnOK, RowWaits, LocksWhileWriting, TrafficRun
  <2> QED BY <1>0, <1>1, <2>2, <2>4, BecomesOK
<1> QED BY <1>3, <1>4, <1>5

LEMMA RegisterOK ==
  ASSUME IngestionTyped, RunsOK, DownloadIsThere, NEW r \in Active,
         ProbeLive(r) \/ ProbeFallback(r) \/ LocateFile(r) \/ CommitRegister(r)
  PROVE  RunsOK'
<1>0. /\ RunsTyped /\ r \in DOMAIN run /\ OwnOK(followed, run[r], row[r]) /\ run[r].pc \notin Ends
      /\ run[r] \in RunType
  BY ActiveIs, RunsAre DEF IngestionTyped, RunsOK
<1>1. PICK u, w : u = run[r] /\ w = row[r]
  OBVIOUS
<1>2. /\ u \in RunType
      /\ w.status = "failed" /\ w.mode = "fixture" /\ LocksWhileWriting(u)
      /\ followed = "register" => RegisterRun(u)
  BY <1>0, <1>1 DEF OwnOK, RowWaits, Ends
<1>3. CASE ProbeLive(r)
  <2>1. /\ followed = "register" /\ u.pc = "load" /\ UNCHANGED <<followed, row>>
        /\ DOMAIN run' = DOMAIN run
        /\ \E kept \in BOOLEAN : run'[r] = [u EXCEPT !.pc = "locate", !.modes = {"live"},
                                                     !.fetched = edition, !.disturbed = ~kept]
        /\ \A s \in DOMAIN run \ {r} :
             run'[s] = IF run[s].pc = "locate" THEN [run[s] EXCEPT !.disturbed = TRUE] ELSE run[s]
    BY <1>1, <1>3, ProbeLiveEffect DEF feed
  <2>2. OwnOK(followed, run'[r], row[r])
    <3>1. PICK v : v = run'[r]
      OBVIOUS
    <3>2. v.pc = "locate" /\ v.touched = u.touched /\ v.locks = u.locks
      BY <1>2, <2>1, <3>1 DEF RunType
    <3>3. OwnOK(followed, v, w)
      BY <1>2, <2>1, <3>2 DEF OwnOK, RowWaits, LocksWhileWriting, RegisterRun
    <3> QED BY <1>1, <3>1, <3>3
  <2>3. ASSUME NEW s \in DOMAIN run \ {r} PROVE OwnOK(followed, run'[s], row[s])
    <3>1. PICK x, y, z : x = run[s] /\ y = run'[s] /\ z = row[s]
      OBVIOUS
    <3>2. OwnOK(followed, x, z) /\ x \in RunType
      BY <1>0, <3>1, RunsAre DEF RunsOK
    <3>3. CASE x.pc # "locate"
      BY <2>1, <3>1, <3>2, <3>3
    <3>4. CASE x.pc = "locate"
      <4>1. /\ y.pc = "locate" /\ y.touched = x.touched /\ y.locks = x.locks
        BY <2>1, <3>1, <3>2, <3>4 DEF RunType
      <4>2. z.status = "failed" /\ z.mode = "fixture"
        BY <3>2, <3>4 DEF OwnOK, RowWaits
      <4>3. OwnOK(followed, y, z)
        BY <2>1, <3>2, <3>4, <4>1, <4>2 DEF OwnOK, RowWaits, LocksWhileWriting, RegisterRun
      <4> QED BY <3>1, <4>3
    <3> QED BY <3>3, <3>4
  <2> QED BY <2>1, <2>2, <2>3 DEF RunsOK
<1>4. CASE ProbeFallback(r)
  <2>1. PICK mode \in {"cache", "fixture"}, edn \in Nat :
          Becomes(r, [u EXCEPT !.pc = "locate", !.modes = {mode}, !.fetched = edn])
    BY <1>1, <1>4, ProbeFallbackEffect
  <2>2. PICK v : v = [u EXCEPT !.pc = "locate", !.modes = {mode}, !.fetched = edn]
    OBVIOUS
  <2>3. followed = "register" /\ u.pc = "load" /\ UNCHANGED <<followed, row>>
    BY <1>1, <1>4, ProbeFallbackEffect DEF feed
  <2>4. v.pc = "locate" /\ v.touched = u.touched /\ v.locks = u.locks
    BY <1>2, <2>2 DEF RunType
  <2>5. OwnOK(followed, v, w)
    BY <1>2, <2>3, <2>4 DEF OwnOK, RowWaits, LocksWhileWriting, RegisterRun
  <2> QED BY <1>0, <1>1, <2>1, <2>2, <2>3, <2>5, BecomesOK
<1>5. CASE LocateFile(r)
  <2>1. PICK file \in Nat \cup {None} :
          /\ u.modes = {"live"} /\ ~u.disturbed => file = u.fetched
          /\ Becomes(r, [u EXCEPT !.pc = "write", !.served = file,
                                  !.todo = Sites(file), !.good = Sites(file)])
    BY <1>1, <1>5, LocateEffect
  <2>2. PICK v : v = [u EXCEPT !.pc = "write", !.served = file, !.todo = Sites(file), !.good = Sites(file)]
    OBVIOUS
  <2>3. followed = "register" /\ u.pc = "locate" /\ UNCHANGED <<followed, row>>
    BY <1>1, <1>5, LocateEffect DEF feed
  <2>4. /\ v.pc = "write" /\ v.touched = u.touched /\ v.locks = u.locks /\ v.served = file
        /\ v.todo = Sites(file) /\ v.good = Sites(file)
        /\ v.modes = u.modes /\ v.disturbed = u.disturbed /\ v.fetched = u.fetched
    BY <1>2, <2>2 DEF RunType
  <2>5. u.locks = {}
    BY <1>2, <2>3 DEF LocksWhileWriting
  <2>6. OwnOK(followed, v, w)
    BY <1>2, <2>1, <2>3, <2>4, <2>5 DEF OwnOK, RowWaits, LocksWhileWriting, RegisterRun
  <2> QED BY <1>0, <1>1, <2>1, <2>2, <2>3, <2>6, BecomesOK
<1>6. CASE CommitRegister(r)
  <2>1. PICK v : v = [u EXCEPT !.pc = "close", !.locks = {}, !.touched = {}, !.stored = u.good]
    OBVIOUS
  <2>2. followed = "register" /\ u.pc = "write" /\ UNCHANGED <<followed, row>> /\ Becomes(r, v)
    BY <1>1, <1>6, <2>1, CommitRegisterEffect DEF feed
  <2>3. /\ v.pc = "close" /\ v.touched = {} /\ v.locks = {} /\ v.stored = v.good
        /\ v.modes = u.modes /\ v.disturbed = u.disturbed /\ v.fetched = u.fetched /\ v.served = u.served
    BY <1>2, <2>1 DEF RunType
  <2>4. OwnOK(followed, v, w)
    BY <1>2, <2>2, <2>3 DEF OwnOK, RowWaits, LocksWhileWriting, RegisterRun
  <2> QED BY <1>0, <1>1, <2>2, <2>4, BecomesOK
<1> QED BY <1>3, <1>4, <1>5, <1>6

LEMMA RoutesOK ==
  ASSUME IngestionTyped, RunsOK, NEW r \in Active,
         \/ \E c \in Corridor : RouteCorridor(r, c) \/ CorridorFails(r, c)
         \/ CommitCorridor(r) \/ CorridorsDone(r)
  PROVE  RunsOK'
<1>0. /\ RunsTyped /\ r \in DOMAIN run /\ OwnOK(followed, run[r], row[r]) /\ run[r].pc \notin Ends
      /\ run[r] \in RunType
  BY ActiveIs, RunsAre DEF IngestionTyped, RunsOK
<1>1. PICK u, w : u = run[r] /\ w = row[r]
  OBVIOUS
<1>2. /\ u \in RunType
      /\ w.status = "failed" /\ w.mode = "fixture" /\ LocksWhileWriting(u)
      /\ followed = "routes" => RoutesRun(u)
  BY <1>0, <1>1 DEF OwnOK, RowWaits, Ends
<1>3. ASSUME NEW v, Becomes(r, v), UNCHANGED <<followed, row>>, followed = "routes",
             LocksWhileWriting(v), RoutesRun(v), v.pc # "done"
      PROVE  RunsOK'
  <2>1. OwnOK(followed, v, w)
    BY <1>2, <1>3 DEF OwnOK, RowWaits
  <2> QED BY <1>0, <1>1, <1>3, <2>1, BecomesOK
<1>4. ASSUME NEW c \in Corridor, RouteCorridor(r, c) \/ CorridorFails(r, c)
      PROVE  RunsOK'
  <2>1. followed = "routes" /\ u.pc = "load" /\ UNCHANGED <<followed, row>>
    BY <1>1, <1>4, CorridorEffect DEF feed
  <2>2. \/ \E mode \in ProviderMode :
             Becomes(r, [u EXCEPT !.modes = @ \cup {mode}, !.good = @ \cup {c}, !.pc = "write"])
        \/ Becomes(r, [u EXCEPT !.bad = @ \cup {c}, !.todo = @ \ {c}])
    BY <1>1, <1>4, CorridorEffect
  <2>3. ASSUME NEW mode \in ProviderMode,
               Becomes(r, [u EXCEPT !.modes = @ \cup {mode}, !.good = @ \cup {c}, !.pc = "write"])
        PROVE  RunsOK'
    <3>1. PICK v : v = [u EXCEPT !.modes = @ \cup {mode}, !.good = @ \cup {c}, !.pc = "write"]
      OBVIOUS
    <3>2. v.pc = "write" /\ v.touched = u.touched /\ v.locks = u.locks /\ v.todo = u.todo
      BY <1>2, <3>1 DEF RunType
    <3>3. LocksWhileWriting(v) /\ RoutesRun(v)
      BY <1>2, <2>1, <3>2 DEF LocksWhileWriting, RoutesRun
    <3> QED BY <1>3, <2>1, <2>3, <3>1, <3>2, <3>3
  <2>4. CASE Becomes(r, [u EXCEPT !.bad = @ \cup {c}, !.todo = @ \ {c}])
    <3>1. PICK v : v = [u EXCEPT !.bad = @ \cup {c}, !.todo = @ \ {c}]
      OBVIOUS
    <3>2. /\ v.pc = u.pc /\ v.touched = u.touched /\ v.locks = u.locks /\ v.todo = u.todo \ {c}
          /\ v.good = u.good /\ v.stored = u.stored
      BY <1>2, <3>1 DEF RunType
    <3>3. LocksWhileWriting(v) /\ RoutesRun(v)
      BY <1>2, <2>1, <3>2 DEF LocksWhileWriting, RoutesRun
    <3> QED BY <1>3, <2>1, <2>4, <3>1, <3>2, <3>3
  <2> QED BY <2>2, <2>3, <2>4
<1>5. CASE CommitCorridor(r) \/ CorridorsDone(r)
  <2>1. followed = "routes" /\ UNCHANGED <<followed, row>>
    BY <1>5, CorridorsEndEffect DEF feed
  <2>2. \/ Becomes(r, [u EXCEPT !.pc = "load", !.locks = {}, !.touched = {}, !.stored = u.good])
        \/ u.pc = "load" /\ Becomes(r, [u EXCEPT !.pc = "close"])
    BY <1>1, <1>5, CorridorsEndEffect
  <2>3. CASE Becomes(r, [u EXCEPT !.pc = "load", !.locks = {}, !.touched = {}, !.stored = u.good])
    <3>1. PICK v : v = [u EXCEPT !.pc = "load", !.locks = {}, !.touched = {}, !.stored = u.good]
      OBVIOUS
    <3>2. /\ v.pc = "load" /\ v.touched = {} /\ v.locks = {} /\ v.todo = u.todo
          /\ v.stored = v.good
      BY <1>2, <3>1 DEF RunType
    <3>3. LocksWhileWriting(v) /\ RoutesRun(v)
      BY <1>2, <2>1, <3>2 DEF LocksWhileWriting, RoutesRun
    <3> QED BY <1>3, <2>1, <2>3, <3>1, <3>2, <3>3
  <2>4. CASE u.pc = "load" /\ Becomes(r, [u EXCEPT !.pc = "close"])
    <3>1. PICK v : v = [u EXCEPT !.pc = "close"]
      OBVIOUS
    <3>2. /\ v.pc = "close" /\ v.touched = u.touched /\ v.locks = u.locks /\ v.todo = u.todo
          /\ v.good = u.good /\ v.stored = u.stored
      BY <1>2, <3>1 DEF RunType
    <3>3. LocksWhileWriting(v) /\ RoutesRun(v)
      BY <1>2, <2>1, <2>4, <3>2 DEF LocksWhileWriting, RoutesRun
    <3> QED BY <1>3, <2>1, <2>4, <3>1, <3>2, <3>3
  <2> QED BY <2>2, <2>3, <2>4
<1> QED BY <1>4, <1>5

LEMMA UpsertParentOK ==
  ASSUME IngestionTyped, RunsOK, NEW r \in Active, NEW p \in Parent, UpsertParent(r, p)
  PROVE  RunsOK'
<1>0. /\ RunsTyped /\ r \in DOMAIN run /\ OwnOK(followed, run[r], row[r]) /\ run[r].pc \notin Ends
      /\ run[r] \in RunType /\ followed \in Pipeline
  BY ActiveIs, RunsAre DEF IngestionTyped, RunsOK, FeedTyped
<1>1. PICK u, w : u = run[r] /\ w = row[r]
  OBVIOUS
<1>2. PICK t, d : /\ t = (IF Changed(r, p) THEN u.touched \cup {p} ELSE u.touched)
                  /\ d = [u.deleted EXCEPT ![p] = children[p]]
  OBVIOUS
<1>3. PICK v : v = [u EXCEPT !.todo = @ \ {p}, !.locks = @ \cup {p}, !.touched = t, !.deleted = d]
  OBVIOUS
<1>4. u.pc = "write" /\ p \in u.todo /\ UNCHANGED <<followed, row>> /\ Becomes(r, v)
  <2>1. /\ run[r].pc = "write" /\ p \in run[r].todo /\ UNCHANGED <<feed, files, row, tables>>
        /\ Becomes(r, [run[r] EXCEPT !.todo = @ \ {p}, !.locks = @ \cup {p},
                                     !.touched = IF Changed(r, p) THEN @ \cup {p} ELSE @,
                                     !.deleted = [@ EXCEPT ![p] = children[p]]])
    BY UpsertParentEffect
  <2> QED BY <1>1, <1>2, <1>3, <2>1 DEF feed
<1>5. /\ v.pc = "write" /\ v.todo = u.todo \ {p} /\ v.locks = u.locks \cup {p} /\ v.touched = t
      /\ v.good = u.good /\ v.served = u.served /\ v.modes = u.modes /\ v.disturbed = u.disturbed
      /\ v.fetched = u.fetched /\ v.stored = u.stored
  BY <1>0, <1>1, <1>3, <1>4 DEF RunType
<1>6. w.status = "failed" /\ w.mode = "fixture" /\ LocksWhileWriting(u)
  BY <1>0, <1>1 DEF OwnOK, RowWaits, Ends
<1>7. RowWaits(followed, v, w) /\ LocksWhileWriting(v)
  BY <1>2, <1>5, <1>6 DEF RowWaits, LocksWhileWriting
<1>8. CASE followed = "traffic"
  BY <1>0, <1>1, <1>4, <1>8 DEF OwnOK, TrafficRun, Ends
<1>9. CASE followed = "register"
  <2>1. RegisterRun(u)
    BY <1>0, <1>1, <1>9 DEF OwnOK
  <2>2. RegisterRun(v)
    BY <1>4, <1>5, <2>1 DEF RegisterRun
  <2> QED BY <1>0, <1>1, <1>4, <1>7, <1>9, <2>2, BecomesOK DEF OwnOK
<1>10. CASE followed = "routes"
  <2>1. RoutesRun(u)
    BY <1>0, <1>1, <1>10 DEF OwnOK
  <2>2. RoutesRun(v)
    BY <1>4, <1>5, <2>1 DEF RoutesRun
  <2> QED BY <1>0, <1>1, <1>4, <1>7, <1>10, <2>2, BecomesOK DEF OwnOK
<1>11. CASE followed = "weather"
  <2>1. WeatherRun(u)
    BY <1>0, <1>1, <1>11 DEF OwnOK
  <2>2. t = u.touched \cup {p}
    BY <1>2, <1>11 DEF Changed
  <2>3. /\ v.locks \subseteq Station /\ v.todo \subseteq Station /\ v.touched = v.locks
        /\ SampleStations \subseteq v.todo \cup v.locks
        /\ v.fetched # "fixture" => Station \subseteq v.todo \cup v.locks
    BY <1>4, <1>5, <2>1, <2>2 DEF WeatherRun
  <2>4. WeatherRun(v)
    BY <1>5, <2>3 DEF WeatherRun
  <2> QED BY <1>0, <1>1, <1>4, <1>7, <1>11, <2>4, BecomesOK DEF OwnOK
<1> QED BY <1>0, <1>8, <1>9, <1>10, <1>11 DEF Pipeline

LEMMA WeatherOK ==
  ASSUME IngestionTyped, RunsOK, NEW r \in Active,
         ListStations(r) \/ CommitStations(r) \/ Observe(r) \/ StoreObservations(r)
  PROVE  RunsOK'
<1>0. /\ RunsTyped /\ r \in DOMAIN run /\ OwnOK(followed, run[r], row[r]) /\ run[r].pc \notin Ends
      /\ run[r] \in RunType
  BY ActiveIs, RunsAre DEF IngestionTyped, RunsOK
<1>1. PICK u, w : u = run[r] /\ w = row[r]
  OBVIOUS
<1>2. /\ u \in RunType
      /\ w.status = "failed" /\ w.mode = "fixture" /\ LocksWhileWriting(u)
      /\ followed = "weather" => WeatherRun(u)
  BY <1>0, <1>1 DEF OwnOK, RowWaits, Ends
<1>3. ASSUME NEW v, Becomes(r, v), UNCHANGED <<followed, row>>, followed = "weather",
             LocksWhileWriting(v), WeatherRun(v), v.pc # "done"
      PROVE  RunsOK'
  <2>1. OwnOK(followed, v, w)
    BY <1>2, <1>3 DEF OwnOK, RowWaits
  <2> QED BY <1>0, <1>1, <1>3, <2>1, BecomesOK
<1>4. CASE ListStations(r)
  <2>1. followed = "weather" /\ u.pc = "load" /\ UNCHANGED <<followed, row>>
    BY <1>1, <1>4, ListEffect DEF feed
  <2>2. PICK mode \in ProviderMode, from \in {"fixture", None} :
          /\ mode = "fixture" => from = "fixture"
          /\ Becomes(r, [u EXCEPT !.pc = "write", !.todo = Catalogue(mode), !.fetched = from])
    BY <1>1, <1>4, ListEffect
  <2>3. PICK v : v = [u EXCEPT !.pc = "write", !.todo = Catalogue(mode), !.fetched = from]
    OBVIOUS
  <2>4. /\ v.pc = "write" /\ v.touched = u.touched /\ v.locks = u.locks /\ v.todo = Catalogue(mode)
        /\ v.fetched = from
    BY <1>2, <2>3 DEF RunType
  <2>5. u.locks = {} /\ u.touched = {}
    BY <1>2, <2>1 DEF LocksWhileWriting
  <2>6. /\ SampleStations \subseteq v.todo /\ v.todo \subseteq Station
        /\ v.fetched # "fixture" => Station \subseteq v.todo
    BY <2>2, <2>4, IngestionAssumption DEF Catalogue
  <2>7. v.locks = {} /\ v.touched = {} /\ v.pc = "write"
    BY <2>4, <2>5
  <2>8. LocksWhileWriting(v)
    BY <2>7 DEF LocksWhileWriting
  <2>9. WeatherRun(v)
    BY <2>6, <2>7 DEF WeatherRun
  <2> QED BY <1>3, <2>1, <2>2, <2>3, <2>7, <2>8, <2>9
<1>5. CASE CommitStations(r)
  <2>1. followed = "weather" /\ u.pc = "write" /\ u.todo = {} /\ UNCHANGED <<followed, row>>
    BY <1>1, <1>5, CommitStationsEffect DEF feed
  <2>2. PICK known \in SUBSET Station :
          /\ \A p \in Station : p \in u.touched => p \in known
          /\ Becomes(r, [u EXCEPT !.pc = "observe", !.locks = {}, !.touched = {}, !.known = known])
    BY <1>1, <1>5, CommitStationsEffect
  <2>3. PICK v : v = [u EXCEPT !.pc = "observe", !.locks = {}, !.touched = {}, !.known = known]
    OBVIOUS
  <2>4. /\ v.pc = "observe" /\ v.touched = {} /\ v.locks = {} /\ v.todo = u.todo
        /\ v.fetched = u.fetched /\ v.known = known
    BY <1>2, <2>3 DEF RunType
  <2>5. SampleStations \subseteq v.known /\ (v.fetched # "fixture" => Station \subseteq v.known)
    BY <1>2, <2>1, <2>2, <2>4, IngestionAssumption DEF WeatherRun
  <2>6. LocksWhileWriting(v) /\ WeatherRun(v)
    BY <2>1, <2>4, <2>5 DEF LocksWhileWriting, WeatherRun, AllStored
  <2> QED BY <1>3, <2>1, <2>2, <2>3, <2>4, <2>6
<1>6. CASE Observe(r)
  <2>1. followed = "weather" /\ u.pc = "observe" /\ UNCHANGED <<followed, row>>
    BY <1>1, <1>6, ObserveEffect DEF feed
  <2>2. PICK mode \in ProviderMode, product \in ProviderMode, good \in SUBSET Station, bad \in SUBSET Station :
          /\ good \subseteq Catalogue(mode)
          /\ Becomes(r, [run[r] EXCEPT !.pc = "store", !.modes = {Weakest({mode, product})},
                           !.good = good, !.bad = bad, !.fetched = None,
                           !.disturbed = run[r].fetched = "fixture" /\ mode # "fixture"])
    BY <1>6, ObserveEffect
  <2>3. PICK v : v = [run[r] EXCEPT !.pc = "store", !.modes = {Weakest({mode, product})},
                           !.good = good, !.bad = bad, !.fetched = None,
                           !.disturbed = run[r].fetched = "fixture" /\ mode # "fixture"]
    OBVIOUS
  <2>4. /\ v.pc = "store" /\ v.touched = u.touched /\ v.locks = u.locks /\ v.todo = u.todo
        /\ v.good = good /\ v.known = u.known
        /\ v.disturbed = (u.fetched = "fixture" /\ mode # "fixture")
    BY <1>1, <1>2, <2>3 DEF RunType
  <2>5. \/ v.good \subseteq v.known
        \/ v.disturbed /\ v.good \cap SampleStations \subseteq v.known
    <3>1. SampleStations \subseteq u.known /\ (u.fetched # "fixture" => Station \subseteq u.known)
      BY <1>2, <2>1 DEF WeatherRun
    <3>2. mode = "fixture" => good \subseteq SampleStations
      BY <2>2 DEF Catalogue
    <3> QED BY <2>4, <3>1, <3>2
  <2>6. LocksWhileWriting(v) /\ WeatherRun(v)
    BY <1>2, <2>1, <2>4, <2>5 DEF LocksWhileWriting, WeatherRun
  <2> QED BY <1>3, <2>1, <2>2, <2>3, <2>4, <2>6
<1>7. CASE StoreObservations(r)
  <2>1. PICK v : v = [u EXCEPT !.pc = "close", !.stored = Storable(r), !.known = {}]
    OBVIOUS
  <2>2. followed = "weather" /\ u.pc = "store" /\ UNCHANGED <<followed, row>> /\ Becomes(r, v)
    BY <1>1, <1>7, <2>1, StoreEffect DEF feed
  <2>3. /\ v.pc = "close" /\ v.touched = u.touched /\ v.locks = u.locks /\ v.todo = u.todo
        /\ v.good = u.good /\ v.disturbed = u.disturbed /\ v.stored = u.good \cap u.known
    BY <1>1, <1>2, <2>1 DEF RunType, Storable
  <2>4. AllStored("weather", v)
    BY <1>2, <2>2, <2>3 DEF WeatherRun, AllStored
  <2>5. LocksWhileWriting(v) /\ WeatherRun(v)
    BY <1>2, <2>2, <2>3, <2>4 DEF LocksWhileWriting, WeatherRun
  <2> QED BY <1>3, <2>2, <2>3, <2>5
<1> QED BY <1>4, <1>5, <1>6, <1>7

LEMMA RunsOKStep ==
  ASSUME IngestionTyped, RunsOK, DownloadIsThere, [Next]_vars
  PROVE  RunsOK'
<1>1. CASE SourceSteps \/ UNCHANGED vars
  <2>1. UNCHANGED <<followed, run, row>>
    BY <1>1, SourceEffect DEF vars, feed
  <2> QED BY <2>1 DEF RunsOK
<1>2. ASSUME NEW policy \in Policies, StartRun(policy)
      PROVE  RunsOK'
  <2>1. PICK n, u, w : n = Len(run) + 1 /\ u = run'[n] /\ w = row'[n]
    OBVIOUS
  <2>2. /\ UNCHANGED followed /\ DOMAIN run' = DOMAIN run \cup {n} /\ w = InFlight
        /\ \A r \in DOMAIN run : run'[r] = run[r] /\ row'[r] = row[r]
        /\ u = [policy |-> policy, pc |-> "load", todo |-> Work,
                good |-> {}, bad |-> {}, modes |-> {}, stored |-> {},
                fetched |-> None, served |-> None, disturbed |-> FALSE, known |-> {},
                locks |-> {}, touched |-> {}, deleted |-> [q \in Parent |-> {}]]
    BY <1>2, <2>1, StartEffect DEF feed
  <2>3. /\ u.pc = "load" /\ u.todo = Work /\ u.good = {} /\ u.stored = {} /\ u.locks = {}
        /\ u.touched = {} /\ u.modes = {}
    BY <2>2
  <2>4. RowWaits(followed, u, w) /\ LocksWhileWriting(u)
    BY <2>2, <2>3 DEF RowWaits, LocksWhileWriting, InFlight
  <2>5. /\ TrafficRun(u) /\ RegisterRun(u)
        /\ followed = "routes" => RoutesRun(u)
        /\ followed = "weather" => WeatherRun(u)
    BY <2>3 DEF TrafficRun, RegisterRun, RoutesRun, WeatherRun, Work
  <2>6. OwnOK(followed, u, w)
    BY <2>4, <2>5 DEF OwnOK
  <2> QED BY <2>1, <2>2, <2>6 DEF RunsOK
<1> QED BY <1>1, <1>2, EndedOK, TrafficOK, RegisterOK, UpsertParentOK, RoutesOK, WeatherOK, StepCases

-----------------------------------------------------------------------------
(* The file a register run will find.                                        *)

LEMMA DownloadStays ==
  ASSUME RunsTyped, DownloadIsThere, UNCHANGED <<followed, pointer, archived>>,
         NEW r \in DOMAIN run, NEW u, Becomes(r, u),
         followed # "register" \/ u.pc # "locate" \/ u.modes # {"live"}
  PROVE  DownloadIsThere'
<1>1. Moves(r) /\ run'[r] = u
  BY BecomesIs
<1> QED BY <1>1 DEF DownloadIsThere, Moves

LEMMA ProbeLiveDownload ==
  ASSUME IngestionTyped, NEW r \in Active, ProbeLive(r)
  PROVE  DownloadIsThere'
<1>1. /\ archived' = edition /\ edition \in Nat /\ DOMAIN run' = DOMAIN run
      /\ \E kept \in BOOLEAN :
              /\ IF kept THEN pointer' = edition ELSE UNCHANGED pointer
              /\ run'[r] = [run[r] EXCEPT !.pc = "locate", !.modes = {"live"},
                                          !.fetched = edition, !.disturbed = ~kept]
      /\ \A s \in DOMAIN run \ {r} :
              run'[s] = IF run[s].pc = "locate" THEN [run[s] EXCEPT !.disturbed = TRUE] ELSE run[s]
  BY ProbeLiveEffect DEF IngestionTyped, FeedTyped
<1>2. r \in DOMAIN run /\ \A s \in DOMAIN run : run[s] \in RunType
  BY RunsAre DEF Active, IngestionTyped
<1>3. ASSUME run'[r].disturbed = FALSE
      PROVE  run'[r].fetched = edition /\ pointer' = edition
  <2>1. PICK kept \in BOOLEAN :
              /\ IF kept THEN pointer' = edition ELSE UNCHANGED pointer
              /\ run'[r] = [run[r] EXCEPT !.pc = "locate", !.modes = {"live"},
                                          !.fetched = edition, !.disturbed = ~kept]
    BY <1>1
  <2>2. run'[r].disturbed = ~kept /\ run'[r].fetched = edition
    BY <1>2, <2>1 DEF RunType
  <2> QED BY <1>3, <2>1, <2>2
<1>4. run'[r].disturbed \in BOOLEAN
  <2>1. PICK kept \in BOOLEAN :
              run'[r] = [run[r] EXCEPT !.pc = "locate", !.modes = {"live"},
                                          !.fetched = edition, !.disturbed = ~kept]
    BY <1>1
  <2> QED BY <1>2, <2>1 DEF RunType
<1>5. ASSUME NEW s \in DOMAIN run \ {r}, run'[s].pc = "locate"
      PROVE  run'[s].disturbed
  BY <1>1, <1>2, <1>5 DEF RunType
<1> QED BY <1>1, <1>3, <1>4, <1>5 DEF DownloadIsThere

LEMMA DownloadStep ==
  ASSUME IngestionTyped, RunsOK, DownloadIsThere, [Next]_vars
  PROVE  DownloadIsThere'
<1>0. /\ RunsTyped /\ \A r \in Active : r \in DOMAIN run /\ run[r] \in RunType
  BY RunsAre DEF IngestionTyped, Active
<1>1. CASE SourceSteps \/ UNCHANGED vars
  <2>1. UNCHANGED <<followed, run, archived>> /\ pointer' \in {pointer, None}
    BY <1>1, SourceEffect DEF vars, feed, files
  <2> QED BY <2>1 DEF DownloadIsThere
<1>2. ASSUME NEW policy \in Policies, StartRun(policy)
      PROVE  DownloadIsThere'
  <2>1. /\ UNCHANGED <<followed, pointer, archived>> /\ DOMAIN run' = DOMAIN run \cup {Len(run) + 1}
        /\ \A r \in DOMAIN run : run'[r] = run[r]
    BY <1>2, StartEffect DEF feed, files
  <2>3. PICK u : u = run'[Len(run) + 1]
    OBVIOUS
  <2>4. u = [policy |-> policy, pc |-> "load", todo |-> Work,
             good |-> {}, bad |-> {}, modes |-> {}, stored |-> {},
             fetched |-> None, served |-> None, disturbed |-> FALSE, known |-> {},
             locks |-> {}, touched |-> {}, deleted |-> [q \in Parent |-> {}]]
    BY <1>2, <2>3, StartEffect
  <2>2. run'[Len(run) + 1].pc = "load"
    BY <2>3, <2>4
  <2> QED BY <2>1, <2>2 DEF DownloadIsThere
<1>3. ASSUME NEW r \in Active, CloseRun(r) \/ Fails(r)
      PROVE  DownloadIsThere'
  <2>1. UNCHANGED <<followed, pointer, archived>> /\ \E pc \in Ends : EndsAs(r, pc)
    BY <1>0, <1>3, CloseRunEffect, FailEffect DEF Fails, feed, files, Ends
  <2> QED BY <1>0, <2>1 DEF DownloadIsThere, EndsAs, Moves, Ends
<1>4. ASSUME NEW r \in Active, followed # "register", UNCHANGED <<followed, pointer, archived>>,
             \E u : Becomes(r, u)
      PROVE  DownloadIsThere'
  BY <1>0, <1>4, DownloadStays
<1>5. ASSUME NEW r \in Active,
             Loads(r) \/ UpsertEvents(r) \/ CloseVanished(r)
      PROVE  DownloadIsThere'
  <2>1. UNCHANGED <<followed, pointer, archived>> /\ followed = "traffic" /\ \E u : Becomes(r, u)
    <3>1. CASE Loads(r)
      BY <3>1, LoadEffect DEF Loads, feed
    <3>2. CASE UpsertEvents(r)
      BY <3>2, UpsertEffect DEF feed, files
    <3>3. CASE CloseVanished(r)
      BY <3>3, SweepEffect DEF feed, files
    <3> QED BY <1>5, <3>1, <3>2, <3>3
  <2> QED BY <1>4, <2>1
<1>6. ASSUME NEW r \in Active,
             \/ \E c \in Corridor : RouteCorridor(r, c) \/ CorridorFails(r, c)
             \/ CommitCorridor(r) \/ CorridorsDone(r)
             \/ ListStations(r) \/ CommitStations(r) \/ Observe(r) \/ StoreObservations(r)
      PROVE  DownloadIsThere'
  <2>1. UNCHANGED <<followed, pointer, archived>> /\ followed # "register" /\ \E u : Becomes(r, u)
    <3>1. CASE \/ \E c \in Corridor : RouteCorridor(r, c) \/ CorridorFails(r, c)
               \/ CommitCorridor(r) \/ CorridorsDone(r)
      BY <3>1, CorridorEffect, CorridorsEndEffect DEF feed, files
    <3>2. CASE ListStations(r) \/ Observe(r)
      BY <3>2, ListEffect, ObserveEffect DEF feed, files
    <3>3. CASE CommitStations(r) \/ StoreObservations(r)
      BY <3>3, CommitStationsEffect, StoreEffect DEF feed, files
    <3> QED BY <1>6, <3>1, <3>2, <3>3
  <2> QED BY <1>4, <2>1
<1>7. ASSUME NEW r \in Active, NEW p \in Parent, UpsertParent(r, p)
      PROVE  DownloadIsThere'
  <2>1. PICK t, d : /\ t = (IF Changed(r, p) THEN run[r].touched \cup {p} ELSE run[r].touched)
                    /\ d = [run[r].deleted EXCEPT ![p] = children[p]]
    OBVIOUS
  <2>2. PICK v : v = [run[r] EXCEPT !.todo = @ \ {p}, !.locks = @ \cup {p}, !.touched = t, !.deleted = d]
    OBVIOUS
  <2>3. UNCHANGED <<followed, pointer, archived>> /\ Becomes(r, v) /\ run[r].pc = "write"
    <3>1. /\ run[r].pc = "write" /\ UNCHANGED <<feed, files, row, tables>>
          /\ Becomes(r, [run[r] EXCEPT !.todo = @ \ {p}, !.locks = @ \cup {p},
                                       !.touched = IF Changed(r, p) THEN @ \cup {p} ELSE @,
                                       !.deleted = [@ EXCEPT ![p] = children[p]]])
      BY <1>7, UpsertParentEffect
    <3> QED BY <2>1, <2>2, <3>1 DEF feed, files
  <2>4. v.pc = "write"
    BY <1>0, <2>2, <2>3 DEF RunType
  <2> QED BY <1>0, <2>3, <2>4, DownloadStays
<1>8. ASSUME NEW r \in Active, ProbeFallback(r) \/ LocateFile(r) \/ CommitRegister(r)
      PROVE  DownloadIsThere'
  <2>1. CASE ProbeFallback(r)
    <3>1. PICK mode \in {"cache", "fixture"}, edn \in Nat :
            Becomes(r, [run[r] EXCEPT !.pc = "locate", !.modes = {mode}, !.fetched = edn])
      BY <2>1, ProbeFallbackEffect
    <3>2. PICK v : v = [run[r] EXCEPT !.pc = "locate", !.modes = {mode}, !.fetched = edn]
      OBVIOUS
    <3>3. UNCHANGED <<followed, pointer, archived>>
      BY <2>1, ProbeFallbackEffect DEF feed, files
    <3>4. v.modes = {mode} /\ mode # "live"
      BY <1>0, <3>1, <3>2 DEF RunType
    <3> QED BY <1>0, <3>1, <3>2, <3>3, <3>4, DownloadStays
  <2>2. CASE LocateFile(r)
    <3>1. PICK file \in Nat \cup {None} :
              Becomes(r, [run[r] EXCEPT !.pc = "write", !.served = file,
                                        !.todo = Sites(file), !.good = Sites(file)])
      BY <2>2, LocateEffect
    <3>2. PICK v : v = [run[r] EXCEPT !.pc = "write", !.served = file,
                                        !.todo = Sites(file), !.good = Sites(file)]
      OBVIOUS
    <3>3. UNCHANGED <<followed, pointer, archived>>
      BY <2>2, LocateEffect DEF feed, files
    <3>4. v.pc = "write"
      BY <1>0, <3>2 DEF RunType
    <3> QED BY <1>0, <3>1, <3>2, <3>3, <3>4, DownloadStays
  <2>3. CASE CommitRegister(r)
    <3>1. PICK v : v = [run[r] EXCEPT !.pc = "close", !.locks = {}, !.touched = {},
                                      !.stored = run[r].good]
      OBVIOUS
    <3>2. UNCHANGED <<followed, pointer, archived>> /\ Becomes(r, v)
      BY <2>3, <3>1, CommitRegisterEffect DEF feed, files
    <3>3. v.pc = "close"
      BY <1>0, <3>1 DEF RunType
    <3> QED BY <1>0, <3>2, <3>3, DownloadStays
  <2> QED BY <1>8, <2>1, <2>2, <2>3
<1> QED BY <1>1, <1>2, <1>3, <1>5, <1>6, <1>7, <1>8, ProbeLiveDownload, StepCases

-----------------------------------------------------------------------------
(* The tables of parents and children.                                       *)

\* The run goes on without touching what it has locked ...
Kept(u, v) ==
  /\ v.locks = u.locks /\ v.touched = u.touched /\ v.deleted = u.deleted /\ v.served = u.served
  /\ v.known = u.known
  /\ v.pc \in {"observe", "store"} => u.pc \in {"observe", "store"}

\* ... or it holds no lock and knows no station.
Idle(v) == v.locks = {} /\ v.pc \notin {"observe", "store"}

LEMMA QuietTables ==
  ASSUME TablesOK, UNCHANGED <<followed, parent, children>>,
         \A s \in DOMAIN run' : Idle(run'[s]) \/ (s \in DOMAIN run /\ Kept(run[s], run'[s]))
  PROVE  TablesOK'
<1>0. LocksApart /\ LockedRowsStay /\ ParentsOf /\ KnownAreStored /\ ChildrenMatchParent /\ StationsAreOneEdition
  BY DEF TablesOK
<1>1. ParentsOf' /\ ChildrenMatchParent' /\ StationsAreOneEdition'
  BY <1>0 DEF ParentsOf, ChildrenMatchParent, StationsAreOneEdition
<1>2. LocksApart'
  BY <1>0 DEF LocksApart, Idle, Kept
<1>3. LockedRowsStay'
  BY <1>0 DEF LockedRowsStay, Idle, Kept
<1>4. KnownAreStored'
  BY <1>0 DEF KnownAreStored, Idle, Kept
<1> QED BY <1>1, <1>2, <1>3, <1>4 DEF TablesOK

LEMMA QuietBecomes ==
  ASSUME RunsTyped, TablesOK, UNCHANGED <<followed, parent, children>>,
         NEW r \in DOMAIN run, NEW v, Becomes(r, v), Idle(v) \/ Kept(run[r], v)
  PROVE  TablesOK'
<1>1. Moves(r) /\ run'[r] = v
  BY BecomesIs
<1>2. \A s \in DOMAIN run \ {r} : Kept(run[s], run'[s])
  BY <1>1 DEF Kept, Moves
<1> QED BY <1>1, <1>2, QuietTables DEF Moves

\* Steps that neither lock a row nor write one.
LEMMA QuietSteps ==
  ASSUME IngestionTyped, RunsOK, TablesOK, NEW r \in Active,
         \/ Loads(r) \/ UpsertEvents(r) \/ CloseVanished(r)
         \/ ProbeFallback(r) \/ LocateFile(r)
         \/ \E c \in Corridor : RouteCorridor(r, c) \/ CorridorFails(r, c)
         \/ ListStations(r) \/ Observe(r)
  PROVE  TablesOK'
<1>0. /\ RunsTyped /\ r \in DOMAIN run /\ run[r] \in RunType /\ LocksWhileWriting(run[r])
      /\ OwnOK(followed, run[r], row[r])
  BY RunsAre DEF IngestionTyped, Active, RunsOK, OwnOK
<1>1. PICK u : u = run[r]
  OBVIOUS
<1>2. CASE Loads(r)
  <2>1. PICK e \in Endpoint : LoadLive(r, e) \/ LoadCached(r, e) \/ LoadSample(r, e)
    BY <1>2 DEF Loads
  <2>2. UNCHANGED <<followed, parent, children>>
    BY <2>1, LoadEffect DEF feed
  <2>3. PICK good \in SUBSET Event, bad \in SUBSET Event, mode \in ProviderMode :
          Becomes(r, [u EXCEPT !.todo = @ \ {e}, !.good = @ \cup good, !.bad = @ \cup bad,
                               !.modes = @ \cup {mode}])
    BY <1>1, <2>1, LoadEffect
  <2>4. PICK v : v = [u EXCEPT !.todo = @ \ {e}, !.good = @ \cup good, !.bad = @ \cup bad,
                               !.modes = @ \cup {mode}]
    OBVIOUS
  <2>5. Kept(u, v)
    BY <1>0, <1>1, <2>4 DEF RunType, Kept
  <2> QED BY <1>0, <1>1, <2>2, <2>3, <2>4, <2>5, QuietBecomes
<1>3. CASE UpsertEvents(r)
  <2>1. PICK v : v = [u EXCEPT !.pc = "sweep", !.stored = u.good]
    OBVIOUS
  <2>2. Becomes(r, v) /\ UNCHANGED <<followed, parent, children>>
    BY <1>1, <1>3, <2>1, UpsertEffect DEF feed
  <2>3. Kept(u, v)
    BY <1>0, <1>1, <2>1 DEF RunType, Kept
  <2> QED BY <1>0, <1>1, <2>2, <2>3, QuietBecomes
<1>4. CASE CloseVanished(r)
  <2>1. PICK v : v = [u EXCEPT !.pc = "close"]
    OBVIOUS
  <2>2. Becomes(r, v) /\ UNCHANGED <<followed, parent, children>>
    BY <1>1, <1>4, <2>1, SweepEffect DEF feed
  <2>3. Kept(u, v)
    BY <1>0, <1>1, <2>1 DEF RunType, Kept
  <2> QED BY <1>0, <1>1, <2>2, <2>3, QuietBecomes
<1>5. CASE ProbeFallback(r)
  <2>1. PICK mode \in {"cache", "fixture"}, edn \in Nat :
          Becomes(r, [u EXCEPT !.pc = "locate", !.modes = {mode}, !.fetched = edn])
    BY <1>1, <1>5, ProbeFallbackEffect
  <2>2. PICK v : v = [u EXCEPT !.pc = "locate", !.modes = {mode}, !.fetched = edn]
    OBVIOUS
  <2>3. UNCHANGED <<followed, parent, children>>
    BY <1>5, ProbeFallbackEffect DEF feed, tables
  <2>4. Kept(u, v)
    BY <1>0, <1>1, <2>2 DEF RunType, Kept
  <2> QED BY <1>0, <1>1, <2>1, <2>2, <2>3, <2>4, QuietBecomes
<1>6. CASE LocateFile(r)
  <2>1. PICK file \in Nat \cup {None} :
          Becomes(r, [u EXCEPT !.pc = "write", !.served = file, !.todo = Sites(file), !.good = Sites(file)])
    BY <1>1, <1>6, LocateEffect
  <2>2. PICK v : v = [u EXCEPT !.pc = "write", !.served = file, !.todo = Sites(file), !.good = Sites(file)]
    OBVIOUS
  <2>3. UNCHANGED <<followed, parent, children>> /\ u.pc = "locate"
    BY <1>1, <1>6, LocateEffect DEF feed, tables
  <2>4. v.locks = u.locks /\ v.pc = "write"
    BY <1>0, <1>1, <2>2 DEF RunType
  <2>5. Idle(v)
    BY <1>0, <1>1, <2>3, <2>4 DEF Idle, LocksWhileWriting
  <2> QED BY <1>0, <1>1, <2>1, <2>2, <2>3, <2>5, QuietBecomes
<1>8. ASSUME NEW c \in Corridor, RouteCorridor(r, c) \/ CorridorFails(r, c)
      PROVE  TablesOK'
  <2>1. \/ \E mode \in ProviderMode :
             Becomes(r, [u EXCEPT !.modes = @ \cup {mode}, !.good = @ \cup {c}, !.pc = "write"])
        \/ Becomes(r, [u EXCEPT !.bad = @ \cup {c}, !.todo = @ \ {c}])
    BY <1>1, <1>8, CorridorEffect
  <2>2. UNCHANGED <<followed, parent, children>>
    BY <1>8, CorridorEffect DEF feed, tables
  <2>3. ASSUME NEW mode \in ProviderMode,
               Becomes(r, [u EXCEPT !.modes = @ \cup {mode}, !.good = @ \cup {c}, !.pc = "write"])
        PROVE  TablesOK'
    <3>1. PICK v : v = [u EXCEPT !.modes = @ \cup {mode}, !.good = @ \cup {c}, !.pc = "write"]
      OBVIOUS
    <3>2. Kept(u, v)
      BY <1>0, <1>1, <3>1 DEF RunType, Kept
    <3> QED BY <1>0, <1>1, <2>2, <2>3, <3>1, <3>2, QuietBecomes
  <2>4. CASE Becomes(r, [u EXCEPT !.bad = @ \cup {c}, !.todo = @ \ {c}])
    <3>1. PICK v : v = [u EXCEPT !.bad = @ \cup {c}, !.todo = @ \ {c}]
      OBVIOUS
    <3>2. Kept(u, v)
      BY <1>0, <1>1, <3>1 DEF RunType, Kept
    <3> QED BY <1>0, <1>1, <2>2, <2>4, <3>1, <3>2, QuietBecomes
  <2> QED BY <2>1, <2>3, <2>4
<1>9. CASE ListStations(r)
  <2>1. PICK mode \in ProviderMode, from \in {"fixture", None} :
          Becomes(r, [u EXCEPT !.pc = "write", !.todo = Catalogue(mode), !.fetched = from])
    BY <1>1, <1>9, ListEffect
  <2>2. PICK v : v = [u EXCEPT !.pc = "write", !.todo = Catalogue(mode), !.fetched = from]
    OBVIOUS
  <2>3. UNCHANGED <<followed, parent, children>>
    BY <1>9, ListEffect DEF feed, tables
  <2>4. Kept(u, v)
    BY <1>0, <1>1, <2>2 DEF RunType, Kept
  <2> QED BY <1>0, <1>1, <2>1, <2>2, <2>3, <2>4, QuietBecomes
<1>10. CASE Observe(r)
  <2>1. PICK mode \in ProviderMode, product \in ProviderMode, good \in SUBSET Station, bad \in SUBSET Station :
          Becomes(r, [run[r] EXCEPT !.pc = "store", !.modes = {Weakest({mode, product})},
                           !.good = good, !.bad = bad, !.fetched = None,
                           !.disturbed = run[r].fetched = "fixture" /\ mode # "fixture"])
    BY <1>10, ObserveEffect
  <2>2. PICK v : v = [run[r] EXCEPT !.pc = "store", !.modes = {Weakest({mode, product})},
                           !.good = good, !.bad = bad, !.fetched = None,
                           !.disturbed = run[r].fetched = "fixture" /\ mode # "fixture"]
    OBVIOUS
  <2>3. UNCHANGED <<followed, parent, children>> /\ run[r].pc = "observe"
    BY <1>10, ObserveEffect DEF feed, tables
  <2>4. Kept(run[r], v)
    BY <1>0, <2>2, <2>3 DEF RunType, Kept
  <2> QED BY <1>0, <2>1, <2>2, <2>3, <2>4, QuietBecomes
<1> QED BY <1>2, <1>3, <1>4, <1>5, <1>6, <1>8, <1>9, <1>10

LEMMA UpsertParentTables ==
  ASSUME IngestionTyped, RunsOK, TablesOK, NEW r \in Active, NEW p \in Parent, UpsertParent(r, p)
  PROVE  TablesOK'
<1>0. /\ RunsTyped /\ r \in DOMAIN run /\ run[r] \in RunType
      /\ followed \in Pipeline /\ OwnOK(followed, run[r], row[r])
  BY RunsAre DEF IngestionTyped, Active, RunsOK, FeedTyped
<1>1. LocksApart /\ LockedRowsStay /\ ParentsOf /\ KnownAreStored /\ ChildrenMatchParent /\ StationsAreOneEdition
  BY DEF TablesOK
<1>2. PICK u, t, d : /\ u = run[r]
                     /\ t = (IF Changed(r, p) THEN u.touched \cup {p} ELSE u.touched)
                     /\ d = [u.deleted EXCEPT ![p] = children[p]]
  OBVIOUS
<1>3. PICK v : v = [u EXCEPT !.todo = @ \ {p}, !.locks = @ \cup {p}, !.touched = t, !.deleted = d]
  OBVIOUS
<1>4. /\ u.pc = "write" /\ UNCHANGED <<followed, parent, children>> /\ Becomes(r, v)
      /\ \A s \in DOMAIN run : p \notin run[s].locks
  <2>1. /\ run[r].pc = "write" /\ UNCHANGED <<feed, files, row, tables>>
        /\ \A s \in DOMAIN run : p \notin run[s].locks
        /\ Becomes(r, [run[r] EXCEPT !.todo = @ \ {p}, !.locks = @ \cup {p},
                                     !.touched = IF Changed(r, p) THEN @ \cup {p} ELSE @,
                                     !.deleted = [@ EXCEPT ![p] = children[p]]])
    BY UpsertParentEffect
  <2> QED BY <1>2, <1>3, <2>1 DEF feed, tables
<1>5. /\ Moves(r) /\ run'[r] = v
  BY <1>0, <1>4, BecomesIs
<1>6. /\ v.pc = "write" /\ v.locks = u.locks \cup {p} /\ v.touched = t /\ v.deleted = d
      /\ v.served = u.served
  BY <1>0, <1>2, <1>3, <1>4 DEF RunType
<1>7. u.deleted \in [Parent -> SUBSET Nat] /\ u.locks \subseteq Parent
  BY <1>0, <1>2, FieldsAre
<1>8. ParentsOf' /\ ChildrenMatchParent' /\ StationsAreOneEdition'
  BY <1>1, <1>4 DEF ParentsOf, ChildrenMatchParent, StationsAreOneEdition
<1>9. LocksApart'
  BY <1>0, <1>1, <1>2, <1>4, <1>5, <1>6 DEF LocksApart, Moves
<1>10. LockedRowsStay'
  <2>1. ASSUME NEW s \in DOMAIN run \ {r}, NEW q \in run[s].locks
        PROVE  /\ followed \in {"register", "routes"} => run'[s].deleted[q] = children[q]
               /\ q \notin run'[s].touched => followed = "register" /\ parent[q].edition = run'[s].served
    BY <1>1, <1>5, <2>1 DEF LockedRowsStay, Moves
  <2>2. ASSUME NEW q \in u.locks
        PROVE  /\ followed \in {"register", "routes"} => v.deleted[q] = children[q]
               /\ q \notin v.touched => followed = "register" /\ parent[q].edition = v.served
    <3>1. q # p /\ v.deleted[q] = u.deleted[q]
      BY <1>0, <1>2, <1>4, <1>6, <1>7
    <3>2. q \in u.touched => q \in v.touched
      BY <1>2, <1>6
    <3>3. /\ followed \in {"register", "routes"} => u.deleted[q] = children[q]
          /\ q \notin u.touched => followed = "register" /\ parent[q].edition = u.served
      BY <1>0, <1>1, <1>2 DEF LockedRowsStay
    <3> QED BY <1>6, <3>1, <3>2, <3>3
  <2>3. /\ v.deleted[p] = children[p]
        /\ p \notin v.touched => followed = "register" /\ parent[p].edition = v.served
    <3>1. v.deleted[p] = children[p]
      BY <1>2, <1>6, <1>7
    <3>2. followed # "traffic"
      BY <1>0, <1>2, <1>4 DEF OwnOK, TrafficRun, Ends
    <3>3. p \notin v.touched => ~Changed(r, p)
      BY <1>2, <1>6
    <3>4. ~Changed(r, p) => followed \notin {"routes", "weather"} /\ parent[p].edition = u.served
      BY <1>2 DEF Changed
    <3> QED BY <1>0, <1>6, <3>1, <3>2, <3>3, <3>4 DEF Pipeline
  <2>4. ASSUME NEW s \in DOMAIN run, NEW q \in run'[s].locks
        PROVE  /\ followed \in {"register", "routes"} => run'[s].deleted[q] = children[q]
               /\ q \notin run'[s].touched => followed = "register" /\ parent[q].edition = run'[s].served
    <3>1. CASE s # r
      <4>1. run'[s] = run[s]
        BY <1>5, <3>1 DEF Moves
      <4> QED BY <2>1, <2>4, <3>1, <4>1
    <3>2. CASE s = r
      <4>1. q \in u.locks \/ q = p
        BY <1>5, <1>6, <2>4, <3>2
      <4> QED BY <1>5, <2>2, <2>3, <3>2, <4>1
    <3> QED BY <3>1, <3>2
  <2> QED BY <1>4, <1>5, <2>4 DEF LockedRowsStay, Moves
<1>11. KnownAreStored'
  BY <1>1, <1>4, <1>5, <1>6 DEF KnownAreStored, Moves
<1> QED BY <1>8, <1>9, <1>10, <1>11 DEF TablesOK

\* A commit writes what the run has locked, and nobody else has.
LEMMA CommitTables ==
  ASSUME IngestionTyped, RunsOK, TablesOK, NEW r \in Active, UNCHANGED followed,
         followed \in {"register", "routes"}, Commit(r), NEW v, Becomes(r, v), Idle(v),
         followed = "register" => run[r].pc = "write" /\ run[r].todo = {}
  PROVE  TablesOK'
<1>0. /\ RunsTyped /\ r \in DOMAIN run /\ run[r] \in RunType /\ r \in Nat
      /\ OwnOK(followed, run[r], row[r]) /\ Moves(r) /\ run'[r] = v
  BY RunsAre, BecomesIs DEF IngestionTyped, Active, RunsOK
<1>1. LocksApart /\ LockedRowsStay /\ ParentsOf /\ KnownAreStored /\ ChildrenMatchParent /\ StationsAreOneEdition
  BY DEF TablesOK
<1>2. PICK u : u = run[r]
  OBVIOUS
<1>3. u.touched \subseteq u.locks /\ u.locks \subseteq Parent
  BY <1>0, <1>2, FieldsAre DEF OwnOK, LocksWhileWriting
<1>4. /\ \A p \in u.touched : parent'[p] = [edition |-> u.served, by |-> r] /\ children'[p] = {r}
      /\ \A p \in Parent \ u.touched : parent'[p] = parent[p] /\ children'[p] = children[p]
  <2>1. \A p \in u.touched : u.deleted[p] = children[p]
    BY <1>0, <1>1, <1>2, <1>3 DEF LockedRowsStay
  <2>2. \A p \in u.touched : Replaced(r, p) = {r}
    BY <1>2, <2>1 DEF Replaced
  <2> QED BY <1>2, <1>3, <2>2 DEF Commit
<1>5. ASSUME NEW s \in DOMAIN run, s # r, NEW p \in run[s].locks
      PROVE  p \in Parent \ u.touched
  <2>1. run[s].locks \subseteq Parent
    BY <1>0, <1>5, RunsAre, FieldsAre
  <2>2. run[r].locks \cap run[s].locks = {}
    BY <1>0, <1>1, <1>5 DEF LocksApart
  <2> QED BY <1>2, <1>3, <1>5, <2>1, <2>2
<1>6. LocksApart'
  BY <1>0, <1>1 DEF LocksApart, Idle, Moves
<1>7. LockedRowsStay'
  <2>1. ASSUME NEW s \in DOMAIN run, s # r, NEW p \in run[s].locks
        PROVE  /\ run[s].deleted[p] = children'[p]
               /\ p \notin run[s].touched => followed = "register" /\ parent'[p].edition = run[s].served
    BY <1>1, <1>4, <1>5, <2>1 DEF LockedRowsStay
  <2> QED BY <1>0, <2>1 DEF LockedRowsStay, Idle, Moves
<1>8. \A p \in u.touched : parent'[p] # NoRow /\ parent'[p].by = r /\ parent'[p].edition = u.served
  BY <1>0, <1>4, IngestionAssumption DEF NoRow
<1>9. KnownAreStored'
  <2>1. ASSUME NEW s \in DOMAIN run, s # r, run[s].pc \in {"observe", "store"}
        PROVE  followed = "weather"
    <3>1. OwnOK(followed, run[s], row[s])
      BY <2>1 DEF RunsOK
    <3> QED BY <2>1, <3>1 DEF OwnOK, RegisterRun, RoutesRun, Ends
  <2> QED BY <1>0, <2>1 DEF KnownAreStored, Idle, Moves
<1>10. ChildrenMatchParent'
  <2>1. ASSUME NEW p \in Parent
        PROVE  children'[p] = IF parent'[p] = NoRow THEN {} ELSE {parent'[p].by}
    <3>1. CASE p \in u.touched
      BY <1>4, <1>8, <3>1
    <3>2. CASE p \notin u.touched
      BY <1>1, <1>4, <3>2 DEF ChildrenMatchParent
    <3> QED BY <3>1, <3>2
  <2> QED BY <2>1 DEF ChildrenMatchParent
<1>11. CASE followed = "routes"
  <2>1. u.touched \subseteq Corridor
    BY <1>0, <1>2, <1>3, <1>11 DEF OwnOK, RoutesRun
  <2>2. \A s \in Station : parent'[s] = parent[s]
    BY <1>4, <2>1, IngestionAssumption DEF Parent
  <2>3. ParentsOf'
    BY <1>1, <1>11, <2>2 DEF ParentsOf
  <2>4. StationsAreOneEdition'
    BY <1>1, <2>2 DEF StationsAreOneEdition
  <2> QED BY <1>6, <1>7, <1>9, <1>10, <2>3, <2>4 DEF TablesOK
<1>12. CASE followed = "register"
  <2>1. ParentsOf'
    BY <1>12 DEF ParentsOf
  <2>2. u.locks = Sites(u.served)
    BY <1>0, <1>2, <1>12 DEF OwnOK, RegisterRun
  <2>3. \A p \in u.locks : parent'[p].edition = u.served
    <3>1. \A p \in u.locks \ u.touched : parent[p].edition = u.served
      BY <1>0, <1>1, <1>2 DEF LockedRowsStay
    <3> QED BY <1>3, <1>4, <1>8, <3>1
  <2>4. CASE u.served = 0 /\ SampleStations = {}
    <3>1. \A p \in Parent : parent'[p] = parent[p]
      BY <1>3, <1>4, <2>2, <2>4 DEF Sites
    <3>2. StationsAreOneEdition'
      BY <1>1, <3>1 DEF StationsAreOneEdition, Parent
    <3> QED BY <1>6, <1>7, <1>9, <1>10, <2>1, <3>2 DEF TablesOK
  <2>5. CASE u.served = 0 /\ SampleStations # {}
    <3>1. \E s \in Station : parent'[s].edition = 0
      BY <2>2, <2>3, <2>5, IngestionAssumption DEF Sites
    <3>2. StationsAreOneEdition'
      BY <3>1 DEF StationsAreOneEdition
    <3> QED BY <1>6, <1>7, <1>9, <1>10, <2>1, <3>2 DEF TablesOK
  <2>6. CASE u.served # 0
    <3>1. \A s \in Station : parent'[s].edition = u.served
      BY <2>2, <2>3, <2>6 DEF Sites
    <3>2. StationsAreOneEdition'
      BY <3>1 DEF StationsAreOneEdition
    <3> QED BY <1>6, <1>7, <1>9, <1>10, <2>1, <3>2 DEF TablesOK
  <2> QED BY <2>4, <2>5, <2>6
<1> QED BY <1>11, <1>12

LEMMA StationTables ==
  ASSUME IngestionTyped, RunsOK, TablesOK, NEW r \in Active, CommitStations(r)
  PROVE  TablesOK'
<1>0. /\ RunsTyped /\ r \in DOMAIN run /\ run[r] \in RunType /\ r \in Nat
      /\ OwnOK(followed, run[r], row[r])
  BY RunsAre DEF IngestionTyped, Active, RunsOK
<1>1. LocksApart /\ LockedRowsStay /\ ParentsOf /\ KnownAreStored /\ ChildrenMatchParent /\ StationsAreOneEdition
  BY DEF TablesOK
<1>2. PICK u : u = run[r]
  OBVIOUS
<1>3. /\ followed = "weather" /\ UNCHANGED <<followed, children>>
      /\ parent' = [p \in Parent |-> IF p \in u.touched THEN [edition |-> 0, by |-> r] ELSE parent[p]]
  BY <1>2, CommitStationsEffect DEF feed
<1>4. PICK known \in SUBSET Station :
        /\ \A p \in known : parent'[p] # NoRow
        /\ Becomes(r, [u EXCEPT !.pc = "observe", !.locks = {}, !.touched = {}, !.known = known])
  BY <1>2, CommitStationsEffect
<1>5. PICK v : v = [u EXCEPT !.pc = "observe", !.locks = {}, !.touched = {}, !.known = known]
  OBVIOUS
<1>6. Moves(r) /\ run'[r] = v
  BY <1>0, <1>4, <1>5, BecomesIs
<1>7. v.pc = "observe" /\ v.locks = {} /\ v.known = known
  BY <1>0, <1>2, <1>5 DEF RunType
<1>8. LocksApart'
  BY <1>0, <1>1, <1>6, <1>7 DEF LocksApart, Moves
<1>9. LockedRowsStay'
  <2>1. \A s \in DOMAIN run : \A p \in run[s].locks : p \in run[s].touched
    BY <1>1, <1>3 DEF LockedRowsStay
  <2> QED BY <1>3, <1>6, <1>7, <2>1 DEF LockedRowsStay, Moves
<1>10. [edition |-> 0, by |-> r] # NoRow
  BY <1>0, IngestionAssumption DEF NoRow
<1>11. \A p \in Parent : parent'[p] = NoRow => parent[p] = NoRow
  BY <1>3, <1>10
<1>12. KnownAreStored'
  <2>1. \A s \in DOMAIN run : run[s].known \subseteq Parent
    BY <1>0, RunsAre, FieldsAre DEF Parent
  <2> QED BY <1>1, <1>4, <1>6, <1>7, <1>11, <2>1 DEF KnownAreStored, Moves
<1>13. ChildrenMatchParent'
  BY <1>1, <1>3, <1>11 DEF ChildrenMatchParent
<1>14. \A s \in Station : parent'[s] = NoRow \/ parent'[s].edition = 0
  BY <1>1, <1>3 DEF ParentsOf, Parent
<1>15. ParentsOf'
  BY <1>3, <1>14 DEF ParentsOf
<1>16. StationsAreOneEdition'
  BY <1>14 DEF StationsAreOneEdition
<1> QED BY <1>8, <1>9, <1>12, <1>13, <1>15, <1>16 DEF TablesOK

LEMMA ObservationTables ==
  ASSUME IngestionTyped, RunsOK, TablesOK, NEW r \in Active, StoreObservations(r)
  PROVE  TablesOK'
<1>0. /\ RunsTyped /\ r \in DOMAIN run /\ run[r] \in RunType /\ r \in Nat
  BY RunsAre DEF IngestionTyped, Active
<1>1. LocksApart /\ LockedRowsStay /\ ParentsOf /\ KnownAreStored /\ ChildrenMatchParent /\ StationsAreOneEdition
  BY DEF TablesOK
<1>2. PICK v : v = [run[r] EXCEPT !.pc = "close", !.stored = Storable(r), !.known = {}]
  OBVIOUS
<1>3. /\ followed = "weather" /\ run[r].pc = "store" /\ UNCHANGED <<followed, parent>>
      /\ children' = [p \in Parent |-> IF p \in Storable(r) THEN {r} ELSE children[p]]
      /\ Becomes(r, v)
  BY <1>2, StoreEffect DEF feed
<1>4. Moves(r) /\ run'[r] = v
  BY <1>0, <1>3, BecomesIs
<1>5. v.pc = "close" /\ v.locks = run[r].locks /\ v.touched = run[r].touched
  BY <1>0, <1>2 DEF RunType
<1>6. LocksApart'
  BY <1>0, <1>1, <1>4, <1>5 DEF LocksApart, Moves
<1>7. LockedRowsStay'
  BY <1>1, <1>3, <1>4, <1>5 DEF LockedRowsStay, Moves
<1>8. KnownAreStored'
  BY <1>1, <1>3, <1>4, <1>5 DEF KnownAreStored, Moves
<1>9. ParentsOf' /\ StationsAreOneEdition'
  BY <1>1, <1>3 DEF ParentsOf, StationsAreOneEdition
<1>10. ChildrenMatchParent'
  <2>1. ASSUME NEW p \in Parent
        PROVE  /\ Cardinality(children'[p]) <= 1
               /\ parent'[p] = NoRow => children'[p] = {}
    <3>1. CASE p \in Storable(r)
      <4>1. children'[p] = {r} /\ Cardinality({r}) = 1
        BY <1>3, <3>1, FS_Singleton
      <4>2. parent[p] # NoRow
        BY <1>0, <1>1, <1>3, <3>1 DEF KnownAreStored, Storable
      <4> QED BY <1>3, <4>1, <4>2
    <3>2. CASE p \notin Storable(r)
      BY <1>1, <1>3, <3>2 DEF ChildrenMatchParent
    <3> QED BY <3>1, <3>2
  <2> QED BY <1>3, <2>1 DEF ChildrenMatchParent
<1> QED BY <1>6, <1>7, <1>8, <1>9, <1>10 DEF TablesOK

LEMMA TablesStep ==
  ASSUME IngestionTyped, RunsOK, TablesOK, [Next]_vars
  PROVE  TablesOK'
<1>0. /\ RunsTyped /\ \A r \in Active : r \in DOMAIN run /\ run[r] \in RunType
  BY RunsAre DEF IngestionTyped, Active
<1>1. CASE SourceSteps \/ UNCHANGED vars
  <2>1. UNCHANGED <<followed, run, parent, children>>
    BY <1>1, SourceEffect DEF vars, feed, tables
  <2> QED BY <2>1, QuietTables DEF Kept
<1>2. ASSUME NEW policy \in Policies, StartRun(policy)
      PROVE  TablesOK'
  <2>1. /\ UNCHANGED <<followed, parent, children>> /\ DOMAIN run' = DOMAIN run \cup {Len(run) + 1}
        /\ \A r \in DOMAIN run : run'[r] = run[r]
    BY <1>2, StartEffect DEF feed, tables
  <2>2. PICK u : u = run'[Len(run) + 1]
    OBVIOUS
  <2>3. u = [policy |-> policy, pc |-> "load", todo |-> Work,
             good |-> {}, bad |-> {}, modes |-> {}, stored |-> {},
             fetched |-> None, served |-> None, disturbed |-> FALSE, known |-> {},
             locks |-> {}, touched |-> {}, deleted |-> [q \in Parent |-> {}]]
    BY <1>2, <2>2, StartEffect
  <2>4. Idle(u)
    BY <2>3 DEF Idle
  <2> QED BY <2>1, <2>2, <2>4, QuietTables DEF Kept
<1>3. ASSUME NEW r \in Active, CloseRun(r) \/ Fails(r)
      PROVE  TablesOK'
  <2>1. UNCHANGED <<followed, parent, children>> /\ \E pc \in Ends : EndsAs(r, pc)
    BY <1>0, <1>3, CloseRunEffect, FailEffect DEF Fails, feed, tables, Ends
  <2>2. Idle(run'[r]) /\ Moves(r)
    BY <2>1 DEF EndsAs, Idle, Ends
  <2> QED BY <2>1, <2>2, QuietTables DEF Kept, Moves
<1>4. ASSUME NEW r \in Active, ProbeLive(r)
      PROVE  TablesOK'
  <2>1. /\ UNCHANGED <<followed, parent, children>> /\ DOMAIN run' = DOMAIN run
        /\ \E kept \in BOOLEAN :
              run'[r] = [run[r] EXCEPT !.pc = "locate", !.modes = {"live"},
                                          !.fetched = edition, !.disturbed = ~kept]
        /\ \A s \in DOMAIN run \ {r} :
              run'[s] = IF run[s].pc = "locate" THEN [run[s] EXCEPT !.disturbed = TRUE] ELSE run[s]
    BY <1>4, ProbeLiveEffect DEF feed, tables
  <2>2. \A s \in DOMAIN run : Kept(run[s], run'[s])
    <3>1. ASSUME NEW s \in DOMAIN run \ {r}
          PROVE  Kept(run[s], run'[s])
      BY <1>0, <2>1, RunsAre DEF RunType, Kept
    <3>2. Kept(run[r], run'[r])
      BY <1>0, <2>1 DEF RunType, Kept
    <3> QED BY <3>1, <3>2
  <2> QED BY <2>1, <2>2, QuietTables
<1>5. ASSUME NEW r \in Active, CommitRegister(r)
      PROVE  TablesOK'
  <2>1. PICK v : v = [run[r] EXCEPT !.pc = "close", !.locks = {}, !.touched = {}, !.stored = run[r].good]
    OBVIOUS
  <2>2. /\ followed = "register" /\ run[r].pc = "write" /\ run[r].todo = {} /\ Commit(r)
        /\ UNCHANGED followed /\ Becomes(r, v)
    BY <1>5, <2>1, CommitRegisterEffect DEF feed
  <2>3. Idle(v)
    BY <1>0, <2>1 DEF RunType, Idle
  <2> QED BY <2>2, <2>3, CommitTables
<1>6. ASSUME NEW r \in Active, CommitCorridor(r) \/ CorridorsDone(r)
      PROVE  TablesOK'
  <2>1. PICK v, w : /\ v = [run[r] EXCEPT !.pc = "load", !.locks = {}, !.touched = {}, !.stored = run[r].good]
                    /\ w = [run[r] EXCEPT !.pc = "close"]
    OBVIOUS
  <2>2. /\ followed = "routes" /\ UNCHANGED followed
        /\ \/ Commit(r) /\ Becomes(r, v)
           \/ UNCHANGED <<parent, children>> /\ Becomes(r, w)
    BY <1>6, <2>1, CorridorsEndEffect DEF feed
  <2>3. Idle(v) /\ Kept(run[r], w)
    BY <1>0, <2>1 DEF RunType, Idle, Kept
  <2>4. CASE Commit(r) /\ Becomes(r, v)
    BY <2>2, <2>3, <2>4, CommitTables
  <2>5. CASE UNCHANGED <<parent, children>> /\ Becomes(r, w)
    BY <1>0, <2>2, <2>3, <2>5, QuietBecomes
  <2> QED BY <2>2, <2>4, <2>5
<1> QED BY <1>1, <1>2, <1>3, <1>4, <1>5, <1>6, QuietSteps, UpsertParentTables, StationTables,
           ObservationTables, StepCases

-----------------------------------------------------------------------------
(* One run at a time, and what it makes of the traffic events.               *)

LEMMA ActiveMoves ==
  ASSUME NEW r \in Active, Moves(r)
  PROVE  /\ Active' \subseteq Active
         /\ \A s \in Active \ {r} : s \in Active' /\ run'[s] = run[s]
         /\ r \in Active' <=> run'[r].pc \notin Ends
BY DEF Active, Moves, Ends

LEMMA OneStep ==
  ASSUME IngestionTyped, OneAtATime, [Next]_vars
  PROVE  OneAtATime'
<1>0. RunsTyped /\ \A r \in Active : r \in DOMAIN run /\ run[r] \in RunType
  BY RunsAre DEF IngestionTyped, Active
<1>1. CASE SourceSteps \/ UNCHANGED vars
  <2>1. UNCHANGED <<followed, run>>
    BY <1>1, SourceEffect DEF vars, feed
  <2> QED BY <2>1 DEF OneAtATime, Active
<1>2. ASSUME NEW policy \in Policies, StartRun(policy)
      PROVE  OneAtATime'
  <2>1. /\ UNCHANGED followed
        /\ Active = {} \/ followed \in Overlapping
        /\ DOMAIN run' = DOMAIN run \cup {Len(run) + 1}
        /\ \A r \in DOMAIN run : run'[r] = run[r]
    BY <1>2, StartEffect DEF feed
  <2>2. Active' \subseteq Active \cup {Len(run) + 1}
    BY <2>1 DEF Active
  <2>3. CASE followed \in Overlapping
    BY <2>1, <2>3 DEF OneAtATime
  <2>4. CASE Active = {}
    BY <2>1, <2>2, <2>4 DEF OneAtATime
  <2> QED BY <2>1, <2>3, <2>4
<1>3. ASSUME NEW r \in Active, UNCHANGED followed, Moves(r)
      PROVE  OneAtATime'
  BY <1>3, ActiveMoves DEF OneAtATime
<1>4. ASSUME NEW r \in Active, UNCHANGED followed, \E u : Becomes(r, u)
      PROVE  OneAtATime'
  BY <1>0, <1>3, <1>4, BecomesIs
<1>5. ASSUME NEW r \in Active, CloseRun(r) \/ Fails(r)
      PROVE  OneAtATime'
  <2>1. UNCHANGED followed /\ Moves(r)
    BY <1>0, <1>5, CloseRunEffect, FailEffect DEF Fails, feed, EndsAs
  <2> QED BY <1>3, <2>1
<1>6. ASSUME NEW r \in Active, Loads(r) \/ UpsertEvents(r) \/ CloseVanished(r)
      PROVE  OneAtATime'
  <2>1. UNCHANGED followed /\ \E u : Becomes(r, u)
    BY <1>6, LoadEffect, UpsertEffect, SweepEffect DEF Loads, feed
  <2> QED BY <1>4, <2>1
<1>7. ASSUME NEW r \in Active, ProbeLive(r)
      PROVE  OneAtATime'
  <2>1. /\ UNCHANGED followed /\ DOMAIN run' = DOMAIN run
        /\ \A s \in DOMAIN run \ {r} :
              run'[s] = IF run[s].pc = "locate" THEN [run[s] EXCEPT !.disturbed = TRUE] ELSE run[s]
    BY <1>7, ProbeLiveEffect DEF feed
  <2>2. \A s \in DOMAIN run : run'[s].pc \notin Ends => s \in Active
    <3>1. ASSUME NEW s \in DOMAIN run \ {r}
          PROVE  run'[s].pc = run[s].pc
      BY <1>0, <2>1, RunsAre DEF RunType
    <3> QED BY <1>0, <3>1 DEF Active, Ends
  <2>3. Active' \subseteq Active
    BY <2>1, <2>2 DEF Active, Ends
  <2> QED BY <2>1, <2>3 DEF OneAtATime
<1>8. ASSUME NEW r \in Active,
             \/ ProbeFallback(r) \/ LocateFile(r) \/ CommitRegister(r)
             \/ \E p \in Parent : UpsertParent(r, p)
      PROVE  OneAtATime'
  <2>1. UNCHANGED followed /\ \E u : Becomes(r, u)
    <3>1. CASE ProbeFallback(r) \/ LocateFile(r) \/ CommitRegister(r)
      BY <3>1, ProbeFallbackEffect, LocateEffect, CommitRegisterEffect DEF feed
    <3>2. CASE \E p \in Parent : UpsertParent(r, p)
      BY <3>2, UpsertParentEffect DEF feed
    <3> QED BY <1>8, <3>1, <3>2
  <2> QED BY <1>4, <2>1
<1>9. ASSUME NEW r \in Active,
             \/ \E c \in Corridor : RouteCorridor(r, c) \/ CorridorFails(r, c)
             \/ CommitCorridor(r) \/ CorridorsDone(r)
      PROVE  OneAtATime'
  <2>1. UNCHANGED followed /\ \E u : Becomes(r, u)
    BY <1>9, CorridorEffect, CorridorsEndEffect DEF feed
  <2> QED BY <1>4, <2>1
<1>10. ASSUME NEW r \in Active,
              ListStations(r) \/ CommitStations(r) \/ Observe(r) \/ StoreObservations(r)
       PROVE  OneAtATime'
  <2>1. UNCHANGED followed /\ \E u : Becomes(r, u)
    BY <1>10, ListEffect, CommitStationsEffect, ObserveEffect, StoreEffect DEF feed
  <2> QED BY <1>4, <2>1
<1> QED BY <1>1, <1>2, <1>5, <1>6, <1>7, <1>8, <1>9, <1>10, StepCases

\* The invariant of the traffic events, once its hypotheses hold.
FeedHolds ==
  UnlistedIsUnseen /\ CacheIsTheLast /\ PollSoFar /\ SweepIsRight /\ PollMirrorsFeed /\ EndedWereUnseen

LEMMA SourceFeed ==
  ASSUME IngestionTyped, FeedHolds, SourceSteps
  PROVE  FeedHolds'
<1>0. UnlistedIsUnseen /\ CacheIsTheLast /\ PollSoFar /\ SweepIsRight /\ PollMirrorsFeed /\ EndedWereUnseen
  BY DEF FeedHolds
<1>1. /\ UNCHANGED <<followed, run, row, events>> /\ unseen \subseteq unseen'
      /\ \/ UNCHANGED <<cache, outdated>>
         \/ outdated' = {} /\ cache' = [e \in Endpoint |-> None]
      /\ \/ UNCHANGED <<listed, broken>>
         \/ Event \ (listed' \ broken') \subseteq unseen'
  BY SourceEffect
<1>2. UnlistedIsUnseen'
  BY <1>0, <1>1 DEF UnlistedIsUnseen
<1>3. CacheIsTheLast'
  BY <1>0, <1>1 DEF CacheIsTheLast
<1>4. PollSoFar'
  <2>1. \A x \in Event : Home[x] # None => Home[x] \in Endpoint
    BY IngestionAssumption
  <2> QED BY <1>0, <1>1, <2>1 DEF PollSoFar, Active
<1>5. SweepIsRight'
  BY <1>0, <1>1 DEF SweepIsRight, Active, Mode
<1>6. PollMirrorsFeed' /\ EndedWereUnseen'
  BY <1>0, <1>1 DEF PollMirrorsFeed, EndedWereUnseen, Mode
<1> QED BY <1>2, <1>3, <1>4, <1>5, <1>6 DEF FeedHolds

LEMMA StartFeed ==
  ASSUME IngestionTyped, FeedHolds, followed = "traffic", NEW policy \in Policies, StartRun(policy)
  PROVE  FeedHolds'
<1>0. UnlistedIsUnseen /\ CacheIsTheLast /\ PollSoFar /\ SweepIsRight /\ PollMirrorsFeed /\ EndedWereUnseen
  BY DEF FeedHolds
<1>1. /\ UNCHANGED <<followed, listed, broken, cache, outdated, events, unseen>>
      /\ DOMAIN run' = DOMAIN run \cup {Len(run) + 1}
      /\ \A r \in DOMAIN run : run'[r] = run[r]
  BY StartEffect DEF feed, files, tables
<1>2. PICK n, u : n = Len(run) + 1 /\ u = run'[n]
  OBVIOUS
<1>3. u = [policy |-> policy, pc |-> "load", todo |-> Work,
           good |-> {}, bad |-> {}, modes |-> {}, stored |-> {},
           fetched |-> None, served |-> None, disturbed |-> FALSE, known |-> {},
           locks |-> {}, touched |-> {}, deleted |-> [q \in Parent |-> {}]]
  BY <1>2, StartEffect
<1>4. u.pc = "load" /\ u.todo = Endpoint /\ u.good = {}
  BY <1>3 DEF Work
<1>5. Active' \subseteq Active \cup {n} /\ \A r \in Active : run'[r] = run[r]
  BY <1>1, <1>2 DEF Active
<1>6. UnlistedIsUnseen' /\ CacheIsTheLast' /\ EndedWereUnseen'
  BY <1>0, <1>1 DEF UnlistedIsUnseen, CacheIsTheLast, EndedWereUnseen
<1>7. PollSoFar'
  BY <1>0, <1>1, <1>2, <1>4, <1>5 DEF PollSoFar
<1>8. SweepIsRight'
  BY <1>0, <1>1, <1>2, <1>4, <1>5 DEF SweepIsRight, Mode
<1>9. PollMirrorsFeed'
  BY <1>0, <1>1, <1>2, <1>4 DEF PollMirrorsFeed, Mode
<1> QED BY <1>6, <1>7, <1>8, <1>9 DEF FeedHolds

LEMMA EndFeed ==
  ASSUME IngestionTyped, FeedHolds, NEW r \in Active, CloseRun(r) \/ Fails(r)
  PROVE  FeedHolds'
<1>0. UnlistedIsUnseen /\ CacheIsTheLast /\ PollSoFar /\ SweepIsRight /\ PollMirrorsFeed /\ EndedWereUnseen
  BY DEF FeedHolds
<1>1. /\ UNCHANGED <<followed, listed, broken, cache, outdated, events, unseen>>
      /\ \E pc \in Ends : EndsAs(r, pc)
  BY CloseRunEffect, FailEffect DEF Fails, feed, files, tables, Ends, Active
<1>2. Moves(r) /\ run'[r].pc \in Ends
  BY <1>1 DEF EndsAs
<1>3. r \notin Active' /\ Active' \subseteq Active
  BY <1>2, ActiveMoves
<1>4. \A s \in Active' : s \in DOMAIN run \ {r} /\ run'[s] = run[s]
  BY <1>2, <1>3 DEF Active, Moves
<1>5. UnlistedIsUnseen' /\ CacheIsTheLast' /\ EndedWereUnseen'
  BY <1>0, <1>1 DEF UnlistedIsUnseen, CacheIsTheLast, EndedWereUnseen
<1>6. PollSoFar'
  BY <1>0, <1>1, <1>3, <1>4 DEF PollSoFar
<1>7. SweepIsRight'
  BY <1>0, <1>1, <1>3, <1>4 DEF SweepIsRight, Mode
<1>8. PollMirrorsFeed'
  BY <1>0, <1>1, <1>2 DEF PollMirrorsFeed, Mode, Moves, Ends
<1> QED BY <1>5, <1>6, <1>7, <1>8 DEF FeedHolds

\* A step of the one active run leaves no other to look after.
LEMMA OnlyOne ==
  ASSUME RunsTyped, OneAtATime, followed \notin Overlapping, NEW r \in Active, NEW v, Becomes(r, v)
  PROVE  /\ Active' \subseteq {r} /\ run'[r] = v /\ DOMAIN run' = DOMAIN run
         /\ \A s \in DOMAIN run : s # r => run'[s] = run[s] /\ run[s].pc \in Ends
<1>1. r \in DOMAIN run
  BY DEF Active
<1>2. Moves(r) /\ run'[r] = v
  BY <1>1, BecomesIs
<1>3. Active = {r}
  BY DEF OneAtATime
<1>4. Active' \subseteq Active
  BY <1>2, ActiveMoves
<1>5. \A s \in DOMAIN run : s # r => run[s].pc \in Ends
  BY <1>3, ActiveIs
<1> QED BY <1>2, <1>3, <1>4, <1>5 DEF Moves

LEMMA LoadFeed ==
  ASSUME IngestionTyped, OneAtATime, FeedHolds, TrafficAlone, NEW r \in Active, Loads(r)
  PROVE  FeedHolds'
<1>0. UnlistedIsUnseen /\ CacheIsTheLast /\ PollSoFar /\ SweepIsRight /\ PollMirrorsFeed /\ EndedWereUnseen
  BY DEF FeedHolds
<1>1. /\ RunsTyped /\ r \in DOMAIN run /\ run[r] \in RunType /\ followed \notin Overlapping
      /\ listed \subseteq Event
      /\ cache \in [Endpoint -> {None} \cup [good : SUBSET Event, bad : SUBSET Event]]
  BY RunsAre DEF IngestionTyped, FeedTyped, FilesTyped, Active, TrafficAlone
<1>2. PICK e \in Endpoint : LoadLive(r, e) \/ LoadCached(r, e) \/ LoadSample(r, e)
  BY DEF Loads
<1>3. /\ run[r].pc = "load" /\ e \in run[r].todo /\ UNCHANGED <<followed, listed, broken, events>>
  BY <1>2, LoadEffect DEF feed
<1>4. PICK good \in SUBSET Event, bad \in SUBSET Event, mode \in ProviderMode :
        /\ Becomes(r, [run[r] EXCEPT !.todo = @ \ {e}, !.good = @ \cup good, !.bad = @ \cup bad,
                                     !.modes = @ \cup {mode}])
        /\ \/ /\ good = {x \in listed : Home[x] = e} \ broken /\ UNCHANGED unseen
              /\ \/ /\ \E l \in [good : {good}, bad : SUBSET Event] : cache' = [cache EXCEPT ![e] = l]
                    /\ outdated' = outdated \ {e}
                 \/ /\ outdated' = IF cache[e] = None THEN outdated ELSE outdated \cup {e}
                    /\ UNCHANGED cache
           \/ /\ cache[e] # None /\ good = cache[e].good /\ UNCHANGED <<cache, outdated>>
              /\ unseen' = IF e \in outdated THEN unseen \cup {x \in Event : Home[x] = e} ELSE unseen
           \/ mode = "fixture" /\ good = SampleEvents /\ UNCHANGED <<cache, outdated, unseen>>
  BY <1>2, LoadEffect
<1>5. PICK u, v : u = run[r] /\ v = [run[r] EXCEPT !.todo = @ \ {e}, !.good = @ \cup good, !.bad = @ \cup bad,
                                                   !.modes = @ \cup {mode}]
  OBVIOUS
<1>6. /\ v.pc = "load" /\ v.todo = u.todo \ {e} /\ v.good = u.good \cup good
      /\ v.modes = u.modes \cup {mode}
  BY <1>1, <1>3, <1>5 DEF RunType
<1>7. /\ Active' \subseteq {r} /\ run'[r] = v /\ DOMAIN run' = DOMAIN run
      /\ \A s \in DOMAIN run : s # r => run'[s] = run[s] /\ run[s].pc \in Ends
  BY <1>1, <1>4, <1>5, OnlyOne
<1>8. /\ e \in u.todo
      /\ "fixture" \notin u.modes =>
           \A x \in Event : Home[x] \in Endpoint \ u.todo => x \in u.good \/ x \in unseen
      /\ \A x \in u.good \cap Event : Home[x] # None =>
           /\ Home[x] \notin u.todo
           /\ cache[Home[x]] = None \/ Home[x] \in outdated \/ x \in cache[Home[x]].good
  BY <1>0, <1>3, <1>5 DEF PollSoFar
<1>9. SweepIsRight' /\ PollMirrorsFeed'
  BY <1>6, <1>7 DEF SweepIsRight, PollMirrorsFeed, Ends
<1>10. ASSUME CacheIsTheLast', unseen \subseteq unseen',
              "fixture" \notin v.modes =>
                \A x \in Event : Home[x] = e => x \in v.good \/ x \in unseen',
              \A x \in good : Home[x] # None =>
                Home[x] = e /\ (cache'[e] = None \/ e \in outdated' \/ x \in cache'[e].good),
              \A i \in Endpoint : i # e => cache'[i] = cache[i] /\ (i \in outdated => i \in outdated')
       PROVE  FeedHolds'
  <2>1. UnlistedIsUnseen' /\ EndedWereUnseen'
    BY <1>0, <1>3, <1>10 DEF UnlistedIsUnseen, EndedWereUnseen
  <2>2. "fixture" \notin v.modes =>
          \A x \in Event : Home[x] \in Endpoint \ v.todo => x \in v.good \/ x \in unseen'
    BY <1>6, <1>8, <1>10
  <2>3. ASSUME NEW x \in v.good \cap Event, Home[x] # None
        PROVE  /\ Home[x] \notin v.todo
               /\ cache'[Home[x]] = None \/ Home[x] \in outdated' \/ x \in cache'[Home[x]].good
    <3>1. Home[x] \in Endpoint
      BY <2>3, IngestionAssumption
    <3>2. CASE x \in u.good
      <4>1. /\ Home[x] \notin u.todo
            /\ cache[Home[x]] = None \/ Home[x] \in outdated \/ x \in cache[Home[x]].good
        BY <1>8, <2>3, <3>2
      <4>2. Home[x] # e
        BY <1>8, <4>1
      <4>3. /\ cache'[Home[x]] = cache[Home[x]]
            /\ Home[x] \in outdated => Home[x] \in outdated'
        BY <1>10, <3>1, <4>2
      <4> QED BY <1>6, <4>1, <4>3
    <3>3. CASE x \in good
      BY <1>6, <1>10, <2>3, <3>3
    <3> QED BY <1>6, <2>3, <3>2, <3>3
  <2>4. PollSoFar'
    BY <1>7, <2>2, <2>3 DEF PollSoFar
  <2> QED BY <1>9, <1>10, <2>1, <2>4 DEF FeedHolds
<1>11. CASE good = {x \in listed : Home[x] = e} \ broken /\ UNCHANGED unseen
            /\ \/ /\ \E l \in [good : {good}, bad : SUBSET Event] : cache' = [cache EXCEPT ![e] = l]
                  /\ outdated' = outdated \ {e}
               \/ /\ outdated' = IF cache[e] = None THEN outdated ELSE outdated \cup {e}
                  /\ UNCHANGED cache
  <2>1. \A x \in Event : Home[x] = e => x \in good \/ x \in unseen
    BY <1>0, <1>11 DEF UnlistedIsUnseen
  <2>2. \A x \in good : Home[x] = e
    BY <1>11
  <2>3. CASE outdated' = outdated \ {e}
             /\ \E l \in [good : {good}, bad : SUBSET Event] : cache' = [cache EXCEPT ![e] = l]
    <3>1. /\ cache'[e].good = good
          /\ \A i \in Endpoint : i # e => cache'[i] = cache[i] /\ (i \in outdated <=> i \in outdated')
      BY <1>1, <2>3
    <3>2. CacheIsTheLast'
      BY <1>0, <1>11, <2>1, <2>2, <3>1 DEF CacheIsTheLast
    <3> QED BY <1>6, <1>10, <1>11, <2>1, <2>2, <3>1, <3>2
  <2>4. CASE (outdated' = IF cache[e] = None THEN outdated ELSE outdated \cup {e}) /\ UNCHANGED cache
    <3>1. outdated \subseteq outdated' /\ (cache[e] = None \/ e \in outdated')
      BY <2>4
    <3>2. CacheIsTheLast'
      BY <1>0, <1>11, <2>4, <3>1 DEF CacheIsTheLast
    <3> QED BY <1>6, <1>10, <1>11, <2>1, <2>2, <2>4, <3>1, <3>2
  <2> QED BY <1>11, <2>3, <2>4
<1>12. CASE /\ cache[e] # None /\ good = cache[e].good /\ UNCHANGED <<cache, outdated>>
            /\ unseen' = IF e \in outdated THEN unseen \cup {x \in Event : Home[x] = e} ELSE unseen
  <2>1. unseen \subseteq unseen'
    BY <1>12
  <2>2. CacheIsTheLast'
    BY <1>0, <1>12, <2>1 DEF CacheIsTheLast
  <2>3. \A x \in Event : Home[x] = e => x \in good \/ x \in unseen'
    BY <1>0, <1>12 DEF CacheIsTheLast
  <2>4. \A x \in good : Home[x] = e
    BY <1>0, <1>12 DEF CacheIsTheLast
  <2> QED BY <1>6, <1>10, <1>12, <2>1, <2>2, <2>3, <2>4
<1>13. CASE mode = "fixture" /\ good = SampleEvents /\ UNCHANGED <<cache, outdated, unseen>>
  <2>1. \A x \in good : Home[x] = None
    BY <1>13 DEF TrafficAlone, SampleIsApart
  <2>2. CacheIsTheLast'
    BY <1>0, <1>13 DEF CacheIsTheLast
  <2>3. "fixture" \in v.modes
    BY <1>6, <1>13
  <2> QED BY <1>10, <1>13, <2>1, <2>2, <2>3
<1> QED BY <1>4, <1>11, <1>12, <1>13

LEMMA UpsertFeed ==
  ASSUME IngestionTyped, OneAtATime, FeedHolds, TrafficAlone, NEW r \in Active, UpsertEvents(r)
  PROVE  FeedHolds'
<1>0. UnlistedIsUnseen /\ CacheIsTheLast /\ PollSoFar /\ SweepIsRight /\ PollMirrorsFeed /\ EndedWereUnseen
  BY DEF FeedHolds
<1>1. /\ RunsTyped /\ r \in DOMAIN run /\ run[r] \in RunType /\ followed \notin Overlapping
      /\ listed \subseteq {x \in Event : Home[x] # None}
  BY RunsAre DEF IngestionTyped, FeedTyped, Active, TrafficAlone
<1>2. PICK u, v : u = run[r] /\ v = [run[r] EXCEPT !.pc = "sweep", !.stored = run[r].good]
  OBVIOUS
<1>3. /\ u.pc = "load" /\ u.todo = {}
      /\ UNCHANGED <<followed, listed, broken, cache, outdated>>
      /\ events' = [x \in Event |-> IF x \in u.good THEN "open" ELSE events[x]]
      /\ unseen' = (unseen \ u.good) \cup (Event \ (listed \ broken))
      /\ Becomes(r, v)
  BY <1>2, UpsertEffect DEF feed, files, Refreshed
<1>4. v.pc = "sweep" /\ v.good = u.good /\ v.modes = u.modes
  BY <1>1, <1>2 DEF RunType
<1>5. /\ Active' \subseteq {r} /\ run'[r] = v /\ DOMAIN run' = DOMAIN run
      /\ \A s \in DOMAIN run : s # r => run'[s] = run[s] /\ run[s].pc \in Ends
  BY <1>1, <1>3, OnlyOne
<1>6. /\ "fixture" \notin u.modes =>
           \A x \in Event : Home[x] \in Endpoint => x \in u.good \/ x \in unseen
      /\ \A x \in u.good \cap Event : Home[x] # None =>
           cache[Home[x]] = None \/ Home[x] \in outdated \/ x \in cache[Home[x]].good
  BY <1>0, <1>2, <1>3 DEF PollSoFar
<1>7. UnlistedIsUnseen'
  BY <1>3 DEF UnlistedIsUnseen
<1>8. CacheIsTheLast'
  <2>1. \A e \in Endpoint : e # None
    BY IngestionAssumption
  <2>2. ASSUME NEW e \in Endpoint, cache[e] # None, e \notin outdated, NEW x \in Event, Home[x] = e
        PROVE  x \in cache[e].good \/ x \in unseen'
    <3>1. x \in cache[e].good \/ x \in unseen
      BY <1>0, <2>2 DEF CacheIsTheLast
    <3>2. x \in u.good => x \in cache[e].good
      BY <1>6, <2>1, <2>2
    <3> QED BY <1>3, <3>1, <3>2
  <2> QED BY <1>0, <1>3, <2>2 DEF CacheIsTheLast
<1>9. PollSoFar' /\ PollMirrorsFeed'
  BY <1>4, <1>5 DEF PollSoFar, PollMirrorsFeed, Ends
<1>10. SweepIsRight'
  <2>1. \A x \in v.good \cap Event : events'[x] = "open"
    BY <1>3, <1>4
  <2>2. ASSUME Weakest(v.modes) # "fixture", NEW x \in Event
        PROVE  x \in v.good \/ x \in unseen'
    <3>1. "fixture" \notin u.modes
      BY <1>1, <1>2, <1>4, <2>2, FieldsAre, WeakestIs
    <3>2. CASE Home[x] \in Endpoint
      BY <1>3, <1>4, <1>6, <3>1, <3>2
    <3>3. CASE Home[x] = None
      BY <1>1, <1>3, <3>3
    <3> QED BY <3>2, <3>3, IngestionAssumption
  <2> QED BY <1>5, <2>1, <2>2 DEF SweepIsRight, Mode
<1>11. EndedWereUnseen'
  BY <1>0, <1>3 DEF EndedWereUnseen
<1> QED BY <1>7, <1>8, <1>9, <1>10, <1>11 DEF FeedHolds

LEMMA SweepFeed ==
  ASSUME IngestionTyped, OneAtATime, FeedHolds, TrafficAlone, NEW r \in Active, CloseVanished(r)
  PROVE  FeedHolds'
<1>0. UnlistedIsUnseen /\ CacheIsTheLast /\ PollSoFar /\ SweepIsRight /\ PollMirrorsFeed /\ EndedWereUnseen
  BY DEF FeedHolds
<1>1. /\ RunsTyped /\ r \in DOMAIN run /\ run[r] \in RunType /\ followed \notin Overlapping
      /\ events \in [Event -> {"missing", "open", "ended"}]
  BY RunsAre DEF IngestionTyped, TablesTyped, Active, TrafficAlone
<1>2. PICK u, v : u = run[r] /\ v = [run[r] EXCEPT !.pc = "close"]
  OBVIOUS
<1>3. /\ u.pc = "sweep" /\ UNCHANGED <<followed, listed, broken, cache, outdated, unseen>>
      /\ events' = [x \in Event |-> IF x \in Vanished(r) THEN "ended" ELSE events[x]]
      /\ Becomes(r, v)
  BY <1>2, SweepEffect DEF feed, files
<1>4. v.pc = "close" /\ v.good = u.good /\ v.modes = u.modes
  BY <1>1, <1>2 DEF RunType
<1>5. /\ Active' \subseteq {r} /\ run'[r] = v /\ DOMAIN run' = DOMAIN run
      /\ \A s \in DOMAIN run : s # r => run'[s] = run[s] /\ run[s].pc \in Ends
  BY <1>1, <1>3, OnlyOne
<1>6. /\ \A x \in u.good \cap Event : events[x] = "open"
      /\ Weakest(u.modes) # "fixture" => \A x \in Event : x \in u.good \/ x \in unseen
  BY <1>0, <1>2, <1>3 DEF SweepIsRight, Mode
<1>7. \A x \in Event : x \in Vanished(r) <=>
        /\ events[x] = "open" /\ x \notin u.good /\ Weakest(u.modes) # "fixture"
        /\ Road[x] \in {Road[y] : y \in u.good} \cap Polled
  BY <1>2 DEF Vanished, Swept, Mode
<1>8. UnlistedIsUnseen' /\ CacheIsTheLast'
  BY <1>0, <1>3 DEF UnlistedIsUnseen, CacheIsTheLast
<1>9. PollSoFar' /\ SweepIsRight'
  BY <1>4, <1>5 DEF PollSoFar, SweepIsRight
<1>10. PollMirrorsFeed'
  <2>1. ASSUME Weakest(v.modes) # "fixture", NEW x \in Event,
               Road[x] \in {Road[y] : y \in v.good} \cap Polled
        PROVE  events'[x] = "open" <=> x \in v.good
    BY <1>1, <1>3, <1>4, <1>6, <1>7, <2>1
  <2> QED BY <1>4, <1>5, <2>1 DEF PollMirrorsFeed, Mode, Ends
<1>11. EndedWereUnseen'
  BY <1>0, <1>3, <1>6, <1>7 DEF EndedWereUnseen
<1> QED BY <1>8, <1>9, <1>10, <1>11 DEF FeedHolds

LEMMA FollowedStays ==
  ASSUME [Next]_vars
  PROVE  UNCHANGED followed /\ (followed # "traffic" => UNCHANGED events)
<1>1. CASE SourceSteps \/ UNCHANGED vars
  BY <1>1 DEF SourceSteps, EventChanges, NewEdition, CacheLost, vars, feed, tables, At
<1>2. ASSUME NEW policy \in Policies, StartRun(policy)
      PROVE  UNCHANGED followed /\ (followed # "traffic" => UNCHANGED events)
  BY <1>2 DEF StartRun, feed, tables, At
<1>3. ASSUME NEW r \in Active,
             \/ CloseRun(r) \/ Fails(r) \/ Loads(r) \/ UpsertEvents(r) \/ CloseVanished(r)
      PROVE  UNCHANGED followed /\ (followed # "traffic" => UNCHANGED events)
  BY <1>3 DEF CloseRun, Fails, Crash, WriteFails, UpsertEventsFails, ProbeRaises, WeatherRaises,
     LoadRaises, Loads, LoadLive, LoadCached, LoadSample, UpsertEvents, CloseVanished, feed, tables, At
<1>4. ASSUME NEW r \in Active,
             \/ ProbeLive(r) \/ ProbeFallback(r) \/ LocateFile(r) \/ CommitRegister(r)
             \/ \E p \in Parent : UpsertParent(r, p)
      PROVE  UNCHANGED followed /\ (followed # "traffic" => UNCHANGED events)
  BY <1>4 DEF ProbeLive, ProbeFallback, LocateFile, CommitRegister, UpsertParent, feed, tables, At
<1>5. ASSUME NEW r \in Active,
             \/ \E c \in Corridor : RouteCorridor(r, c) \/ CorridorFails(r, c)
             \/ CommitCorridor(r) \/ CorridorsDone(r)
             \/ ListStations(r) \/ CommitStations(r) \/ Observe(r) \/ StoreObservations(r)
      PROVE  UNCHANGED followed /\ (followed # "traffic" => UNCHANGED events)
  BY <1>5 DEF RouteCorridor, CorridorFails, CommitCorridor, CorridorsDone, ListStations,
     CommitStations, Observe, StoreObservations, feed, tables, At
<1> QED BY <1>1, <1>2, <1>3, <1>4, <1>5, StepCases

LEMMA FeedStep ==
  ASSUME IngestionTyped, RunsOK, OneAtATime, FeedInv, [Next]_vars
  PROVE  FeedInv'
<1>1. UNCHANGED followed
  BY FollowedStays
<1>2. SUFFICES ASSUME TrafficAlone PROVE FeedHolds'
  BY <1>1 DEF FeedInv, FeedHolds, TrafficAlone, EventsFollowSources
<1>3. FeedHolds /\ followed = "traffic"
  BY <1>2 DEF FeedInv, FeedHolds, TrafficAlone, EventsFollowSources
<1>4. CASE UNCHANGED vars
  BY <1>3, <1>4 DEF vars, feed, files, tables, FeedHolds, UnlistedIsUnseen, CacheIsTheLast, PollSoFar,
     SweepIsRight, PollMirrorsFeed, EndedWereUnseen, Active, Mode
<1>5. ASSUME NEW r \in Active, \E p \in Parent : UpsertParent(r, p)
      PROVE  FALSE
  <2>1. run[r].pc = "write" /\ OwnOK(followed, run[r], row[r])
    BY <1>5, UpsertParentEffect DEF RunsOK, Active
  <2> QED BY <1>3, <2>1 DEF OwnOK, TrafficRun, Ends
<1>6. ASSUME NEW r \in Active,
             \/ ProbeLive(r) \/ ProbeFallback(r) \/ LocateFile(r) \/ CommitRegister(r)
             \/ (\E c \in Corridor : RouteCorridor(r, c) \/ CorridorFails(r, c))
             \/ CommitCorridor(r) \/ CorridorsDone(r)
             \/ ListStations(r) \/ CommitStations(r) \/ Observe(r) \/ StoreObservations(r)
      PROVE  FALSE
  BY <1>3, <1>6 DEF ProbeLive, ProbeFallback, LocateFile, CommitRegister, RouteCorridor, CorridorFails,
     CommitCorridor, CorridorsDone, ListStations, CommitStations, Observe, StoreObservations, At
<1> QED BY <1>2, <1>3, <1>4, <1>5, <1>6, SourceFeed, StartFeed, EndFeed, LoadFeed, UpsertFeed,
           SweepFeed, StepCases

-----------------------------------------------------------------------------
(* The invariant, and what follows from it.                                  *)

IngestionInv ==
  /\ IngestionTyped /\ RunsOK /\ DownloadIsThere /\ TablesOK
  /\ EventsAreTraffic /\ OneAtATime /\ FeedInv

LEMMA InitInv == Init => IngestionInv
<1> SUFFICES ASSUME Init PROVE IngestionInv
  OBVIOUS
<1>1. run = <<>> /\ DOMAIN run = {}
  BY DEF Init
<1>2. Active = {}
  BY <1>1 DEF Active
<1>3. RunsOK /\ DownloadIsThere /\ OneAtATime
  BY <1>1, <1>2 DEF RunsOK, DownloadIsThere, OneAtATime
<1>4. \A p \in Parent : parent[p] = NoRow /\ children[p] = {}
  BY DEF Init
<1>5. LocksApart /\ LockedRowsStay /\ KnownAreStored
  BY <1>1 DEF LocksApart, LockedRowsStay, KnownAreStored
<1>6. ParentsOf /\ StationsAreOneEdition
  BY <1>4 DEF ParentsOf, StationsAreOneEdition, Parent
<1>7. Cardinality({}) = 0
  BY FS_EmptySet
<1>8. ChildrenMatchParent
  BY <1>4, <1>7 DEF ChildrenMatchParent
<1>9. FeedHolds
  BY <1>1, <1>2 DEF Init, FeedHolds, UnlistedIsUnseen, CacheIsTheLast, PollSoFar, SweepIsRight,
     PollMirrorsFeed, EndedWereUnseen
<1>10. FeedInv
  BY <1>9 DEF FeedInv, FeedHolds, EventsFollowSources
<1>11. EventsAreTraffic
  BY DEF Init, EventsAreTraffic
<1> QED BY <1>3, <1>5, <1>6, <1>8, <1>10, <1>11, InitTyped DEF IngestionInv, TablesOK

LEMMA InvStep == IngestionInv /\ [Next]_vars => IngestionInv'
<1> SUFFICES ASSUME IngestionInv, [Next]_vars PROVE IngestionInv'
  OBVIOUS
<1>1. EventsAreTraffic'
  BY FollowedStays DEF IngestionInv, EventsAreTraffic
<1> QED BY <1>1, TypedStep, RunsOKStep, DownloadStep, TablesStep, OneStep, FeedStep DEF IngestionInv

\* The invariant of the ingestion pipelines: every run knows what it has stored and what
\* its row says of it (RunsOK), holds its locks alone and leaves the tables in order
\* (TablesOK), and a register run finds the file it downloaded (DownloadIsThere).
THEOREM IngestionAlwaysOK == Spec => []IngestionInv
<1>1. Init => IngestionInv
  BY InitInv
<1>2. IngestionInv /\ [Next]_vars => IngestionInv'
  BY InvStep
<1> QED BY <1>1, <1>2, PTL DEF Spec

\* A run row never claims more than the database holds, whatever a run dies of and
\* whichever write fails (IngestionPipeline._open_run, run).
THEOREM RunRowsAlwaysUnderclaim == Spec => []RunRowsUnderclaim
<1>1. IngestionInv => RunRowsUnderclaim
  BY DEF IngestionInv, RunsOK, OwnOK, RowWaits, AllStored, RunRowsUnderclaim
<1> QED BY <1>1, IngestionAlwaysOK, PTL

\* The stations never describe two editions of the register, but for the bundled
\* excerpt's, and a register run that says "live" streamed the file it downloaded
\* (ChargingIngestionPipeline._execute, _locate_csv).
THEOREM RegisterAlwaysConsistent == Spec => []RegisterIsConsistent
<1>1. IngestionInv => RegisterIsConsistent
  BY DEF IngestionInv, TablesOK, RunsOK, OwnOK, RowWaits, RegisterIsConsistent,
     LiveRunsServeTheirDownload
<1> QED BY <1>1, IngestionAlwaysOK, PTL

\* Connectors and segments are those of the run that stored their station or route, however
\* the transactions of overlapping runs interleave (ChargingIngestionPipeline._replace_points,
\* RouteSeedPipeline._replace_segments).
THEOREM ChildrenAlwaysMatch == Spec => []ChildrenMatchParent
<1>1. IngestionInv => ChildrenMatchParent
  BY DEF IngestionInv, TablesOK
<1> QED BY <1>1, IngestionAlwaysOK, PTL

\* The stored traffic events follow the sources in both directions, when the polls do not
\* overlap (the DAG's max_active_runs=1) and none of the bundled sample's events is
\* published now (TrafficIngestionPipeline._upsert, _close_vanished_events).
THEOREM EventsAlwaysFollow ==
  ASSUME "traffic" \notin Overlapping, SampleIsApart
  PROVE  Spec => []EventsFollowSources
<1>1. IngestionInv => EventsFollowSources
  <2> SUFFICES ASSUME IngestionInv PROVE EventsFollowSources
    OBVIOUS
  <2>1. CASE followed = "traffic"
    BY <2>1 DEF IngestionInv, FeedInv, TrafficAlone
  <2>2. CASE followed # "traffic"
    BY <2>2 DEF IngestionInv, EventsAreTraffic, EventsFollowSources, PollMirrorsFeed, EndedWereUnseen
  <2> QED BY <2>1, <2>2
<1> QED BY <1>1, IngestionAlwaysOK, PTL
==============================================================================
