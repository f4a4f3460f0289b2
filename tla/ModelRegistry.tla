----------------------------- MODULE ModelRegistry -----------------------------
(***************************************************************************)
(* The energy model's registry: trainings write an artefact, a metrics     *)
(* sidecar and the pointer file of the active version, then register the   *)
(* version in ml_models; the API resolves a version from the files, loads  *)
(* the estimator through its cache and answers.                            *)
(*                                                                         *)
(* Files are written in place: a reader may find one that is cut short.    *)
(* The processes are `train` commands, the weekly DAG's trainings, which   *)
(* end in its promotion gate, and calls of activate_model.  Registration   *)
(* is a READ COMMITTED transaction: its UPDATE waits for the rows that     *)
(* another one has changed and sees no row committed after it started.     *)
(***************************************************************************)
EXTENDS Integers, Sequences, FiniteSets

CONSTANTS
  Version,       \* version numbers
  Kinds,         \* kinds of processes: a subset of {"cli", "weekly", "activation"}
  Reader,        \* prediction requests of the API process
  Score,         \* errors a trained estimator can have on its test fold
  Baseline,      \* the error of the physical baseline
  MaxProcesses,  \* bound: processes
  MaxActive,     \* bound: processes under way at once
  MaxFaults,     \* bound: dead processes and failed transactions
  None           \* nothing there

ASSUME RegistryAssumption ==
  /\ Version \subseteq Nat /\ Version # {}
  /\ Kinds \subseteq {"cli", "weekly", "activation"}
  /\ Score \subseteq Int /\ Score # {} /\ Baseline \in Int
  /\ MaxProcesses \in Nat /\ MaxActive \in Nat /\ MaxFaults \in Nat
  /\ None \notin Nat /\ None \notin [by : Nat, active : BOOLEAN]
  /\ None \notin [by : Nat, closed : BOOLEAN, whole : BOOLEAN, mixed : BOOLEAN]

VARIABLES
  artifact,    \* [Version -> file or None]: the .joblib files
  sidecar,     \* [Version -> file or None]: the .metrics.json files
  pointer,     \* what the .active file names; None without it or while it is empty
  proc,        \* one record for each process started; its index names its estimator
  row,         \* [Version -> ml_models row or None], as committed
  cache,       \* [Version -> loaded model or None], in the API process
  reader,      \* [Reader -> request]
  \* History and bounds
  retrained,   \* versions written while they could be read, or by two trainings at once
  pointed,     \* versions the pointer has named
  overlapped,  \* two registrations have been under way at once
  orderly,     \* nothing failed, overlapped, or left a store out on purpose
  faults

disk == <<artifact, sidecar, pointer, retrained, pointed>>
serving == <<cache, reader>>
vars == <<disk, proc, row, serving, overlapped, orderly, faults>>

Idle == [pc |-> "idle", want |-> None, pointer |-> None, version |-> None,
         record |-> None, stamp |-> None, estimator |-> None, ready |-> FALSE]

Training == {"save", "saving", "check", "describe", "describing", "activate", "pointing",
             "select", "clear", "wait", "flush"}

Over == {"done", "failed", "dead", "approved", "refused"}

Init ==
  /\ artifact = [v \in Version |-> None] /\ sidecar = [v \in Version |-> None]
  /\ pointer = None
  /\ proc = <<>>
  /\ row = [v \in Version |-> None]
  /\ cache = [v \in Version |-> None]
  /\ reader = [r \in Reader |-> Idle]
  /\ retrained = {} /\ pointed = {}
  /\ overlapped = FALSE /\ orderly = TRUE
  /\ faults = 0

--------------------------------------------------------------------------------
\* What the models directory says.

\* Versions whose sidecar parses; the others are passed over with a warning.
Described == {v \in Version : sidecar[v] # None /\ sidecar[v].whole}

Newest(versions) == CHOOSE v \in versions : \A w \in versions : w <= v

Loadable(v) == artifact[v] # None /\ artifact[v].whole

\* A bug ActiveOf guards against: versions are discovered by their artefacts.
ActiveOfArtifacts(p) == IF p \in Described THEN p ELSE Newest({v \in Version : artifact[v] # None})

\* The active version of a directory read after its pointer named p.
ActiveOf(p) == IF p \in Described THEN p ELSE Newest(Described)

\* An interrupted training's number is used again: its sidecar does not parse.
NextVersion == IF Described = {} THEN 1 ELSE Newest(Described) + 1

--------------------------------------------------------------------------------
\* Processes.

Live == {p \in DOMAIN proc : proc[p].pc \notin Over}

At(p, pc) == p \in DOMAIN proc /\ proc[p].pc = pc

Moved(p, pc) == [proc EXCEPT ![p].pc = pc]

\* The same when the process leaves its transaction.
Rest(p, pc) == [proc EXCEPT ![p].pc = pc, ![p].cleared = {},
                            ![p].exists = FALSE, ![p].wasActive = FALSE]

\* Other trainings of the same version that have a file open, or are under way.
Rivals(p, pcs) == {q \in Live : q # p /\ proc[q].version = proc[p].version
                                      /\ proc[q].kind # "activation" /\ proc[q].pc \in pcs}

Begin(kind, version, activate) ==
  /\ Len(proc) < MaxProcesses /\ Cardinality(Live) < MaxActive
  /\ kind = "weekly" => /\ version # None /\ activate
                        /\ \A q \in Live : proc[q].kind # "weekly"
  /\ kind = "activation" => version \in Described /\ activate
  /\ \E score \in Score :
       proc' = Append(proc,
         [kind |-> kind, version |-> version, activate |-> activate, score |-> score,
          pc |-> IF kind = "activation" THEN "activate" ELSE "fit",
          by |-> IF kind = "activation" THEN sidecar[version].by ELSE Len(proc) + 1,
          exists |-> FALSE, wasActive |-> FALSE, cleared |-> {}])
  /\ orderly' = (orderly /\ Live = {})
  /\ UNCHANGED <<disk, row, serving, overlapped, faults>>

\* The version is settled when the estimator has been fitted.
Fit(p) ==
  /\ At(p, "fit")
  /\ LET v == IF proc[p].version = None THEN NextVersion ELSE proc[p].version IN
     /\ v \in Version
     /\ proc' = [proc EXCEPT ![p].version = v, ![p].pc = "save"]
     /\ orderly' = (orderly /\ (proc[p].activate \/ row[v] = None))
  /\ UNCHANGED <<disk, row, serving, overlapped, faults>>

\* A file is cut short while it is written.  Two writers at once leave the
\* bytes of either, or a mixture that cannot be read.
Opened(p, pc) == [by |-> p, closed |-> FALSE, whole |-> FALSE, mixed |-> Rivals(p, {pc}) # {}]

Closed(file, p) == {[file EXCEPT !.by = p, !.closed = TRUE, !.whole = whole] :
                      whole \in IF file.mixed THEN BOOLEAN ELSE {TRUE}}

OpenArtifact(p) ==
  /\ At(p, "save")
  /\ LET v == proc[p].version IN
     /\ artifact' = [artifact EXCEPT ![v] = Opened(p, "saving")]
     /\ retrained' = IF v \in Described \/ Rivals(p, Training) # {} THEN retrained \cup {v}
                     ELSE retrained
  /\ proc' = Moved(p, "saving")
  /\ UNCHANGED <<sidecar, pointer, pointed, row, serving, overlapped, orderly, faults>>

CloseArtifact(p) ==
  /\ At(p, "saving")
  /\ \E file \in Closed(artifact[proc[p].version], p) :
       artifact' = [artifact EXCEPT ![proc[p].version] = file]
  /\ proc' = Moved(p, "check")
  /\ UNCHANGED <<sidecar, pointer, retrained, pointed, row, serving, overlapped, orderly, faults>>

\* The artefact is loaded back before anything describes it.
RoundTrip(p) ==
  /\ At(p, "check")
  /\ proc' = Moved(p, IF Loadable(proc[p].version) THEN "describe" ELSE "failed")
  /\ orderly' = (orderly /\ Loadable(proc[p].version))
  /\ UNCHANGED <<disk, row, serving, overlapped, faults>>

OpenSidecar(p) ==
  /\ At(p, "describe")
  /\ sidecar' = [sidecar EXCEPT ![proc[p].version] = Opened(p, "describing")]
  /\ proc' = Moved(p, "describing")
  /\ UNCHANGED <<artifact, pointer, retrained, pointed, row, serving, overlapped, orderly, faults>>

\* --no-activate leaves the pointer alone, --no-register the database.
CloseSidecar(p) ==
  /\ At(p, "describing")
  /\ \E file \in Closed(sidecar[proc[p].version], p) :
       sidecar' = [sidecar EXCEPT ![proc[p].version] = file]
  /\ \E pc \in IF proc[p].activate THEN {"activate"} ELSE {"select", "done"} :
       /\ proc' = Moved(p, pc)
       /\ orderly' = (orderly /\ pc # "done")
  /\ UNCHANGED <<artifact, pointer, retrained, pointed, row, serving, overlapped, faults>>

\* A bug OpenPointer guards against: the database is told first.
OpenPointerLast(p) ==
  /\ At(p, "activate")
  /\ proc' = Moved(p, "select")
  /\ UNCHANGED <<disk, row, serving, overlapped, orderly, faults>>

\* set_active_version: opening the pointer file empties it.
OpenPointer(p) ==
  /\ At(p, "activate")
  /\ artifact[proc[p].version] # None
  /\ pointer' = None
  /\ proc' = Moved(p, "pointing")
  /\ UNCHANGED <<artifact, sidecar, retrained, pointed, row, serving, overlapped, orderly, faults>>

ClosePointer(p) ==
  /\ At(p, "pointing")
  /\ pointer' = proc[p].version
  /\ pointed' = pointed \cup {proc[p].version}
  /\ \E pc \in {"select", "done"} :
       /\ pc = "done" => proc[p].kind = "cli"
       /\ proc' = Moved(p, pc)
       /\ orderly' = (orderly /\ pc # "done")
  /\ UNCHANGED <<artifact, sidecar, retrained, row, serving, overlapped, faults>>

--------------------------------------------------------------------------------
\* Registration: SELECT the version's row, clear every is_active, write the row.

InTransaction == {p \in Live : proc[p].pc \in {"clear", "wait", "flush"}}

Registered == {v \in Version : row[v] # None}

SelectExisting(p) ==
  /\ At(p, "select")
  /\ LET v == proc[p].version IN
     proc' = [proc EXCEPT ![p].pc = IF proc[p].activate THEN "clear" ELSE "flush",
                          ![p].exists = row[v] # None,
                          ![p].wasActive = IF row[v] = None THEN FALSE ELSE row[v].active]
  /\ overlapped' = (overlapped \/ InTransaction # {})
  /\ UNCHANGED <<disk, row, serving, orderly, faults>>

\* The statement finds the rows committed by now...
StartClearing(p) ==
  /\ At(p, "clear")
  /\ proc' = [proc EXCEPT ![p].pc = "wait", ![p].cleared = Registered]
  /\ UNCHANGED <<disk, row, serving, overlapped, orderly, faults>>

\* ... and waits until no other transaction has changed one of them.
EndClearing(p) ==
  /\ At(p, "wait")
  /\ \A q \in Live \ {p} : proc[q].pc = "flush" => proc[q].cleared \cap proc[p].cleared = {}
  /\ proc' = Moved(p, "flush")
  /\ UNCHANGED <<disk, row, serving, overlapped, orderly, faults>>

\* The row p writes.  The unit of work emits the columns that differ from the
\* row as p loaded it; activate_model writes the flag of a known row, no more.
Row(p) ==
  LET now == row[proc[p].version]
      by == IF proc[p].kind = "activation" /\ proc[p].exists THEN now.by ELSE proc[p].by IN
  [by |-> by, active |-> proc[p].activate
                         \/ (proc[p].exists /\ ~proc[p].wasActive /\ now.active)]

Finished(p) == IF proc[p].kind = "weekly" THEN "gate" ELSE "done"

\* A bug CommitRow guards against: the row of a version that is there is kept.
CommitRowOnce(p) ==
  /\ At(p, "flush")
  /\ row' = [v \in Version |->
       IF v = proc[p].version /\ row[v] = None THEN Row(p)
       ELSE IF v = proc[p].version THEN [row[v] EXCEPT !.active = proc[p].activate]
       ELSE IF v \in proc[p].cleared THEN [row[v] EXCEPT !.active = FALSE] ELSE row[v]]
  /\ proc' = Rest(p, Finished(p))
  /\ UNCHANGED <<disk, serving, overlapped, orderly, faults>>

CommitRow(p) ==
  /\ At(p, "flush")
  /\ proc[p].exists \/ row[proc[p].version] = None
  /\ \A q \in Live \ {p} : proc[q].pc = "flush" => proc[p].version \notin proc[q].cleared
  /\ row' = [v \in Version |->
       IF v = proc[p].version THEN Row(p)
       ELSE IF v \in proc[p].cleared THEN [row[v] EXCEPT !.active = FALSE] ELSE row[v]]
  /\ proc' = Rest(p, Finished(p))
  /\ UNCHANGED <<disk, serving, overlapped, orderly, faults>>

\* Another registration has inserted the version since: the unique constraint.
RowConflict(p) ==
  /\ At(p, "flush")
  /\ ~proc[p].exists /\ row[proc[p].version] # None
  /\ proc' = Rest(p, "failed")
  /\ orderly' = FALSE
  /\ UNCHANGED <<disk, row, serving, overlapped, faults>>

\* The database fails: the transaction is rolled back, the files stay.
RegistrationFails(p) ==
  /\ At(p, "select") \/ p \in InTransaction
  /\ faults < MaxFaults /\ faults' = faults + 1
  /\ proc' = Rest(p, "failed")
  /\ orderly' = FALSE
  /\ UNCHANGED <<disk, row, serving, overlapped>>

Die(p) ==
  /\ p \in Live
  /\ faults < MaxFaults /\ faults' = faults + 1
  /\ proc' = Rest(p, "dead")
  /\ orderly' = FALSE
  /\ UNCHANGED <<disk, row, serving, overlapped>>

--------------------------------------------------------------------------------
\* The DAG's gate: beat the baseline and every version on disk.  No promotion
\* has ever been recorded: the `promote` command that would come first does not
\* exist.  The evaluation before the gate needs a model it can load.

Others(v) == {proc[sidecar[w].by].score : w \in Described \ {v}}

Improves(v) ==
  LET score == proc[sidecar[v].by].score IN
  score < Baseline /\ \A other \in Others(v) : score < other

Gate(p) ==
  /\ At(p, "gate")
  /\ LET v == proc[p].version IN
     proc' = Moved(p, IF ~(v \in Described /\ Loadable(v)) THEN "failed"
                      ELSE IF Improves(v) THEN "approved" ELSE "refused")
  /\ UNCHANGED <<disk, row, serving, overlapped, orderly, faults>>

--------------------------------------------------------------------------------
\* A prediction request: resolve, resolve again by number, stat, load, answer.

Step(r, changed) == reader' = [reader EXCEPT ![r] = changed]

Ready(v) == v \in Described /\ Loadable(v)

\* 503: the request, and whether it could have been answered when it came.
Refused(r) == [Idle EXCEPT !.pc = "unavailable", !.ready = reader[r].ready]

\* active_version: the pointer is read before the directory is.
ReadPointer(r, want) ==
  /\ reader[r].pc \in {"idle", "unavailable"}
  /\ Step(r, [Idle EXCEPT !.pc = "discover", !.want = want, !.pointer = pointer,
                          !.ready = IF want = None THEN \E v \in Version : Ready(v) ELSE Ready(want)])
  /\ UNCHANGED <<disk, proc, row, cache, overlapped, orderly, faults>>

Discover(r) ==
  /\ reader[r].pc = "discover"
  /\ Step(r, IF Described = {} \/ reader[r].want \notin Described \cup {None}
             THEN Refused(r)
             ELSE [Idle EXCEPT !.pc = "again", !.ready = reader[r].ready,
                     !.version = IF reader[r].want = None THEN ActiveOf(reader[r].pointer)
                                 ELSE reader[r].want])
  /\ UNCHANGED <<disk, proc, row, cache, overlapped, orderly, faults>>

\* EnergyPredictor.load resolves the version it is given from the files again.
ResolveAgain(r) ==
  /\ reader[r].pc = "again"
  /\ LET v == reader[r].version IN
     Step(r, IF v \in Described THEN [reader[r] EXCEPT !.pc = "stat", !.record = sidecar[v].by]
             ELSE Refused(r))
  /\ UNCHANGED <<disk, proc, row, cache, overlapped, orderly, faults>>

\* What the modification time tells apart: a file being written, and once it is written.
Stamp(v) == <<artifact[v].by, artifact[v].closed>>

Hit(v) == cache[v] # None /\ cache[v].stamp = Stamp(v)

Stat(r) ==
  /\ reader[r].pc = "stat"
  /\ LET v == reader[r].version IN
     Step(r, IF Hit(v) THEN Idle ELSE [reader[r] EXCEPT !.pc = "load", !.stamp = Stamp(v)])
  /\ UNCHANGED <<disk, proc, row, cache, overlapped, orderly, faults>>

Load(r) ==
  /\ reader[r].pc = "load"
  /\ LET v == reader[r].version IN
     Step(r, IF Loadable(v) THEN [reader[r] EXCEPT !.pc = "keep", !.estimator = artifact[v].by]
             ELSE Refused(r))
  /\ UNCHANGED <<disk, proc, row, cache, overlapped, orderly, faults>>

\* A bug Keep guards against: the modification time is taken after the load.
KeepStampedLate(r) ==
  /\ reader[r].pc = "keep"
  /\ cache' = [cache EXCEPT ![reader[r].version] =
                 [stamp |-> Stamp(reader[r].version), record |-> reader[r].record,
                  estimator |-> reader[r].estimator]]
  /\ Step(r, Idle)
  /\ UNCHANGED <<disk, proc, row, overlapped, orderly, faults>>

Keep(r) ==
  /\ reader[r].pc = "keep"
  /\ cache' = [cache EXCEPT ![reader[r].version] =
                 [stamp |-> reader[r].stamp, record |-> reader[r].record,
                  estimator |-> reader[r].estimator]]
  /\ Step(r, Idle)
  /\ UNCHANGED <<disk, proc, row, overlapped, orderly, faults>>

--------------------------------------------------------------------------------
Next ==
  \/ \E kind \in Kinds, v \in Version \cup {None}, activate \in BOOLEAN : Begin(kind, v, activate)
  \/ \E p \in Live :
       \/ Fit(p) \/ OpenArtifact(p) \/ CloseArtifact(p) \/ RoundTrip(p)
       \/ OpenSidecar(p) \/ CloseSidecar(p) \/ OpenPointer(p) \/ ClosePointer(p)
       \/ SelectExisting(p) \/ StartClearing(p) \/ EndClearing(p)
       \/ CommitRow(p) \/ RowConflict(p) \/ RegistrationFails(p)
       \/ Gate(p) \/ Die(p)
  \/ \E r \in Reader :
       \/ \E want \in Version \cup {None} : ReadPointer(r, want)
       \/ Discover(r) \/ ResolveAgain(r) \/ Stat(r) \/ Load(r) \/ Keep(r)

Spec == Init /\ [][Next]_vars

--------------------------------------------------------------------------------
\* The cached estimator is the one on disk whenever the cache says so: however
\* a retraining falls between the steps of a load, the superseded estimator is
\* not served once the new file is complete (registry.load_model).  And a model
\* is kept with the record of another training only if its version was retrained.
CacheIsCurrent ==
  \A v \in Version : cache[v] # None =>
    /\ Hit(v) => cache[v].estimator = artifact[v].by /\ Loadable(v)
    /\ v \notin retrained => cache[v].record = cache[v].estimator

\* Training new versions never interrupts serving: a request for a version that
\* was complete when the request came is refused only after some version has
\* been retrained in place, or by two trainings at once (train_model's order of
\* artefact, round trip, sidecar, pointer).
TrainingDoesNotInterrupt ==
  \A r \in Reader : (reader[r].pc = "unavailable" /\ reader[r].ready) => retrained # {}

\* Of the versions registered one after the other at most one is active
\* (register_model); only registrations that overlapped can leave two.
OneActiveUnlessOverlapped ==
  overlapped \/ Cardinality({v \in Registered : row[v].active}) <= 1

\* Processes that ran to their end one at a time leave the stores agreeing: the
\* active row is the version the pointer names, and row, sidecar and artefact
\* of a version come from one training (_run_train, register_model).
StoresAgreeAtRest ==
  (orderly /\ Live = {}) =>
    /\ \A v \in Registered : row[v].active <=> pointer = v
    /\ \A v \in Version : sidecar[v] # None =>
         row[v] # None /\ row[v].by = sidecar[v].by /\ artifact[v].by = sidecar[v].by

\* The database never claims a version is active that the pointer has not named:
\* the pointer is written first, whatever fails after it (activate_model).
DatabaseNeverLeads == \A v \in Registered : row[v].active => v \in pointed

\* The database follows the pointer, and has caught up when nothing is running.
StoresFollowPointer == OneActiveUnlessOverlapped /\ StoresAgreeAtRest /\ DatabaseNeverLeads
================================================================================
