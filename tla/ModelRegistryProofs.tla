--------------------------- MODULE ModelRegistryProofs ---------------------------
(***************************************************************************)
(* The energy model's registry, for every number of trainings, readers and *)
(* versions: what the API caches is what is on disk, training a new        *)
(* version interrupts nobody, and the database follows the pointer.        *)
(*                                                                         *)
(* The invariant has four layers, each inductive once those before it are: *)
(* the types, the files and who writes them, the requests and the cache,   *)
(* and the rows.                                                           *)
(***************************************************************************)
EXTENDS ModelRegistry, TLAPS, FiniteSetTheorems, WellFoundedInduction

-----------------------------------------------------------------------------
(* Types *)

Pcs == {"fit", "gate"} \cup Training \cup Over

Process == [kind : Kinds, version : Version \cup {None}, activate : BOOLEAN, score : Score,
            pc : Pcs, by : Nat, exists : BOOLEAN, wasActive : BOOLEAN, cleared : SUBSET Version]

File == [by : Nat, closed : BOOLEAN, whole : BOOLEAN, mixed : BOOLEAN]

RowOf == [by : Nat, active : BOOLEAN]

Stamps == Nat \X BOOLEAN

Loaded == [stamp : Stamps, record : Nat, estimator : Nat]

Request == [pc : {"idle", "discover", "again", "stat", "load", "keep", "unavailable"},
            want : Version \cup {None}, pointer : Version \cup {None},
            version : Version \cup {None}, record : Nat \cup {None},
            stamp : Stamps \cup {None}, estimator : Nat \cup {None}, ready : BOOLEAN]

RegistryTypeOK ==
  /\ artifact \in [Version -> File \cup {None}]
  /\ sidecar \in [Version -> File \cup {None}]
  /\ pointer \in Version \cup {None}
  /\ proc \in Seq(Process)
  /\ row \in [Version -> RowOf \cup {None}]
  /\ cache \in [Version -> Loaded \cup {None}]
  /\ reader \in [Reader -> Request]
  /\ retrained \subseteq Version /\ pointed \subseteq Version
  /\ overlapped \in BOOLEAN /\ orderly \in BOOLEAN
  /\ faults \in Nat

\* The steps in which a training owns the files of its version.
Writing == {"saving", "check", "describe", "describing"}

\* What the step a process is at says of its record.
ProcessOK(p) ==
  /\ proc[p].pc \in Training \cup {"gate"} => proc[p].version \in Version
  /\ proc[p].kind = "activation" =>
       /\ proc[p].pc \notin {"fit", "save", "gate"} \cup Writing
       /\ proc[p].activate
       /\ proc[p].version \in Version
  /\ proc[p].kind = "weekly" => proc[p].activate
  /\ proc[p].pc \in {"activate", "pointing", "clear", "wait"} => proc[p].activate
  /\ proc[p].cleared # {} => proc[p].pc \in {"wait", "flush"} /\ proc[p].activate
  /\ proc[p].exists => proc[p].pc \in {"clear", "wait", "flush"} /\ proc[p].version \in Registered
  /\ proc[p].cleared \subseteq Registered

ProcessesOK == \A p \in DOMAIN proc : ProcessOK(p)

-----------------------------------------------------------------------------
(* The files *)

\* A state the file of a version has been in, or is in: it does not come back.
Past(stamp) ==
  /\ stamp[1] \in DOMAIN proc
  /\ proc[stamp[1]].pc \notin {"fit", "save"}
  /\ stamp[2] => proc[stamp[1]].pc # "saving"

\* Every file has a writer, and no sidecar is without an artefact.
FilesHaveWriters ==
  /\ \A v \in Version : artifact[v] \in File => Past(Stamp(v))
  /\ \A v \in Version : sidecar[v] # None => artifact[v] \in File
  /\ \A p \in DOMAIN proc :
       /\ proc[p].pc \in Writing => artifact[proc[p].version] \in File
       /\ proc[p].pc = "describing" => sidecar[proc[p].version] \in File

\* Unless it was retrained, a version has one writer, is not read while it has, and is
\* described only when its artefact is whole and of the same training.
OneWriter ==
  /\ \A p, q \in DOMAIN proc :
       /\ proc[p].pc \in Writing /\ proc[q].pc \in Writing
       /\ proc[p].version = proc[q].version /\ proc[p].version \notin retrained
       => p = q
  /\ \A p \in DOMAIN proc :
       proc[p].pc \in Writing /\ proc[p].version \notin retrained =>
         /\ proc[p].version \notin Described
         /\ artifact[proc[p].version].by = p
         /\ proc[p].pc \in {"describe", "describing"} => Loadable(proc[p].version)
  /\ \A v \in Described \ retrained : artifact[v].by = sidecar[v].by /\ Loadable(v)

\* There is a newest version.
Bounded == \E b \in Nat : \A v \in Version : sidecar[v] # None => v <= b

FilesInv == RegistryTypeOK /\ ProcessesOK /\ FilesHaveWriters /\ OneWriter /\ Bounded

-----------------------------------------------------------------------------
(* The requests and the cache *)

Reading(r) == reader[r].pc \in {"stat", "load", "keep"}

\* A request that found a version on disk finds it still, and knows of a model it has
\* loaded whether it is the one on disk.
RequestsFollowFiles ==
  \A r \in Reader :
    LET v == reader[r].version IN
    /\ reader[r].pc = "again" => v \in Version
    /\ Reading(r) =>
         /\ v \in Version /\ artifact[v] \in File /\ reader[r].record \in Nat
         /\ v \notin retrained => v \in Described /\ reader[r].record = sidecar[v].by
    /\ reader[r].pc \in {"load", "keep"} => reader[r].stamp \in Stamps /\ Past(reader[r].stamp)
    /\ reader[r].pc = "keep" =>
         /\ reader[r].estimator \in Nat
         /\ Stamp(v) = reader[r].stamp => reader[r].estimator = artifact[v].by /\ Loadable(v)
         /\ v \notin retrained => reader[r].record = reader[r].estimator

CacheFollowsFiles ==
  \A v \in Version : cache[v] # None =>
    /\ artifact[v] \in File
    /\ Past(cache[v].stamp)
    /\ Hit(v) => cache[v].estimator = artifact[v].by /\ Loadable(v)
    /\ v \notin retrained => cache[v].record = cache[v].estimator

\* As long as nothing has been retrained, what was complete when a request came still is.
ReadyStaysReady ==
  retrained = {} =>
    \A r \in Reader :
      /\ reader[r].pc = "again" => reader[r].version \in Described
      /\ reader[r].pc = "discover" /\ reader[r].ready =>
           IF reader[r].want = None THEN \E v \in Version : Ready(v) ELSE Ready(reader[r].want)
      /\ reader[r].pc = "unavailable" => ~reader[r].ready

ServingInv == RequestsFollowFiles /\ CacheFollowsFiles /\ ReadyStaysReady

-----------------------------------------------------------------------------
(* The rows *)

Active == {v \in Registered : row[v].active}

Registering == {"select", "clear", "wait", "flush"}

\* A process registers what the pointer has named, and so do the rows.
PointerComesFirst ==
  /\ Active \subseteq pointed
  /\ \A p \in DOMAIN proc : proc[p].pc \in Registering /\ proc[p].activate => proc[p].version \in pointed

\* A registration by itself knows the row it writes and clears every active one.
OneRegistration ==
  ~overlapped =>
    /\ \A p, q \in InTransaction : p = q
    /\ \A v, w \in Active : v = w
    /\ \A p \in InTransaction :
         /\ proc[p].exists <=> proc[p].version \in Registered
         /\ proc[p].wasActive <=> proc[p].version \in Active
         /\ proc[p].pc \in {"wait", "flush"} /\ proc[p].activate => Active \subseteq proc[p].cleared

RowsInv == PointerComesFirst /\ OneRegistration

-----------------------------------------------------------------------------
(* One process at a time *)

Agrees(v) ==
  sidecar[v] # None =>
    row[v] # None /\ row[v].by = sidecar[v].by /\ artifact[v].by = sidecar[v].by

\* A training that has touched its version's files and not yet registered them.
Unfinished(p) == proc[p].kind # "activation" /\ proc[p].pc \in Training \ {"save"}

FilesAgree ==
  /\ \A v \in Version : Agrees(v) \/ \E p \in Live : Unfinished(p) /\ proc[p].version = v
  /\ \A p \in Live :
       /\ proc[p].kind = "activation" =>
            sidecar[proc[p].version] # None /\ proc[p].by = sidecar[proc[p].version].by
       /\ proc[p].kind # "activation" => proc[p].by = p
       /\ Unfinished(p) => artifact[proc[p].version].by = p
       /\ Unfinished(p) /\ proc[p].pc \notin {"saving", "check", "describe"} =>
            sidecar[proc[p].version] # None /\ sidecar[proc[p].version].by = p

\* The process that has moved the pointer, and not yet the rows.
Pointing(p) == proc[p].activate /\ proc[p].pc \in {"pointing"} \cup Registering

PointerAgrees ==
  /\ (\E p \in Live : Pointing(p)) \/ \A v \in Version : v \in Active <=> pointer = v
  /\ \A p \in Live :
       /\ proc[p].pc \in Registering /\ proc[p].activate => pointer = proc[p].version
       /\ proc[p].pc \in Training /\ ~proc[p].activate => proc[p].version \notin Registered
       /\ p \in InTransaction /\ proc[p].exists => proc[p].version \in Registered
       /\ proc[p].pc \in {"wait", "flush"} /\ proc[p].activate => Active \subseteq proc[p].cleared

RestInv ==
  orderly => /\ \A p, q \in Live : p = q
             /\ FilesAgree
             /\ PointerAgrees

RegistryInv == FilesInv /\ ServingInv /\ RowsInv /\ RestInv
-----------------------------------------------------------------------------
(* Types: proofs *)

\* One process moves, and the others stay as they are.
MovesTo(p, e) ==
  /\ p \in DOMAIN proc
  /\ proc' = [proc EXCEPT ![p] = e]

\* The parts of a process that no step changes.
SameProcess(p, e) ==
  /\ e \in Process
  /\ e.kind = proc[p].kind /\ e.activate = proc[p].activate
  /\ e.score = proc[p].score /\ e.by = proc[p].by

LEMMA ProcessesMove ==
  ASSUME proc \in Seq(Process), NEW p, NEW e \in Process, MovesTo(p, e)
  PROVE  /\ proc' \in Seq(Process)
         /\ DOMAIN proc' = DOMAIN proc
         /\ proc'[p] = e
         /\ \A q \in DOMAIN proc : q # p => proc'[q] = proc[q]
<1>1. /\ Len(proc) \in Nat /\ DOMAIN proc = 1 .. Len(proc)
      /\ proc \in [1 .. Len(proc) -> Process]
  OBVIOUS
<1>2. proc' \in [1 .. Len(proc) -> Process]
  BY <1>1 DEF MovesTo
<1>3. proc' \in Seq(Process)
  BY <1>1, <1>2
<1> QED
  BY <1>1, <1>2, <1>3 DEF MovesTo

LEMMA ProcessType ==
  ASSUME proc \in Seq(Process), NEW p \in DOMAIN proc
  PROVE  /\ proc[p] \in Process
         /\ p \in Nat
  OBVIOUS

\* What a step makes of its process: nothing else in it changes.
Advanced(p, e) ==
  /\ e \in Process
  /\ e.kind = proc[p].kind /\ e.activate = proc[p].activate /\ e.by = proc[p].by
  /\ proc[p].pc # "fit" => e.version = proc[p].version
  /\ proc[p].pc \notin Over
  /\ e.pc \notin {"fit"}
  /\ e.pc = "save" => proc[p].pc = "fit"
  /\ e.pc = "saving" => proc[p].pc = "save"

\* The process p makes a step.
ProcessStep(p) ==
  \/ Fit(p) \/ OpenArtifact(p) \/ CloseArtifact(p) \/ RoundTrip(p)
  \/ OpenSidecar(p) \/ CloseSidecar(p) \/ OpenPointer(p) \/ ClosePointer(p)
  \/ SelectExisting(p) \/ StartClearing(p) \/ EndClearing(p)
  \/ CommitRow(p) \/ RowConflict(p) \/ RegistrationFails(p)
  \/ Gate(p) \/ Die(p)

LEMMA ProcessesAdvance ==
  ASSUME RegistryTypeOK, ProcessesOK, NEW p \in Live, ProcessStep(p)
  PROVE  \E e \in Process : MovesTo(p, e) /\ Advanced(p, e)
<1>0. proc \in Seq(Process) /\ p \in DOMAIN proc /\ proc[p].pc \notin Over
  BY DEF RegistryTypeOK, Live
<1>1. /\ proc \in Seq(Process) /\ p \in DOMAIN proc /\ proc[p] \in Process /\ proc[p].pc \notin Over
      /\ proc[p].pc \in Pcs
  BY <1>0, ProcessType DEF Process
<1>2. ASSUME NEW pc \in Pcs, proc' = Moved(p, pc), pc \notin {"fit", "save"},
             pc = "saving" => proc[p].pc = "save"
      PROVE  \E e \in Process : MovesTo(p, e) /\ Advanced(p, e)
  <2>1. [proc[p] EXCEPT !.pc = pc] \in Process
    BY <1>1 DEF Process
  <2>2. MovesTo(p, [proc[p] EXCEPT !.pc = pc])
    BY <1>1, <1>2 DEF MovesTo, Moved
  <2>3. Advanced(p, [proc[p] EXCEPT !.pc = pc])
    BY <1>1, <1>2, <2>1 DEF Advanced, Process
  <2> QED
    BY <2>1, <2>2, <2>3
<1>3. ASSUME NEW pc \in Pcs, proc' = Rest(p, pc), pc \notin {"fit", "save", "saving"}
      PROVE  \E e \in Process : MovesTo(p, e) /\ Advanced(p, e)
  <2> DEFINE e == [proc[p] EXCEPT !.pc = pc, !.cleared = {}, !.exists = FALSE, !.wasActive = FALSE]
  <2>1. e \in Process
    BY <1>1 DEF Process
  <2>2. MovesTo(p, e)
    BY <1>1, <1>3 DEF MovesTo, Rest
  <2>3. Advanced(p, e)
    BY <1>1, <1>3, <2>1 DEF Advanced, Process
  <2> QED
    BY <2>1, <2>2, <2>3
<1>4. CASE Fit(p)
  <2> DEFINE v == IF proc[p].version = None THEN NextVersion ELSE proc[p].version
             e == [proc[p] EXCEPT !.version = v, !.pc = "save"]
  <2>1. v \in Version /\ proc[p].pc = "fit"
    BY <1>4 DEF Fit, At
  <2>2. e \in Process
    BY <1>1, <2>1 DEF Process, Pcs, Training
  <2>3. MovesTo(p, e)
    BY <1>1, <1>4 DEF MovesTo, Fit
  <2>4. Advanced(p, e)
    BY <1>1, <2>1, <2>2 DEF Advanced, Process
  <2> QED
    BY <2>2, <2>3, <2>4
<1>5. CASE SelectExisting(p)
  <2> DEFINE pc == IF proc[p].activate THEN "clear" ELSE "flush"
             v == proc[p].version
             e == [proc[p] EXCEPT !.pc = pc, !.exists = row[v] # None,
                                  !.wasActive = IF row[v] = None THEN FALSE ELSE row[v].active]
  <2>1. pc \in Pcs /\ pc \notin {"fit", "save", "saving"} /\ proc[p].pc = "select"
    BY <1>5 DEF SelectExisting, At, Pcs, Training
  <2>2. proc[p].version \in Version
    BY <1>1, <2>1 DEF ProcessesOK, ProcessOK, Training
  <2>3. (IF row[v] = None THEN FALSE ELSE row[v].active) \in BOOLEAN
    BY <2>2 DEF RegistryTypeOK, RowOf
  <2>4. e \in Process
    BY <1>1, <2>1, <2>3 DEF Process
  <2>5. MovesTo(p, e)
    BY <1>1, <1>5 DEF MovesTo, SelectExisting
  <2>6. Advanced(p, e)
    BY <1>1, <2>1, <2>4 DEF Advanced, Process
  <2> QED
    BY <2>3, <2>4, <2>5, <2>6
<1>6. CASE StartClearing(p)
  <2> DEFINE e == [proc[p] EXCEPT !.pc = "wait", !.cleared = Registered]
  <2>1. Registered \subseteq Version /\ "wait" \in Pcs
    BY DEF Registered, Pcs, Training
  <2>2. e \in Process
    BY <1>1, <2>1 DEF Process
  <2>3. MovesTo(p, e)
    BY <1>1, <1>6 DEF MovesTo, StartClearing
  <2>4. Advanced(p, e)
    BY <1>1, <2>1, <2>2 DEF Advanced, Process
  <2> QED
    BY <2>2, <2>3, <2>4
<1>7. CASE OpenArtifact(p)
  BY <1>2, <1>7 DEF OpenArtifact, At, Pcs, Training
<1>8. CASE CloseArtifact(p)
  BY <1>2, <1>8 DEF CloseArtifact, Pcs, Training
<1>9. CASE RoundTrip(p)
  <2>1. "describe" \in Pcs /\ "failed" \in Pcs
    BY DEF Pcs, Training, Over
  <2> QED
    BY <1>2, <1>9, <2>1 DEF RoundTrip
<1>10. CASE OpenSidecar(p)
  BY <1>2, <1>10 DEF OpenSidecar, Pcs, Training
<1>11. CASE CloseSidecar(p)
  <2>1. PICK pc \in {"activate", "select", "done"} : proc' = Moved(p, pc)
    BY <1>11 DEF CloseSidecar
  <2> QED
    BY <1>2, <2>1 DEF Pcs, Training, Over
<1>12. CASE OpenPointer(p)
  BY <1>2, <1>12 DEF OpenPointer, Pcs, Training
<1>13. CASE ClosePointer(p)
  <2>1. PICK pc \in {"select", "done"} : proc' = Moved(p, pc)
    BY <1>13 DEF ClosePointer
  <2> QED
    BY <1>2, <2>1 DEF Pcs, Training, Over
<1>14. CASE EndClearing(p)
  BY <1>2, <1>14 DEF EndClearing, Pcs, Training
<1>15. CASE CommitRow(p)
  <2>1. Finished(p) \in {"gate", "done"}
    BY DEF Finished
  <2> QED
    BY <1>3, <1>15, <2>1 DEF CommitRow, Pcs, Over
<1>16. CASE RowConflict(p)
  BY <1>3, <1>16 DEF RowConflict, Pcs, Over
<1>17. CASE RegistrationFails(p)
  BY <1>3, <1>17 DEF RegistrationFails, Pcs, Over
<1>18. CASE Gate(p)
  <2>1. PICK pc \in {"failed", "approved", "refused"} : proc' = Moved(p, pc)
    BY <1>18 DEF Gate
  <2> QED
    BY <1>2, <2>1 DEF Pcs, Over
<1>19. CASE Die(p)
  BY <1>3, <1>19 DEF Die, Pcs, Over
<1> QED
  BY <1>4, <1>5, <1>6, <1>7, <1>8, <1>9, <1>10, <1>11, <1>12, <1>13, <1>14, <1>15, <1>16, <1>17,
     <1>18, <1>19 DEF ProcessStep

\* The record and the place of a process that has just started.
Begun(kind, version, activate, e) ==
  /\ e.kind = kind /\ e.version = version /\ e.activate = activate
  /\ e.pc = (IF kind = "activation" THEN "activate" ELSE "fit")
  /\ e.by = (IF kind = "activation" THEN sidecar[version].by ELSE Len(proc) + 1)
  /\ e.exists = FALSE /\ e.wasActive = FALSE /\ e.cleared = {}
  /\ proc' \in Seq(Process)
  /\ DOMAIN proc' = DOMAIN proc \cup {Len(proc) + 1}
  /\ Len(proc) + 1 \notin DOMAIN proc
  /\ proc'[Len(proc) + 1] = e
  /\ \A q \in DOMAIN proc : proc'[q] = proc[q]

LEMMA ProcessBegins ==
  ASSUME RegistryTypeOK, NEW kind \in Kinds, NEW version \in Version \cup {None},
         NEW activate \in BOOLEAN, Begin(kind, version, activate)
  PROVE  \E e \in Process : Begun(kind, version, activate, e)
<1>1. proc \in Seq(Process) /\ Len(proc) \in Nat /\ DOMAIN proc = 1 .. Len(proc)
  BY DEF RegistryTypeOK
<1>2. kind = "activation" => sidecar[version].by \in Nat
  <2>1. kind = "activation" => version \in Version /\ sidecar[version] # None
    BY DEF Begin, Described
  <2> QED
    BY <2>1 DEF RegistryTypeOK, File
<1>3. PICK score \in Score :
        proc' = Append(proc,
          [kind |-> kind, version |-> version, activate |-> activate, score |-> score,
           pc |-> IF kind = "activation" THEN "activate" ELSE "fit",
           by |-> IF kind = "activation" THEN sidecar[version].by ELSE Len(proc) + 1,
           exists |-> FALSE, wasActive |-> FALSE, cleared |-> {}])
  BY DEF Begin
<1> DEFINE e == [kind |-> kind, version |-> version, activate |-> activate, score |-> score,
                 pc |-> IF kind = "activation" THEN "activate" ELSE "fit",
                 by |-> IF kind = "activation" THEN sidecar[version].by ELSE Len(proc) + 1,
                 exists |-> FALSE, wasActive |-> FALSE, cleared |-> {}]
<1>4. e \in Process
  BY <1>1, <1>2 DEF Process, Pcs, Training
<1>5. e.kind = kind /\ e.version = version /\ e.activate = activate
      /\ e.pc = (IF kind = "activation" THEN "activate" ELSE "fit")
      /\ e.by = (IF kind = "activation" THEN sidecar[version].by ELSE Len(proc) + 1)
      /\ e.exists = FALSE /\ e.wasActive = FALSE /\ e.cleared = {}
  OBVIOUS
<1> HIDE DEF e
<1>6. proc' = Append(proc, e)
  BY <1>3 DEF e
<1>7. /\ proc' \in Seq(Process)
      /\ DOMAIN proc' = DOMAIN proc \cup {Len(proc) + 1}
      /\ Len(proc) + 1 \notin DOMAIN proc
      /\ proc'[Len(proc) + 1] = e
      /\ \A q \in DOMAIN proc : proc'[q] = proc[q]
  BY <1>1, <1>4, <1>6
<1> QED
  BY <1>4, <1>5, <1>7 DEF Begun

\* A request makes a step.
RequestStep(r) ==
  \/ \E want \in Version \cup {None} : ReadPointer(r, want)
  \/ Discover(r) \/ ResolveAgain(r) \/ Stat(r) \/ Load(r) \/ Keep(r)

LEMMA NextIsAStep ==
  ASSUME Next
  PROVE  \/ \E kind \in Kinds, v \in Version \cup {None}, activate \in BOOLEAN :
              Begin(kind, v, activate)
         \/ \E p \in Live : ProcessStep(p)
         \/ \E r \in Reader : RequestStep(r)
  BY Zenon DEF Next, ProcessStep, RequestStep

\* A non-empty set of natural numbers has a least element; a bounded one has a greatest.
LEMMA SmallestExists ==
  ASSUME NEW T \in SUBSET Nat, T # {}
  PROVE  \E x \in T : \A y \in T : x <= y
<1>1. IsWellFoundedOn(OpToRel(<, Nat), Nat)
  BY NatLessThanWellFounded
<1>2. \E x \in T : \A y \in T : ~(<<y, x>> \in OpToRel(<, Nat))
  BY <1>1, WFMin
<1>3. \A x, y \in T : ~(<<y, x>> \in OpToRel(<, Nat)) => x <= y
  BY DEF OpToRel
<1> QED
  BY <1>2, <1>3, Zenon

LEMMA NewestExists ==
  ASSUME NEW D \in SUBSET Nat, D # {}, NEW b \in Nat, \A v \in D : v <= b
  PROVE  Newest(D) \in D
<1> DEFINE T == {b - v : v \in D}
<1>0. \A v \in D : b - v \in Nat
  OBVIOUS
<1>1. T \in SUBSET Nat /\ T # {}
  BY <1>0
<1>2. PICK x \in T : \A y \in T : x <= y
  BY <1>1, SmallestExists
<1>3. PICK v \in D : x = b - v
  BY <1>2
<1>4. \A w \in D : w <= v
  <2> TAKE w \in D
  <2>1. b - v <= b - w
    BY <1>2, <1>3
  <2> QED
    BY <2>1
<1> QED
  BY <1>3, <1>4 DEF Newest

LEMMA ActiveIsDescribed ==
  ASSUME RegistryTypeOK, Bounded, Described # {}, NEW p
  PROVE  ActiveOf(p) \in Described
<1>1. PICK b \in Nat : \A v \in Described : v <= b
  BY DEF Bounded, Described
<1>2. Described \in SUBSET Nat
  BY RegistryAssumption DEF Described
<1>3. Newest(Described) \in Described
  BY <1>1, <1>2, NewestExists
<1> QED
  BY <1>3 DEF ActiveOf

LEMMA FilesAreTyped ==
  ASSUME RegistryTypeOK, NEW p \in Live, proc[p].version \in Version, p \in Nat
  PROVE  /\ \A pc : Opened(p, pc) \in File
         /\ \A f \in Closed(artifact[proc[p].version], p) :
              artifact[proc[p].version] \in File => f \in File
         /\ \A f \in Closed(sidecar[proc[p].version], p) :
              sidecar[proc[p].version] \in File => f \in File
  BY DEF Opened, Closed, File

LEMMA RequestsAreTyped ==
  ASSUME RegistryTypeOK, FilesHaveWriters, Bounded, RequestsFollowFiles,
         NEW r \in Reader, RequestStep(r)
  PROVE  reader' \in [Reader -> Request] /\ cache' \in [Version -> Loaded \cup {None}]
<1> DEFINE v == reader[r].version
<1>1. /\ reader \in [Reader -> Request] /\ reader[r] \in Request /\ cache \in [Version -> Loaded \cup {None}]
      /\ pointer \in Version \cup {None} /\ Idle \in Request /\ Refused(r) \in Request
  BY DEF RegistryTypeOK, Request, Idle, Refused
<1>2. \A e \in Request : Step(r, e) => reader' \in [Reader -> Request]
  BY <1>1 DEF Step
<1>3. CASE \E want \in Version \cup {None} : ReadPointer(r, want)
  <2>1. PICK want \in Version \cup {None} : ReadPointer(r, want)
    BY <1>3
  <2> DEFINE ready == IF want = None THEN \E w \in Version : Ready(w) ELSE Ready(want)
  <2>2. ready \in BOOLEAN
    BY DEF Ready, Loadable
  <2> HIDE DEF ready
  <2>3. [Idle EXCEPT !.pc = "discover", !.want = want, !.pointer = pointer, !.ready = ready]
          \in Request
    BY <1>1, <2>2 DEF Request
  <2>4. Step(r, [Idle EXCEPT !.pc = "discover", !.want = want, !.pointer = pointer, !.ready = ready])
        /\ cache' = cache
    BY <2>1 DEF ReadPointer, ready
  <2> QED
    BY <1>1, <1>2, <2>3, <2>4
<1>4. CASE Discover(r)
  <2> DEFINE w == IF reader[r].want = None THEN ActiveOf(reader[r].pointer) ELSE reader[r].want
  <2>1. CASE Described = {} \/ reader[r].want \notin Described \cup {None}
    BY <1>1, <1>2, <1>4, <2>1 DEF Discover
  <2>2. CASE ~(Described = {} \/ reader[r].want \notin Described \cup {None})
    <3>1. w \in Version
      BY <2>2, ActiveIsDescribed DEF Described
    <3> HIDE DEF w
    <3>2. [Idle EXCEPT !.pc = "again", !.ready = reader[r].ready, !.version = w] \in Request
      BY <1>1, <3>1 DEF Request
    <3>3. Step(r, [Idle EXCEPT !.pc = "again", !.ready = reader[r].ready, !.version = w])
          /\ cache' = cache
      BY <1>4, <2>2 DEF Discover, w
    <3> QED
      BY <1>1, <1>2, <3>2, <3>3
  <2> QED
    BY <2>1, <2>2
<1>5. CASE ResolveAgain(r)
  <2>1. v \in Described => v \in Version /\ sidecar[v].by \in Nat
    BY DEF Described, RegistryTypeOK, File
  <2>2. CASE v \in Described
    <3>1. [reader[r] EXCEPT !.pc = "stat", !.record = sidecar[v].by] \in Request
      BY <1>1, <2>1, <2>2 DEF Request
    <3> QED
      BY <1>1, <1>2, <1>5, <2>2, <3>1 DEF ResolveAgain
  <2>3. CASE v \notin Described
    BY <1>1, <1>2, <1>5, <2>3 DEF ResolveAgain
  <2> QED
    BY <2>2, <2>3
<1>6. CASE Stat(r)
  <2>1. v \in Version /\ artifact[v] \in File /\ Stamp(v) \in Stamps
    BY <1>6 DEF Stat, RequestsFollowFiles, Reading, Stamp, Stamps, File
  <2>2. [reader[r] EXCEPT !.pc = "load", !.stamp = Stamp(v)] \in Request
    BY <1>1, <2>1 DEF Request
  <2> QED
    BY <1>1, <1>2, <1>6, <2>2 DEF Stat
<1>7. CASE Load(r)
  <2>1. v \in Version /\ artifact[v] \in File /\ artifact[v].by \in Nat
    BY <1>7 DEF Load, RequestsFollowFiles, Reading, File
  <2>2. [reader[r] EXCEPT !.pc = "keep", !.estimator = artifact[v].by] \in Request
    BY <1>1, <2>1 DEF Request
  <2> QED
    BY <1>1, <1>2, <1>7, <2>2 DEF Load
<1>8. CASE Keep(r)
  <2>1. /\ v \in Version /\ reader[r].stamp \in Stamps /\ reader[r].record \in Nat
        /\ reader[r].estimator \in Nat
    BY <1>8 DEF Keep, RequestsFollowFiles, Reading
  <2>2. [stamp |-> reader[r].stamp, record |-> reader[r].record,
         estimator |-> reader[r].estimator] \in Loaded
    BY <2>1 DEF Loaded
  <2> QED
    BY <1>1, <1>2, <1>8, <2>1, <2>2 DEF Keep
<1> QED
  BY <1>3, <1>4, <1>5, <1>6, <1>7, <1>8 DEF RequestStep

\* A commit writes the row of its version and leaves none out.
LEMMA RowsAreWritten ==
  ASSUME RegistryTypeOK, ProcessesOK, NEW p \in Live, CommitRow(p)
  PROVE  /\ proc[p].version \in Version
         /\ Row(p) \in RowOf /\ row'[proc[p].version] = Row(p)
         /\ row' \in [Version -> RowOf \cup {None}]
         /\ Registered' = Registered \cup {proc[p].version}
         /\ \A v \in Version : v # proc[p].version =>
              row'[v] = IF v \in proc[p].cleared THEN [row[v] EXCEPT !.active = FALSE] ELSE row[v]
<1> DEFINE v == proc[p].version
<1>1. /\ p \in DOMAIN proc /\ proc[p] \in Process /\ v \in Version
      /\ proc[p].cleared \subseteq Registered
      /\ proc[p].exists => v \in Registered
  BY ProcessType DEF Live, CommitRow, At, RegistryTypeOK, ProcessesOK, ProcessOK, Training
<1>2. row \in [Version -> RowOf \cup {None}] /\ None \notin RowOf
  BY RegistryAssumption DEF RegistryTypeOK, RowOf
<1>3. Row(p) \in RowOf
  <2>1. proc[p].exists => row[v].by \in Nat
    BY <1>1, <1>2 DEF Registered, RowOf
  <2>2. proc[p].by \in Nat
    BY <1>1 DEF Process
  <2> QED
    BY <2>1, <2>2 DEF Row, RowOf
<1>4. \A w \in proc[p].cleared : [row[w] EXCEPT !.active = FALSE] \in RowOf
  BY <1>1, <1>2 DEF Registered, RowOf
<1>5. row' = [w \in Version |->
         IF w = v THEN Row(p)
         ELSE IF w \in proc[p].cleared THEN [row[w] EXCEPT !.active = FALSE] ELSE row[w]]
  BY DEF CommitRow
<1>6. row' \in [Version -> RowOf \cup {None}]
  BY <1>1, <1>2, <1>3, <1>4, <1>5
<1>7. Registered' = Registered \cup {v}
  BY <1>1, <1>2, <1>3, <1>4, <1>5 DEF Registered
<1> QED
  BY <1>1, <1>3, <1>5, <1>6, <1>7

\* What a process's step does to its record, field by field.
Kept(p) ==
  /\ proc'[p].kind = proc[p].kind /\ proc'[p].activate = proc[p].activate
  /\ proc'[p].by = proc[p].by

OnlyMoves(p, pc) ==
  /\ Kept(p) /\ proc'[p].version = proc[p].version /\ proc'[p].pc = pc
  /\ proc'[p].exists = proc[p].exists /\ proc'[p].wasActive = proc[p].wasActive
  /\ proc'[p].cleared = proc[p].cleared

Rests(p, pc) ==
  /\ Kept(p) /\ proc'[p].version = proc[p].version /\ proc'[p].pc = pc
  /\ proc'[p].exists = FALSE /\ proc'[p].wasActive = FALSE /\ proc'[p].cleared = {}

LEMMA RecordsMove ==
  ASSUME proc \in Seq(Process), NEW p \in DOMAIN proc, NEW pc
  PROVE  /\ proc' = Moved(p, pc) => OnlyMoves(p, pc)
         /\ proc' = Rest(p, pc) => Rests(p, pc)
<1>1. proc[p] \in Process
  BY ProcessType
<1>2. ASSUME proc' = Moved(p, pc) PROVE OnlyMoves(p, pc)
  <2>1. proc'[p] = [proc[p] EXCEPT !.pc = pc]
    BY <1>2 DEF Moved
  <2> QED
    BY <1>1, <2>1 DEF OnlyMoves, Kept, Process
<1>3. ASSUME proc' = Rest(p, pc) PROVE Rests(p, pc)
  <2>1. proc'[p] = [proc[p] EXCEPT !.pc = pc, !.cleared = {}, !.exists = FALSE, !.wasActive = FALSE]
    BY <1>3 DEF Rest
  <2> QED
    BY <1>1, <2>1 DEF Rests, Kept, Process
<1> QED
  BY <1>2, <1>3

LEMMA StepsMove ==
  ASSUME RegistryTypeOK, NEW p \in Live
  PROVE  /\ Fit(p) => /\ Kept(p) /\ proc[p].pc = "fit" /\ proc'[p].pc = "save"
                      /\ proc'[p].version \in Version
                      /\ proc'[p].version = IF proc[p].version = None THEN NextVersion
                                            ELSE proc[p].version
                      /\ proc'[p].exists = proc[p].exists /\ proc'[p].cleared = proc[p].cleared
         /\ OpenArtifact(p) => proc[p].pc = "save" /\ OnlyMoves(p, "saving")
         /\ CloseArtifact(p) => proc[p].pc = "saving" /\ OnlyMoves(p, "check")
         /\ RoundTrip(p) => /\ proc[p].pc = "check"
                            /\ OnlyMoves(p, IF Loadable(proc[p].version) THEN "describe"
                                            ELSE "failed")
         /\ OpenSidecar(p) => proc[p].pc = "describe" /\ OnlyMoves(p, "describing")
         /\ CloseSidecar(p) =>
              /\ proc[p].pc = "describing"
              /\ \/ proc[p].activate /\ OnlyMoves(p, "activate")
                 \/ ~proc[p].activate /\ OnlyMoves(p, "select")
                 \/ ~proc[p].activate /\ OnlyMoves(p, "done") /\ ~orderly'
         /\ OpenPointer(p) => proc[p].pc = "activate" /\ OnlyMoves(p, "pointing")
         /\ ClosePointer(p) => /\ proc[p].pc = "pointing"
                               /\ \/ OnlyMoves(p, "select")
                                  \/ OnlyMoves(p, "done") /\ ~orderly'
         /\ SelectExisting(p) =>
              /\ proc[p].pc = "select" /\ Kept(p) /\ proc'[p].version = proc[p].version
              /\ proc'[p].pc = (IF proc[p].activate THEN "clear" ELSE "flush")
              /\ proc'[p].exists = (row[proc[p].version] # None)
              /\ proc'[p].wasActive = (IF row[proc[p].version] = None THEN FALSE
                                       ELSE row[proc[p].version].active)
              /\ proc'[p].cleared = proc[p].cleared
         /\ StartClearing(p) =>
              /\ proc[p].pc = "clear" /\ Kept(p) /\ proc'[p].version = proc[p].version
              /\ proc'[p].pc = "wait" /\ proc'[p].cleared = Registered
              /\ proc'[p].exists = proc[p].exists /\ proc'[p].wasActive = proc[p].wasActive
         /\ EndClearing(p) => proc[p].pc = "wait" /\ OnlyMoves(p, "flush")
         /\ CommitRow(p) => /\ proc[p].pc = "flush" /\ Rests(p, Finished(p))
                            /\ Finished(p) \in {"gate", "done"}
                            /\ Finished(p) = "gate" => proc[p].kind = "weekly"
         /\ RowConflict(p) => proc[p].pc = "flush" /\ Rests(p, "failed") /\ ~orderly'
         /\ RegistrationFails(p) => /\ proc[p].pc \in Registering
                                    /\ Rests(p, "failed") /\ ~orderly'
         /\ Gate(p) => /\ proc[p].pc = "gate"
                       /\ OnlyMoves(p, "failed") \/ OnlyMoves(p, "approved") \/ OnlyMoves(p, "refused")
         /\ Die(p) => Rests(p, "dead") /\ ~orderly'
<1>1. proc \in Seq(Process) /\ p \in DOMAIN proc /\ proc[p] \in Process
  BY ProcessType DEF RegistryTypeOK, Live
<1>2. ASSUME Fit(p)
      PROVE  /\ Kept(p) /\ proc[p].pc = "fit" /\ proc'[p].pc = "save"
             /\ proc'[p].version \in Version
             /\ proc'[p].version = IF proc[p].version = None THEN NextVersion ELSE proc[p].version
             /\ proc'[p].exists = proc[p].exists /\ proc'[p].cleared = proc[p].cleared
  <2> DEFINE v == IF proc[p].version = None THEN NextVersion ELSE proc[p].version
  <2>1. v \in Version /\ proc[p].pc = "fit" /\ proc' = [proc EXCEPT ![p].version = v, ![p].pc = "save"]
    BY <1>2 DEF Fit, At
  <2> HIDE DEF v
  <2>2. proc'[p] = [proc[p] EXCEPT !.version = v, !.pc = "save"]
    BY <1>1, <2>1
  <2>3. /\ Kept(p) /\ proc'[p].pc = "save" /\ proc'[p].version = v
        /\ proc'[p].exists = proc[p].exists /\ proc'[p].cleared = proc[p].cleared
    BY <1>1, <2>2 DEF Kept, Process
  <2> QED
    BY <2>1, <2>3 DEF v
<1>3. ASSUME SelectExisting(p)
      PROVE  /\ proc[p].pc = "select" /\ Kept(p) /\ proc'[p].version = proc[p].version
             /\ proc'[p].pc = (IF proc[p].activate THEN "clear" ELSE "flush")
             /\ proc'[p].exists = (row[proc[p].version] # None)
             /\ proc'[p].wasActive = (IF row[proc[p].version] = None THEN FALSE
                                      ELSE row[proc[p].version].active)
             /\ proc'[p].cleared = proc[p].cleared
  <2> DEFINE pc == IF proc[p].activate THEN "clear" ELSE "flush"
             exists == row[proc[p].version] # None
             was == IF row[proc[p].version] = None THEN FALSE ELSE row[proc[p].version].active
  <2>1. /\ proc[p].pc = "select"
        /\ proc' = [proc EXCEPT ![p].pc = pc, ![p].exists = exists, ![p].wasActive = was]
    BY <1>3 DEF SelectExisting, At
  <2> HIDE DEF pc, exists, was
  <2>2. proc'[p] = [proc[p] EXCEPT !.pc = pc, !.exists = exists, !.wasActive = was]
    BY <1>1, <2>1
  <2>3. /\ Kept(p) /\ proc'[p].version = proc[p].version /\ proc'[p].pc = pc
        /\ proc'[p].exists = exists /\ proc'[p].wasActive = was /\ proc'[p].cleared = proc[p].cleared
    BY <1>1, <2>2 DEF Kept, Process
  <2> QED
    BY <2>1, <2>3 DEF pc, exists, was
<1>4. ASSUME StartClearing(p)
      PROVE  /\ proc[p].pc = "clear" /\ Kept(p) /\ proc'[p].version = proc[p].version
             /\ proc'[p].pc = "wait" /\ proc'[p].cleared = Registered
             /\ proc'[p].exists = proc[p].exists /\ proc'[p].wasActive = proc[p].wasActive
  <2>1. proc'[p] = [proc[p] EXCEPT !.pc = "wait", !.cleared = Registered]
    BY <1>1, <1>4 DEF StartClearing
  <2> QED
    BY <1>1, <1>4, <2>1 DEF Kept, Process, StartClearing, At
<1>5. ASSUME CloseSidecar(p)
      PROVE  /\ proc[p].pc = "describing"
             /\ \/ proc[p].activate /\ OnlyMoves(p, "activate")
                \/ ~proc[p].activate /\ OnlyMoves(p, "select")
                \/ ~proc[p].activate /\ OnlyMoves(p, "done") /\ ~orderly'
  <2>1. PICK pc \in IF proc[p].activate THEN {"activate"} ELSE {"select", "done"} :
          proc' = Moved(p, pc) /\ orderly' = (orderly /\ pc # "done")
    BY <1>5 DEF CloseSidecar
  <2> QED
    BY <1>1, <1>5, <2>1, RecordsMove DEF CloseSidecar, At
<1>6. ASSUME ClosePointer(p)
      PROVE  /\ proc[p].pc = "pointing"
             /\ \/ OnlyMoves(p, "select")
                \/ OnlyMoves(p, "done") /\ ~orderly'
  <2>1. PICK pc \in {"select", "done"} :
          proc' = Moved(p, pc) /\ orderly' = (orderly /\ pc # "done")
    BY <1>6 DEF ClosePointer
  <2>2. proc[p].pc = "pointing"
    BY <1>6 DEF ClosePointer, At
  <2>3. CASE pc = "select"
    BY <1>1, <2>1, <2>2, <2>3, RecordsMove
  <2>4. CASE pc = "done"
    BY <1>1, <2>1, <2>2, <2>4, RecordsMove
  <2> QED
    BY <2>1, <2>3, <2>4
<1>7. OpenArtifact(p) => proc[p].pc = "save" /\ OnlyMoves(p, "saving")
  BY <1>1, RecordsMove DEF OpenArtifact, At
<1>8. CloseArtifact(p) => proc[p].pc = "saving" /\ OnlyMoves(p, "check")
  BY <1>1, RecordsMove DEF CloseArtifact, At
<1>9. RoundTrip(p) => /\ proc[p].pc = "check"
                      /\ OnlyMoves(p, IF Loadable(proc[p].version) THEN "describe" ELSE "failed")
  BY <1>1, RecordsMove DEF RoundTrip, At
<1>10. OpenSidecar(p) => proc[p].pc = "describe" /\ OnlyMoves(p, "describing")
  BY <1>1, RecordsMove DEF OpenSidecar, At
<1>11. OpenPointer(p) => proc[p].pc = "activate" /\ OnlyMoves(p, "pointing")
  BY <1>1, RecordsMove DEF OpenPointer, At
<1>12. EndClearing(p) => proc[p].pc = "wait" /\ OnlyMoves(p, "flush")
  BY <1>1, RecordsMove DEF EndClearing, At
<1>13. CommitRow(p) => /\ proc[p].pc = "flush" /\ Rests(p, Finished(p))
                       /\ Finished(p) \in {"gate", "done"}
                       /\ Finished(p) = "gate" => proc[p].kind = "weekly"
  BY <1>1, RecordsMove DEF CommitRow, At, Finished
<1>14. RowConflict(p) => proc[p].pc = "flush" /\ Rests(p, "failed") /\ ~orderly'
  BY <1>1, RecordsMove DEF RowConflict, At
<1>15. RegistrationFails(p) => proc[p].pc \in Registering /\ Rests(p, "failed") /\ ~orderly'
  BY <1>1, RecordsMove DEF RegistrationFails, At, InTransaction, Registering
<1>16. Gate(p) => /\ proc[p].pc = "gate"
                  /\ OnlyMoves(p, "failed") \/ OnlyMoves(p, "approved") \/ OnlyMoves(p, "refused")
  <2> SUFFICES ASSUME Gate(p)
               PROVE  /\ proc[p].pc = "gate"
                      /\ \/ OnlyMoves(p, "failed") \/ OnlyMoves(p, "approved")
                         \/ OnlyMoves(p, "refused")
    OBVIOUS
  <2>1. PICK pc \in {"failed", "approved", "refused"} : proc' = Moved(p, pc)
    BY DEF Gate
  <2> QED
    BY <1>1, <2>1, RecordsMove DEF Gate, At
<1>17. Die(p) => Rests(p, "dead") /\ ~orderly'
  BY <1>1, RecordsMove DEF Die
<1> QED
  BY <1>2, <1>3, <1>4, <1>5, <1>6, <1>7, <1>8, <1>9, <1>10, <1>11, <1>12, <1>13, <1>14, <1>15,
     <1>16, <1>17

\* Every step keeps the types, and what a process's step says of its record.
LEMMA TypesStay ==
  ASSUME RegistryTypeOK, ProcessesOK, FilesHaveWriters, Bounded, RequestsFollowFiles, Next
  PROVE  RegistryTypeOK' /\ ProcessesOK'
<1>1. ASSUME NEW kind \in Kinds, NEW version \in Version \cup {None}, NEW activate \in BOOLEAN,
             Begin(kind, version, activate)
      PROVE  RegistryTypeOK' /\ ProcessesOK'
  <2> PICK n : n = Len(proc) + 1
    OBVIOUS
  <2>0. PICK e \in Process : Begun(kind, version, activate, e)
    BY <1>1, ProcessBegins
  <2>1. /\ e.kind = kind /\ e.version = version /\ e.activate = activate
        /\ e.pc = (IF kind = "activation" THEN "activate" ELSE "fit")
        /\ ~e.exists /\ e.cleared = {}
        /\ proc' \in Seq(Process)
        /\ DOMAIN proc' = DOMAIN proc \cup {n}
        /\ proc'[n] = e
        /\ \A q \in DOMAIN proc : proc'[q] = proc[q]
    BY <2>0 DEF Begun
  <2>2. /\ kind = "weekly" => version # None /\ activate
        /\ kind = "activation" => version \in Version /\ activate
    BY <1>1 DEF Begin, Described
  <2>3. RegistryTypeOK'
    BY <1>1, <2>1 DEF RegistryTypeOK, Begin, disk, serving
  <2>4. ProcessOK(n)'
    BY <2>1, <2>2 DEF ProcessOK, Training, Writing, Over
  <2>5. \A q \in DOMAIN proc : ProcessOK(q)'
    BY <1>1, <2>1 DEF ProcessesOK, ProcessOK, Registered, Begin
  <2> QED
    BY <2>1, <2>3, <2>4, <2>5 DEF ProcessesOK
<1>2. ASSUME NEW r \in Reader, RequestStep(r) PROVE RegistryTypeOK' /\ ProcessesOK'
  <2>1. UNCHANGED <<disk, proc, row, overlapped, orderly, faults>>
    BY <1>2 DEF RequestStep, ReadPointer, Discover, ResolveAgain, Stat, Load, Keep
  <2> QED
    BY <1>2, <2>1, RequestsAreTyped DEF RegistryTypeOK, ProcessesOK, ProcessOK, Registered, disk
<1>3. ASSUME NEW p \in Live, ProcessStep(p) PROVE RegistryTypeOK' /\ ProcessesOK'
  <2>1. PICK e \in Process : MovesTo(p, e) /\ Advanced(p, e)
    BY <1>3, ProcessesAdvance
  <2>2. /\ proc \in Seq(Process) /\ p \in DOMAIN proc /\ p \in Nat /\ proc[p] \in Process
        /\ proc' \in Seq(Process) /\ DOMAIN proc' = DOMAIN proc /\ proc'[p] = e
        /\ \A q \in DOMAIN proc : q # p => proc'[q] = proc[q]
    BY <2>1, ProcessesMove, ProcessType DEF RegistryTypeOK, Live
  <2> DEFINE v == proc[p].version
  <2>3. proc[p].pc \in Training \cup {"gate"} => v \in Version
    BY <2>2 DEF ProcessesOK, ProcessOK
  <2>a. p \in Nat /\ p \in Live
    BY <2>2
  <2>b. /\ artifact \in [Version -> File \cup {None}] /\ sidecar \in [Version -> File \cup {None}]
        /\ pointer \in Version \cup {None} /\ row \in [Version -> RowOf \cup {None}]
        /\ cache \in [Version -> Loaded \cup {None}] /\ reader \in [Reader -> Request]
        /\ retrained \subseteq Version /\ pointed \subseteq Version
        /\ overlapped \in BOOLEAN /\ orderly \in BOOLEAN /\ faults \in Nat
    BY DEF RegistryTypeOK
  <2>4. RegistryTypeOK'
    <3>1. CASE Fit(p)
      BY <2>2, <2>b, <3>1 DEF RegistryTypeOK, Fit, disk, serving
    <3>2. CASE OpenArtifact(p)
      <4>1. v \in Version /\ Opened(p, "saving") \in File
        BY <2>3, <2>a, <3>2, FilesAreTyped DEF OpenArtifact, At, Training
      <4>2. artifact' \in [Version -> File \cup {None}] /\ retrained' \subseteq Version
        BY <2>b, <3>2, <4>1 DEF OpenArtifact
      <4> QED
        BY <2>2, <2>b, <3>2, <4>2 DEF RegistryTypeOK, OpenArtifact, serving
    <3>3. CASE CloseArtifact(p)
      <4>1. v \in Version /\ artifact[v] \in File
        BY <2>2, <2>3, <3>3 DEF CloseArtifact, At, Training, FilesHaveWriters, Writing
      <4>2. artifact' \in [Version -> File \cup {None}]
        BY <2>a, <2>b, <3>3, <4>1, FilesAreTyped DEF CloseArtifact
      <4> QED
        BY <2>2, <2>b, <3>3, <4>2 DEF RegistryTypeOK, CloseArtifact, serving
    <3>4. CASE RoundTrip(p)
      <4>1. orderly' \in BOOLEAN
        BY <2>b, <3>4 DEF RoundTrip, Loadable
      <4> QED
        BY <2>2, <2>b, <3>4, <4>1 DEF RegistryTypeOK, RoundTrip, disk, serving
    <3>5. CASE OpenSidecar(p)
      <4>1. v \in Version /\ Opened(p, "describing") \in File
        BY <2>3, <2>a, <3>5, FilesAreTyped DEF OpenSidecar, At, Training
      <4>2. sidecar' \in [Version -> File \cup {None}]
        BY <2>b, <3>5, <4>1 DEF OpenSidecar
      <4> QED
        BY <2>2, <2>b, <3>5, <4>2 DEF RegistryTypeOK, OpenSidecar, serving
    <3>6. CASE CloseSidecar(p)
      <4>1. v \in Version /\ sidecar[v] \in File
        BY <2>2, <2>3, <3>6 DEF CloseSidecar, At, Training, FilesHaveWriters
      <4>2. sidecar' \in [Version -> File \cup {None}]
        BY <2>a, <2>b, <3>6, <4>1, FilesAreTyped DEF CloseSidecar
      <4>3. orderly' \in BOOLEAN
        BY <2>b, <3>6 DEF CloseSidecar
      <4> QED
        BY <2>2, <2>b, <3>6, <4>2, <4>3 DEF RegistryTypeOK, CloseSidecar, serving
    <3>7. CASE OpenPointer(p)
      BY <2>2, <2>b, <3>7 DEF RegistryTypeOK, OpenPointer, serving
    <3>8. CASE ClosePointer(p)
      <4>1. v \in Version
        BY <2>3, <3>8 DEF ClosePointer, At, Training
      <4> QED
        BY <2>2, <2>b, <3>8, <4>1 DEF RegistryTypeOK, ClosePointer, serving
    <3>9. CASE SelectExisting(p)
      <4>1. overlapped' \in BOOLEAN
        BY <2>b, <3>9 DEF SelectExisting
      <4> QED
        BY <2>2, <2>b, <3>9, <4>1 DEF RegistryTypeOK, SelectExisting, disk, serving
    <3>10. CASE StartClearing(p) \/ EndClearing(p) \/ Gate(p)
      BY <2>2, <2>b, <3>10 DEF RegistryTypeOK, StartClearing, EndClearing, Gate, disk, serving
    <3>11. CASE CommitRow(p)
      <4>2. row' \in [Version -> RowOf \cup {None}]
        BY <3>11, RowsAreWritten
      <4> QED
        BY <2>2, <2>b, <3>11, <4>2 DEF RegistryTypeOK, CommitRow, disk, serving
    <3>12. CASE RowConflict(p)
      <4>1. orderly' \in BOOLEAN
        BY <3>12 DEF RowConflict
      <4> QED
        BY <2>2, <2>b, <3>12, <4>1 DEF RegistryTypeOK, RowConflict, disk, serving
    <3>13. CASE RegistrationFails(p)
      <4>1. orderly' \in BOOLEAN
        BY <3>13 DEF RegistrationFails
      <4>2. faults' \in Nat
        BY <2>b, <3>13 DEF RegistrationFails
      <4> QED
        BY <2>2, <2>b, <3>13, <4>1, <4>2 DEF RegistryTypeOK, RegistrationFails, disk, serving
    <3>14. CASE Die(p)
      <4>1. orderly' \in BOOLEAN
        BY <3>14 DEF Die
      <4>2. faults' \in Nat
        BY <2>b, <3>14 DEF Die
      <4> QED
        BY <2>2, <2>b, <3>14, <4>1, <4>2 DEF RegistryTypeOK, Die, disk, serving
    <3> QED
      BY <1>3, <3>1, <3>2, <3>3, <3>4, <3>5, <3>6, <3>7, <3>8, <3>9, <3>10, <3>11, <3>12, <3>13,
         <3>14 DEF ProcessStep
  <2>5. Registered \subseteq Registered'
    <3>1. CASE CommitRow(p)
      BY <3>1, RowsAreWritten
    <3>2. CASE ~CommitRow(p)
      <4>1. row' = row
        BY <1>3, <3>2 DEF ProcessStep, Fit, OpenArtifact, CloseArtifact, RoundTrip, OpenSidecar,
           CloseSidecar, OpenPointer, ClosePointer, SelectExisting, StartClearing, EndClearing,
           RowConflict, RegistrationFails, Gate, Die
      <4> QED
        BY <4>1 DEF Registered
    <3> QED
      BY <3>1, <3>2
  <2>c. ProcessOK(p)
    BY <2>2 DEF ProcessesOK
  <2>r. ASSUME NEW pc \in {"gate"} \cup Over, Rests(p, pc),
               pc = "gate" => proc[p].pc = "flush" /\ proc[p].kind = "weekly"
        PROVE  ProcessOK(p)'
    <3>1. /\ proc'[p].kind = proc[p].kind /\ proc'[p].activate = proc[p].activate
          /\ proc'[p].version = v /\ proc'[p].pc = pc
          /\ proc'[p].exists = FALSE /\ proc'[p].cleared = {}
      BY <2>r DEF Rests, Kept
    <3>2. /\ proc'[p].cleared # {} => proc'[p].pc \in {"wait", "flush"} /\ proc'[p].activate
          /\ proc'[p].cleared \subseteq Registered'
      BY <3>1
    <3> QED
      BY <2>3, <2>c, <2>r, <3>1, <3>2 DEF ProcessOK, Training, Writing, Over
  <2>6. ProcessOK(p)'
    <3>1. CASE Fit(p)
      BY <2>3, <2>5, <2>c, <3>1, StepsMove
         DEF ProcessOK, Registered, Loadable, OnlyMoves, Rests, Kept, Registering, Training,
         Writing, Over
    <3>2. CASE OpenArtifact(p)
      BY <2>3, <2>5, <2>c, <3>2, StepsMove
         DEF ProcessOK, Registered, Loadable, OnlyMoves, Rests, Kept, Registering, Training,
         Writing, Over
    <3>3. CASE CloseArtifact(p)
      BY <2>3, <2>5, <2>c, <3>3, StepsMove
         DEF ProcessOK, Registered, Loadable, OnlyMoves, Rests, Kept, Registering, Training,
         Writing, Over
    <3>4. CASE RoundTrip(p)
      BY <2>3, <2>5, <2>c, <3>4, StepsMove
         DEF ProcessOK, Registered, Loadable, OnlyMoves, Rests, Kept, Registering, Training,
         Writing, Over
    <3>5. CASE OpenSidecar(p)
      BY <2>3, <2>5, <2>c, <3>5, StepsMove
         DEF ProcessOK, Registered, Loadable, OnlyMoves, Rests, Kept, Registering, Training,
         Writing, Over
    <3>6. CASE CloseSidecar(p)
      BY <2>3, <2>5, <2>c, <3>6, StepsMove
         DEF ProcessOK, Registered, Loadable, OnlyMoves, Rests, Kept, Registering, Training,
         Writing, Over
    <3>7. CASE OpenPointer(p)
      BY <2>3, <2>5, <2>c, <3>7, StepsMove
         DEF ProcessOK, Registered, Loadable, OnlyMoves, Rests, Kept, Registering, Training,
         Writing, Over
    <3>8. CASE ClosePointer(p)
      BY <2>3, <2>5, <2>c, <3>8, StepsMove
         DEF ProcessOK, Registered, Loadable, OnlyMoves, Rests, Kept, Registering, Training,
         Writing, Over
    <3>9. CASE SelectExisting(p)
      <4>1. /\ proc[p].pc = "select" /\ Kept(p) /\ proc'[p].version = v
            /\ proc'[p].pc = (IF proc[p].activate THEN "clear" ELSE "flush")
            /\ proc'[p].exists = (row[v] # None) /\ proc'[p].cleared = proc[p].cleared
            /\ row' = row
        BY <3>9, StepsMove DEF SelectExisting
      <4>2. v \in Version /\ Registered' = Registered
        BY <2>3, <4>1 DEF Training, Registered
      <4>3. proc'[p].exists => v \in Registered'
        BY <4>1, <4>2 DEF Registered
      <4> QED
        BY <2>c, <4>1, <4>2, <4>3 DEF ProcessOK, Kept, Training, Writing
    <3>10. CASE StartClearing(p)
      BY <2>3, <2>5, <2>c, <3>10, StepsMove
         DEF ProcessOK, Registered, Loadable, OnlyMoves, Rests, Kept, Registering, Training,
         Writing, Over
    <3>11. CASE EndClearing(p)
      BY <2>3, <2>5, <2>c, <3>11, StepsMove
         DEF ProcessOK, Registered, Loadable, OnlyMoves, Rests, Kept, Registering, Training,
         Writing, Over
    <3>12. CASE CommitRow(p)
      BY <3>12, <2>r, StepsMove DEF Over
    <3>13. CASE RowConflict(p)
      BY <3>13, <2>r, StepsMove DEF Over
    <3>14. CASE RegistrationFails(p)
      BY <3>14, <2>r, StepsMove DEF Over
    <3>15. CASE Gate(p)
      BY <2>3, <2>5, <2>c, <3>15, StepsMove
         DEF ProcessOK, Registered, Loadable, OnlyMoves, Rests, Kept, Registering, Training,
         Writing, Over
    <3>16. CASE Die(p)
      BY <3>16, <2>r, StepsMove DEF Over
    <3> QED
      BY <1>3, <3>1, <3>2, <3>3, <3>4, <3>5, <3>6, <3>7, <3>8, <3>9, <3>10, <3>11, <3>12, <3>13, <3>14, <3>15, <3>16
         DEF ProcessStep
  <2>7. \A q \in DOMAIN proc : q # p => ProcessOK(q)'
    BY <2>2, <2>5 DEF ProcessesOK, ProcessOK
  <2> QED
    BY <2>2, <2>4, <2>6, <2>7 DEF ProcessesOK
<1> QED
  BY <1>1, <1>2, <1>3, NextIsAStep

-----------------------------------------------------------------------------
(* The files: proofs *)

\* A process that has left a step of its training does not come back to it.
LEMMA PastStays ==
  ASSUME RegistryTypeOK, ProcessesOK, Next, NEW stamp, Past(stamp)
  PROVE  Past(stamp)'
<1>1. CASE \E kind \in Kinds, v \in Version \cup {None}, activate \in BOOLEAN :
             Begin(kind, v, activate)
  <2>1. DOMAIN proc \subseteq DOMAIN proc' /\ \A q \in DOMAIN proc : proc'[q] = proc[q]
    BY <1>1, ProcessBegins DEF Begun
  <2> QED
    BY <2>1 DEF Past
<1>2. CASE \E p \in Live : ProcessStep(p)
  <2>1. PICK p \in Live : ProcessStep(p)
    BY <1>2
  <2>2. PICK e \in Process : MovesTo(p, e) /\ Advanced(p, e)
    BY <2>1, ProcessesAdvance
  <2>3. /\ DOMAIN proc' = DOMAIN proc /\ proc'[p] = e
        /\ \A q \in DOMAIN proc : q # p => proc'[q] = proc[q]
    BY <2>2, ProcessesMove DEF RegistryTypeOK
  <2> QED
    BY <2>2, <2>3 DEF Advanced, Past
<1>3. CASE \E r \in Reader : RequestStep(r)
  <2>1. proc' = proc
    BY <1>3 DEF RequestStep, ReadPointer, Discover, ResolveAgain, Stat, Load, Keep
  <2> QED
    BY <2>1 DEF Past
<1> QED
  BY <1>1, <1>2, <1>3, NextIsAStep

\* A process that is writing files is under way, and is no activation.
LEMMA WritersAreTrainings ==
  ASSUME RegistryTypeOK, ProcessesOK, NEW q \in DOMAIN proc, proc[q].pc \in Writing
  PROVE  /\ q \in Live /\ q \in Nat
         /\ proc[q].kind # "activation"
         /\ proc[q].pc \in Training
         /\ proc[q].version \in Version
<1>1. q \in Nat
  BY ProcessType DEF RegistryTypeOK
<1> QED
  BY <1>1 DEF ProcessesOK, ProcessOK, Writing, Training, Over, Live

\* A step that writes no file, and brings no training nearer to one.
Quiet ==
  /\ UNCHANGED <<artifact, sidecar, retrained>>
  /\ \A q \in DOMAIN proc' : proc'[q].pc \in Writing =>
       /\ q \in DOMAIN proc
       /\ proc[q].pc \in Writing
       /\ proc'[q].version = proc[q].version
       /\ proc'[q].pc = "describing" => proc[q].pc = "describing"
       /\ proc'[q].pc = "describe" => proc[q].pc = "describe" \/ Loadable(proc[q].version)

WritesFile(p) == OpenArtifact(p) \/ CloseArtifact(p) \/ OpenSidecar(p) \/ CloseSidecar(p)

LEMMA StepsAreQuiet ==
  ASSUME RegistryTypeOK, ProcessesOK, Next
  PROVE  Quiet \/ \E p \in Live : WritesFile(p)
<1>1. CASE \E kind \in Kinds, v \in Version \cup {None}, activate \in BOOLEAN :
             Begin(kind, v, activate)
  <2>1. PICK kind \in Kinds, v \in Version \cup {None}, activate \in BOOLEAN :
          Begin(kind, v, activate)
    BY <1>1
  <2>2. PICK e \in Process : Begun(kind, v, activate, e)
    BY <2>1, ProcessBegins
  <2>3. UNCHANGED <<artifact, sidecar, retrained>>
    BY <2>1 DEF Begin, disk
  <2>4. e.pc \notin Writing
    BY <2>2 DEF Begun, Writing
  <2> QED
    BY <2>2, <2>3, <2>4 DEF Begun, Quiet
<1>2. CASE \E p \in Live : ProcessStep(p)
  <2>1. PICK p \in Live : ProcessStep(p)
    BY <1>2
  <2>2. PICK e \in Process : MovesTo(p, e) /\ Advanced(p, e)
    BY <2>1, ProcessesAdvance
  <2>3. /\ DOMAIN proc' = DOMAIN proc /\ p \in DOMAIN proc
        /\ \A q \in DOMAIN proc : q # p => proc'[q] = proc[q]
    BY <2>2, ProcessesMove DEF RegistryTypeOK, MovesTo
  <2> SUFFICES ASSUME ~WritesFile(p) PROVE Quiet
    OBVIOUS
  <2>4. UNCHANGED <<artifact, sidecar, retrained>>
    BY <2>1 DEF WritesFile, ProcessStep, Fit, RoundTrip, OpenPointer, ClosePointer, SelectExisting,
       StartClearing, EndClearing, CommitRow, RowConflict, RegistrationFails, Gate, Die, disk
  <2>5. proc'[p].pc \in Writing =>
          /\ proc[p].pc = "check" /\ proc'[p].pc = "describe"
          /\ proc'[p].version = proc[p].version /\ Loadable(proc[p].version)
    BY <2>1, StepsMove DEF WritesFile, ProcessStep, OnlyMoves, Rests, Writing
  <2> QED
    BY <2>3, <2>4, <2>5 DEF Quiet, Writing
<1>3. CASE \E r \in Reader : RequestStep(r)
  <2>1. UNCHANGED <<artifact, sidecar, retrained, proc>>
    BY <1>3 DEF RequestStep, ReadPointer, Discover, ResolveAgain, Stat, Load, Keep, disk
  <2> QED
    BY <2>1 DEF Quiet
<1> QED
  BY <1>1, <1>2, <1>3, NextIsAStep

LEMMA QuietStepsKeepFiles ==
  ASSUME RegistryTypeOK, ProcessesOK, FilesHaveWriters, OneWriter, Bounded, Next, Quiet
  PROVE  FilesHaveWriters' /\ OneWriter' /\ Bounded'
<1>1. /\ \A v : Stamp(v)' = Stamp(v) /\ (Loadable(v)' <=> Loadable(v))
      /\ Described' = Described /\ retrained' = retrained
      /\ artifact' = artifact /\ sidecar' = sidecar
  BY DEF Quiet, Stamp, Loadable, Described
<1>2. FilesHaveWriters'
  <2>1. \A v \in Version : artifact'[v] \in File => Past(Stamp(v))'
    BY <1>1, PastStays DEF FilesHaveWriters
  <2>2. \A v \in Version : sidecar'[v] # None => artifact'[v] \in File
    BY <1>1 DEF FilesHaveWriters
  <2>3. \A p \in DOMAIN proc' :
          /\ proc'[p].pc \in Writing => artifact'[proc'[p].version] \in File
          /\ proc'[p].pc = "describing" => sidecar'[proc'[p].version] \in File
    BY <1>1 DEF FilesHaveWriters, Quiet, Writing
  <2> QED
    BY <2>1, <2>2, <2>3 DEF FilesHaveWriters
<1>3. OneWriter'
  BY <1>1 DEF OneWriter, Quiet, Writing
<1>4. Bounded'
  BY <1>1 DEF Bounded
<1> QED
  BY <1>2, <1>3, <1>4

\* What a step that writes a file does to the processes.
LEMMA WritersMove ==
  ASSUME RegistryTypeOK, ProcessesOK, NEW p \in Live, WritesFile(p)
  PROVE  /\ p \in DOMAIN proc /\ p \in Nat /\ proc[p].version \in Version
         /\ DOMAIN proc' = DOMAIN proc
         /\ \A q \in DOMAIN proc : q # p => proc'[q] = proc[q]
         /\ proc'[p].version = proc[p].version
         /\ OpenArtifact(p) => proc[p].pc = "save" /\ proc'[p].pc = "saving"
         /\ CloseArtifact(p) => proc[p].pc = "saving" /\ proc'[p].pc = "check"
         /\ OpenSidecar(p) => proc[p].pc = "describe" /\ proc'[p].pc = "describing"
         /\ CloseSidecar(p) => proc[p].pc = "describing" /\ proc'[p].pc \notin Writing
<1>1. PICK e \in Process : MovesTo(p, e) /\ Advanced(p, e)
  BY ProcessesAdvance DEF WritesFile, ProcessStep
<1>2. /\ p \in DOMAIN proc /\ p \in Nat /\ DOMAIN proc' = DOMAIN proc
      /\ \A q \in DOMAIN proc : q # p => proc'[q] = proc[q]
  BY <1>1, ProcessesMove, ProcessType DEF RegistryTypeOK, MovesTo
<1>3. /\ OpenArtifact(p) => proc[p].pc = "save" /\ proc'[p].pc = "saving"
      /\ CloseArtifact(p) => proc[p].pc = "saving" /\ proc'[p].pc = "check"
      /\ OpenSidecar(p) => proc[p].pc = "describe" /\ proc'[p].pc = "describing"
      /\ CloseSidecar(p) => proc[p].pc = "describing" /\ proc'[p].pc \notin Writing
      /\ proc'[p].version = proc[p].version
  BY StepsMove DEF WritesFile, OnlyMoves, Writing
<1>4. proc[p].version \in Version
  BY <1>2, <1>3 DEF WritesFile, ProcessesOK, ProcessOK, Training
<1> QED
  BY <1>2, <1>3, <1>4

LEMMA OpenArtifactKeepsFiles ==
  ASSUME RegistryTypeOK, ProcessesOK, FilesHaveWriters, OneWriter, Bounded, Next,
         NEW p \in Live, OpenArtifact(p)
  PROVE  FilesHaveWriters' /\ OneWriter' /\ Bounded'
<1> PICK v \in Version : v = proc[p].version
  BY WritersMove DEF WritesFile
<1>1. /\ p \in DOMAIN proc /\ p \in Nat /\ DOMAIN proc' = DOMAIN proc
      /\ \A q \in DOMAIN proc : q # p => proc'[q] = proc[q]
      /\ proc'[p].version = v /\ proc'[p].pc = "saving"
  BY WritersMove DEF WritesFile
<1>2. /\ artifact'[v] = Opened(p, "saving") /\ artifact'[v] \in File
      /\ Stamp(v)' = <<p, FALSE>> /\ artifact'[v].by = p
      /\ \A w \in Version : w # v => artifact'[w] = artifact[w]
      /\ sidecar' = sidecar
  BY <1>1 DEF OpenArtifact, RegistryTypeOK, Stamp, Opened, File
<1>3. /\ \A w \in Version : w # v => Stamp(w)' = Stamp(w) /\ (Loadable(w)' <=> Loadable(w))
      /\ Described' = Described
  BY <1>2 DEF Stamp, Loadable, Described
<1>4. /\ retrained \subseteq retrained'
      /\ v \notin retrained' => v \notin Described /\ Rivals(p, Training) = {}
  BY DEF OpenArtifact
<1>5. \A q \in DOMAIN proc : q # p /\ proc[q].pc \in Writing /\ proc[q].version = v => v \in retrained'
  <2> SUFFICES ASSUME NEW q \in DOMAIN proc, q # p, proc[q].pc \in Writing, proc[q].version = v
               PROVE  q \in Rivals(p, Training)
    BY <1>4
  <2> QED
    BY WritersAreTrainings DEF Rivals
<1>6. FilesHaveWriters'
  <2>1. \A w \in Version : artifact'[w] \in File => Past(Stamp(w))'
    <3> SUFFICES ASSUME NEW w \in Version, artifact'[w] \in File PROVE Past(Stamp(w))'
      OBVIOUS
    <3>1. CASE w = v
      <4>1. artifact'[w].by = p /\ artifact'[w].closed = FALSE
        BY <1>2, <3>1 DEF Opened
      <4> QED
        BY <1>1, <4>1 DEF Past, Stamp
    <3>2. CASE w # v
      BY <1>2, <1>3, <3>2, PastStays DEF FilesHaveWriters
    <3> QED
      BY <3>1, <3>2
  <2>2. \A w \in Version : sidecar'[w] # None => artifact'[w] \in File
    BY <1>2 DEF FilesHaveWriters
  <2>3. ASSUME NEW q \in DOMAIN proc, proc'[q].pc \in Writing
        PROVE  /\ artifact'[proc'[q].version] \in File
               /\ proc'[q].pc = "describing" => sidecar'[proc'[q].version] \in File
    <3>1. CASE q = p
      BY <1>1, <1>2, <3>1
    <3>2. CASE q # p
      BY <1>1, <1>2, <2>3, <3>2, WritersAreTrainings DEF FilesHaveWriters
    <3> QED
      BY <3>1, <3>2
  <2> QED
    BY <1>1, <2>1, <2>2, <2>3 DEF FilesHaveWriters, Writing
<1>7. OneWriter'
  <2>1. ASSUME NEW q \in DOMAIN proc, proc'[q].pc \in Writing, proc'[q].version \notin retrained'
        PROVE  q = p \/ (proc'[q] = proc[q] /\ proc[q].version # v)
    BY <1>1, <1>5, <2>1
  <2>2. \A q1, q2 \in DOMAIN proc' :
          /\ proc'[q1].pc \in Writing /\ proc'[q2].pc \in Writing
          /\ proc'[q1].version = proc'[q2].version /\ proc'[q1].version \notin retrained'
          => q1 = q2
    BY <1>1, <1>4, <2>1 DEF OneWriter
  <2>3. ASSUME NEW q \in DOMAIN proc, proc'[q].pc \in Writing, proc'[q].version \notin retrained'
        PROVE  /\ proc'[q].version \notin Described'
               /\ artifact'[proc'[q].version].by = q
               /\ proc'[q].pc \in {"describe", "describing"} => Loadable(proc[q].version)'
    <3>1. CASE q = p
      BY <1>1, <1>2, <1>3, <1>4, <2>3, <3>1 DEF Loadable
    <3>2. CASE q # p
      <4>1. proc'[q] = proc[q] /\ proc[q].version # v /\ proc[q].version \in Version
        BY <2>1, <2>3, <3>2, WritersAreTrainings
      <4> QED
        BY <1>2, <1>3, <1>4, <2>3, <4>1 DEF OneWriter, Loadable
    <3> QED
      BY <3>1, <3>2
  <2>4. \A w \in Described' \ retrained' : artifact'[w].by = sidecar'[w].by /\ Loadable(w)'
    <3> TAKE w \in Described' \ retrained'
    <3>1. w \in Described \ retrained /\ w # v /\ w \in Version
      BY <1>3, <1>4 DEF Described
    <3> QED
      BY <1>2, <1>3, <3>1 DEF OneWriter
  <2> QED
    BY <1>1, <2>2, <2>3, <2>4 DEF OneWriter
<1>8. Bounded'
  BY <1>2 DEF Bounded
<1> QED
  BY <1>6, <1>7, <1>8

\* While p writes the files of its version alone, or spoils a version already retrained.
LEMMA OtherWriters ==
  ASSUME RegistryTypeOK, ProcessesOK, OneWriter, NEW p \in Live, WritesFile(p), ~OpenArtifact(p)
  PROVE  /\ proc[p].pc \in Writing
         /\ proc[p].version \notin retrained =>
              /\ proc[p].version \notin Described
              /\ artifact[proc[p].version].by = p
              /\ proc[p].pc \in {"describe", "describing"} => Loadable(proc[p].version)
              /\ \A q \in DOMAIN proc : q # p /\ proc[q].pc \in Writing => proc[q].version # proc[p].version
<1>1. p \in DOMAIN proc /\ proc[p].pc \in Writing
  BY WritersMove DEF WritesFile, Writing
<1> QED
  BY <1>1 DEF OneWriter

LEMMA CloseArtifactKeepsFiles ==
  ASSUME RegistryTypeOK, ProcessesOK, FilesHaveWriters, OneWriter, Bounded, Next,
         NEW p \in Live, CloseArtifact(p)
  PROVE  FilesHaveWriters' /\ OneWriter' /\ Bounded'
<1> PICK v \in Version : v = proc[p].version
  BY WritersMove DEF WritesFile
<1>1. /\ p \in DOMAIN proc /\ p \in Nat /\ DOMAIN proc' = DOMAIN proc
      /\ \A q \in DOMAIN proc : q # p => proc'[q] = proc[q]
      /\ proc'[p].version = v /\ proc'[p].pc = "check"
      /\ proc[p].pc = "saving"
  BY WritersMove DEF WritesFile
<1>2. artifact[v] \in File
  BY <1>1 DEF FilesHaveWriters, Writing
<1>3. /\ artifact'[v] \in File /\ artifact'[v].by = p /\ artifact'[v].closed = TRUE
      /\ \A w \in Version : w # v => artifact'[w] = artifact[w]
      /\ UNCHANGED <<sidecar, retrained>>
  <2>1. PICK f \in Closed(artifact[v], p) : artifact' = [artifact EXCEPT ![v] = f]
    BY DEF CloseArtifact
  <2>2. f \in File /\ f.by = p /\ f.closed = TRUE
    BY <1>1, <1>2, <2>1 DEF Closed, File
  <2> QED
    BY <2>1, <2>2 DEF CloseArtifact, RegistryTypeOK
<1>4. /\ \A w \in Version : w # v => Stamp(w)' = Stamp(w) /\ (Loadable(w)' <=> Loadable(w))
      /\ Described' = Described
  BY <1>3 DEF Stamp, Loadable, Described
<1>5. v \notin retrained =>
        /\ v \notin Described
        /\ \A q \in DOMAIN proc : q # p /\ proc[q].pc \in Writing => proc[q].version # v
  BY OtherWriters DEF WritesFile, CloseArtifact, OpenArtifact, At
<1>6. FilesHaveWriters'
  <2>1. \A w \in Version : artifact'[w] \in File => Past(Stamp(w))'
    <3> SUFFICES ASSUME NEW w \in Version, artifact'[w] \in File PROVE Past(Stamp(w))'
      OBVIOUS
    <3>1. CASE w = v
      BY <1>1, <1>3, <3>1 DEF Past, Stamp
    <3>2. CASE w # v
      BY <1>3, <1>4, <3>2, PastStays DEF FilesHaveWriters
    <3> QED
      BY <3>1, <3>2
  <2>2. \A w \in Version : sidecar'[w] # None => artifact'[w] \in File
    BY <1>3 DEF FilesHaveWriters
  <2>3. ASSUME NEW q \in DOMAIN proc, proc'[q].pc \in Writing
        PROVE  /\ artifact'[proc'[q].version] \in File
               /\ proc'[q].pc = "describing" => sidecar'[proc'[q].version] \in File
    <3>1. CASE q = p
      BY <1>1, <1>3, <3>1
    <3>2. CASE q # p
      BY <1>1, <1>3, <2>3, <3>2, WritersAreTrainings DEF FilesHaveWriters
    <3> QED
      BY <3>1, <3>2
  <2> QED
    BY <1>1, <2>1, <2>2, <2>3 DEF FilesHaveWriters, Writing
<1>7. OneWriter'
  <2>1. ASSUME NEW q \in DOMAIN proc, proc'[q].pc \in Writing, proc'[q].version \notin retrained'
        PROVE  q = p \/ (proc'[q] = proc[q] /\ proc[q].version # v)
    BY <1>1, <1>3, <1>5, <2>1
  <2>2. \A q1, q2 \in DOMAIN proc' :
          /\ proc'[q1].pc \in Writing /\ proc'[q2].pc \in Writing
          /\ proc'[q1].version = proc'[q2].version /\ proc'[q1].version \notin retrained'
          => q1 = q2
    BY <1>1, <1>3, <2>1 DEF OneWriter
  <2>3. ASSUME NEW q \in DOMAIN proc, proc'[q].pc \in Writing, proc'[q].version \notin retrained'
        PROVE  /\ proc'[q].version \notin Described'
               /\ artifact'[proc'[q].version].by = q
               /\ proc'[q].pc \in {"describe", "describing"} => Loadable(proc[q].version)'
    <3>1. CASE q = p
      BY <1>1, <1>3, <1>4, <1>5, <2>3, <3>1
    <3>2. CASE q # p
      <4>1. proc'[q] = proc[q] /\ proc[q].version # v /\ proc[q].version \in Version
        BY <2>1, <2>3, <3>2, WritersAreTrainings
      <4> QED
        BY <1>3, <1>4, <2>3, <4>1 DEF OneWriter, Loadable
    <3> QED
      BY <3>1, <3>2
  <2>4. \A w \in Described' \ retrained' : artifact'[w].by = sidecar'[w].by /\ Loadable(w)'
    <3> TAKE w \in Described' \ retrained'
    <3>1. w \in Described \ retrained /\ w # v /\ w \in Version
      BY <1>3, <1>4, <1>5 DEF Described
    <3> QED
      BY <1>3, <1>4, <3>1 DEF OneWriter
  <2> QED
    BY <1>1, <2>2, <2>3, <2>4 DEF OneWriter
<1>8. Bounded'
  BY <1>3 DEF Bounded
<1> QED
  BY <1>6, <1>7, <1>8

LEMMA SidecarsKeepFiles ==
  ASSUME RegistryTypeOK, ProcessesOK, FilesHaveWriters, OneWriter, Bounded, Next,
         NEW p \in Live, OpenSidecar(p) \/ CloseSidecar(p)
  PROVE  FilesHaveWriters' /\ OneWriter' /\ Bounded'
<1> PICK v \in Version : v = proc[p].version
  BY WritersMove DEF WritesFile
<1>1. /\ p \in DOMAIN proc /\ p \in Nat /\ DOMAIN proc' = DOMAIN proc
      /\ \A q \in DOMAIN proc : q # p => proc'[q] = proc[q]
      /\ proc'[p].version = v /\ proc[p].pc \in {"describe", "describing"}
      /\ proc'[p].pc \in Writing => proc'[p].pc = "describing" /\ OpenSidecar(p)
  BY WritersMove DEF WritesFile
<1>2. v \notin retrained =>
        /\ artifact[v].by = p /\ Loadable(v) /\ v \notin Described
        /\ \A q \in DOMAIN proc : q # p /\ proc[q].pc \in Writing => proc[q].version # v
  BY <1>1, OtherWriters DEF WritesFile, OpenArtifact, At
<1>3. artifact[v] \in File /\ (proc[p].pc = "describing" => sidecar[v] \in File)
  BY <1>1 DEF FilesHaveWriters, Writing
<1>4. /\ sidecar'[v] \in File /\ sidecar'[v].by = p
      /\ OpenSidecar(p) => ~sidecar'[v].whole
      /\ \A w \in Version : w # v => sidecar'[w] = sidecar[w]
      /\ UNCHANGED <<artifact, retrained>>
  <2>1. CASE OpenSidecar(p)
    BY <1>1, <2>1 DEF OpenSidecar, Opened, File, RegistryTypeOK
  <2>2. CASE CloseSidecar(p)
    <3>1. PICK f \in Closed(sidecar[v], p) : sidecar' = [sidecar EXCEPT ![v] = f]
      BY <2>2 DEF CloseSidecar
    <3>2. f \in File /\ f.by = p
      BY <1>1, <1>3, <2>2, <3>1 DEF Closed, File, CloseSidecar, At
    <3>3. ~OpenSidecar(p)
      BY <2>2 DEF OpenSidecar, CloseSidecar, At
    <3> QED
      BY <2>2, <3>1, <3>2, <3>3 DEF CloseSidecar, RegistryTypeOK
  <2> QED
    BY <2>1, <2>2
<1>5. /\ \A w \in Version : Stamp(w)' = Stamp(w) /\ (Loadable(w)' <=> Loadable(w))
      /\ \A w \in Version : w # v => (w \in Described' <=> w \in Described)
      /\ OpenSidecar(p) => v \notin Described'
  BY <1>4 DEF Stamp, Loadable, Described
<1>6. FilesHaveWriters'
  <2>1. \A w \in Version : artifact'[w] \in File => Past(Stamp(w))'
    BY <1>4, <1>5, PastStays DEF FilesHaveWriters
  <2>2. \A w \in Version : sidecar'[w] # None => artifact'[w] \in File
    BY <1>3, <1>4 DEF FilesHaveWriters
  <2>3. ASSUME NEW q \in DOMAIN proc, proc'[q].pc \in Writing
        PROVE  /\ artifact'[proc'[q].version] \in File
               /\ proc'[q].pc = "describing" => sidecar'[proc'[q].version] \in File
    <3>1. CASE q = p
      BY <1>1, <1>3, <1>4, <3>1
    <3>2. CASE q # p
      BY <1>1, <1>4, <2>3, <3>2, WritersAreTrainings DEF FilesHaveWriters
    <3> QED
      BY <3>1, <3>2
  <2> QED
    BY <1>1, <2>1, <2>2, <2>3 DEF FilesHaveWriters, Writing
<1>7. OneWriter'
  <2>1. ASSUME NEW q \in DOMAIN proc, proc'[q].pc \in Writing, proc'[q].version \notin retrained'
        PROVE  q = p \/ (proc'[q] = proc[q] /\ proc[q].version # v)
    BY <1>1, <1>2, <1>4, <2>1
  <2>2. \A q1, q2 \in DOMAIN proc' :
          /\ proc'[q1].pc \in Writing /\ proc'[q2].pc \in Writing
          /\ proc'[q1].version = proc'[q2].version /\ proc'[q1].version \notin retrained'
          => q1 = q2
    BY <1>1, <1>4, <2>1 DEF OneWriter
  <2>3. ASSUME NEW q \in DOMAIN proc, proc'[q].pc \in Writing, proc'[q].version \notin retrained'
        PROVE  /\ proc'[q].version \notin Described'
               /\ artifact'[proc'[q].version].by = q
               /\ proc'[q].pc \in {"describe", "describing"} => Loadable(proc[q].version)'
    <3>1. CASE q = p
      BY <1>1, <1>2, <1>4, <1>5, <2>3, <3>1 DEF Loadable
    <3>2. CASE q # p
      <4>1. proc'[q] = proc[q] /\ proc[q].version # v /\ proc[q].version \in Version
        BY <2>1, <2>3, <3>2, WritersAreTrainings
      <4> QED
        BY <1>4, <1>5, <2>3, <4>1 DEF OneWriter, Loadable
    <3> QED
      BY <3>1, <3>2
  <2>4. \A w \in Described' \ retrained' : artifact'[w].by = sidecar'[w].by /\ Loadable(w)'
    <3> TAKE w \in Described' \ retrained'
    <3>1. w \in Version
      BY DEF Described
    <3>2. CASE w = v
      BY <1>2, <1>4, <1>5, <3>2
    <3>3. CASE w # v
      BY <1>4, <1>5, <3>1, <3>3 DEF OneWriter
    <3> QED
      BY <3>2, <3>3
  <2> QED
    BY <1>1, <2>2, <2>3, <2>4 DEF OneWriter
<1>8. Bounded'
  <2>1. PICK b \in Nat : \A w \in Version : sidecar[w] # None => w <= b
    BY DEF Bounded
  <2>2. v \in Nat /\ Version \subseteq Nat
    BY RegistryAssumption
  <2>3. PICK c \in Nat : b <= c /\ v <= c
    BY <2>2
  <2>4. \A w \in Version : sidecar'[w] # None => w <= c
    BY <1>4, <2>1, <2>2, <2>3
  <2> QED
    BY <2>4 DEF Bounded
<1> QED
  BY <1>6, <1>7, <1>8

\* The files and their writers, layer one of the invariant.
LEMMA FilesStay ==
  ASSUME FilesInv, RequestsFollowFiles, Next
  PROVE  FilesInv'
<1>1. RegistryTypeOK' /\ ProcessesOK'
  BY TypesStay DEF FilesInv
<1>2. FilesHaveWriters' /\ OneWriter' /\ Bounded'
  <2>1. CASE Quiet
    BY <2>1, QuietStepsKeepFiles DEF FilesInv
  <2>2. ASSUME NEW p \in Live, WritesFile(p) PROVE FilesHaveWriters' /\ OneWriter' /\ Bounded'
    BY <2>2, OpenArtifactKeepsFiles, CloseArtifactKeepsFiles, SidecarsKeepFiles
       DEF FilesInv, WritesFile
  <2> QED
    BY <2>1, <2>2, StepsAreQuiet DEF FilesInv
<1> QED
  BY <1>1, <1>2 DEF FilesInv

-----------------------------------------------------------------------------
(* The requests and the cache: proofs *)

\* A file a request has found is there still; one that looks as it did is the same; and
\* a version that can be read does not change unless it is retrained.
FilesMove ==
  /\ retrained \subseteq retrained'
  /\ \A v \in Version :
       /\ artifact[v] \in File => artifact'[v] \in File
       /\ v \in Described /\ v \notin retrained' =>
            v \in Described' /\ sidecar'[v] = sidecar[v] /\ artifact'[v] = artifact[v]

SameWhenStampedTheSame ==
  \A v \in Version, stamp \in Stamps :
    Past(stamp) /\ artifact[v] \in File /\ Stamp(v)' = stamp => artifact'[v] = artifact[v]

LEMMA FilesAreKept ==
  ASSUME FilesInv, Next
  PROVE  FilesMove /\ SameWhenStampedTheSame
<1>1. CASE Quiet
  <2>1. artifact' = artifact /\ Described' = Described /\ sidecar' = sidecar /\ retrained' = retrained
    BY <1>1 DEF Quiet, Described
  <2> QED
    BY <2>1 DEF FilesMove, SameWhenStampedTheSame
<1>2. ASSUME NEW p \in Live, OpenArtifact(p) PROVE FilesMove /\ SameWhenStampedTheSame
  <2> PICK v \in Version : v = proc[p].version
    BY <1>2, WritersMove DEF WritesFile, FilesInv
  <2>1. /\ p \in DOMAIN proc /\ p \in Nat /\ proc[p].pc = "save"
        /\ artifact'[v] = Opened(p, "saving") /\ artifact'[v] \in File
        /\ \A w \in Version : w # v => artifact'[w] = artifact[w]
        /\ sidecar' = sidecar
        /\ retrained \subseteq retrained' /\ (v \notin retrained' => v \notin Described)
    BY <1>2, WritersMove DEF WritesFile, FilesInv, OpenArtifact, RegistryTypeOK, Opened, File
  <2>2. Described' = Described
    BY <2>1 DEF Described
  <2>3. FilesMove
    BY <2>1, <2>2 DEF FilesMove
  <2>4. ASSUME NEW stamp \in Stamps, Past(stamp), Stamp(v)' = stamp PROVE FALSE
    <3>1. stamp[1] = p
      BY <2>1, <2>4 DEF Stamp, Opened
    <3> QED
      BY <2>1, <2>4, <3>1 DEF Past
  <2> QED
    BY <2>1, <2>3, <2>4 DEF SameWhenStampedTheSame
<1>3. ASSUME NEW p \in Live, CloseArtifact(p) PROVE FilesMove /\ SameWhenStampedTheSame
  <2> PICK v \in Version : v = proc[p].version
    BY <1>3, WritersMove DEF WritesFile, FilesInv
  <2>1. /\ p \in DOMAIN proc /\ p \in Nat /\ proc[p].pc = "saving"
        /\ v \notin retrained => v \notin Described
    BY <1>3, WritersMove, OtherWriters DEF WritesFile, FilesInv, OpenArtifact, At
  <2>2. artifact[v] \in File
    BY <2>1 DEF FilesInv, FilesHaveWriters, Writing
  <2>3. PICK f \in Closed(artifact[v], p) : artifact' = [artifact EXCEPT ![v] = f]
    BY <1>3 DEF CloseArtifact
  <2>4. f \in File /\ f.by = p /\ f.closed = TRUE
    BY <2>1, <2>2, <2>3 DEF Closed, File
  <2>5. /\ artifact'[v] = f /\ \A w \in Version : w # v => artifact'[w] = artifact[w]
        /\ UNCHANGED <<sidecar, retrained>> /\ Described' = Described
    BY <1>3, <2>3 DEF CloseArtifact, FilesInv, RegistryTypeOK, Described
  <2>6. FilesMove
    BY <2>1, <2>4, <2>5 DEF FilesMove
  <2>7. ASSUME NEW stamp \in Stamps, Past(stamp), Stamp(v)' = stamp PROVE FALSE
    <3>1. stamp[1] = p /\ stamp[2] = TRUE
      BY <2>4, <2>5, <2>7 DEF Stamp
    <3> QED
      BY <2>1, <2>7, <3>1 DEF Past
  <2> QED
    BY <2>5, <2>6, <2>7 DEF SameWhenStampedTheSame
<1>4. ASSUME NEW p \in Live, OpenSidecar(p) \/ CloseSidecar(p)
      PROVE  FilesMove /\ SameWhenStampedTheSame
  <2> PICK v \in Version : v = proc[p].version
    BY <1>4, WritersMove DEF WritesFile, FilesInv
  <2>1. v \notin retrained => v \notin Described
    BY <1>4, OtherWriters DEF WritesFile, FilesInv, OpenArtifact, OpenSidecar, CloseSidecar, At
  <2>2. UNCHANGED <<artifact, retrained>> /\ \A w \in Version : w # v => sidecar'[w] = sidecar[w]
    BY <1>4 DEF OpenSidecar, CloseSidecar, FilesInv, RegistryTypeOK
  <2>3. \A w \in Version : w # v => (w \in Described' <=> w \in Described)
    BY <2>2 DEF Described
  <2> QED
    BY <2>1, <2>2, <2>3 DEF FilesMove, SameWhenStampedTheSame
<1> QED
  BY <1>1, <1>2, <1>3, <1>4, StepsAreQuiet DEF FilesInv, WritesFile

\* What the requests know when no request makes a step.
LEMMA ServingStays ==
  ASSUME FilesInv, ServingInv, Next, UNCHANGED <<reader, cache>>
  PROVE  ServingInv'
<1>1. FilesMove /\ SameWhenStampedTheSame
  BY FilesAreKept
<1>2. reader \in [Reader -> Request] /\ cache \in [Version -> Loaded \cup {None}]
  BY DEF FilesInv, RegistryTypeOK
<1>3. RequestsFollowFiles'
  <2> SUFFICES ASSUME NEW r \in Reader
               PROVE  LET v == reader[r].version IN
                 /\ reader[r].pc = "again" => v \in Version
                 /\ Reading(r) =>
                      /\ v \in Version /\ artifact'[v] \in File /\ reader[r].record \in Nat
                      /\ v \notin retrained' => v \in Described' /\ reader[r].record = sidecar'[v].by
                 /\ reader[r].pc \in {"load", "keep"} =>
                      reader[r].stamp \in Stamps /\ Past(reader[r].stamp)'
                 /\ reader[r].pc = "keep" =>
                      /\ reader[r].estimator \in Nat
                      /\ Stamp(v)' = reader[r].stamp =>
                           reader[r].estimator = artifact'[v].by /\ Loadable(v)'
                      /\ v \notin retrained' => reader[r].record = reader[r].estimator
    BY DEF RequestsFollowFiles, Reading
  <2> PICK v : v = reader[r].version
    OBVIOUS
  <2> PICK stamp : stamp = reader[r].stamp
    OBVIOUS
  <2>1. /\ reader[r].pc = "again" => v \in Version
        /\ Reading(r) =>
             /\ v \in Version /\ artifact'[v] \in File /\ reader[r].record \in Nat
             /\ v \notin retrained' => v \in Described' /\ reader[r].record = sidecar'[v].by
    BY <1>1 DEF ServingInv, RequestsFollowFiles, FilesMove
  <2>2. reader[r].pc \in {"load", "keep"} => stamp \in Stamps /\ Past(stamp) /\ Past(stamp)'
    BY PastStays DEF ServingInv, RequestsFollowFiles, FilesInv
  <2>3. reader[r].pc = "keep" /\ Stamp(v)' = stamp =>
          reader[r].estimator = artifact'[v].by /\ Loadable(v)'
    <3> SUFFICES ASSUME reader[r].pc = "keep", Stamp(v)' = stamp
                 PROVE  reader[r].estimator = artifact'[v].by /\ Loadable(v)'
      OBVIOUS
    <3>1. v \in Version /\ artifact[v] \in File
      BY DEF ServingInv, RequestsFollowFiles, Reading
    <3>2. artifact'[v] = artifact[v]
      BY <1>1, <2>2, <3>1 DEF SameWhenStampedTheSame
    <3>3. Stamp(v) = stamp
      BY <3>2 DEF Stamp
    <3>4. reader[r].estimator = artifact[v].by /\ Loadable(v)
      BY <3>3 DEF ServingInv, RequestsFollowFiles
    <3> QED
      BY <3>2, <3>4 DEF Loadable
  <2>4. reader[r].pc = "keep" =>
          /\ reader[r].estimator \in Nat
          /\ v \notin retrained' => reader[r].record = reader[r].estimator
    BY <1>1 DEF ServingInv, RequestsFollowFiles, FilesMove
  <2> QED
    BY <2>1, <2>2, <2>3, <2>4 DEF Past, Stamp, Loadable, Described
<1>4. CacheFollowsFiles'
  <2> SUFFICES ASSUME NEW v \in Version, cache[v] # None
               PROVE  /\ artifact'[v] \in File
                      /\ Past(cache[v].stamp)'
                      /\ Hit(v)' => cache[v].estimator = artifact'[v].by /\ Loadable(v)'
                      /\ v \notin retrained' => cache[v].record = cache[v].estimator
    BY DEF CacheFollowsFiles
  <2> PICK stamp : stamp = cache[v].stamp
    OBVIOUS
  <2>1. /\ stamp \in Stamps /\ Past(stamp) /\ Past(stamp)'
        /\ artifact[v] \in File /\ artifact'[v] \in File
    BY <1>1, <1>2, PastStays DEF ServingInv, CacheFollowsFiles, FilesMove, Loaded, FilesInv
  <2>2. Stamp(v)' = stamp => cache[v].estimator = artifact'[v].by /\ Loadable(v)'
    <3> SUFFICES ASSUME Stamp(v)' = stamp
                 PROVE  cache[v].estimator = artifact'[v].by /\ Loadable(v)'
      OBVIOUS
    <3>1. artifact'[v] = artifact[v]
      BY <1>1, <2>1 DEF SameWhenStampedTheSame
    <3>2. Hit(v)
      BY <3>1 DEF Stamp, Hit
    <3> QED
      BY <3>1, <3>2 DEF ServingInv, CacheFollowsFiles, Loadable
  <2>3. v \notin retrained' => cache[v].record = cache[v].estimator
    BY <1>1 DEF ServingInv, CacheFollowsFiles, FilesMove
  <2> QED
    BY <2>1, <2>2, <2>3 DEF Past, Hit, Stamp
<1>5. ReadyStaysReady'
  <2> SUFFICES ASSUME retrained' = {}, NEW r \in Reader
               PROVE  /\ reader[r].pc = "again" => reader[r].version \in Described'
                      /\ reader[r].pc = "discover" /\ reader[r].ready =>
                           IF reader[r].want = None THEN \E v \in Version : Ready(v)'
                           ELSE Ready(reader[r].want)'
                      /\ reader[r].pc = "unavailable" => ~reader[r].ready
    BY DEF ReadyStaysReady
  <2>1. retrained = {} /\ \A v \in Described : v \in Described' /\ artifact'[v] = artifact[v]
    BY <1>1 DEF FilesMove, Described
  <2>2. \A v : Ready(v) => Ready(v)'
    BY <2>1 DEF Ready, Loadable
  <2> QED
    BY <2>1, <2>2 DEF ServingInv, ReadyStaysReady, Ready, Loadable, Described
<1> QED
  BY <1>3, <1>4, <1>5 DEF ServingInv

\* What a request does to its own record, and to the cache.
LEMMA RequestsMove ==
  ASSUME RegistryTypeOK, NEW r \in Reader, RequestStep(r)
  PROVE  /\ UNCHANGED <<disk, proc>>
         /\ \A q \in Reader : q # r => reader'[q] = reader[q]
         /\ Keep(r) \/ cache' = cache
         /\ \/ \E want \in Version \cup {None} :
                 reader'[r] = [Idle EXCEPT !.pc = "discover", !.want = want, !.pointer = pointer,
                   !.ready = IF want = None THEN \E v \in Version : Ready(v) ELSE Ready(want)]
            \/ Discover(r) /\ reader'[r] = Refused(r)
                 /\ (Described = {} \/ reader[r].want \notin Described \cup {None})
            \/ Discover(r) /\ Described # {} /\ reader[r].want \in Described \cup {None}
                 /\ reader'[r] = [Idle EXCEPT !.pc = "again", !.ready = reader[r].ready,
                      !.version = IF reader[r].want = None THEN ActiveOf(reader[r].pointer)
                                  ELSE reader[r].want]
            \/ ResolveAgain(r) /\ reader[r].version \in Described
                 /\ reader'[r] = [reader[r] EXCEPT !.pc = "stat",
                                                   !.record = sidecar[reader[r].version].by]
            \/ ResolveAgain(r) /\ reader[r].version \notin Described /\ reader'[r] = Refused(r)
            \/ Stat(r) /\ reader'[r] = Idle
            \/ Stat(r) /\ reader'[r] = [reader[r] EXCEPT !.pc = "load",
                                                         !.stamp = Stamp(reader[r].version)]
            \/ Load(r) /\ Loadable(reader[r].version)
                 /\ reader'[r] = [reader[r] EXCEPT !.pc = "keep",
                                                   !.estimator = artifact[reader[r].version].by]
            \/ Load(r) /\ ~Loadable(reader[r].version) /\ reader'[r] = Refused(r)
            \/ Keep(r) /\ reader'[r] = Idle
<1>1. reader \in [Reader -> Request]
  BY DEF RegistryTypeOK
<1>2. ASSUME NEW e, Step(r, e)
      PROVE  reader'[r] = e /\ \A q \in Reader : q # r => reader'[q] = reader[q]
  BY <1>1, <1>2 DEF Step
<1>3. UNCHANGED <<disk, proc>> /\ (Keep(r) \/ cache' = cache)
  BY DEF RequestStep, ReadPointer, Discover, ResolveAgain, Stat, Load, Keep
<1>4. ASSUME NEW want \in Version \cup {None}, ReadPointer(r, want)
      PROVE  Step(r, [Idle EXCEPT !.pc = "discover", !.want = want, !.pointer = pointer,
               !.ready = IF want = None THEN \E v \in Version : Ready(v) ELSE Ready(want)])
  BY <1>4 DEF ReadPointer
<1>5. Discover(r) =>
        \/ /\ Described = {} \/ reader[r].want \notin Described \cup {None}
           /\ Step(r, Refused(r))
        \/ /\ Described # {} /\ reader[r].want \in Described \cup {None}
           /\ Step(r, [Idle EXCEPT !.pc = "again", !.ready = reader[r].ready,
                !.version = IF reader[r].want = None THEN ActiveOf(reader[r].pointer)
                            ELSE reader[r].want])
  BY DEF Discover
<1>6. ResolveAgain(r) =>
        \/ /\ reader[r].version \in Described
           /\ Step(r, [reader[r] EXCEPT !.pc = "stat", !.record = sidecar[reader[r].version].by])
        \/ reader[r].version \notin Described /\ Step(r, Refused(r))
  BY DEF ResolveAgain
<1>7. Stat(r) => \/ Step(r, Idle)
                 \/ Step(r, [reader[r] EXCEPT !.pc = "load", !.stamp = Stamp(reader[r].version)])
  BY DEF Stat
<1>8. Load(r) =>
        \/ /\ Loadable(reader[r].version)
           /\ Step(r, [reader[r] EXCEPT !.pc = "keep",
                                        !.estimator = artifact[reader[r].version].by])
        \/ ~Loadable(reader[r].version) /\ Step(r, Refused(r))
  BY DEF Load
<1>9. Keep(r) => Step(r, Idle)
  BY DEF Keep
<1>a. CASE \E want \in Version \cup {None} : ReadPointer(r, want)
  BY <1>a, <1>2, <1>3, <1>4
<1>b. CASE Discover(r)
  BY <1>b, <1>2, <1>3, <1>5
<1>c. CASE ResolveAgain(r)
  BY <1>c, <1>2, <1>3, <1>6
<1>d. CASE Stat(r)
  BY <1>d, <1>2, <1>3, <1>7
<1>e. CASE Load(r)
  BY <1>e, <1>2, <1>3, <1>8
<1>f. CASE Keep(r)
  BY <1>f, <1>2, <1>3, <1>9
<1> QED
  BY <1>a, <1>b, <1>c, <1>d, <1>e, <1>f DEF RequestStep

\* What RequestsFollowFiles and ReadyStaysReady say of one request with the record e.
Follows(e) ==
  /\ e.pc = "again" => e.version \in Version
  /\ e.pc \in {"stat", "load", "keep"} =>
       /\ e.version \in Version /\ artifact[e.version] \in File /\ e.record \in Nat
       /\ e.version \notin retrained => e.version \in Described /\ e.record = sidecar[e.version].by
  /\ e.pc \in {"load", "keep"} => e.stamp \in Stamps /\ Past(e.stamp)
  /\ e.pc = "keep" =>
       /\ e.estimator \in Nat
       /\ Stamp(e.version) = e.stamp =>
            e.estimator = artifact[e.version].by /\ Loadable(e.version)
       /\ e.version \notin retrained => e.record = e.estimator

Readies(e) ==
  /\ e.pc = "again" => e.version \in Described
  /\ e.pc = "discover" /\ e.ready =>
       IF e.want = None THEN \E v \in Version : Ready(v) ELSE Ready(e.want)
  /\ e.pc = "unavailable" => ~e.ready

LEMMA OneByOne ==
  /\ RequestsFollowFiles <=> \A r \in Reader : Follows(reader[r])
  /\ ReadyStaysReady <=> (retrained = {} => \A r \in Reader : Readies(reader[r]))
BY DEF RequestsFollowFiles, ReadyStaysReady, Follows, Readies, Reading

LEMMA RequestsKeepFollowing ==
  ASSUME FilesInv, ServingInv, NEW r \in Reader, RequestStep(r)
  PROVE  Follows(reader'[r]) /\ (retrained = {} => Readies(reader'[r]))
<1>1. /\ reader \in [Reader -> Request] /\ reader[r] \in Request
      /\ Follows(reader[r]) /\ (retrained = {} => Readies(reader[r]))
  BY OneByOne DEF FilesInv, RegistryTypeOK, ServingInv
<1> DEFINE v == reader[r].version
<1>2. CASE \E want \in Version \cup {None} :
             reader'[r] = [Idle EXCEPT !.pc = "discover", !.want = want, !.pointer = pointer,
               !.ready = IF want = None THEN \E w \in Version : Ready(w) ELSE Ready(want)]
  <2>1. PICK want \in Version \cup {None} :
          reader'[r] = [Idle EXCEPT !.pc = "discover", !.want = want, !.pointer = pointer,
            !.ready = IF want = None THEN \E w \in Version : Ready(w) ELSE Ready(want)]
    BY <1>2
  <2> DEFINE ready == IF want = None THEN \E w \in Version : Ready(w) ELSE Ready(want)
  <2>2. reader'[r] = [Idle EXCEPT !.pc = "discover", !.want = want, !.pointer = pointer,
                                  !.ready = ready]
    BY <2>1
  <2>3. ready => IF want = None THEN \E w \in Version : Ready(w) ELSE Ready(want)
    OBVIOUS
  <2> HIDE DEF ready
  <2>4. reader'[r].pc = "discover" /\ reader'[r].want = want /\ reader'[r].ready = ready
    BY <2>2 DEF Idle
  <2> QED
    BY <2>3, <2>4 DEF Follows, Readies
<1>3. CASE /\ reader'[r] = Refused(r)
           /\ \/ /\ Discover(r)
                 /\ Described = {} \/ reader[r].want \notin Described \cup {None}
              \/ ResolveAgain(r) /\ v \notin Described
              \/ Load(r) /\ ~Loadable(v)
  <2>1. reader'[r].pc = "unavailable" /\ reader'[r].ready = reader[r].ready
    BY <1>3 DEF Refused, Idle
  <2>2. ASSUME retrained = {} PROVE ~reader[r].ready
    <3>1. CASE Discover(r)
      <4>1. reader[r].pc = "discover" /\ Readies(reader[r])
        BY <1>1, <2>2, <3>1 DEF Discover
      <4>2. Described = {} \/ reader[r].want \notin Described \cup {None}
        BY <1>3, <3>1 DEF Discover, ResolveAgain, Load
      <4> QED
        BY <4>1, <4>2 DEF Readies, Ready
    <3>2. CASE ResolveAgain(r)
      BY <1>1, <1>3, <2>2, <3>2 DEF Readies, Discover, ResolveAgain, Load
    <3>3. CASE Load(r)
      <4>1. v \in Described /\ ~Loadable(v)
        BY <1>1, <1>3, <2>2, <3>3 DEF Follows, Discover, ResolveAgain, Load
      <4> QED
        BY <2>2, <4>1 DEF FilesInv, OneWriter
    <3> QED
      BY <1>3, <3>1, <3>2, <3>3
  <2> QED
    BY <2>1, <2>2 DEF Follows, Readies
<1>4. CASE /\ Described # {} /\ reader[r].want \in Described \cup {None}
           /\ reader'[r] = [Idle EXCEPT !.pc = "again", !.ready = reader[r].ready,
                !.version = IF reader[r].want = None THEN ActiveOf(reader[r].pointer)
                            ELSE reader[r].want]
  <2>1. (IF reader[r].want = None THEN ActiveOf(reader[r].pointer) ELSE reader[r].want) \in Described
    BY <1>4, ActiveIsDescribed DEF FilesInv
  <2>2. reader'[r].pc = "again" /\ reader'[r].version \in Described
    BY <1>4, <2>1 DEF Idle
  <2> QED
    BY <2>2 DEF Follows, Readies, Described
<1>5. CASE /\ v \in Described
           /\ reader'[r] = [reader[r] EXCEPT !.pc = "stat", !.record = sidecar[v].by]
  <2>1. reader'[r].pc = "stat" /\ reader'[r].version = v /\ reader'[r].record = sidecar[v].by
    BY <1>1, <1>5 DEF Request
  <2>2. v \in Version /\ sidecar[v] # None /\ sidecar[v] \in File /\ artifact[v] \in File
    BY <1>5 DEF Described, FilesInv, RegistryTypeOK, FilesHaveWriters
  <2> QED
    BY <1>5, <2>1, <2>2 DEF Follows, Readies, File
<1>6. CASE reader'[r] = Idle
  BY <1>6 DEF Follows, Readies, Idle
<1>7. CASE Stat(r) /\ reader'[r] = [reader[r] EXCEPT !.pc = "load", !.stamp = Stamp(v)]
  <2>1. /\ reader'[r].pc = "load" /\ reader'[r].version = v
        /\ reader'[r].record = reader[r].record /\ reader'[r].stamp = Stamp(v)
    BY <1>1, <1>7 DEF Request
  <2>2. reader[r].pc = "stat" /\ v \in Version /\ artifact[v] \in File
    BY <1>1, <1>7 DEF Follows, Stat
  <2>3. Stamp(v) \in Stamps /\ Past(Stamp(v))
    BY <2>2 DEF Stamp, Stamps, File, FilesInv, FilesHaveWriters
  <2> QED
    BY <1>1, <2>1, <2>2, <2>3 DEF Follows, Readies
<1>8. CASE /\ Load(r) /\ Loadable(v)
           /\ reader'[r] = [reader[r] EXCEPT !.pc = "keep", !.estimator = artifact[v].by]
  <2>1. /\ reader'[r].pc = "keep" /\ reader'[r].version = v
        /\ reader'[r].record = reader[r].record /\ reader'[r].stamp = reader[r].stamp
        /\ reader'[r].estimator = artifact[v].by
    BY <1>1, <1>8 DEF Request
  <2>2. reader[r].pc = "load" /\ v \in Version /\ artifact[v] \in File /\ artifact[v].by \in Nat
    BY <1>1, <1>8 DEF Follows, Load, File
  <2>3. v \notin retrained => reader[r].record = artifact[v].by
    BY <1>1, <2>2 DEF Follows, FilesInv, OneWriter
  <2> QED
    BY <1>1, <1>8, <2>1, <2>2, <2>3 DEF Follows, Readies
<1> QED
  BY <1>2, <1>3, <1>4, <1>5, <1>6, <1>7, <1>8, RequestsMove DEF FilesInv

LEMMA RequestsKeepServing ==
  ASSUME FilesInv, ServingInv, NEW r \in Reader, RequestStep(r)
  PROVE  ServingInv'
<1>1. /\ UNCHANGED <<disk, proc>>
      /\ \A q \in Reader : q # r => reader'[q] = reader[q]
      /\ Keep(r) \/ cache' = cache
  BY RequestsMove DEF FilesInv
<1>2. Follows(reader'[r]) /\ (retrained = {} => Readies(reader'[r]))
  BY RequestsKeepFollowing
<1>3. \A q \in Reader : Follows(reader'[q]) /\ (retrained = {} => Readies(reader'[q]))
  BY <1>1, <1>2, OneByOne DEF ServingInv
<1>4. \A q \in Reader : /\ Follows(reader[q])' <=> Follows(reader'[q])
                        /\ Readies(reader[q])' <=> Readies(reader'[q])
  BY <1>1 DEF Follows, Readies, disk, Past, Stamp, Loadable, Described, Ready
<1>5. RequestsFollowFiles' /\ ReadyStaysReady'
  <2>1. \A q \in Reader : Follows(reader[q])' /\ (retrained' = {} => Readies(reader[q])')
    BY <1>1, <1>3, <1>4 DEF disk
  <2>2. /\ RequestsFollowFiles' <=> \A q \in Reader : Follows(reader[q])'
        /\ ReadyStaysReady' <=> (retrained' = {} => \A q \in Reader : Readies(reader[q])')
    BY DEF RequestsFollowFiles, ReadyStaysReady, Follows, Readies, Reading
  <2> QED
    BY <2>1, <2>2
<1>6. CacheFollowsFiles'
  <2> SUFFICES ASSUME NEW v \in Version, cache'[v] # None
               PROVE  /\ artifact[v] \in File
                      /\ Past(cache'[v].stamp)
                      /\ cache'[v].stamp = Stamp(v) =>
                           cache'[v].estimator = artifact[v].by /\ Loadable(v)
                      /\ v \notin retrained => cache'[v].record = cache'[v].estimator
    BY <1>1 DEF CacheFollowsFiles, disk, Past, Hit, Stamp, Loadable
  <2>1. CASE cache' = cache
    BY <2>1 DEF ServingInv, CacheFollowsFiles, Hit
  <2>2. CASE Keep(r) /\ v # reader[r].version
    <3>1. cache'[v] = cache[v]
      BY <2>2 DEF Keep, FilesInv, RegistryTypeOK
    <3> QED
      BY <3>1 DEF ServingInv, CacheFollowsFiles, Hit
  <2>3. CASE Keep(r) /\ v = reader[r].version
    <3>1. cache'[v] = [stamp |-> reader[r].stamp, record |-> reader[r].record,
                       estimator |-> reader[r].estimator]
      BY <2>3 DEF Keep, FilesInv, RegistryTypeOK
    <3>2. Follows(reader[r]) /\ reader[r].pc = "keep"
      BY <2>3, OneByOne DEF Keep, ServingInv
    <3> QED
      BY <2>3, <3>1, <3>2 DEF Follows
  <2> QED
    BY <1>1, <2>1, <2>2, <2>3
<1> QED
  BY <1>5, <1>6 DEF ServingInv

-----------------------------------------------------------------------------
(* The rows: proofs *)

\* What a process's step does to the rows and to what they are compared with.
LEMMA RowsMove ==
  ASSUME RegistryTypeOK, ProcessesOK, NEW p \in Live, ProcessStep(p)
  PROVE  /\ p \in DOMAIN proc /\ p \in Nat
         /\ DOMAIN proc' = DOMAIN proc
         /\ \A q \in DOMAIN proc : q # p => proc'[q] = proc[q]
         /\ Kept(p)
         /\ CommitRow(p) \/ row' = row
         /\ pointed \subseteq pointed'
         /\ ClosePointer(p) => proc[p].version \in pointed'
         /\ overlapped => overlapped'
         /\ orderly' => orderly
<1>1. PICK e \in Process : MovesTo(p, e) /\ Advanced(p, e)
  BY ProcessesAdvance
<1>2. /\ p \in DOMAIN proc /\ p \in Nat /\ DOMAIN proc' = DOMAIN proc /\ proc'[p] = e
      /\ \A q \in DOMAIN proc : q # p => proc'[q] = proc[q]
  BY <1>1, ProcessesMove, ProcessType DEF RegistryTypeOK, MovesTo
<1>3. Kept(p)
  BY <1>1, <1>2 DEF Advanced, Kept
<1>4. CommitRow(p) \/ row' = row
  BY DEF ProcessStep, Fit, OpenArtifact, CloseArtifact, RoundTrip, OpenSidecar, CloseSidecar,
     OpenPointer, ClosePointer, SelectExisting, StartClearing, EndClearing, RowConflict,
     RegistrationFails, Gate, Die
<1>5. pointed \subseteq pointed' /\ (ClosePointer(p) => proc[p].version \in pointed')
  BY DEF ProcessStep, Fit, OpenArtifact, CloseArtifact, RoundTrip, OpenSidecar, CloseSidecar,
     OpenPointer, ClosePointer, SelectExisting, StartClearing, EndClearing, CommitRow, RowConflict,
     RegistrationFails, Gate, Die, disk
<1>6. overlapped => overlapped'
  BY DEF ProcessStep, Fit, OpenArtifact, CloseArtifact, RoundTrip, OpenSidecar, CloseSidecar,
     OpenPointer, ClosePointer, SelectExisting, StartClearing, EndClearing, CommitRow, RowConflict,
     RegistrationFails, Gate, Die
<1>7. orderly' => orderly
  BY DEF ProcessStep, Fit, OpenArtifact, CloseArtifact, RoundTrip, OpenSidecar, CloseSidecar,
     OpenPointer, ClosePointer, SelectExisting, StartClearing, EndClearing, CommitRow, RowConflict,
     RegistrationFails, Gate, Die
<1> QED
  BY <1>2, <1>3, <1>4, <1>5, <1>6, <1>7

\* The active rows after a commit.
LEMMA ActiveMoves ==
  ASSUME RegistryTypeOK, ProcessesOK, NEW p \in Live, CommitRow(p)
  PROVE  /\ proc[p].version \in Active' <=> Row(p).active
         /\ \A v \in Version : v # proc[p].version =>
              (v \in Active' <=> v \in Active /\ v \notin proc[p].cleared)
         /\ Row(p).active => proc[p].activate \/ proc[p].version \in Active
         /\ proc[p].activate => Row(p).active
         /\ Row(p).active /\ ~proc[p].activate => proc[p].exists /\ ~proc[p].wasActive
<1> DEFINE v == proc[p].version
<1>1. /\ v \in Version /\ Row(p) \in RowOf /\ row'[v] = Row(p)
      /\ Registered' = Registered \cup {v}
      /\ \A w \in Version : w # v =>
           row'[w] = IF w \in proc[p].cleared THEN [row[w] EXCEPT !.active = FALSE] ELSE row[w]
  BY RowsAreWritten
<1>2. /\ p \in DOMAIN proc /\ proc[p] \in Process /\ proc[p].cleared \subseteq Registered
      /\ proc[p].exists => v \in Registered
  BY ProcessType DEF RegistryTypeOK, ProcessesOK, ProcessOK, Live
<1>3. v \in Active' <=> Row(p).active
  BY <1>1 DEF Active
<1>4. ASSUME NEW w \in Version, w # v
      PROVE  w \in Active' <=> w \in Active /\ w \notin proc[p].cleared
  <2>1. w \in Registered' <=> w \in Registered
    BY <1>1, <1>4
  <2>2. CASE w \in proc[p].cleared
    <3>1. row[w] \in RowOf
      BY <1>2, <2>2 DEF Registered, RegistryTypeOK
    <3>2. row'[w].active = FALSE
      BY <1>1, <1>4, <2>2, <3>1 DEF RowOf
    <3> QED
      BY <2>2, <3>2 DEF Active
  <2>3. CASE w \notin proc[p].cleared
    <3>1. row'[w] = row[w]
      BY <1>1, <1>4, <2>3
    <3> QED
      BY <2>1, <2>3, <3>1 DEF Active
  <2> QED
    BY <2>2, <2>3
<1>5. Row(p).active <=> \/ proc[p].activate
                        \/ proc[p].exists /\ ~proc[p].wasActive /\ row[v].active
  BY DEF Row
<1>6. proc[p].exists /\ row[v].active => v \in Active
  BY <1>2 DEF Active
<1> QED
  BY <1>1, <1>3, <1>4, <1>5, <1>6

LEMMA RowsStay ==
  ASSUME FilesInv, RowsInv, Next
  PROVE  RowsInv'
<1>0. RegistryTypeOK /\ ProcessesOK
  BY DEF FilesInv
<1>1. ASSUME NEW kind \in Kinds, NEW version \in Version \cup {None}, NEW activate \in BOOLEAN,
             Begin(kind, version, activate)
      PROVE  RowsInv'
  <2> PICK n : n = Len(proc) + 1
    OBVIOUS
  <2>1. PICK e \in Process : Begun(kind, version, activate, e)
    BY <1>0, <1>1, ProcessBegins
  <2>2. /\ e.pc \in {"activate", "fit"} /\ DOMAIN proc' = DOMAIN proc \cup {n} /\ proc'[n] = e
        /\ \A q \in DOMAIN proc : proc'[q] = proc[q]
    BY <2>1 DEF Begun
  <2>3. UNCHANGED <<row, pointed, overlapped>>
    BY <1>1 DEF Begin, disk
  <2>4. InTransaction' = InTransaction /\ Active' = Active /\ Registered' = Registered
    BY <2>2, <2>3 DEF InTransaction, Live, Over, Active, Registered
  <2>5. PointerComesFirst'
    BY <2>2, <2>3, <2>4 DEF RowsInv, PointerComesFirst, Registering
  <2>6. \A q \in InTransaction : proc'[q] = proc[q]
    BY <2>2 DEF InTransaction, Live
  <2>7. OneRegistration'
    BY <2>3, <2>4, <2>6 DEF RowsInv, OneRegistration
  <2> QED
    BY <2>5, <2>7 DEF RowsInv
<1>2. ASSUME NEW r \in Reader, RequestStep(r) PROVE RowsInv'
  <2>1. UNCHANGED <<proc, row, pointed, overlapped>>
    BY <1>2 DEF RequestStep, ReadPointer, Discover, ResolveAgain, Stat, Load, Keep, disk
  <2> QED
    BY <2>1 DEF RowsInv, PointerComesFirst, OneRegistration, InTransaction, Live, Active, Registered
<1>3. ASSUME NEW p \in Live, ProcessStep(p) PROVE RowsInv'
  <2>1. /\ p \in DOMAIN proc /\ DOMAIN proc' = DOMAIN proc
        /\ \A q \in DOMAIN proc : q # p => proc'[q] = proc[q]
        /\ proc'[p].activate = proc[p].activate
        /\ CommitRow(p) \/ row' = row
        /\ pointed \subseteq pointed' /\ (ClosePointer(p) => proc[p].version \in pointed')
        /\ overlapped => overlapped'
    BY <1>0, <1>3, RowsMove DEF Kept
  <2>2. ~CommitRow(p) => Active' = Active /\ Registered' = Registered
    BY <2>1 DEF Active, Registered
  <2>p. ProcessOK(p) /\ proc[p] \in Process
    BY <1>0, <2>1, ProcessType DEF ProcessesOK, RegistryTypeOK
  <2>3. PointerComesFirst'
    <3>1. Active' \subseteq pointed'
      <4>1. CASE CommitRow(p)
        <5>1. Active' \subseteq Version /\ proc[p].pc = "flush"
          BY <4>1 DEF Active, Registered, CommitRow, At
        <5>2. proc[p].version \in Active' => proc[p].version \in pointed
          BY <1>0, <2>1, <4>1, <5>1, ActiveMoves DEF RowsInv, PointerComesFirst, Registering
        <5> QED
          BY <1>0, <2>1, <4>1, <5>1, <5>2, ActiveMoves DEF RowsInv, PointerComesFirst
      <4> QED
        BY <2>1, <2>2, <4>1 DEF RowsInv, PointerComesFirst
    <3>2. proc'[p].pc \in Registering /\ proc[p].activate => proc'[p].version \in pointed'
      <4>1. proc'[p].pc \in Registering /\ proc[p].activate =>
              proc'[p].version = proc[p].version /\ (ClosePointer(p) \/ proc[p].pc \in Registering)
        BY <1>0, <1>3, StepsMove DEF ProcessStep, OnlyMoves, Rests, Registering
      <4> QED
        BY <2>1, <4>1 DEF RowsInv, PointerComesFirst
    <3> QED
      BY <2>1, <3>1, <3>2 DEF RowsInv, PointerComesFirst
  <2>4. OneRegistration'
    <3> SUFFICES ASSUME ~overlapped'
                 PROVE  /\ \A q1, q2 \in InTransaction' : q1 = q2
                        /\ \A v, w \in Active' : v = w
                        /\ \A q \in InTransaction' :
                             /\ proc'[q].exists <=> proc'[q].version \in Registered'
                             /\ proc'[q].wasActive <=> proc'[q].version \in Active'
                             /\ proc'[q].pc \in {"wait", "flush"} /\ proc'[q].activate =>
                                  Active' \subseteq proc'[q].cleared
      BY DEF OneRegistration
    <3>1. /\ \A q1, q2 \in InTransaction : q1 = q2
          /\ \A v, w \in Active : v = w
          /\ \A q \in InTransaction :
               /\ proc[q].exists <=> proc[q].version \in Registered
               /\ proc[q].wasActive <=> proc[q].version \in Active
               /\ proc[q].pc \in {"wait", "flush"} /\ proc[q].activate => Active \subseteq proc[q].cleared
      BY <2>1 DEF RowsInv, OneRegistration
    <3>2. \A q \in DOMAIN proc : q # p => (q \in InTransaction' <=> q \in InTransaction)
      BY <2>1 DEF InTransaction, Live
    <3>3. CASE SelectExisting(p)
      <4>1. InTransaction = {} /\ row' = row
        BY <3>3 DEF SelectExisting
      <4>2. InTransaction' \subseteq {p}
        BY <2>1, <3>2, <4>1 DEF InTransaction, Live
      <4>3. /\ proc'[p].version = proc[p].version /\ proc[p].pc = "select"
            /\ proc'[p].pc = (IF proc[p].activate THEN "clear" ELSE "flush")
            /\ proc'[p].exists = (row[proc[p].version] # None)
            /\ proc'[p].wasActive = (IF row[proc[p].version] = None THEN FALSE
                                     ELSE row[proc[p].version].active)
        BY <1>0, <3>3, StepsMove
      <4>4. proc[p].version \in Version
        BY <2>p, <4>3 DEF ProcessOK, Training
      <4>5. proc'[p].exists <=> proc'[p].version \in Registered'
        BY <4>1, <4>3, <4>4 DEF Registered
      <4>6. proc'[p].wasActive <=> proc'[p].version \in Active'
        BY <4>1, <4>3, <4>4 DEF Active, Registered
      <4>7. ~(proc'[p].pc \in {"wait", "flush"} /\ proc'[p].activate)
        BY <2>1, <4>3
      <4>8. Active' = Active
        BY <4>1 DEF Active, Registered
      <4> QED
        BY <3>1, <4>2, <4>5, <4>6, <4>7, <4>8
    <3>4. CASE StartClearing(p)
      <4>1. /\ proc'[p].version = proc[p].version /\ proc'[p].cleared = Registered /\ row' = row
            /\ proc'[p].exists = proc[p].exists /\ proc'[p].wasActive = proc[p].wasActive
            /\ proc[p].pc = "clear"
        BY <1>0, <3>4, StepsMove DEF StartClearing
      <4>2. p \in InTransaction
        BY <4>1 DEF InTransaction
      <4>3. InTransaction' \subseteq {p} /\ Active' = Active /\ Registered' = Registered
        BY <2>1, <3>1, <3>2, <4>1, <4>2 DEF InTransaction, Live, Active, Registered
      <4>4. Active \subseteq Registered
        BY DEF Active
      <4> QED
        BY <3>1, <4>1, <4>2, <4>3, <4>4
    <3>5. CASE EndClearing(p)
      <4>1. OnlyMoves(p, "flush") /\ proc[p].pc = "wait" /\ row' = row
        BY <1>0, <3>5, StepsMove DEF EndClearing
      <4>2. p \in InTransaction
        BY <4>1 DEF InTransaction
      <4>3. InTransaction' \subseteq {p} /\ Active' = Active /\ Registered' = Registered
        BY <2>1, <3>1, <3>2, <4>1, <4>2 DEF InTransaction, Live, Active, Registered
      <4> QED
        BY <2>1, <3>1, <4>1, <4>2, <4>3 DEF OnlyMoves
    <3>6. CASE CommitRow(p)
      <4>1. Rests(p, Finished(p)) /\ proc[p].pc = "flush" /\ Finished(p) \in {"gate", "done"}
        BY <1>0, <3>6, StepsMove
      <4>2. p \in InTransaction /\ p \notin InTransaction'
        BY <4>1 DEF InTransaction, Live, Over, Rests
      <4>3. InTransaction' = {}
        BY <2>1, <3>1, <3>2, <4>2 DEF InTransaction, Live
      <4>4. CASE proc[p].activate
        <5>1. Active \subseteq proc[p].cleared
          BY <3>1, <4>1, <4>2, <4>4
        <5>2. \A v \in Active' : v = proc[p].version
          BY <1>0, <3>6, <5>1, ActiveMoves DEF Active, Registered
        <5> QED
          BY <4>3, <5>2
      <4>5. CASE ~proc[p].activate
        <5>1. Active' \subseteq Active
          BY <1>0, <3>1, <3>6, <4>2, <4>5, ActiveMoves DEF Active, Registered
        <5> QED
          BY <3>1, <4>3, <5>1
      <4> QED
        BY <4>4, <4>5
    <3>7. CASE ~(SelectExisting(p) \/ StartClearing(p) \/ EndClearing(p) \/ CommitRow(p))
      <4>1. proc'[p].pc \notin {"clear", "wait", "flush"}
        BY <1>0, <1>3, <3>7, StepsMove DEF ProcessStep, OnlyMoves, Rests
      <4>2. \A q \in InTransaction' : q # p /\ q \in InTransaction /\ proc'[q] = proc[q]
        BY <2>1, <3>2, <4>1 DEF InTransaction, Live
      <4> QED
        BY <2>2, <3>1, <3>7, <4>2
    <3> QED
      BY <3>3, <3>4, <3>5, <3>6, <3>7
  <2> QED
    BY <2>3, <2>4 DEF RowsInv
<1> QED
  BY <1>1, <1>2, <1>3, NextIsAStep

-----------------------------------------------------------------------------
(* One process at a time: proofs *)

\* The parts of FilesAgree and PointerAgrees that speak of one process.
FilesAgreeWith(p) ==
  /\ proc[p].kind = "activation" =>
       sidecar[proc[p].version] # None /\ proc[p].by = sidecar[proc[p].version].by
  /\ proc[p].kind # "activation" => proc[p].by = p
  /\ Unfinished(p) => artifact[proc[p].version].by = p
  /\ Unfinished(p) /\ proc[p].pc \notin {"saving", "check", "describe"} =>
       sidecar[proc[p].version] # None /\ sidecar[proc[p].version].by = p

PointerAgreesWith(p) ==
  /\ proc[p].pc \in Registering /\ proc[p].activate => pointer = proc[p].version
  /\ proc[p].pc \in Training /\ ~proc[p].activate => proc[p].version \notin Registered
  /\ p \in InTransaction /\ proc[p].exists => proc[p].version \in Registered
  /\ proc[p].pc \in {"wait", "flush"} /\ proc[p].activate => Active \subseteq proc[p].cleared

\* What the invariant says while p is the only process that may be under way.
Alone(p) ==
  /\ Live \subseteq {p}
  /\ \A v \in Version : Agrees(v) \/ (p \in Live /\ Unfinished(p) /\ proc[p].version = v)
  /\ (p \in Live /\ Pointing(p)) \/ \A v \in Version : v \in Active <=> pointer = v
  /\ p \in Live => FilesAgreeWith(p) /\ PointerAgreesWith(p)

LEMMA AloneIsEnough ==
  ASSUME NEW p, Alone(p)
  PROVE  RestInv
BY DEF Alone, RestInv, FilesAgree, PointerAgrees, FilesAgreeWith, PointerAgreesWith

LEMMA OneIsAlone ==
  ASSUME RestInv, orderly, NEW p, p \in Live \/ Live = {}
  PROVE  Alone(p)
<1>1. Live \subseteq {p}
  BY DEF RestInv
<1> QED
  BY <1>1 DEF Alone, RestInv, FilesAgree, PointerAgrees, FilesAgreeWith, PointerAgreesWith

\* A step that leaves the files, the pointer and the rows of a lone process alone.
LEMMA AloneStaysAlone ==
  ASSUME RegistryTypeOK, NEW p \in Live, Alone(p), DOMAIN proc' = DOMAIN proc,
         \A q \in DOMAIN proc : q # p => proc'[q] = proc[q]
  PROVE  Live' \subseteq {p}
BY DEF Alone, Live

LEMMA FilesOfOneAgree ==
  ASSUME FilesInv, FilesInv', NEW p \in Live, Alone(p), ProcessStep(p), orderly'
  PROVE  /\ \A v \in Version : Agrees(v)' \/ (p \in Live' /\ Unfinished(p)' /\ proc'[p].version = v)
         /\ p \in Live' => FilesAgreeWith(p)'
<1>0. RegistryTypeOK /\ ProcessesOK /\ ProcessOK(p) /\ FilesHaveWriters
  BY DEF FilesInv, ProcessesOK, Live
<1>1. /\ p \in DOMAIN proc /\ p \in Nat /\ DOMAIN proc' = DOMAIN proc
      /\ Kept(p) /\ (CommitRow(p) \/ row' = row)
      /\ FilesAgreeWith(p)
  BY <1>0, RowsMove DEF Alone
<1>2. \A v \in Version : Agrees(v) \/ (Unfinished(p) /\ proc[p].version = v)
  BY DEF Alone
<1>3. CASE OpenArtifact(p)
  <2>1. /\ proc[p].pc = "save" /\ proc'[p].pc = "saving" /\ proc'[p].version = proc[p].version
        /\ proc[p].version \in Version
    BY <1>0, <1>3, WritersMove, StepsMove DEF WritesFile, OnlyMoves
  <2>2. /\ artifact'[proc[p].version].by = p /\ UNCHANGED <<sidecar, row>>
        /\ \A w \in Version : w # proc[p].version => artifact'[w] = artifact[w]
    BY <1>0, <1>3, <2>1 DEF OpenArtifact, Opened, RegistryTypeOK
  <2>3. ~Unfinished(p) /\ (p \in Live' /\ (proc[p].kind # "activation" => Unfinished(p)'))
    BY <1>1, <2>1 DEF Unfinished, Kept, Training, Live, Over
  <2>4. proc[p].kind # "activation"
    BY <1>0, <2>1 DEF ProcessOK
  <2>5. FilesAgreeWith(p)'
    BY <1>1, <2>1, <2>2, <2>4 DEF FilesAgreeWith, Kept, Unfinished
  <2> QED
    BY <1>2, <2>1, <2>2, <2>3, <2>4, <2>5 DEF Agrees
<1>4. CASE CloseArtifact(p) \/ OpenSidecar(p) \/ CloseSidecar(p)
  <2>1. /\ proc[p].pc \in {"saving", "describe", "describing"}
        /\ proc'[p].version = proc[p].version
        /\ proc[p].version \in Version
        /\ proc'[p].pc \in Training \ {"save"} /\ proc'[p].pc \notin Over
        /\ proc'[p].pc \notin {"saving", "check", "describe"} => OpenSidecar(p) \/ CloseSidecar(p)
    <3>1. proc[p].version \in Version
      BY <1>0, <1>4, WritersMove DEF WritesFile
    <3>2. /\ CloseArtifact(p) => proc[p].pc = "saving" /\ OnlyMoves(p, "check")
          /\ OpenSidecar(p) => proc[p].pc = "describe" /\ OnlyMoves(p, "describing")
          /\ CloseSidecar(p) => /\ proc[p].pc = "describing"
                                /\ OnlyMoves(p, "activate") \/ OnlyMoves(p, "select")
      BY <1>0, StepsMove
    <3> QED
      BY <1>4, <3>1, <3>2 DEF OnlyMoves, Training, Over
  <2>2. Unfinished(p) /\ Unfinished(p)' /\ p \in Live' /\ proc[p].kind # "activation"
    BY <1>0, <1>1, <2>1 DEF ProcessOK, Writing, Unfinished, Kept, Training, Live
  <2>3. /\ \A w \in Version : w # proc[p].version =>
             artifact'[w] = artifact[w] /\ sidecar'[w] = sidecar[w]
        /\ row' = row
        /\ artifact'[proc[p].version].by = p
        /\ OpenSidecar(p) \/ CloseSidecar(p) =>
             sidecar'[proc[p].version] # None /\ sidecar'[proc[p].version].by = p
    <3>1. CASE CloseArtifact(p)
      <4>1. artifact[proc[p].version] \in File /\ proc[p].pc = "saving"
        BY <1>0, <1>1, <3>1 DEF FilesHaveWriters, Writing, CloseArtifact, At
      <4>2. PICK f \in Closed(artifact[proc[p].version], p) :
              artifact' = [artifact EXCEPT ![proc[p].version] = f]
        BY <3>1 DEF CloseArtifact
      <4>3. f.by = p
        BY <4>1, <4>2 DEF Closed, File
      <4>4. ~(OpenSidecar(p) \/ CloseSidecar(p))
        BY <4>1 DEF OpenSidecar, CloseSidecar, At
      <4> QED
        BY <1>0, <2>1, <3>1, <4>2, <4>3, <4>4 DEF CloseArtifact, RegistryTypeOK
    <3>2. CASE OpenSidecar(p)
      <4>1. artifact[proc[p].version].by = p
        BY <1>1, <2>2 DEF FilesAgreeWith
      <4>2. Opened(p, "describing") \in File /\ Opened(p, "describing").by = p
        BY <1>1 DEF Opened, File
      <4>3. Opened(p, "describing") # None
        BY <4>2, RegistryAssumption DEF File
      <4> QED
        BY <1>0, <2>1, <3>2, <4>1, <4>2, <4>3 DEF OpenSidecar, RegistryTypeOK
    <3>3. CASE CloseSidecar(p)
      <4>1. artifact[proc[p].version].by = p
        BY <1>1, <2>2 DEF FilesAgreeWith
      <4>2. sidecar[proc[p].version] \in File
        BY <1>0, <1>1, <3>3 DEF FilesHaveWriters, Writing, CloseSidecar, At
      <4>3. PICK f \in Closed(sidecar[proc[p].version], p) :
              sidecar' = [sidecar EXCEPT ![proc[p].version] = f]
        BY <3>3 DEF CloseSidecar
      <4>4. f \in File /\ f.by = p
        BY <1>1, <4>2, <4>3 DEF Closed, File
      <4>5. f # None
        BY <4>4, RegistryAssumption DEF File
      <4> QED
        BY <1>0, <2>1, <3>3, <4>1, <4>3, <4>4, <4>5 DEF CloseSidecar, RegistryTypeOK
    <3> QED
      BY <1>4, <3>1, <3>2, <3>3
  <2>4. FilesAgreeWith(p)'
    BY <1>1, <2>1, <2>2, <2>3 DEF FilesAgreeWith, Kept
  <2>5. \A v \in Version : Agrees(v)' \/ proc'[p].version = v
    BY <1>2, <2>1, <2>3 DEF Agrees
  <2> QED
    BY <2>2, <2>4, <2>5
<1>5. CASE CommitRow(p)
  <2>1. /\ proc[p].pc = "flush" /\ proc'[p].pc \in {"gate", "done"}
        /\ proc'[p].version = proc[p].version
    BY <1>0, <1>5, StepsMove DEF Rests
  <2>2. UNCHANGED <<artifact, sidecar>>
    BY <1>5 DEF CommitRow, disk
  <2>3. /\ proc[p].version \in Version /\ Row(p) \in RowOf /\ row'[proc[p].version] = Row(p)
        /\ row' \in [Version -> RowOf \cup {None}]
        /\ \A v \in Version : v # proc[p].version =>
             row'[v] = IF v \in proc[p].cleared THEN [row[v] EXCEPT !.active = FALSE] ELSE row[v]
    BY <1>0, <1>5, RowsAreWritten
  <2>4. ASSUME NEW v \in Version, v = proc[p].version PROVE Agrees(v)'
    <3>1. Row(p) # None
      BY <2>3, RegistryAssumption DEF RowOf
    <3>2. CASE proc[p].kind # "activation"
      <4>1. sidecar[v].by = p /\ artifact[v].by = p /\ proc[p].by = p
        BY <1>1, <2>1, <2>4, <3>2 DEF FilesAgreeWith, Unfinished, Training
      <4>2. Row(p).by = p
        BY <3>2, <4>1 DEF Row
      <4> QED
        BY <2>2, <2>3, <2>4, <3>1, <4>1, <4>2 DEF Agrees
    <3>3. CASE proc[p].kind = "activation"
      <4>1. sidecar[v] # None /\ Agrees(v)
        BY <1>1, <1>2, <2>4, <3>3 DEF FilesAgreeWith, Unfinished
      <4>2. proc[p].exists
        BY <1>5, <2>4, <4>1 DEF CommitRow, Agrees
      <4>3. Row(p).by = row[v].by
        BY <2>4, <3>3, <4>2 DEF Row
      <4> QED
        BY <2>2, <2>3, <2>4, <3>1, <4>1, <4>3 DEF Agrees
    <3> QED
      BY <3>2, <3>3
  <2>5. \A v \in Version : v # proc[p].version => Agrees(v)'
    <3> TAKE v \in Version
    <3> HAVE v # proc[p].version
    <3>1. Agrees(v)
      BY <1>2
    <3>2. row[v] # None => row'[v] # None /\ row'[v].by = row[v].by
      <4>1. row[v] # None => row[v] \in RowOf
        BY <1>0 DEF RegistryTypeOK
      <4>2. row[v] # None => [row[v] EXCEPT !.active = FALSE] # None
        BY <4>1, RegistryAssumption DEF RowOf
      <4> QED
        BY <2>3, <4>1, <4>2 DEF RowOf
    <3> QED
      BY <2>2, <3>1, <3>2 DEF Agrees
  <2>6. FilesAgreeWith(p)'
    BY <1>1, <2>1, <2>2 DEF FilesAgreeWith, Kept, Unfinished, Training
  <2> QED
    BY <2>3, <2>4, <2>5, <2>6
<1>6. CASE ~(WritesFile(p) \/ CommitRow(p))
  <2>1. UNCHANGED <<artifact, sidecar, row>>
    BY <1>1, <1>6 DEF ProcessStep, Fit, RoundTrip, OpenPointer, ClosePointer, SelectExisting,
       StartClearing, EndClearing, RowConflict, RegistrationFails, Gate, Die, disk, WritesFile
  <2>2. CASE Fit(p)
    <3>1. /\ proc[p].pc = "fit" /\ proc'[p].pc = "save" /\ proc[p].kind # "activation"
      BY <1>0, <2>2, StepsMove DEF ProcessOK
    <3>2. ~Unfinished(p) /\ ~Unfinished(p)'
      BY <3>1 DEF Unfinished, Training
    <3> QED
      BY <1>1, <1>2, <2>1, <3>1, <3>2 DEF FilesAgreeWith, Kept, Agrees
  <2>3. CASE ~Fit(p)
    <3>1. /\ proc'[p].version = proc[p].version
          /\ \/ proc[p].pc = "gate" /\ proc'[p].pc \in Over
             \/ /\ proc[p].pc \in Training \ {"save"}
                /\ proc'[p].pc \in Training \ {"save"} /\ proc'[p].pc \notin Over
                /\ proc'[p].pc \in {"saving", "check", "describe"} <=>
                     proc[p].pc \in {"saving", "check", "describe"}
      <4>1. RoundTrip(p) => OnlyMoves(p, "describe") /\ proc[p].pc = "check"
        BY <1>0, StepsMove DEF RoundTrip
      <4>2. /\ OpenPointer(p) => proc[p].pc = "activate" /\ OnlyMoves(p, "pointing")
            /\ ClosePointer(p) => proc[p].pc = "pointing" /\ OnlyMoves(p, "select")
            /\ SelectExisting(p) => /\ proc[p].pc = "select" /\ proc'[p].version = proc[p].version
                                    /\ proc'[p].pc \in {"clear", "flush"}
            /\ StartClearing(p) => /\ proc[p].pc = "clear" /\ proc'[p].version = proc[p].version
                                   /\ proc'[p].pc = "wait"
            /\ EndClearing(p) => proc[p].pc = "wait" /\ OnlyMoves(p, "flush")
            /\ ~RowConflict(p) /\ ~RegistrationFails(p) /\ ~Die(p)
            /\ Gate(p) => /\ proc[p].pc = "gate" /\ proc'[p].pc \in Over
                          /\ proc'[p].version = proc[p].version
        BY <1>0, StepsMove DEF OnlyMoves, Over
      <4> QED
        BY <1>6, <2>3, <4>1, <4>2 DEF ProcessStep, WritesFile, OnlyMoves, Training, Over
    <3>2. Unfinished(p) <=> proc[p].kind # "activation" /\ proc[p].pc # "gate"
      BY <3>1 DEF Unfinished, Training
    <3>3. Unfinished(p)' => Unfinished(p) /\ proc[p].pc # "gate"
      BY <1>1, <3>1 DEF Unfinished, Training, Kept, Over
    <3>4. FilesAgreeWith(p)'
      BY <1>1, <2>1, <3>1, <3>3 DEF FilesAgreeWith, Kept, Training, Over
    <3>5. Unfinished(p) => p \in Live' /\ Unfinished(p)'
      BY <1>1, <3>1, <3>2 DEF Unfinished, Kept, Live
    <3> QED
      BY <1>2, <2>1, <3>1, <3>4, <3>5 DEF Agrees
  <2> QED
    BY <2>2, <2>3
<1> QED
  BY <1>3, <1>4, <1>5, <1>6 DEF WritesFile

LEMMA PointerOfOneAgrees ==
  ASSUME FilesInv, NEW p \in Live, Alone(p), ProcessStep(p), orderly'
  PROVE  /\ (p \in Live' /\ Pointing(p)') \/ \A v \in Version : v \in Active' <=> pointer' = v
         /\ p \in Live' => PointerAgreesWith(p)'
<1>0. RegistryTypeOK /\ ProcessesOK /\ ProcessOK(p)
  BY DEF FilesInv, ProcessesOK, Live
<1>1. /\ p \in DOMAIN proc /\ DOMAIN proc' = DOMAIN proc
      /\ proc'[p].activate = proc[p].activate /\ (CommitRow(p) \/ row' = row)
      /\ PointerAgreesWith(p)
      /\ Pointing(p) \/ \A v \in Version : v \in Active <=> pointer = v
  BY <1>0, RowsMove DEF Alone, Kept
<1>2. CASE CommitRow(p)
  <2> PICK v \in Version : v = proc[p].version
    BY <1>0, <1>2, RowsAreWritten
  <2>1. proc[p].pc = "flush" /\ proc'[p].pc \in {"gate", "done"} /\ pointer' = pointer
    BY <1>0, <1>2, StepsMove DEF Rests, CommitRow, disk
  <2>2. PointerAgreesWith(p)'
    BY <2>1 DEF PointerAgreesWith, InTransaction, Registering, Training
  <2>3. ASSUME NEW w \in Version PROVE w \in Active' <=> pointer' = w
    <3>1. CASE proc[p].activate
      <4>1. pointer = v /\ Active \subseteq proc[p].cleared
        BY <1>1, <2>1, <3>1 DEF PointerAgreesWith, Registering
      <4> QED
        BY <1>0, <1>2, <2>1, <3>1, <4>1, ActiveMoves
    <3>2. CASE ~proc[p].activate
      <4>1. v \notin Registered /\ proc[p].cleared = {} /\ ~Pointing(p)
        BY <1>0, <1>1, <2>1, <3>2 DEF PointerAgreesWith, Training, ProcessOK, Pointing
      <4>2. v \notin Active /\ ~Row(p).active
        BY <1>0, <1>2, <3>2, <4>1, ActiveMoves DEF Active, ProcessOK
      <4> QED
        BY <1>0, <1>1, <1>2, <2>1, <4>1, <4>2, ActiveMoves
    <3> QED
      BY <3>1, <3>2
  <2> QED
    BY <2>2, <2>3
<1>3. CASE ~CommitRow(p)
  <2>1. row' = row /\ Active' = Active /\ Registered' = Registered
    BY <1>1, <1>3 DEF Active, Registered
  <2>2. CASE OpenPointer(p) \/ ClosePointer(p)
    <3>1. /\ proc[p].activate /\ proc'[p].version = proc[p].version
          /\ \/ proc'[p].pc = "pointing"
             \/ proc'[p].pc = "select" /\ pointer' = proc[p].version
      BY <1>0, <2>2, StepsMove DEF ProcessOK, OnlyMoves, ClosePointer
    <3>2. p \in Live' /\ Pointing(p)'
      BY <1>1, <3>1 DEF Live, Over, Pointing, Registering
    <3>3. PointerAgreesWith(p)'
      BY <1>1, <3>1 DEF PointerAgreesWith, InTransaction, Registering
    <3> QED
      BY <3>2, <3>3
  <2>3. CASE Fit(p)
    <3>1. /\ proc[p].pc = "fit" /\ proc'[p].pc = "save" /\ pointer' = pointer
          /\ proc[p].activate \/ proc'[p].version \notin Registered'
      <4>1. proc[p].pc = "fit" /\ proc'[p].pc = "save" /\ pointer' = pointer
            /\ proc'[p].version = IF proc[p].version = None THEN NextVersion ELSE proc[p].version
        BY <1>0, <2>3, StepsMove DEF Fit, disk
      <4>2. proc[p].activate
            \/ row[IF proc[p].version = None THEN NextVersion ELSE proc[p].version] = None
        BY <2>3 DEF Fit
      <4> QED
        BY <2>1, <4>1, <4>2 DEF Registered
    <3>2. PointerAgreesWith(p)'
      BY <1>1, <3>1 DEF PointerAgreesWith, InTransaction, Registering
    <3> QED
      BY <1>1, <2>1, <3>1, <3>2 DEF Pointing, Registering
  <2>4. CASE SelectExisting(p)
    <3>1. /\ proc[p].pc = "select" /\ proc'[p].version = proc[p].version /\ pointer' = pointer
          /\ proc'[p].pc = (IF proc[p].activate THEN "clear" ELSE "flush")
          /\ proc'[p].exists = (row[proc[p].version] # None)
          /\ proc[p].version \in Version
      BY <1>0, <2>4, StepsMove DEF SelectExisting, disk, ProcessOK, Training
    <3>2. PointerAgreesWith(p)'
      BY <1>1, <2>1, <3>1 DEF PointerAgreesWith, Registering, Registered, Training
    <3>3. Pointing(p) => p \in Live' /\ Pointing(p)'
      BY <1>1, <3>1 DEF Pointing, Registering, Live, Over
    <3> QED
      BY <1>1, <2>1, <3>1, <3>2, <3>3
  <2>5. CASE StartClearing(p) \/ EndClearing(p)
    <3>1. /\ proc'[p].version = proc[p].version /\ pointer' = pointer /\ proc[p].activate
          /\ proc[p].pc \in {"clear", "wait"} /\ proc'[p].pc \in {"wait", "flush"}
          /\ proc'[p].exists = proc[p].exists
          /\ \/ proc'[p].cleared = Registered
             \/ proc'[p].cleared = proc[p].cleared /\ proc[p].pc = "wait"
      BY <1>0, <2>5, StepsMove DEF StartClearing, EndClearing, disk, ProcessOK, OnlyMoves
    <3>2. p \in Live' /\ Pointing(p)'
      BY <1>1, <3>1 DEF Pointing, Registering, Live, Over
    <3>3. Active \subseteq proc'[p].cleared
      BY <1>1, <3>1 DEF PointerAgreesWith, Active
    <3>4. proc'[p].exists => proc'[p].version \in Registered'
      BY <1>0, <2>1, <3>1 DEF ProcessOK
    <3>5. pointer' = proc'[p].version
      BY <1>1, <3>1 DEF PointerAgreesWith, Registering
    <3>6. PointerAgreesWith(p)'
      BY <1>1, <2>1, <3>1, <3>3, <3>4, <3>5 DEF PointerAgreesWith
    <3> QED
      BY <3>2, <3>6
  <2>6. CASE ~(OpenPointer(p) \/ ClosePointer(p) \/ Fit(p) \/ SelectExisting(p)
               \/ StartClearing(p) \/ EndClearing(p))
    <3>1. /\ pointer' = pointer /\ proc'[p].version = proc[p].version
          /\ \/ proc[p].pc = "gate" /\ proc'[p].pc \in Over
             \/ /\ proc[p].pc \in Training /\ proc[p].pc \notin {"pointing"} \cup Registering
                /\ \/ proc'[p].pc \in Training /\ proc'[p].pc \notin Registering
                   \/ proc'[p].pc = "select" /\ ~proc[p].activate
      <4>1. pointer' = pointer
        BY <1>3, <2>6 DEF ProcessStep, OpenArtifact, CloseArtifact, RoundTrip, OpenSidecar,
           CloseSidecar, RowConflict, RegistrationFails, Gate, Die, disk
      <4>2. RoundTrip(p) => OnlyMoves(p, "describe") /\ proc[p].pc = "check"
        BY <1>0, StepsMove DEF RoundTrip
      <4>3. /\ OpenArtifact(p) => proc[p].pc = "save" /\ OnlyMoves(p, "saving")
            /\ CloseArtifact(p) => proc[p].pc = "saving" /\ OnlyMoves(p, "check")
            /\ OpenSidecar(p) => proc[p].pc = "describe" /\ OnlyMoves(p, "describing")
            /\ CloseSidecar(p) =>
                 /\ proc[p].pc = "describing"
                 /\ OnlyMoves(p, "activate") \/ (~proc[p].activate /\ OnlyMoves(p, "select"))
            /\ ~RowConflict(p) /\ ~RegistrationFails(p) /\ ~Die(p)
            /\ Gate(p) => /\ proc[p].pc = "gate" /\ proc'[p].pc \in Over
                          /\ proc'[p].version = proc[p].version
        BY <1>0, StepsMove DEF OnlyMoves, Over
      <4> QED
        BY <1>3, <2>6, <4>1, <4>2, <4>3 DEF ProcessStep, OnlyMoves, Training, Registering
    <3>2. ~Pointing(p)
      BY <3>1 DEF Pointing, Registering, Training
    <3>3. PointerAgreesWith(p)'
      BY <1>1, <2>1, <3>1 DEF PointerAgreesWith, InTransaction, Registering, Training, Over
    <3> QED
      BY <1>1, <2>1, <3>1, <3>2, <3>3
  <2> QED
    BY <2>2, <2>3, <2>4, <2>5, <2>6
<1> QED
  BY <1>2, <1>3

LEMMA RestStays ==
  ASSUME FilesInv, FilesInv', RestInv, Next
  PROVE  RestInv'
<1>0. RegistryTypeOK /\ ProcessesOK
  BY DEF FilesInv
<1>1. ASSUME NEW kind \in Kinds, NEW version \in Version \cup {None}, NEW activate \in BOOLEAN,
             Begin(kind, version, activate)
      PROVE  RestInv'
  <2> SUFFICES ASSUME orderly' PROVE RestInv'
    BY DEF RestInv
  <2> PICK n : n = Len(proc) + 1
    OBVIOUS
  <2>1. PICK e \in Process : Begun(kind, version, activate, e)
    BY <1>0, <1>1, ProcessBegins
  <2>2. /\ e.kind = kind /\ e.version = version /\ e.activate = activate
        /\ e.pc = (IF kind = "activation" THEN "activate" ELSE "fit")
        /\ e.by = (IF kind = "activation" THEN sidecar[version].by ELSE n)
        /\ DOMAIN proc' = DOMAIN proc \cup {n} /\ proc'[n] = e
        /\ \A q \in DOMAIN proc : proc'[q] = proc[q]
    BY <2>1 DEF Begun
  <2>3. /\ UNCHANGED <<artifact, sidecar, pointer, row>> /\ orderly /\ Live = {}
        /\ kind = "activation" => version \in Described /\ activate
    BY <1>1 DEF Begin, disk
  <2>4. Live' \subseteq {n}
    BY <2>2, <2>3 DEF Live
  <2>5. /\ \A v \in Version : Agrees(v)
        /\ \A v \in Version : v \in Active <=> pointer = v
    BY <2>3 DEF RestInv, FilesAgree, PointerAgrees
  <2>6. /\ \A v \in Version : Agrees(v)'
        /\ \A v \in Version : v \in Active' <=> pointer' = v
    BY <2>3, <2>5 DEF Agrees, Active, Registered
  <2>7. FilesAgreeWith(n)'
    BY <2>2, <2>3 DEF FilesAgreeWith, Unfinished, Training, Described
  <2>8. PointerAgreesWith(n)'
    BY <2>2, <2>3 DEF PointerAgreesWith, InTransaction, Registering, Training
  <2> QED
    BY <2>4, <2>6, <2>7, <2>8
       DEF RestInv, FilesAgree, PointerAgrees, FilesAgreeWith, PointerAgreesWith
<1>2. ASSUME NEW r \in Reader, RequestStep(r) PROVE RestInv'
  <2>1. UNCHANGED <<artifact, sidecar, pointer, proc, row, orderly>>
    BY <1>2 DEF RequestStep, ReadPointer, Discover, ResolveAgain, Stat, Load, Keep, disk
  <2> QED
    BY <2>1 DEF RestInv, FilesAgree, PointerAgrees, Agrees, Unfinished, Pointing, Live, Active,
       Registered, InTransaction
<1>3. ASSUME NEW p \in Live, ProcessStep(p) PROVE RestInv'
  <2> SUFFICES ASSUME orderly' PROVE RestInv'
    BY DEF RestInv
  <2>1. /\ orderly /\ DOMAIN proc' = DOMAIN proc
        /\ \A q \in DOMAIN proc : q # p => proc'[q] = proc[q]
    BY <1>0, <1>3, RowsMove
  <2>2. Alone(p)
    BY <2>1, OneIsAlone
  <2>3. Live' \subseteq {p}
    BY <1>0, <2>1, <2>2, AloneStaysAlone
  <2>4. /\ \A v \in Version : Agrees(v)' \/ (p \in Live' /\ Unfinished(p)' /\ proc'[p].version = v)
        /\ p \in Live' => FilesAgreeWith(p)'
    BY <1>3, <2>2, FilesOfOneAgree
  <2>5. /\ (p \in Live' /\ Pointing(p)') \/ \A v \in Version : v \in Active' <=> pointer' = v
        /\ p \in Live' => PointerAgreesWith(p)'
    BY <1>3, <2>2, PointerOfOneAgrees
  <2> QED
    BY <2>3, <2>4, <2>5
       DEF RestInv, FilesAgree, PointerAgrees, FilesAgreeWith, PointerAgreesWith
<1> QED
  BY <1>1, <1>2, <1>3, NextIsAStep

-----------------------------------------------------------------------------
(* The theorems *)

LEMMA RegistryStarts == Init => RegistryInv
<1> SUFFICES ASSUME Init PROVE RegistryInv
  OBVIOUS
<1>1. /\ DOMAIN proc = {} /\ proc \in Seq(Process) /\ Live = {}
      /\ InTransaction = {} /\ Described = {} /\ Registered = {} /\ Active = {}
  BY DEF Init, Live, InTransaction, Described, Registered, Active
<1>2. Idle \in Request
  BY DEF Idle, Request
<1>3. RegistryTypeOK
  BY <1>1, <1>2 DEF Init, RegistryTypeOK
<1>4. ProcessesOK /\ FilesHaveWriters /\ OneWriter
  <2>1. None \notin File
    BY RegistryAssumption DEF File
  <2> QED
    BY <1>1, <2>1 DEF Init, ProcessesOK, FilesHaveWriters, OneWriter
<1>5. Bounded
  <2>1. 0 \in Nat /\ \A v \in Version : sidecar[v] # None => v <= 0
    BY DEF Init
  <2> QED
    BY <2>1 DEF Bounded
<1>6. ServingInv
  BY DEF Init, Idle, ServingInv, RequestsFollowFiles, CacheFollowsFiles, ReadyStaysReady, Reading
<1>7. RowsInv
  BY <1>1 DEF RowsInv, PointerComesFirst, OneRegistration
<1>8. RestInv
  <2>1. None \notin Version
    BY RegistryAssumption
  <2> QED
    BY <1>1, <2>1 DEF Init, RestInv, FilesAgree, PointerAgrees, Agrees
<1> QED
  BY <1>3, <1>4, <1>5, <1>6, <1>7, <1>8 DEF RegistryInv, FilesInv

LEMMA RegistryStays == RegistryInv /\ [Next]_vars => RegistryInv'
<1> SUFFICES ASSUME RegistryInv, [Next]_vars PROVE RegistryInv'
  OBVIOUS
<1>1. CASE Next
  <2>1. FilesInv'
    BY <1>1, FilesStay DEF RegistryInv, ServingInv
  <2>2. ServingInv'
    <3>1. CASE \E r \in Reader : RequestStep(r)
      BY <3>1, RequestsKeepServing DEF RegistryInv
    <3>2. CASE ~\E r \in Reader : RequestStep(r)
      <4>1. UNCHANGED <<reader, cache>>
        BY <1>1, <3>2, NextIsAStep DEF ProcessStep, Begin, Fit, OpenArtifact, CloseArtifact,
           RoundTrip, OpenSidecar, CloseSidecar, OpenPointer, ClosePointer, SelectExisting,
           StartClearing, EndClearing, CommitRow, RowConflict, RegistrationFails, Gate, Die, serving
      <4> QED
        BY <1>1, <4>1, ServingStays DEF RegistryInv
    <3> QED
      BY <3>1, <3>2
  <2>3. RowsInv'
    BY <1>1, RowsStay DEF RegistryInv
  <2>4. RestInv'
    BY <1>1, <2>1, RestStays DEF RegistryInv
  <2> QED
    BY <2>1, <2>2, <2>3, <2>4 DEF RegistryInv
<1>2. CASE UNCHANGED vars
  BY <1>2 DEF RegistryInv, FilesInv, RegistryTypeOK, ProcessesOK, ProcessOK, FilesHaveWriters,
     OneWriter, Bounded, ServingInv, RequestsFollowFiles, CacheFollowsFiles, ReadyStaysReady,
     RowsInv, PointerComesFirst, OneRegistration, RestInv, FilesAgree, PointerAgrees, Agrees,
     Unfinished, Pointing, Past, Stamp, Hit, Loadable, Described, Ready, Reading, Live, Active,
     Registered, InTransaction, vars, disk, serving
<1> QED
  BY <1>1, <1>2

\* The invariant of the registry: files and their writers, requests, cache, rows, and what
\* processes that run to their end one at a time leave behind (train_model, load_model,
\* register_model, activate_model).
THEOREM RegistryAlwaysOK == Spec => []RegistryInv
<1>1. Init => RegistryInv
  BY RegistryStarts
<1>2. RegistryInv /\ [Next]_vars => RegistryInv'
  BY RegistryStays
<1> QED
  BY <1>1, <1>2, PTL DEF Spec

\* The estimator the API serves from its cache is the one on disk, and comes with its own
\* record unless the version was retrained, whatever trainings and requests overlap.
THEOREM ServedModelsAreCurrent == Spec => []CacheIsCurrent
<1>1. RegistryInv => CacheIsCurrent
  BY DEF RegistryInv, ServingInv, CacheFollowsFiles, CacheIsCurrent
<1> QED
  BY <1>1, RegistryAlwaysOK, PTL

\* However many trainings of new versions run, a request for a version that was complete
\* when it came is answered.
THEOREM TrainingNeverInterrupts == Spec => []TrainingDoesNotInterrupt
<1>1. RegistryInv => TrainingDoesNotInterrupt
  BY DEF RegistryInv, ServingInv, ReadyStaysReady, TrainingDoesNotInterrupt
<1> QED
  BY <1>1, RegistryAlwaysOK, PTL

\* The database follows the pointer file: it never leads it, has one active version unless
\* registrations overlapped, and agrees with the files at rest.
THEOREM RowsFollowPointer == Spec => []StoresFollowPointer
<1>1. RegistryInv => StoresFollowPointer
  <2> SUFFICES ASSUME RegistryInv PROVE StoresFollowPointer
    OBVIOUS
  <2>1. OneActiveUnlessOverlapped
    <3> SUFFICES ASSUME ~overlapped PROVE Cardinality(Active) <= 1
      BY DEF OneActiveUnlessOverlapped, Active
    <3>1. \A v, w \in Active : v = w
      BY DEF RegistryInv, RowsInv, OneRegistration
    <3>2. CASE Active = {}
      BY <3>2, FS_EmptySet
    <3>3. CASE Active # {}
      <4>1. PICK v \in Active : Active = {v}
        BY <3>1, <3>3
      <4>2. Cardinality({v}) = 1
        BY FS_Singleton, Zenon
      <4> QED
        BY <4>1, <4>2
    <3> QED
      BY <3>2, <3>3
  <2>2. StoresAgreeAtRest
    BY DEF StoresAgreeAtRest, RegistryInv, RestInv, FilesAgree, PointerAgrees, Agrees, Active,
       Registered
  <2>3. DatabaseNeverLeads
    BY DEF DatabaseNeverLeads, RegistryInv, RowsInv, PointerComesFirst, Active
  <2> QED
    BY <2>1, <2>2, <2>3 DEF StoresFollowPointer
<1> QED
  BY <1>1, RegistryAlwaysOK, PTL

=============================================================================
