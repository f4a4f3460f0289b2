------------------------- MODULE SimulationLifecycle -------------------------
(***************************************************************************)
(* The lifecycle of simulation runs as the API process drives it: HTTP     *)
(* handlers (services/api, routers/simulations.py), the process-wide       *)
(* runner and its background task (services/simulator, runner.py), the     *)
(* engine inside it (engine.py), and the simulation_runs row that both     *)
(* sides write.                                                            *)
(*                                                                         *)
(* Everything runs on one event loop, so a step is what happens between    *)
(* two awaits; requests, start-up tasks and tick loops interleave at the   *)
(* awaits.  The database and the transport are external.                   *)
(***************************************************************************)
EXTENDS FiniteSets, Naturals

CONSTANTS
  Run,           \* rows of simulation_runs
  Engine,        \* identities of runner and engine objects; reused once unreachable
  Request,       \* HTTP requests in flight at the same time
  Kafka,         \* the sink publishes to the broker (TRUE) or writes rows (FALSE)
  Duration,      \* runs have a duration_s
  GraceExpires,  \* building an engine may outlast _START_GRACE_S
  MaxFaults,     \* bound: failed database or broker calls, drain timeouts, crashes
  None

ASSUME LifecycleAssumption ==
  /\ Kafka \in BOOLEAN
  /\ Duration \in BOOLEAN
  /\ GraceExpires \in BOOLEAN
  /\ MaxFaults \in Nat
  /\ None \notin Engine \cup Run

Terminal  == {"stopped", "completed", "failed"}
RowState  == {"pending", "running", "paused"} \cup Terminal
RunState  == RowState \cup {"stopping"}
Operation == {"start", "pause", "resume", "stop", "reset"}

VARIABLES
  row,       \* simulation_runs.state of each run
  current,   \* _runner: the process-wide runner
  runners,   \* SimulationRunner: adopted run, _engine, _task, _sink
  engines,   \* SimulationEngine, the start() that builds it and the task that runs it
  requests,  \* the handlers in flight
  last,      \* history: what each run was last asked for, once it was answered
  faults

vars == <<row, current, runners, engines, requests, last, faults>>

NoRunner == [run |-> None, engine |-> None, task |-> None, sink |-> None]

\* start: where runner.start() is; loop: where _supervise and engine.run are.
NoEngine ==
  [runner |-> None, background |-> FALSE, start |-> "none",
   state |-> "pending", hasRow |-> FALSE, stop |-> FALSE,
   loop |-> "none", ending |-> "completed", sink |-> "none"]

\* seen is the state the handler's ORM session loaded for the row.
Idle ==
  [pc |-> "idle", op |-> "start", run |-> None, seen |-> "pending",
   runner |-> None, engine |-> None]

Init ==
  /\ row      = [r \in Run |-> "pending"]
  /\ current  = None
  /\ runners  = [k \in Engine |-> NoRunner]
  /\ engines  = [e \in Engine |-> NoEngine]
  /\ requests = [q \in Request |-> Idle]
  /\ last     = [r \in Run |-> "none"]
  /\ faults   = 0

-----------------------------------------------------------------------------

Live(e)      == engines[e].loop \notin {"none", "done"}
Starting(e)  == engines[e].start \in {"new", "build", "create", "register"}
Busy(e)      == Live(e) \/ Starting(e)
RunOf(e)     == runners[engines[e].runner].run
IsRunning(k) == runners[k].task # None

\* _current_run_id() == run_id
IsCurrent(r) == current # None /\ runners[current].run = r

\* Objects that something still refers to; the others may be reused.
Reachable ==
  LET roots == {current} \cup {requests[q].runner : q \in Request}
                 \cup {engines[e].runner : e \in {x \in Engine : Busy(x)}}
      held  == roots \ {None}
  IN  held \cup {e \in Engine : Busy(e)}
           \cup {requests[q].engine : q \in Request}
           \cup UNION {{runners[k].engine, runners[k].task, runners[k].sink} : k \in held}

Fresh == Engine \ Reachable

Fault ==
  /\ faults < MaxFaults
  /\ faults' = faults + 1

\* A closed Kafka sink has no producer left, and emitting through it raises.
SinkGone(e) == Kafka /\ engines[e].sink = "closed"

At(q, pc, ops) == requests[q].pc = pc /\ requests[q].op \in ops

Goto(q, pc) == requests' = [requests EXCEPT ![q].pc = pc]

\* The handler answers with success, or with an error status.
Answered(q) ==
  /\ last'     = [last EXCEPT ![requests[q].run] = requests[q].op]
  /\ requests' = [requests EXCEPT ![q] = Idle]

Refused(q) == requests' = [requests EXCEPT ![q] = Idle] /\ UNCHANGED last

\* SQLAlchemy writes an attribute only if it differs from what was loaded.
OrmWrite(q, value) ==
  row' = IF requests[q].seen = value THEN row
         ELSE [row EXCEPT ![requests[q].run] = value]

-----------------------------------------------------------------------------
(* Handlers: every one begins by loading the run's row.                     *)

\* Bound: a start is requested only while there is an object to build it from.
ObjectsLeft ==
  Cardinality(Fresh) > Cardinality({q \in Request : At(q, "loaded", {"start"})})

LoadRun(q, op, r) ==
  /\ requests[q].pc = "idle"
  /\ op = "start" => ObjectsLeft
  /\ requests' = [requests EXCEPT ![q] =
                    [Idle EXCEPT !.pc = "loaded", !.op = op, !.run = r, !.seen = row[r]]]
  /\ UNCHANGED <<row, current, runners, engines, last, faults>>

\* 409: another run is live, or there is no engine to pause or resume here.
Conflict(q) ==
  /\ \/ At(q, "loaded", {"start"}) /\ current # None /\ IsRunning(current)
     \/ At(q, "loaded", {"pause", "resume"})
  /\ ~IsCurrent(requests[q].run)
  /\ Refused(q)
  /\ UNCHANGED <<row, current, runners, engines, faults>>

\* start() on the live runner resumes a paused engine and does nothing else.
StartLive(q) ==
  /\ At(q, "loaded", {"start"})
  /\ IsCurrent(requests[q].run)
  /\ IsRunning(current)
  /\ LET e == runners[current].engine
     IN  engines' = [engines EXCEPT ![e].state = IF @ = "paused" THEN "running" ELSE @]
  /\ Answered(q)
  /\ UNCHANGED <<row, current, runners, faults>>

\* The same run again once its task is over: a new engine in the same runner.
StartAgain(q) ==
  /\ At(q, "loaded", {"start"})
  /\ IsCurrent(requests[q].run)
  /\ ~IsRunning(current)
  /\ \E e \in Fresh :
       /\ engines'  = [engines EXCEPT ![e] =
                         [NoEngine EXCEPT !.runner = current, !.start = "build"]]
       /\ requests' = [requests EXCEPT ![q].pc = "starting", ![q].engine = e]
  /\ last' = [last EXCEPT ![requests[q].run] = "none"]
  /\ UNCHANGED <<row, current, runners, faults>>

\* Mutant: no check for a run that is already live.
StartReplacing(q) ==
  /\ At(q, "loaded", {"start"})
  /\ ~IsCurrent(requests[q].run)
  /\ \E k \in Fresh :
       /\ current'  = k
       /\ runners'  = [runners EXCEPT ![k] = [NoRunner EXCEPT !.run = requests[q].run]]
       /\ engines'  = [engines EXCEPT ![k] =
                         [NoEngine EXCEPT !.runner = k, !.background = TRUE, !.start = "new"]]
       /\ requests' = [requests EXCEPT ![q].pc = "commit", ![q].engine = k]
  /\ last' = [last EXCEPT ![requests[q].run] = "none"]
  /\ UNCHANGED <<row, faults>>

\* Another run than the installed one: install a new runner for it.
StartNew(q) ==
  /\ At(q, "loaded", {"start"})
  /\ ~IsCurrent(requests[q].run)
  /\ current # None => ~IsRunning(current)
  /\ \E k \in Fresh :
       /\ current'  = k
       /\ runners'  = [runners EXCEPT ![k] = [NoRunner EXCEPT !.run = requests[q].run]]
       /\ engines'  = [engines EXCEPT ![k] =
                         [NoEngine EXCEPT !.runner = k, !.background = TRUE, !.start = "new"]]
       /\ requests' = [requests EXCEPT ![q].pc = "commit", ![q].engine = k]
  /\ last' = [last EXCEPT ![requests[q].run] = "none"]
  /\ UNCHANGED <<row, faults>>

\* The row goes back to pending, and the start-up task is spawned.
CommitPending(q) ==
  /\ requests[q].pc = "commit"
  /\ OrmWrite(q, "pending")
  /\ engines' = [engines EXCEPT ![requests[q].engine].start = "build"]
  /\ Goto(q, "grace")
  /\ UNCHANGED <<current, runners, last, faults>>

\* The commit fails: the runner it was for stays installed.
CommitRaises(q) ==
  /\ requests[q].pc = "commit"
  /\ Fault
  /\ engines' = [engines EXCEPT ![requests[q].engine].start = "failed"]
  /\ Refused(q)
  /\ UNCHANGED <<row, current, runners>>

Started(q) ==
  /\ requests[q].pc \in {"grace", "starting"}
  /\ engines[requests[q].engine].start = "done"
  /\ Answered(q)
  /\ UNCHANGED <<row, current, runners, engines, faults>>

\* A failed start is reported, and the process runner released, whoever it is by now.
StartFailed(q) ==
  /\ requests[q].pc \in {"grace", "starting"}
  /\ engines[requests[q].engine].start = "failed"
  /\ current' = IF requests[q].pc = "grace" THEN None ELSE current
  /\ Refused(q)
  /\ UNCHANGED <<row, runners, engines, faults>>

\* The grace is over and the engine still being built: answer anyway.
GraceOver(q) ==
  /\ GraceExpires
  /\ requests[q].pc = "grace"
  /\ Starting(requests[q].engine)
  /\ Answered(q)
  /\ UNCHANGED <<row, current, runners, engines, faults>>

\* pause and resume act on the engine at once and then write the row.
PauseOrResume(q) ==
  /\ At(q, "loaded", {"pause", "resume"})
  /\ IsCurrent(requests[q].run)
  /\ LET e    == runners[current].engine
         from == IF requests[q].op = "pause" THEN "running" ELSE "paused"
         to   == IF requests[q].op = "pause" THEN "paused" ELSE "running"
     IN  engines' = IF e # None /\ engines[e].state = from
                    THEN [engines EXCEPT ![e].state = to] ELSE engines
  /\ Goto(q, "write")
  /\ UNCHANGED <<row, current, runners, last, faults>>

\* engine.stop(): a no-op once the run is over, else the engine closes itself out.
StopEngine(q, e) ==
  IF engines[e].state \in Terminal
  THEN requests' = [requests EXCEPT ![q].pc = "drain", ![q].runner = current,
                                    ![q].engine = e]
       /\ UNCHANGED engines
  ELSE requests' = [requests EXCEPT ![q].pc = "trips", ![q].runner = current,
                                    ![q].engine = e]
       /\ engines' = [engines EXCEPT ![e].state = "stopping", ![e].stop = TRUE]

\* stop and reset of the run this process drives.
StopCurrent(q) ==
  /\ At(q, "loaded", {"stop", "reset"})
  /\ IsCurrent(requests[q].run)
  /\ LET e == runners[current].engine
     IN  \/ e = None /\ Goto(q, "release") /\ UNCHANGED engines
         \/ /\ e # None
            /\ requests[q].op = "stop" \/ IsRunning(current)
            /\ StopEngine(q, e)
         \/ /\ e # None
            /\ requests[q].op = "reset" /\ ~IsRunning(current)
            /\ requests' = [requests EXCEPT ![q].pc = "reset", ![q].runner = current]
            /\ UNCHANGED engines
  /\ UNCHANGED <<row, current, runners, last, faults>>

\* stop and reset of a run this process does not drive only mark its row.
StopForeign(q) ==
  /\ At(q, "loaded", {"stop", "reset"})
  /\ ~IsCurrent(requests[q].run)
  /\ Goto(q, "write")
  /\ UNCHANGED <<row, current, runners, engines, last, faults>>

\* _finalise(stopped) inside the handler: pause open trips, flush, close the row.
StopTrips(q) ==
  /\ requests[q].pc = "trips"
  /\ Goto(q, "flush")
  /\ UNCHANGED <<row, current, runners, engines, last, faults>>

StopFlush(q) ==
  /\ requests[q].pc = "flush"
  /\ engines' = [engines EXCEPT ![requests[q].engine].state = "stopped"]
  /\ Goto(q, "finish")
  /\ UNCHANGED <<row, current, runners, last, faults>>

StopFinish(q) ==
  /\ requests[q].pc = "finish"
  /\ row' = IF engines[requests[q].engine].hasRow
            THEN [row EXCEPT ![RunOf(requests[q].engine)] = "stopped"] ELSE row
  /\ Goto(q, "drain")
  /\ UNCHANGED <<current, runners, engines, last, faults>>

\* A database or broker call of pause, resume, stop or reset fails, or the request's
\* time budget runs out while the handler waits: an error status.
HandlerRaises(q) ==
  /\ \/ requests[q].pc \in {"trips", "flush", "finish", "drain", "release", "write"} /\ Fault
     \/ requests[q].pc = "trips" /\ SinkGone(requests[q].engine) /\ UNCHANGED faults
  /\ Refused(q)
  /\ UNCHANGED <<row, current, runners, engines>>

\* _close_sink: whichever sink the runner holds by now.
CloseSink(k) ==
  engines' = IF runners[k].sink = None THEN engines
             ELSE [engines EXCEPT ![runners[k].sink].sink = "closed"]

\* Mutant: the handler does not wait for the task.
NoDrain(q) ==
  /\ requests[q].pc = "drain"
  /\ LET k == requests[q].runner
     IN  /\ CloseSink(k)
         /\ runners' = [runners EXCEPT ![k].task = None, ![k].sink = None]
  /\ Goto(q, IF requests[q].op = "reset" THEN "reset" ELSE "release")
  /\ UNCHANGED <<row, current, last, faults>>

\* runner.stop() waits for the task, then closes the sink if the task did not.
Drain(q) ==
  /\ requests[q].pc = "drain"
  /\ LET k == requests[q].runner
     IN  /\ ~IsRunning(k)
         /\ CloseSink(k)
         /\ runners' = [runners EXCEPT ![k].sink = None]
  /\ Goto(q, IF requests[q].op = "reset" THEN "reset" ELSE "release")
  /\ UNCHANGED <<row, current, last, faults>>

\* Mutant: runner.stop() waits without a limit.
NoTimeout(q) == FALSE /\ At(q, "drain", Operation) /\ UNCHANGED vars

\* The task did not drain within _SHUTDOWN_GRACE_S and is cancelled.
DrainTimeout(q) ==
  /\ requests[q].pc = "drain"
  /\ IsRunning(requests[q].runner)
  /\ engines' = [engines EXCEPT ![runners[requests[q].runner].task].loop = "close"]
  /\ UNCHANGED <<row, current, runners, requests, last, faults>>

\* engine.reset(), which stops an engine that still says it is running.
ResetEngine(q) ==
  /\ requests[q].pc = "reset"
  /\ LET e == runners[requests[q].runner].engine
     IN  IF engines[e].state = "running"
         THEN /\ engines'  = [engines EXCEPT ![e].state = "stopping", ![e].stop = TRUE]
              /\ requests' = [requests EXCEPT ![q].pc = "trips", ![q].engine = e]
         ELSE /\ engines'  = [engines EXCEPT ![e].state = "pending", ![e].stop = FALSE,
                                             ![e].hasRow = FALSE]
              /\ Goto(q, "release")
  /\ UNCHANGED <<row, current, runners, last, faults>>

\* set_runner(None); stop() then looks at the row again, reset() does not.
Release(q) ==
  /\ requests[q].pc = "release"
  /\ current' = None
  /\ \/ requests[q].op = "stop" /\ row[requests[q].run] \in Terminal /\ Answered(q)
     \/ /\ requests[q].op = "stop" /\ row[requests[q].run] \notin Terminal
        /\ requests' = [requests EXCEPT ![q].pc = "write", ![q].seen = row[requests[q].run]]
        /\ UNCHANGED last
     \/ requests[q].op = "reset" /\ Goto(q, "write") /\ UNCHANGED last
  /\ UNCHANGED <<row, runners, engines, faults>>

\* Mutant: the intermediate state of the engine reaches the row.
WrittenStopping ==
  [pause |-> "paused", resume |-> "running", stop |-> "stopping", reset |-> "pending"]

\* _set_state, and the last lines of reset_simulation.
Written == [pause |-> "paused", resume |-> "running", stop |-> "stopped", reset |-> "pending"]

WriteRow(q) ==
  /\ requests[q].pc = "write"
  /\ OrmWrite(q, Written[requests[q].op])
  /\ Answered(q)
  /\ UNCHANGED <<current, runners, engines, faults>>

-----------------------------------------------------------------------------
(* runner.start(): build the engine, adopt the row, register, spawn the task. *)

Build(e) ==
  /\ engines[e].start = "build"
  /\ engines' = [engines EXCEPT ![e].start = "create", ![e].sink = "open"]
  /\ runners' = [runners EXCEPT ![engines[e].runner].engine = e,
                                ![engines[e].runner].sink = e]
  /\ UNCHANGED <<row, current, requests, last, faults>>

CreateRun(e) ==
  /\ engines[e].start = "create"
  /\ row'     = [row EXCEPT ![RunOf(e)] = "running"]
  /\ engines' = [engines EXCEPT ![e].start = "register", ![e].hasRow = TRUE]
  /\ UNCHANGED <<current, runners, requests, last, faults>>

RegisterVehicles(e) ==
  /\ engines[e].start = "register"
  /\ engines' = [engines EXCEPT ![e].start = "done", ![e].state = "running",
                                ![e].loop = "check"]
  /\ runners' = [runners EXCEPT ![engines[e].runner].task = e]
  /\ UNCHANGED <<row, current, requests, last, faults>>

\* A start-up task that fails also clears the process runner (_forget_start); one that
\* runs inside the handler may instead be cancelled with it.
StartRaises(e) ==
  /\ engines[e].start \in {"build", "create", "register"}
  /\ Fault
  /\ engines' = [engines EXCEPT ![e].start = "failed"]
  /\ current' = IF engines[e].background THEN None ELSE current
  /\ UNCHANGED <<row, runners, requests, last>>

-----------------------------------------------------------------------------
(* The background task: _supervise around engine.run().                     *)

\* A paused engine sleeps at the same place.
Tick(e) ==
  /\ engines[e].loop = "check"
  /\ engines[e].state = "running"
  /\ engines' = [engines EXCEPT ![e].loop = "tick"]
  /\ UNCHANGED <<row, current, runners, requests, last, faults>>

LoopEnds(e) ==
  /\ engines[e].loop = "check"
  /\ engines[e].state \notin {"running", "paused"}
  /\ engines' = [engines EXCEPT ![e].loop = "close"]
  /\ UNCHANGED <<row, current, runners, requests, last, faults>>

\* After a tick the duration is looked at first, then the stop flag.
TickEnds(e) ==
  /\ engines[e].loop = "tick"
  /\ ~SinkGone(e)
  /\ \/ Duration /\ engines' = [engines EXCEPT ![e].loop = "trips", ![e].ending = "completed"]
     \/ engines' = [engines EXCEPT ![e].loop = IF engines[e].stop THEN "close" ELSE "check"]
  /\ UNCHANGED <<row, current, runners, requests, last, faults>>

\* _finalise inside the task.
LoopTrips(e) ==
  /\ engines[e].loop = "trips"
  /\ engines' = [engines EXCEPT ![e].loop = "flush"]
  /\ UNCHANGED <<row, current, runners, requests, last, faults>>

LoopFlush(e) ==
  /\ engines[e].loop = "flush"
  /\ engines' = [engines EXCEPT ![e].loop = "finish", ![e].state = engines[e].ending]
  /\ UNCHANGED <<row, current, runners, requests, last, faults>>

LoopFinish(e) ==
  /\ engines[e].loop = "finish"
  /\ row' = IF engines[e].hasRow THEN [row EXCEPT ![RunOf(e)] = engines[e].ending] ELSE row
  /\ engines' = [engines EXCEPT ![e].loop = "close"]
  /\ UNCHANGED <<current, runners, requests, last, faults>>

\* An exception that escapes engine.run() finalises the run as failed; one that
\* escapes that as well ends the task.
LoopRaises(e) ==
  /\ \/ engines[e].loop \in {"tick", "trips", "finish"} /\ Fault
     \/ engines[e].loop \in {"tick", "trips"} /\ SinkGone(e) /\ UNCHANGED faults
  /\ engines' = IF engines[e].loop # "tick" /\ engines[e].ending = "failed"
                THEN [engines EXCEPT ![e].loop = "close"]
                ELSE [engines EXCEPT ![e].loop = "trips", ![e].ending = "failed"]
  /\ UNCHANGED <<row, current, runners, requests, last>>

\* Mutant: no finally clause.
LoopCloseLeakingSink(e) ==
  /\ engines[e].loop = "close"
  /\ engines' = [engines EXCEPT ![e].loop = "done"]
  /\ runners' = [runners EXCEPT ![engines[e].runner].task = IF @ = e THEN None ELSE @]
  /\ UNCHANGED <<row, current, requests, last, faults>>

\* The finally clause: the runner's sink is closed and the task is done; a task
\* that is done is to its runner the same as no task.
LoopClose(e) ==
  /\ engines[e].loop = "close"
  /\ LET k      == engines[e].runner
         closed == [engines EXCEPT ![e].loop = "done"]
     IN  /\ engines' = IF runners[k].sink = None THEN closed
                       ELSE [closed EXCEPT ![runners[k].sink].sink = "closed"]
         /\ runners' = [runners EXCEPT ![k].sink = None,
                                       ![k].task = IF @ = e THEN None ELSE @]
  /\ UNCHANGED <<row, current, requests, last, faults>>

-----------------------------------------------------------------------------

\* The API process dies and is started again: only the rows survive.
Crash ==
  /\ Fault
  /\ current'  = None
  /\ runners'  = [k \in Engine |-> NoRunner]
  /\ engines'  = [e \in Engine |-> NoEngine]
  /\ requests' = [q \in Request |-> Idle]
  /\ UNCHANGED <<row, last>>

Handle(q) ==
  \/ Conflict(q) \/ StartLive(q) \/ StartAgain(q) \/ StartNew(q)
  \/ CommitPending(q) \/ Started(q) \/ StartFailed(q)
  \/ PauseOrResume(q) \/ StopCurrent(q) \/ StopForeign(q)
  \/ StopTrips(q) \/ StopFlush(q) \/ StopFinish(q) \/ Drain(q) \/ ResetEngine(q)
  \/ Release(q) \/ WriteRow(q)

StartUp(e) == Build(e) \/ CreateRun(e) \/ RegisterVehicles(e)

Loop(e) ==
  \/ Tick(e) \/ LoopEnds(e) \/ TickEnds(e)
  \/ LoopTrips(e) \/ LoopFlush(e) \/ LoopFinish(e) \/ LoopClose(e)

Next ==
  \/ \E q \in Request :
       \/ \E op \in Operation, r \in Run : LoadRun(q, op, r)
       \/ Handle(q) \/ GraceOver(q)
       \/ DrainTimeout(q) \/ CommitRaises(q) \/ HandlerRaises(q)
  \/ \E e \in Engine : StartUp(e) \/ StartRaises(e) \/ Loop(e) \/ LoopRaises(e)
  \/ Crash

Spec == Init /\ [][Next]_vars

(***************************************************************************)
(* Fairness: the event loop resumes a coroutine whose await has returned,  *)
(* database and broker calls return, and the drain timeout elapses.        *)
(* Nothing has to fail, and no request ever has to be made.                *)
(***************************************************************************)
Fairness ==
  /\ \A q \in Request : WF_vars(Handle(q)) /\ WF_vars(DrainTimeout(q))
  /\ \A e \in Engine : WF_vars(StartUp(e)) /\ WF_vars(Loop(e) \/ LoopRaises(e))

FairSpec == Spec /\ Fairness

-----------------------------------------------------------------------------
(* Properties                                                               *)

\* Every object is well formed and refers to objects that exist (the slots of
\* SimulationRunner and SimulationEngine, simulation_runs.state).
TypeOK ==
  /\ row \in [Run -> RowState]
  /\ current \in Engine \cup {None}
  /\ runners \in [Engine -> [run: Run \cup {None}, engine: Engine \cup {None},
                             task: Engine \cup {None}, sink: Engine \cup {None}]]
  /\ engines \in [Engine ->
       [runner: Engine \cup {None}, background: BOOLEAN,
        start: {"none", "new", "build", "create", "register", "done", "failed"},
        state: RunState, hasRow: BOOLEAN, stop: BOOLEAN,
        loop: {"none", "check", "tick", "trips", "flush", "finish", "close", "done"},
        ending: Terminal, sink: {"none", "open", "closed"}]]
  /\ requests \in [Request ->
       [pc: {"idle", "loaded", "commit", "grace", "starting", "trips", "flush", "finish",
             "drain", "reset", "release", "write"},
        op: Operation, run: Run \cup {None}, seen: RowState,
        runner: Engine \cup {None}, engine: Engine \cup {None}]]
  /\ last \in [Run -> Operation \cup {"none"}]
  /\ faults \in 0 .. MaxFaults

Quiet == \A q \in Request : requests[q].pc = "idle"

\* "One run at a time": two fleets never write into the same telemetry table.
OneRunAtATime == \A d, e \in Engine : Live(d) /\ Live(e) => d = e

\* An answered stop is final until the run is started again: no engine of the
\* run is alive or on its way, and its row says how it ended.  An answered reset
\* likewise leaves a pending row that nobody writes any more.
AnswersHold ==
  \A r \in Run : last[r] \in {"stop", "reset"} =>
    /\ \A e \in Engine : Busy(e) => RunOf(e) # r
    /\ last[r] = "stop" => row[r] \in Terminal
    /\ last[r] = "reset" => row[r] = "pending"

\* A run's transport is released with the run: no task ends with its sink open.
SinkReleased == \A e \in Engine : engines[e].loop = "done" => engines[e].sink # "open"

\* Every request is answered, however the engine it waits for behaves.
RequestsAnswered == \A q \in Request : requests[q].pc # "idle" ~> requests[q].pc = "idle"

=============================================================================
