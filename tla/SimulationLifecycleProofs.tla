---------------------- MODULE SimulationLifecycleProofs ----------------------
(* What holds of SimulationLifecycle for every value of its constants.       *)
EXTENDS SimulationLifecycle, TLAPS

(***************************************************************************)
(* Type correctness.  A handler writes to the row what belongs to its      *)
(* operation, so the type of the row depends on which operations reach     *)
(* which place of a handler.                                               *)
(***************************************************************************)

\* While it closes an engine out, a handler holds the runner it works on.
Closing == {"trips", "flush", "finish", "drain", "reset"}

HandlerInv ==
  \A q \in Request :
    /\ requests[q].pc # "idle" => requests[q].run \in Run
    /\ requests[q].pc \in Closing => requests[q].runner \in Engine
    /\ requests[q].pc \in Closing \cup {"release"} => requests[q].op \in {"stop", "reset"}
    /\ requests[q].pc = "write" => requests[q].op # "start"

TypeInv == TypeOK /\ HandlerInv

\* The types of the parts of an object or of a handler, by name.
RunnerType ==
  [run: Run \cup {None}, engine: Engine \cup {None},
   task: Engine \cup {None}, sink: Engine \cup {None}]

EngineType ==
  [runner: Engine \cup {None}, background: BOOLEAN,
   start: {"none", "new", "build", "create", "register", "done", "failed"},
   state: RunState, hasRow: BOOLEAN, stop: BOOLEAN,
   loop: {"none", "check", "tick", "trips", "flush", "finish", "close", "done"},
   ending: Terminal, sink: {"none", "open", "closed"}]

RequestType ==
  [pc: {"idle", "loaded", "commit", "grace", "starting", "trips", "flush", "finish",
        "drain", "reset", "release", "write"},
   op: Operation, run: Run \cup {None}, seen: RowState,
   runner: Engine \cup {None}, engine: Engine \cup {None}]

\* Every process starts out well formed (simulations.py, runner.py, engine.py).
LEMMA InitTyped == Init => TypeInv
  BY LifecycleAssumption
  DEF Init, TypeInv, TypeOK, HandlerInv, Closing, NoRunner, NoEngine, Idle, Terminal,
      RowState, RunState, Operation

\* Answering a request, either way, leaves a well-formed idle slot.
LEMMA AnswerTyped ==
  ASSUME TypeInv, NEW q \in Request, Answered(q) \/ Refused(q)
  PROVE  /\ requests' \in [Request -> RequestType]
         /\ HandlerInv'
         /\ last' \in [Run -> Operation \cup {"none"}]
<1>1. Idle \in RequestType /\ Idle.pc = "idle"
  BY DEF Idle, RequestType, Operation, RowState, Terminal
<1>2. requests' = [requests EXCEPT ![q] = Idle]
  BY DEF Answered, Refused
<1>3. requests \in [Request -> RequestType]
  BY DEF TypeInv, TypeOK, RequestType
<1>4. requests' \in [Request -> RequestType]
  BY <1>1, <1>2, <1>3
<1>5. HandlerInv'
  BY <1>1, <1>2, <1>3 DEF TypeInv, HandlerInv, Closing
<1>6. last' \in [Run -> Operation \cup {"none"}]
  <2>1. last \in [Run -> Operation \cup {"none"}] /\ requests[q].op \in Operation
    BY <1>3 DEF TypeInv, TypeOK, RequestType
  <2> QED BY <2>1 DEF Answered, Refused
<1> QED BY <1>4, <1>5, <1>6

\* What TypeInv says, with the types by name.
LEMMA Parts ==
  TypeInv <=> /\ row \in [Run -> RowState]
              /\ current \in Engine \cup {None}
              /\ runners \in [Engine -> RunnerType]
              /\ engines \in [Engine -> EngineType]
              /\ requests \in [Request -> RequestType]
              /\ HandlerInv
              /\ last \in [Run -> Operation \cup {"none"}]
              /\ faults \in 0 .. MaxFaults
  BY DEF TypeInv, TypeOK, RunnerType, EngineType, RequestType

\* The same of the next state.
LEMMA PartsNext ==
  ASSUME row' \in [Run -> RowState],
         current' \in Engine \cup {None},
         runners' \in [Engine -> RunnerType],
         engines' \in [Engine -> EngineType],
         requests' \in [Request -> RequestType],
         HandlerInv',
         last' \in [Run -> Operation \cup {"none"}],
         faults' \in 0 .. MaxFaults
  PROVE  TypeInv'
  BY DEF TypeInv, TypeOK, RunnerType, EngineType, RequestType

\* A step that leaves the handlers alone leaves what they hold alone.
LEMMA HandlersUnchanged == HandlerInv /\ UNCHANGED requests => HandlerInv'
  BY DEF HandlerInv

\* The states an engine and a row can be in.
LEMMA States ==
  /\ Terminal \subseteq RowState /\ RowState \subseteq RunState
  /\ {"stopped", "completed", "failed"} \subseteq Terminal
  /\ {"pending", "running", "paused", "stopped"} \subseteq RowState
  /\ {"pending", "running", "paused", "stopping", "stopped"} \subseteq RunState
  BY DEF Terminal, RowState, RunState

\* Counting a fault keeps the count within its bound.
LEMMA FaultTyped ==
  ASSUME faults \in 0 .. MaxFaults, Fault \/ UNCHANGED faults
  PROVE  faults' \in 0 .. MaxFaults
  BY LifecycleAssumption DEF Fault

\* A handler that moves on to a place where it needs nothing more stays well formed.
LEMMA GotoTyped ==
  ASSUME TypeInv, NEW q \in Request, NEW pc,
         pc \in {"grace", "flush", "finish", "drain", "reset", "release", "write"},
         requests[q].pc # "idle", Goto(q, pc),
         pc \in Closing => requests[q].pc \in Closing,
         pc \in {"release", "write"} => requests[q].op # "start",
         pc = "release" => requests[q].op \in {"stop", "reset"}
  PROVE  requests' \in [Request -> RequestType] /\ HandlerInv'
<1>1. requests \in [Request -> RequestType] /\ HandlerInv
  BY Parts
<1>2. pc \in {"idle", "loaded", "commit", "grace", "starting", "trips", "flush", "finish",
              "drain", "reset", "release", "write"}
  OBVIOUS
<1>3. requests' \in [Request -> RequestType]
  BY <1>1, <1>2 DEF Goto, RequestType
<1>4. HandlerInv'
  BY <1>1 DEF Goto, HandlerInv, Closing, RequestType
<1> QED BY <1>3, <1>4

\* An ORM write keeps the row a run state.
LEMMA OrmTyped ==
  ASSUME TypeInv, NEW q \in Request, NEW value \in RowState, OrmWrite(q, value)
  PROVE  row' \in [Run -> RowState]
  BY Parts DEF OrmWrite

\* Every step of a handler keeps everything well formed (simulations.py, runner.py).
LEMMA HandleTyped ==
  ASSUME TypeInv, NEW q \in Request,
         Handle(q) \/ GraceOver(q) \/ DrainTimeout(q) \/ CommitRaises(q) \/ HandlerRaises(q)
  PROVE  TypeInv'
<1>0. /\ row \in [Run -> RowState]
      /\ current \in Engine \cup {None}
      /\ runners \in [Engine -> RunnerType]
      /\ engines \in [Engine -> EngineType]
      /\ requests \in [Request -> RequestType]
      /\ HandlerInv
      /\ last \in [Run -> Operation \cup {"none"}]
      /\ faults \in 0 .. MaxFaults
  BY Parts
<1>1. CASE Conflict(q)
  <2>1. /\ requests' \in [Request -> RequestType] /\ HandlerInv'
        /\ last' \in [Run -> Operation \cup {"none"}]
    BY <1>1, AnswerTyped DEF Conflict
  <2> QED BY <1>0, <1>1, <2>1, PartsNext DEF Conflict
<1>2. CASE StartLive(q)
  <2>1. /\ requests' \in [Request -> RequestType] /\ HandlerInv'
        /\ last' \in [Run -> Operation \cup {"none"}]
    BY <1>2, AnswerTyped DEF StartLive
  <2>2. engines' \in [Engine -> EngineType]
    <3>1. ASSUME NEW x \in Engine
          PROVE  [engines[x] EXCEPT !.state = IF @ = "paused" THEN "running" ELSE @] \in EngineType
      BY <1>0, States DEF EngineType
    <3> QED BY <1>0, <1>2, <3>1 DEF StartLive
  <2> QED BY <1>0, <1>2, <2>1, <2>2, PartsNext DEF StartLive
<1>3. CASE StartAgain(q)
  <2>1. PICK e \in Fresh :
          /\ engines' = [engines EXCEPT ![e] =
                           [NoEngine EXCEPT !.runner = current, !.start = "build"]]
          /\ requests' = [requests EXCEPT ![q].pc = "starting", ![q].engine = e]
    BY <1>3 DEF StartAgain
  <2>2. e \in Engine
    BY DEF Fresh
  <2>3. engines' \in [Engine -> EngineType]
    BY <1>0, <2>1, <2>2 DEF EngineType, NoEngine, RunState, RowState, Terminal
  <2>4. requests' \in [Request -> RequestType]
    <3>1. [requests[q] EXCEPT !.pc = "starting", !.engine = e] \in RequestType
      BY <1>0, <2>2 DEF RequestType
    <3> QED BY <1>0, <2>1, <3>1
  <2>5. HandlerInv'
    BY <1>0, <1>3, <2>1 DEF StartAgain, At, HandlerInv, Closing, RequestType
  <2>6. last' \in [Run -> Operation \cup {"none"}]
    BY <1>0, <1>3 DEF StartAgain
  <2> QED BY <1>0, <1>3, <2>3, <2>4, <2>5, <2>6, PartsNext DEF StartAgain
<1>4. CASE StartNew(q)
  <2>1. PICK k \in Fresh :
          /\ current'  = k
          /\ runners'  = [runners EXCEPT ![k] = [NoRunner EXCEPT !.run = requests[q].run]]
          /\ engines'  = [engines EXCEPT ![k] =
                            [NoEngine EXCEPT !.runner = k, !.background = TRUE,
                                             !.start = "new"]]
          /\ requests' = [requests EXCEPT ![q].pc = "commit", ![q].engine = k]
    BY <1>4 DEF StartNew
  <2>2. k \in Engine
    BY DEF Fresh
  <2>3. engines' \in [Engine -> EngineType]
    BY <1>0, <2>1, <2>2 DEF EngineType, NoEngine, RunState, RowState, Terminal
  <2>4. runners' \in [Engine -> RunnerType]
    BY <1>0, <2>1, <2>2 DEF RunnerType, NoRunner, RequestType
  <2>5. requests' \in [Request -> RequestType]
    <3>1. [requests[q] EXCEPT !.pc = "commit", !.engine = k] \in RequestType
      BY <1>0, <2>2 DEF RequestType
    <3> QED BY <1>0, <2>1, <3>1
  <2>6. HandlerInv'
    BY <1>0, <1>4, <2>1 DEF StartNew, At, HandlerInv, Closing, RequestType
  <2>7. last' \in [Run -> Operation \cup {"none"}]
    BY <1>0, <1>4 DEF StartNew
  <2> QED BY <1>0, <1>4, <2>1, <2>2, <2>3, <2>4, <2>5, <2>6, <2>7, PartsNext DEF StartNew
<1>5. CASE CommitPending(q)
  <2>1. row' \in [Run -> RowState]
    BY <1>5, OrmTyped DEF CommitPending, RowState
  <2>2. requests' \in [Request -> RequestType] /\ HandlerInv'
    BY <1>0, <1>5, GotoTyped DEF CommitPending, HandlerInv, Closing
  <2>3. engines' \in [Engine -> EngineType]
    <3>1. ASSUME NEW x \in Engine PROVE [engines[x] EXCEPT !.start = "build"] \in EngineType
      BY <1>0 DEF EngineType
    <3> QED BY <1>0, <1>5, <3>1 DEF CommitPending
  <2> QED BY <1>0, <1>5, <2>1, <2>2, <2>3, PartsNext DEF CommitPending
<1>6. CASE CommitRaises(q)
  <2>1. /\ requests' \in [Request -> RequestType] /\ HandlerInv'
        /\ last' \in [Run -> Operation \cup {"none"}]
    BY <1>6, AnswerTyped DEF CommitRaises
  <2>2. engines' \in [Engine -> EngineType]
    <3>1. ASSUME NEW x \in Engine
          PROVE  [engines[x] EXCEPT !.start = "failed"] \in EngineType
      BY <1>0 DEF EngineType
    <3> QED BY <1>0, <1>6, <3>1 DEF CommitRaises
  <2>3. faults' \in 0 .. MaxFaults
    BY <1>0, <1>6, FaultTyped DEF CommitRaises
  <2> QED BY <1>0, <1>6, <2>1, <2>2, <2>3, PartsNext DEF CommitRaises
<1>7. CASE Started(q)
  <2>1. /\ requests' \in [Request -> RequestType] /\ HandlerInv'
        /\ last' \in [Run -> Operation \cup {"none"}]
    BY <1>7, AnswerTyped DEF Started
  <2> QED BY <1>0, <1>7, <2>1, PartsNext DEF Started
<1>8. CASE StartFailed(q)
  <2>1. /\ requests' \in [Request -> RequestType] /\ HandlerInv'
        /\ last' \in [Run -> Operation \cup {"none"}]
    BY <1>8, AnswerTyped DEF StartFailed
  <2> QED BY <1>0, <1>8, <2>1, PartsNext DEF StartFailed
<1>9. CASE GraceOver(q)
  <2>1. /\ requests' \in [Request -> RequestType] /\ HandlerInv'
        /\ last' \in [Run -> Operation \cup {"none"}]
    BY <1>9, AnswerTyped DEF GraceOver
  <2> QED BY <1>0, <1>9, <2>1, PartsNext DEF GraceOver
<1>10. CASE PauseOrResume(q)
  <2>1. requests' \in [Request -> RequestType] /\ HandlerInv'
    BY <1>0, <1>10, GotoTyped DEF PauseOrResume, HandlerInv, Closing, At
  <2>2. engines' \in [Engine -> EngineType]
    <3>1. ASSUME NEW x \in Engine
          PROVE  [engines[x] EXCEPT !.state = "paused"] \in EngineType
      BY <1>0, States DEF EngineType
    <3>2. ASSUME NEW x \in Engine
          PROVE  [engines[x] EXCEPT !.state = "running"] \in EngineType
      BY <1>0, States DEF EngineType
    <3> QED BY <1>0, <1>10, <3>1, <3>2 DEF PauseOrResume
  <2> QED BY <1>0, <1>10, <2>1, <2>2, PartsNext DEF PauseOrResume
<1>11. CASE StopCurrent(q)
  <2>1. PICK e : e = runners[current].engine
    OBVIOUS
  <2>2. current \in Engine /\ e \in Engine \cup {None} /\ requests[q].run \in Run
    BY <1>0, <1>11, <2>1 DEF StopCurrent, IsCurrent, At, HandlerInv, RunnerType
  <2>3. requests[q].pc = "loaded" /\ requests[q].op \in {"stop", "reset"}
    BY <1>11 DEF StopCurrent, At
  <2>4. CASE Goto(q, "release") /\ UNCHANGED engines
    <3>1. requests' \in [Request -> RequestType] /\ HandlerInv'
      BY <1>0, <2>3, <2>4, GotoTyped DEF HandlerInv, Closing
    <3> QED BY <1>0, <1>11, <2>4, <3>1, PartsNext DEF StopCurrent
  <2>5. CASE StopEngine(q, e)
    <3>1. requests' \in [Request -> RequestType]
      BY <1>0, <2>2, <2>5 DEF StopEngine, RequestType
    <3>2. HandlerInv'
      BY <1>0, <2>2, <2>3, <2>5 DEF StopEngine, HandlerInv, Closing, RequestType
    <3>3. engines' \in [Engine -> EngineType]
      BY <1>0, <2>5 DEF StopEngine, EngineType, RunState
    <3> QED BY <1>0, <1>11, <3>1, <3>2, <3>3, PartsNext DEF StopCurrent
  <2>6. CASE /\ requests' = [requests EXCEPT ![q].pc = "reset", ![q].runner = current]
             /\ UNCHANGED engines
    <3>1. requests' \in [Request -> RequestType]
      <4>1. [requests[q] EXCEPT !.pc = "reset", !.runner = current] \in RequestType
        BY <1>0, <2>2 DEF RequestType
      <4> QED BY <1>0, <2>6, <4>1
    <3>2. HandlerInv'
      BY <1>0, <2>2, <2>3, <2>6 DEF HandlerInv, Closing, RequestType
    <3> QED BY <1>0, <1>11, <2>6, <3>1, <3>2, PartsNext DEF StopCurrent
  <2> QED BY <1>11, <2>1, <2>4, <2>5, <2>6 DEF StopCurrent
<1>12. CASE StopForeign(q)
  <2>1. requests' \in [Request -> RequestType] /\ HandlerInv'
    BY <1>0, <1>12, GotoTyped DEF StopForeign, HandlerInv, Closing, At
  <2> QED BY <1>0, <1>12, <2>1, PartsNext DEF StopForeign
<1>13. CASE StopTrips(q)
  <2>1. requests' \in [Request -> RequestType] /\ HandlerInv'
    BY <1>0, <1>13, GotoTyped DEF StopTrips, HandlerInv, Closing
  <2> QED BY <1>0, <1>13, <2>1, PartsNext DEF StopTrips
<1>14. CASE StopFlush(q)
  <2>1. requests' \in [Request -> RequestType] /\ HandlerInv'
    BY <1>0, <1>14, GotoTyped DEF StopFlush, HandlerInv, Closing
  <2>2. engines' \in [Engine -> EngineType]
    <3>1. ASSUME NEW x \in Engine
          PROVE  [engines[x] EXCEPT !.state = "stopped"] \in EngineType
      BY <1>0, States DEF EngineType
    <3> QED BY <1>0, <1>14, <3>1 DEF StopFlush
  <2> QED BY <1>0, <1>14, <2>1, <2>2, PartsNext DEF StopFlush
<1>15. CASE StopFinish(q)
  <2>1. requests' \in [Request -> RequestType] /\ HandlerInv'
    BY <1>0, <1>15, GotoTyped DEF StopFinish, HandlerInv, Closing
  <2>2. row' \in [Run -> RowState]
    BY <1>0, <1>15 DEF StopFinish, RowState, Terminal
  <2> QED BY <1>0, <1>15, <2>1, <2>2, PartsNext DEF StopFinish
<1>16. CASE HandlerRaises(q)
  <2>1. /\ requests' \in [Request -> RequestType] /\ HandlerInv'
        /\ last' \in [Run -> Operation \cup {"none"}]
    BY <1>16, AnswerTyped DEF HandlerRaises
  <2>2. faults' \in 0 .. MaxFaults
    BY <1>0, <1>16, FaultTyped DEF HandlerRaises
  <2> QED BY <1>0, <1>16, <2>1, <2>2, PartsNext DEF HandlerRaises
<1>17. CASE Drain(q)
  <2>1. requests' \in [Request -> RequestType] /\ HandlerInv'
    BY <1>0, <1>17, GotoTyped DEF Drain, HandlerInv, Closing
  <2>2. engines' \in [Engine -> EngineType]
    <3>1. ASSUME NEW x \in Engine PROVE [engines[x] EXCEPT !.sink = "closed"] \in EngineType
      BY <1>0 DEF EngineType
    <3> QED BY <1>0, <1>17, <3>1 DEF Drain, CloseSink
  <2>3. runners' \in [Engine -> RunnerType]
    <3>1. ASSUME NEW x \in Engine PROVE [runners[x] EXCEPT !.sink = None] \in RunnerType
      BY <1>0 DEF RunnerType
    <3> QED BY <1>0, <1>17, <3>1 DEF Drain
  <2> QED BY <1>0, <1>17, <2>1, <2>2, <2>3, PartsNext DEF Drain
<1>18. CASE DrainTimeout(q)
  <2>1. engines' \in [Engine -> EngineType]
    <3>1. ASSUME NEW x \in Engine PROVE [engines[x] EXCEPT !.loop = "close"] \in EngineType
      BY <1>0 DEF EngineType
    <3> QED BY <1>0, <1>18, <3>1 DEF DrainTimeout
  <2> QED BY <1>0, <1>18, <2>1, HandlersUnchanged, PartsNext DEF DrainTimeout
<1>19. CASE ResetEngine(q)
  <2>1. PICK e : e = runners[requests[q].runner].engine
    OBVIOUS
  <2>2. requests[q].runner \in Engine /\ e \in Engine \cup {None}
    BY <1>0, <1>19, <2>1 DEF ResetEngine, HandlerInv, Closing, RunnerType
  <2>3. requests[q].pc = "reset" /\ requests[q].op \in {"stop", "reset"}
        /\ requests[q].run \in Run
    BY <1>0, <1>19 DEF ResetEngine, HandlerInv, Closing
  <2>4. CASE engines[e].state = "running"
    <3>1. /\ engines'  = [engines EXCEPT ![e].state = "stopping", ![e].stop = TRUE]
          /\ requests' = [requests EXCEPT ![q].pc = "trips", ![q].engine = e]
      BY <1>19, <2>1, <2>4 DEF ResetEngine
    <3>2. requests' \in [Request -> RequestType]
      <4>1. [requests[q] EXCEPT !.pc = "trips", !.engine = e] \in RequestType
        BY <1>0, <2>2 DEF RequestType
      <4> QED BY <1>0, <3>1, <4>1
    <3>3. HandlerInv'
      BY <1>0, <2>2, <2>3, <3>1 DEF HandlerInv, Closing, RequestType
    <3>4. engines' \in [Engine -> EngineType]
      <4>1. ASSUME NEW x \in Engine
            PROVE  [engines[x] EXCEPT !.state = "stopping", !.stop = TRUE] \in EngineType
        BY <1>0, States DEF EngineType
      <4> QED BY <1>0, <3>1, <4>1
    <3> QED BY <1>0, <1>19, <3>2, <3>3, <3>4, PartsNext DEF ResetEngine
  <2>5. CASE engines[e].state # "running"
    <3>1. /\ engines' = [engines EXCEPT ![e].state = "pending", ![e].stop = FALSE,
                                        ![e].hasRow = FALSE]
          /\ Goto(q, "release")
      BY <1>19, <2>1, <2>5 DEF ResetEngine
    <3>2. requests' \in [Request -> RequestType] /\ HandlerInv'
      BY <1>0, <2>3, <3>1, GotoTyped DEF Closing
    <3>3. engines' \in [Engine -> EngineType]
      <4>1. ASSUME NEW x \in Engine
            PROVE  [engines[x] EXCEPT !.state = "pending", !.stop = FALSE,
                                      !.hasRow = FALSE] \in EngineType
        BY <1>0, States DEF EngineType
      <4> QED BY <1>0, <3>1, <4>1
    <3> QED BY <1>0, <1>19, <3>2, <3>3, PartsNext DEF ResetEngine
  <2> QED BY <2>4, <2>5
<1>20. CASE Release(q)
  <2>1. requests[q].op \in {"stop", "reset"} /\ requests[q].run \in Run
        /\ requests[q].pc = "release"
    BY <1>0, <1>20 DEF Release, HandlerInv, Closing
  <2>2. CASE Answered(q)
    <3>1. /\ requests' \in [Request -> RequestType] /\ HandlerInv'
          /\ last' \in [Run -> Operation \cup {"none"}]
      BY <2>2, AnswerTyped
    <3> QED BY <1>0, <1>20, <3>1, PartsNext DEF Release
  <2>3. CASE /\ requests' = [requests EXCEPT ![q].pc = "write",
                                             ![q].seen = row[requests[q].run]]
             /\ UNCHANGED last
    <3>1. requests' \in [Request -> RequestType]
      <4>1. [requests[q] EXCEPT !.pc = "write", !.seen = row[requests[q].run]]
              \in RequestType
        BY <1>0, <2>1 DEF RequestType
      <4> QED BY <1>0, <2>3, <4>1
    <3>2. HandlerInv'
      BY <1>0, <2>1, <2>3 DEF HandlerInv, Closing, RequestType
    <3> QED BY <1>0, <1>20, <2>3, <3>1, <3>2, PartsNext DEF Release
  <2>4. CASE Goto(q, "write") /\ UNCHANGED last
    <3>1. requests' \in [Request -> RequestType] /\ HandlerInv'
      BY <1>0, <2>1, <2>4, GotoTyped DEF Closing
    <3> QED BY <1>0, <1>20, <2>4, <3>1, PartsNext DEF Release
  <2> QED BY <1>20, <2>2, <2>3, <2>4 DEF Release
<1>21. CASE WriteRow(q)
  <2>1. /\ requests' \in [Request -> RequestType] /\ HandlerInv'
        /\ last' \in [Run -> Operation \cup {"none"}]
    BY <1>21, AnswerTyped DEF WriteRow
  <2>2. requests[q].op \in Operation \ {"start"}
    BY <1>0, <1>21 DEF WriteRow, HandlerInv, RequestType
  <2>3. Written[requests[q].op] \in RowState
    BY <2>2 DEF Written, Operation, RowState, Terminal
  <2>4. row' \in [Run -> RowState]
    BY <1>21, <2>3, OrmTyped DEF WriteRow
  <2> QED BY <1>0, <1>21, <2>1, <2>4, PartsNext DEF WriteRow
<1> QED BY <1>1, <1>2, <1>3, <1>4, <1>5, <1>6, <1>7, <1>8, <1>9, <1>10, <1>11, <1>12,
           <1>13, <1>14, <1>15, <1>16, <1>17, <1>18, <1>19, <1>20, <1>21 DEF Handle

\* Starting up and the background task keep everything well formed (runner.py, engine.py).
LEMMA EngineTyped ==
  ASSUME TypeInv, NEW e \in Engine,
         StartUp(e) \/ StartRaises(e) \/ Loop(e) \/ LoopRaises(e)
  PROVE  TypeInv'
<1>0. /\ row \in [Run -> RowState]
      /\ current \in Engine \cup {None}
      /\ runners \in [Engine -> RunnerType]
      /\ engines \in [Engine -> EngineType]
      /\ requests \in [Request -> RequestType]
      /\ HandlerInv
      /\ last \in [Run -> Operation \cup {"none"}]
      /\ faults \in 0 .. MaxFaults
  BY Parts
<1>e. engines[e].ending \in Terminal
  BY <1>0 DEF EngineType
<1>1. CASE Build(e)
  <2>1. engines' \in [Engine -> EngineType]
    <3>1. ASSUME NEW x \in Engine
          PROVE  [engines[x] EXCEPT !.start = "create", !.sink = "open"] \in EngineType
      BY <1>0 DEF EngineType
    <3> QED BY <1>0, <1>1, <3>1 DEF Build
  <2>2. runners' \in [Engine -> RunnerType]
    <3>1. ASSUME NEW x \in Engine
          PROVE  [runners[x] EXCEPT !.engine = e, !.sink = e] \in RunnerType
      BY <1>0 DEF RunnerType
    <3> QED BY <1>0, <1>1, <3>1 DEF Build
  <2> QED BY <1>0, <1>1, <2>1, <2>2, HandlersUnchanged, PartsNext DEF Build
<1>2. CASE CreateRun(e)
  <2>1. engines' \in [Engine -> EngineType]
    <3>1. ASSUME NEW x \in Engine
          PROVE  [engines[x] EXCEPT !.start = "register", !.hasRow = TRUE] \in EngineType
      BY <1>0 DEF EngineType
    <3> QED BY <1>0, <1>2, <3>1 DEF CreateRun
  <2>3. row' \in [Run -> RowState]
    BY <1>0, <1>2 DEF CreateRun, RowState, Terminal, EngineType
  <2> QED BY <1>0, <1>2, <2>1, <2>3, HandlersUnchanged, PartsNext DEF CreateRun
<1>3. CASE RegisterVehicles(e)
  <2>1. engines' \in [Engine -> EngineType]
    <3>1. ASSUME NEW x \in Engine
          PROVE  [engines[x] EXCEPT !.start = "done", !.state = "running",
                                    !.loop = "check"] \in EngineType
      BY <1>0, States DEF EngineType
    <3> QED BY <1>0, <1>3, <3>1 DEF RegisterVehicles
  <2>2. runners' \in [Engine -> RunnerType]
    <3>1. ASSUME NEW x \in Engine PROVE [runners[x] EXCEPT !.task = e] \in RunnerType
      BY <1>0 DEF RunnerType
    <3> QED BY <1>0, <1>3, <3>1 DEF RegisterVehicles
  <2> QED BY <1>0, <1>3, <2>1, <2>2, HandlersUnchanged, PartsNext DEF RegisterVehicles
<1>4. CASE StartRaises(e)
  <2>1. engines' \in [Engine -> EngineType]
    <3>1. ASSUME NEW x \in Engine
          PROVE  [engines[x] EXCEPT !.start = "failed"] \in EngineType
      BY <1>0 DEF EngineType
    <3> QED BY <1>0, <1>4, <3>1 DEF StartRaises
  <2>4. faults' \in 0 .. MaxFaults
    BY <1>0, <1>4, FaultTyped DEF StartRaises
  <2> QED BY <1>0, <1>4, <2>1, <2>4, HandlersUnchanged, PartsNext DEF StartRaises
<1>5. CASE Tick(e)
  <2>1. engines' \in [Engine -> EngineType]
    <3>1. ASSUME NEW x \in Engine PROVE [engines[x] EXCEPT !.loop = "tick"] \in EngineType
      BY <1>0 DEF EngineType
    <3> QED BY <1>0, <1>5, <3>1 DEF Tick
  <2> QED BY <1>0, <1>5, <2>1, HandlersUnchanged, PartsNext DEF Tick
<1>6. CASE LoopEnds(e)
  <2>1. engines' \in [Engine -> EngineType]
    <3>1. ASSUME NEW x \in Engine PROVE [engines[x] EXCEPT !.loop = "close"] \in EngineType
      BY <1>0 DEF EngineType
    <3> QED BY <1>0, <1>6, <3>1 DEF LoopEnds
  <2> QED BY <1>0, <1>6, <2>1, HandlersUnchanged, PartsNext DEF LoopEnds
<1>7. CASE TickEnds(e)
  <2>1. engines' \in [Engine -> EngineType]
    <3>1. ASSUME NEW x \in Engine
          PROVE  [engines[x] EXCEPT !.loop = "trips", !.ending = "completed"] \in EngineType
      BY <1>0, States DEF EngineType
    <3>2. ASSUME NEW x \in Engine
          PROVE  [engines[x] EXCEPT !.loop = IF engines[e].stop THEN "close" ELSE "check"] \in EngineType
      BY <1>0, States DEF EngineType
    <3> QED BY <1>0, <1>7, <3>1, <3>2 DEF TickEnds
  <2> QED BY <1>0, <1>7, <2>1, HandlersUnchanged, PartsNext DEF TickEnds
<1>8. CASE LoopTrips(e)
  <2>1. engines' \in [Engine -> EngineType]
    <3>1. ASSUME NEW x \in Engine PROVE [engines[x] EXCEPT !.loop = "flush"] \in EngineType
      BY <1>0 DEF EngineType
    <3> QED BY <1>0, <1>8, <3>1 DEF LoopTrips
  <2> QED BY <1>0, <1>8, <2>1, HandlersUnchanged, PartsNext DEF LoopTrips
<1>9. CASE LoopFlush(e)
  <2>1. engines' \in [Engine -> EngineType]
    <3>1. ASSUME NEW x \in Engine
          PROVE  [engines[x] EXCEPT !.loop = "finish",
                                    !.state = engines[e].ending] \in EngineType
      BY <1>0, <1>e, States DEF EngineType
    <3> QED BY <1>0, <1>9, <3>1 DEF LoopFlush
  <2> QED BY <1>0, <1>9, <2>1, HandlersUnchanged, PartsNext DEF LoopFlush
<1>10. CASE LoopFinish(e)
  <2>1. engines' \in [Engine -> EngineType]
    <3>1. ASSUME NEW x \in Engine PROVE [engines[x] EXCEPT !.loop = "close"] \in EngineType
      BY <1>0 DEF EngineType
    <3> QED BY <1>0, <1>10, <3>1 DEF LoopFinish
  <2>3. row' \in [Run -> RowState]
    BY <1>0, <1>10 DEF LoopFinish, RowState, Terminal, EngineType
  <2> QED BY <1>0, <1>10, <2>1, <2>3, HandlersUnchanged, PartsNext DEF LoopFinish
<1>11. CASE LoopRaises(e)
  <2>1. engines' \in [Engine -> EngineType]
    <3>1. ASSUME NEW x \in Engine PROVE [engines[x] EXCEPT !.loop = "close"] \in EngineType
      BY <1>0, States DEF EngineType
    <3>2. ASSUME NEW x \in Engine
          PROVE  [engines[x] EXCEPT !.loop = "trips", !.ending = "failed"] \in EngineType
      BY <1>0, States DEF EngineType
    <3> QED BY <1>0, <1>11, <3>1, <3>2 DEF LoopRaises
  <2>4. faults' \in 0 .. MaxFaults
    BY <1>0, <1>11, FaultTyped DEF LoopRaises
  <2> QED BY <1>0, <1>11, <2>1, <2>4, HandlersUnchanged, PartsNext DEF LoopRaises
<1>12. CASE LoopClose(e)
  <2>1. engines' \in [Engine -> EngineType]
    <3>1. ASSUME NEW x \in Engine PROVE [engines[x] EXCEPT !.loop = "done"] \in EngineType
      BY <1>0 DEF EngineType
    <3>2. PICK g : g = [engines EXCEPT ![e].loop = "done"]
      OBVIOUS
    <3>3. g \in [Engine -> EngineType]
      BY <1>0, <3>1, <3>2
    <3>4. ASSUME NEW x \in Engine PROVE [g[x] EXCEPT !.sink = "closed"] \in EngineType
      BY <3>3 DEF EngineType
    <3>5. \E x : engines' = g \/ engines' = [g EXCEPT ![x].sink = "closed"]
      BY <1>12, <3>2 DEF LoopClose
    <3> QED BY <3>3, <3>4, <3>5
  <2>2. runners' \in [Engine -> RunnerType]
    <3>1. ASSUME NEW x \in Engine
          PROVE  [runners[x] EXCEPT !.sink = None,
                                    !.task = IF @ = e THEN None ELSE @] \in RunnerType
      BY <1>0 DEF RunnerType
    <3> QED BY <1>0, <1>12, <3>1 DEF LoopClose
  <2> QED BY <1>0, <1>12, <2>1, <2>2, HandlersUnchanged, PartsNext DEF LoopClose
<1> QED BY <1>1, <1>2, <1>3, <1>4, <1>5, <1>6, <1>7, <1>8, <1>9, <1>10, <1>11,
           <1>12 DEF StartUp, Loop

\* Every step keeps everything well formed.
LEMMA NextTyped == TypeInv /\ [Next]_vars => TypeInv'
<1> SUFFICES ASSUME TypeInv, [Next]_vars PROVE TypeInv'
  OBVIOUS
<1>0. /\ row \in [Run -> RowState]
      /\ current \in Engine \cup {None}
      /\ runners \in [Engine -> RunnerType]
      /\ engines \in [Engine -> EngineType]
      /\ requests \in [Request -> RequestType]
      /\ HandlerInv
      /\ last \in [Run -> Operation \cup {"none"}]
      /\ faults \in 0 .. MaxFaults
  BY Parts
<1>1. ASSUME NEW q \in Request, NEW op \in Operation, NEW r \in Run, LoadRun(q, op, r)
      PROVE  TypeInv'
  <2>1. requests' \in [Request -> RequestType]
    BY <1>0, <1>1 DEF LoadRun, Idle, RequestType
  <2>2. HandlerInv'
    BY <1>0, <1>1 DEF LoadRun, Idle, HandlerInv, Closing, RequestType
  <2> QED BY <1>0, <1>1, <2>1, <2>2, PartsNext DEF LoadRun
<1>2. CASE Crash
  <2>1. /\ runners' \in [Engine -> RunnerType]
        /\ engines' \in [Engine -> EngineType]
        /\ requests' \in [Request -> RequestType]
    BY <1>2 DEF Crash, NoRunner, NoEngine, Idle, RunnerType, EngineType, RequestType,
                RunState, RowState, Terminal, Operation
  <2>2. HandlerInv'
    BY <1>2 DEF Crash, Idle, HandlerInv, Closing
  <2>3. faults' \in 0 .. MaxFaults
    BY <1>0, <1>2, FaultTyped DEF Crash
  <2> QED BY <1>0, <1>2, <2>1, <2>2, <2>3, PartsNext DEF Crash
<1>3. CASE UNCHANGED vars
  BY <1>0, <1>3, HandlersUnchanged, PartsNext DEF vars
<1> QED BY <1>1, <1>2, <1>3, HandleTyped, EngineTyped DEF Next

\* Every object and every row is well formed at all times (TypeOK), however many
\* requests interleave and whatever fails.
THEOREM TypeCorrect == Spec => []TypeOK
<1>1. TypeInv => TypeOK
  BY DEF TypeInv
<1> QED BY InitTyped, NextTyped, <1>1, PTL DEF Spec

(***************************************************************************)
(* One request at a time.  A start that overlaps another request, or that  *)
(* is answered before its engine exists, can leave two engines alive or    *)
(* undo a stop.  When neither happens, one run at a time, answers that     *)
(* hold and transports that are released follow from one invariant.        *)
(***************************************************************************)

\* A request is made once the one before it is answered, and a start is answered once
\* it is over.
Alone == (\A p, q \in Request : p = q) /\ ~GraceExpires

\* A live engine is the installed runner's, which holds its task and its sink; an
\* engine that is being built has a handler waiting for it, and no live one beside it.
EngineOK(e) ==
  /\ Busy(e) => current # None /\ engines[e].runner = current
  /\ Live(e) => runners[current].task = e
  /\ Live(e) \/ engines[e].start \in {"create", "register"} =>
       /\ runners[current].engine = e
       /\ engines[e].sink = "open" => runners[current].sink = e
  /\ Starting(e) =>
       /\ ~IsRunning(current)
       /\ engines[e].loop = "none"
       /\ \E q \in Request :
            /\ requests[q].engine = e
            /\ requests[q].pc \in {"commit", "grace", "starting"}
  /\ engines[e].start = "build" => ~engines[e].hasRow
  /\ engines[e].loop = "done" => engines[e].sink # "open"

\* Only the installed runner has a task, and the task is alive.
RunnerOK(k) ==
  runners[k].task # None => k = current /\ Live(runners[k].task)

\* The installed runner's run is not one that was stopped or reset, and once its engine
\* has adopted the row, the row is no longer pending.
CurrentOK ==
  current # None =>
    LET e == runners[current].engine
        r == runners[current].run
    IN  /\ r \in Run
        /\ last[r] \notin {"stop", "reset"}
        /\ e # None => /\ engines[e].runner = current
                       /\ engines[e].hasRow => row[r] # "pending"

\* Where start_simulation waits, the runner it installed is still there, unless its
\* start has failed.
StartOK(q) ==
  /\ requests[q].pc \in {"commit", "grace", "starting"} => requests[q].op = "start"
  /\ requests[q].pc = "commit" =>
       /\ IsCurrent(requests[q].run)
       /\ requests[q].engine = current
       /\ engines[current].start = "new"
       /\ engines[current].background
       /\ ~engines[current].hasRow
       /\ engines[current].runner = current
       /\ runners[current].engine = None
  /\ requests[q].pc = "grace" =>
       /\ requests[q].engine \in Engine
       /\ engines[requests[q].engine].background
       /\ engines[requests[q].engine].start = "failed" => current = None

\* While stop or reset closes an engine out, it is the installed runner's; when they
\* write the row, nobody else does, and what they loaded still says whether to write.
StopOK(q) ==
  /\ requests[q].pc \in Closing \cup {"release"} => IsCurrent(requests[q].run)
  /\ requests[q].pc \in Closing =>
       requests[q].runner = current /\ runners[current].engine # None
  /\ requests[q].pc \in {"trips", "flush", "finish"} =>
       requests[q].engine = runners[current].engine
  /\ requests[q].pc \in {"reset", "release"} => ~IsRunning(current)
  /\ requests[q].pc = "write" /\ requests[q].op \in {"stop", "reset"} =>
       ~IsCurrent(requests[q].run)
  /\ requests[q].pc # "idle" /\ requests[q].op = "reset" /\ requests[q].seen = "pending" =>
       row[requests[q].run] = "pending"
  /\ requests[q].pc \in {"loaded", "write"} /\ requests[q].op = "stop" =>
       IsCurrent(requests[q].run) \/ row[requests[q].run] = requests[q].seen

\* The row of a run says what it was last asked for.
RowOK(r) ==
  /\ last[r] = "stop" => row[r] \in Terminal
  /\ last[r] = "reset" => row[r] = "pending"

AloneInv ==
  /\ \A e \in Engine : EngineOK(e) /\ RunnerOK(e)
  /\ CurrentOK
  /\ \A q \in Request : StartOK(q) /\ StopOK(q)
  /\ \A r \in Run : RowOK(r)

LEMMA InitAlone == Init => AloneInv
  BY DEF Init, AloneInv, EngineOK, RunnerOK, CurrentOK, StartOK, StopOK, RowOK, Closing,
         Busy, Live, Starting, NoRunner, NoEngine, Idle

\* What the invariant is for: the three properties of the runs.
LEMMA AloneImplies ==
  ASSUME TypeInv, AloneInv
  PROVE  OneRunAtATime /\ AnswersHold /\ SinkReleased
<1>1. OneRunAtATime
  BY DEF AloneInv, EngineOK, OneRunAtATime, Busy
<1>2. AnswersHold
  <2> SUFFICES ASSUME NEW r \in Run, last[r] \in {"stop", "reset"}
               PROVE  /\ \A e \in Engine : Busy(e) => RunOf(e) # r
                      /\ last[r] = "stop" => row[r] \in Terminal
                      /\ last[r] = "reset" => row[r] = "pending"
    BY DEF AnswersHold
  <2>1. ASSUME NEW e \in Engine, Busy(e) PROVE RunOf(e) # r
    BY <2>1 DEF AloneInv, EngineOK, CurrentOK, RunOf
  <2> QED BY <2>1 DEF AloneInv, RowOK
<1>3. SinkReleased
  BY DEF AloneInv, EngineOK, SinkReleased
<1> QED BY <1>1, <1>2, <1>3

-----------------------------------------------------------------------------
(* Lemmas about steps that leave the objects alone.                         *)

\* No engine is being built unless a handler is waiting for it.
LEMMA NobodyStarts ==
  ASSUME AloneInv, Alone, NEW q \in Request,
         requests[q].pc \in {"commit", "grace", "starting"}
           => ~Starting(requests[q].engine)
  PROVE  \A e \in Engine : ~Starting(e)
  BY DEF AloneInv, Alone, EngineOK

\* A step without an engine on its way that touches no object keeps them consistent.
LEMMA ObjectsKept ==
  ASSUME AloneInv, \A e \in Engine : ~Starting(e), UNCHANGED <<current, runners, engines>>
  PROVE  \A e \in Engine : EngineOK(e)' /\ RunnerOK(e)'
  BY DEF AloneInv, EngineOK, RunnerOK, Busy, Live, Starting, IsRunning

\* Nor does a step that changes only what an engine says of itself.
LEMMA ShapeKept ==
  ASSUME TypeInv, AloneInv, \A e \in Engine : ~Starting(e),
         UNCHANGED <<row, current, runners, last>>,
         \A e \in Engine : /\ engines'[e].runner = engines[e].runner
                           /\ engines'[e].start = engines[e].start
                           /\ engines'[e].loop = engines[e].loop
                           /\ engines'[e].sink = engines[e].sink
                           /\ engines'[e].hasRow => engines[e].hasRow
  PROVE  /\ \A e \in Engine : EngineOK(e)' /\ RunnerOK(e)'
         /\ CurrentOK'
         /\ \A r \in Run : RowOK(r)'
<1>0. /\ runners \in [Engine -> RunnerType] /\ current \in Engine \cup {None}
      /\ None \notin Engine \cup Run
  BY Parts, LifecycleAssumption
<1>1. /\ \A e \in Engine : EngineOK(e) /\ RunnerOK(e)
      /\ CurrentOK
      /\ \A r \in Run : RowOK(r)
  BY DEF AloneInv
<1>2. \A e \in Engine : EngineOK(e)' /\ RunnerOK(e)'
  BY <1>0, <1>1 DEF EngineOK, RunnerOK, Busy, Live, Starting, IsRunning, RunnerType
<1>3. CurrentOK'
  BY <1>0, <1>1 DEF CurrentOK, RunnerType
<1> QED BY <1>1, <1>2, <1>3 DEF RowOK

\* What the installed runner holds is not handed out again.
LEMMA HeldIsNotFresh ==
  ASSUME current \in Engine, None \notin Engine, NEW e \in Fresh
  PROVE  e \in Engine /\ e # current /\ e # runners[current].engine
<1>1. \A held, x : current \in held /\ x \in {runners[current].engine, runners[current].task,
                                             runners[current].sink}
        => x \in UNION {{runners[k].engine, runners[k].task, runners[k].sink} : k \in held}
  OBVIOUS
<1> QED BY <1>1 DEF Fresh, Reachable

\* A handler that has answered holds nothing.
LEMMA IdleOK ==
  ASSUME TypeInv, NEW q \in Request, requests' = [requests EXCEPT ![q] = Idle]
  PROVE  StartOK(q)' /\ StopOK(q)'
<1>1. requests'[q].pc = "idle"
  BY Parts DEF Idle, RequestType
<1> QED BY <1>1 DEF StartOK, StopOK, Closing

\* With one request, the handlers are this one.
LEMMA AloneNext ==
  ASSUME Alone, NEW q \in Request,
         \A e \in Engine : EngineOK(e)' /\ RunnerOK(e)',
         CurrentOK', StartOK(q)' /\ StopOK(q)', \A r \in Run : RowOK(r)'
  PROVE  AloneInv'
  BY DEF AloneInv, Alone

-----------------------------------------------------------------------------
(* Handlers that start a run.                                               *)

\* Every step of a start keeps the objects consistent (simulations.py start_simulation).
LEMMA StartsAlone ==
  ASSUME TypeInv, AloneInv, Alone, NEW q \in Request,
         \/ Conflict(q) \/ StartLive(q) \/ StartAgain(q) \/ StartNew(q)
         \/ CommitPending(q) \/ CommitRaises(q) \/ Started(q) \/ StartFailed(q)
  PROVE  AloneInv'
<1>0. /\ row \in [Run -> RowState]
      /\ current \in Engine \cup {None}
      /\ runners \in [Engine -> RunnerType]
      /\ engines \in [Engine -> EngineType]
      /\ requests \in [Request -> RequestType]
      /\ HandlerInv
      /\ last \in [Run -> Operation \cup {"none"}]
      /\ None \notin Engine \cup Run
  BY Parts, LifecycleAssumption
<1>i. /\ \A e \in Engine : EngineOK(e) /\ RunnerOK(e)
      /\ CurrentOK
      /\ StartOK(q) /\ StopOK(q)
      /\ \A r \in Run : RowOK(r)
  BY DEF AloneInv
<1>1. CASE Conflict(q)
  <2>1. \A e \in Engine : ~Starting(e)
    BY <1>1, NobodyStarts DEF Conflict, At
  <2>2. \A e \in Engine : EngineOK(e)' /\ RunnerOK(e)'
    BY <1>1, <2>1, ObjectsKept DEF Conflict
  <2>3. StartOK(q)' /\ StopOK(q)'
    BY <1>1, IdleOK DEF Conflict, Refused
  <2>4. CurrentOK' /\ \A r \in Run : RowOK(r)'
    BY <1>1, <1>i DEF Conflict, Refused, CurrentOK, RowOK
  <2> QED BY <2>2, <2>3, <2>4, AloneNext
<1>2. CASE StartLive(q)
  <2>1. \A e \in Engine : ~Starting(e)
    BY <1>2, NobodyStarts DEF StartLive, At
  <2>2. /\ requests[q].pc = "loaded" /\ requests[q].op = "start"
        /\ current # None
        /\ UNCHANGED <<row, current, runners>>
        /\ engines' = [engines EXCEPT ![runners[current].engine].state =
                         IF @ = "paused" THEN "running" ELSE @]
        /\ last' = [last EXCEPT ![requests[q].run] = "start"]
    BY <1>0, <1>2 DEF StartLive, Answered, At, IsCurrent
  <2>6. \A e \in Engine :
          /\ engines'[e].runner = engines[e].runner
          /\ engines'[e].start = engines[e].start
          /\ engines'[e].loop = engines[e].loop
          /\ engines'[e].sink = engines[e].sink
          /\ engines'[e].hasRow = engines[e].hasRow
    BY <1>0, <2>2 DEF EngineType
  <2>3. \A e \in Engine : EngineOK(e)' /\ RunnerOK(e)'
    BY <1>0, <1>i, <2>1, <2>2, <2>6
       DEF EngineOK, RunnerOK, Busy, Live, Starting, IsRunning
  <2>4. StartOK(q)' /\ StopOK(q)'
    BY <1>2, IdleOK DEF StartLive, Answered
  <2>5. CurrentOK' /\ \A r \in Run : RowOK(r)'
    <3>1. CurrentOK'
      BY <1>0, <1>i, <2>2, <2>6 DEF CurrentOK, RunnerType
    <3>2. \A r \in Run : RowOK(r)'
      BY <1>0, <1>i, <2>2 DEF RowOK
    <3> QED BY <3>1, <3>2
  <2> QED BY <2>3, <2>4, <2>5, AloneNext
<1>3. CASE StartAgain(q)
  <2>1. PICK e \in Fresh :
          /\ engines' = [engines EXCEPT ![e] =
                           [NoEngine EXCEPT !.runner = current, !.start = "build"]]
          /\ requests' = [requests EXCEPT ![q].pc = "starting", ![q].engine = e]
    BY <1>3 DEF StartAgain
  <2>8. current \in Engine /\ e \in Engine /\ e # runners[current].engine
    BY <1>0, <1>3, HeldIsNotFresh DEF StartAgain, IsCurrent
  <2>2. /\ ~IsRunning(current)
        /\ requests[q].run = runners[current].run
        /\ requests[q].run \in Run
        /\ requests[q].pc = "loaded" /\ requests[q].op = "start"
        /\ UNCHANGED <<row, current, runners>>
        /\ last' = [last EXCEPT ![requests[q].run] = "none"]
    BY <1>0, <1>3 DEF StartAgain, At, IsCurrent, HandlerInv
  <2>3. \A x \in Engine : ~Starting(x) /\ ~Live(x)
    BY <1>0, <1>i, <2>2, <2>8, NobodyStarts DEF EngineOK, IsRunning, Busy
  <2>4. /\ requests'[q].pc = "starting" /\ requests'[q].op = "start"
        /\ requests'[q].engine = e
        /\ engines'[e].runner = current /\ engines'[e].start = "build"
        /\ ~engines'[e].hasRow /\ engines'[e].loop = "none"
        /\ \A x \in Engine \ {e} : engines'[x] = engines[x]
    BY <1>0, <2>1, <2>2, <2>8 DEF RequestType, NoEngine
  <2>5. \A x \in Engine : EngineOK(x)' /\ RunnerOK(x)'
    <3> SUFFICES ASSUME NEW x \in Engine PROVE EngineOK(x)' /\ RunnerOK(x)'
      OBVIOUS
    <3>1. CASE x = e
      BY <1>0, <1>i, <2>2, <2>8, <2>3, <2>4, <3>1
         DEF EngineOK, RunnerOK, Busy, Live, Starting, IsRunning
    <3>2. CASE x # e
      BY <1>0, <1>i, <2>2, <2>8, <2>3, <2>4, <3>2
         DEF EngineOK, RunnerOK, Busy, Live, Starting, IsRunning
    <3> QED BY <3>1, <3>2
  <2>6. CurrentOK' /\ \A r \in Run : RowOK(r)'
    <3>1. CurrentOK'
      BY <1>0, <1>i, <2>2, <2>4, <2>8 DEF CurrentOK, RunnerType
    <3>2. \A r \in Run : RowOK(r)'
      BY <1>0, <1>i, <2>2 DEF RowOK
    <3> QED BY <3>1, <3>2
  <2>7. StartOK(q)' /\ StopOK(q)'
    BY <2>4 DEF StartOK, StopOK, Closing
  <2> QED BY <2>5, <2>6, <2>7, AloneNext
<1>4. CASE StartNew(q)
  <2>1. PICK k \in Fresh :
          /\ current'  = k
          /\ runners'  = [runners EXCEPT ![k] = [NoRunner EXCEPT !.run = requests[q].run]]
          /\ engines'  = [engines EXCEPT ![k] =
                            [NoEngine EXCEPT !.runner = k, !.background = TRUE,
                                             !.start = "new"]]
          /\ requests' = [requests EXCEPT ![q].pc = "commit", ![q].engine = k]
    BY <1>4 DEF StartNew
  <2>2. /\ k \in Engine /\ k # current
        /\ current # None => ~IsRunning(current)
        /\ requests[q].run \in Run
        /\ requests[q].pc = "loaded" /\ requests[q].op = "start"
        /\ UNCHANGED row
        /\ last' = [last EXCEPT ![requests[q].run] = "none"]
    BY <1>0, <1>4 DEF StartNew, At, HandlerInv, Fresh, Reachable
  <2>3. \A x \in Engine : ~Starting(x) /\ ~Live(x) /\ runners[x].task = None
    BY <1>0, <1>i, <2>2, NobodyStarts DEF EngineOK, RunnerOK, IsRunning, Busy
  <2>4. /\ requests'[q].pc = "commit" /\ requests'[q].engine = k
        /\ requests'[q].run = requests[q].run /\ requests'[q].op = "start"
        /\ engines'[k] = [NoEngine EXCEPT !.runner = k, !.background = TRUE, !.start = "new"]
        /\ \A x \in Engine \ {k} : engines'[x] = engines[x] /\ runners'[x] = runners[x]
        /\ runners'[k].run = requests[q].run /\ runners'[k].engine = None
        /\ runners'[k].task = None
    BY <1>0, <2>1, <2>2 DEF RequestType, NoRunner
  <2>5. \A x \in Engine : EngineOK(x)' /\ RunnerOK(x)'
    <3> SUFFICES ASSUME NEW x \in Engine PROVE EngineOK(x)' /\ RunnerOK(x)'
      OBVIOUS
    <3>1. CASE x = k
      BY <1>0, <1>i, <2>1, <2>2, <2>3, <2>4, <3>1
         DEF EngineOK, RunnerOK, Busy, Live, Starting, IsRunning, NoEngine
    <3>2. CASE x # k
      BY <1>0, <1>i, <2>1, <2>2, <2>3, <2>4, <3>2
         DEF EngineOK, RunnerOK, Busy, Live, Starting, IsRunning
    <3> QED BY <3>1, <3>2
  <2>6. CurrentOK' /\ \A r \in Run : RowOK(r)'
    BY <1>0, <1>i, <2>1, <2>2, <2>4 DEF CurrentOK, RowOK
  <2>7. StartOK(q)' /\ StopOK(q)'
    BY <1>0, <2>1, <2>2, <2>4 DEF StartOK, StopOK, Closing, IsCurrent, NoEngine
  <2> QED BY <2>5, <2>6, <2>7, AloneNext
<1>5. CASE CommitPending(q)
  <2>1. /\ requests[q].pc = "commit" /\ requests[q].run \in Run
        /\ requests[q].engine = current /\ current \in Engine
        /\ requests[q].run = runners[current].run
        /\ engines[current].start = "new" /\ engines[current].background
        /\ ~engines[current].hasRow /\ engines[current].runner = current
        /\ runners[current].engine = None
        /\ UNCHANGED <<current, runners, last>>
        /\ engines' = [engines EXCEPT ![current].start = "build"]
        /\ requests' = [requests EXCEPT ![q].pc = "grace"]
    BY <1>0, <1>5, <1>i DEF CommitPending, Goto, StartOK, HandlerInv, IsCurrent
  <2>8. \A r \in Run \ {requests[q].run} : row'[r] = row[r]
    BY <1>0, <1>5, <2>1 DEF CommitPending, OrmWrite
  <2>2. /\ requests'[q].pc = "grace" /\ requests'[q].engine = current
        /\ requests'[q].op = "start"
        /\ engines'[current] = [engines[current] EXCEPT !.start = "build"]
        /\ \A x \in Engine \ {current} : engines'[x] = engines[x]
    BY <1>0, <1>i, <2>1 DEF RequestType, StartOK
  <2>3. Starting(current) /\ ~IsRunning(current)
    BY <1>i, <2>1 DEF Starting, EngineOK
  <2>4. \A x \in Engine : EngineOK(x)' /\ RunnerOK(x)'
    <3> SUFFICES ASSUME NEW x \in Engine PROVE EngineOK(x)' /\ RunnerOK(x)'
      OBVIOUS
    <3>1. /\ engines'[current].runner = current /\ engines'[current].start = "build"
          /\ engines'[current].loop = engines[current].loop
          /\ engines'[current].sink = engines[current].sink
          /\ ~engines'[current].hasRow
      BY <1>0, <2>1, <2>2 DEF EngineType
    <3>2. EngineOK(x) /\ RunnerOK(x) /\ EngineOK(current) /\ RunnerOK(current)
      BY <1>i, <2>1
    <3>3. \A y \in Engine : ~Live(y)
      BY <1>0, <1>i, <2>3 DEF EngineOK, IsRunning, Busy
    <3>4. CASE x = current
      BY <1>0, <2>1, <2>2, <2>3, <3>1, <3>2, <3>3, <3>4
         DEF EngineOK, RunnerOK, Busy, Live, Starting, IsRunning
    <3>5. CASE x # current
      BY <1>0, <2>1, <2>2, <2>3, <3>1, <3>2, <3>3, <3>5
         DEF EngineOK, RunnerOK, Busy, Live, Starting, IsRunning
    <3> QED BY <3>4, <3>5
  <2>5. CurrentOK'
    BY <1>0, <1>i, <2>1, <2>2 DEF CurrentOK
  <2>6. \A r \in Run : RowOK(r)'
    BY <1>0, <1>i, <2>1, <2>8 DEF CurrentOK, RowOK
  <2>7. StartOK(q)' /\ StopOK(q)'
    BY <1>0, <2>1, <2>2 DEF StartOK, StopOK, Closing, EngineType
  <2> QED BY <2>4, <2>5, <2>6, <2>7, AloneNext
<1>6. CASE CommitRaises(q)
  <2>1. /\ requests[q].engine = current /\ current \in Engine
        /\ Starting(current) /\ ~IsRunning(current)
        /\ runners[current].engine = None
        /\ UNCHANGED <<row, current, runners, last>>
        /\ engines' = [engines EXCEPT ![current].start = "failed"]
    BY <1>0, <1>6, <1>i
       DEF CommitRaises, Refused, StartOK, IsCurrent, EngineOK, Starting
  <2>2. /\ engines'[current].start = "failed"
        /\ engines'[current].loop = engines[current].loop
        /\ engines'[current].sink = engines[current].sink
        /\ \A x \in Engine \ {current} : engines'[x] = engines[x]
    BY <1>0, <2>1 DEF EngineType
  <2>3. \A y \in Engine : ~Live(y) /\ (y # current => ~Starting(y))
    <3>1. requests[q].engine = current
      BY <2>1
    <3> QED BY <1>0, <1>i, <2>1, <3>1 DEF EngineOK, IsRunning, Busy, Alone
  <2>4. \A x \in Engine : EngineOK(x)' /\ RunnerOK(x)'
    <3> SUFFICES ASSUME NEW x \in Engine PROVE EngineOK(x)' /\ RunnerOK(x)'
      OBVIOUS
    <3>1. EngineOK(x) /\ RunnerOK(x)
      BY <1>i
    <3>2. CASE x = current
      BY <1>0, <2>1, <2>2, <2>3, <3>1, <3>2
         DEF EngineOK, RunnerOK, Busy, Live, Starting, IsRunning
    <3>3. CASE x # current
      BY <1>0, <2>1, <2>2, <2>3, <3>1, <3>3
         DEF EngineOK, RunnerOK, Busy, Live, Starting, IsRunning
    <3> QED BY <3>2, <3>3
  <2>5. CurrentOK' /\ \A r \in Run : RowOK(r)'
    BY <1>0, <1>i, <2>1 DEF CurrentOK, RowOK
  <2>6. StartOK(q)' /\ StopOK(q)'
    BY <1>6, IdleOK DEF CommitRaises, Refused
  <2> QED BY <2>4, <2>5, <2>6, AloneNext
<1>7. CASE Started(q)
  <2>1. \A e \in Engine : ~Starting(e)
    BY <1>7, NobodyStarts DEF Started, Starting
  <2>2. \A e \in Engine : EngineOK(e)' /\ RunnerOK(e)'
    BY <1>7, <2>1, ObjectsKept DEF Started
  <2>3. StartOK(q)' /\ StopOK(q)'
    BY <1>7, IdleOK DEF Started, Answered
  <2>4. requests[q].op = "start"
    BY <1>7, <1>i DEF Started, StartOK
  <2>5. CurrentOK' /\ \A r \in Run : RowOK(r)'
    BY <1>0, <1>7, <1>i, <2>4 DEF Started, Answered, CurrentOK, RowOK
  <2> QED BY <2>2, <2>3, <2>5, AloneNext
<1>8. CASE StartFailed(q)
  <2>1. \A e \in Engine : ~Starting(e)
    BY <1>8, NobodyStarts DEF StartFailed, Starting
  <2>2. StartOK(q)' /\ StopOK(q)'
    BY <1>8, IdleOK DEF StartFailed, Refused
  <2>3. UNCHANGED <<row, current, runners, engines, last>>
    BY <1>0, <1>8, <1>i DEF StartFailed, Refused, StartOK
  <2>4. \A e \in Engine : EngineOK(e)' /\ RunnerOK(e)'
    BY <2>1, <2>3, ObjectsKept
  <2>5. CurrentOK' /\ \A r \in Run : RowOK(r)'
    BY <1>i, <2>3 DEF CurrentOK, RowOK
  <2> QED BY <2>2, <2>4, <2>5, AloneNext
<1> QED BY <1>1, <1>2, <1>3, <1>4, <1>5, <1>6, <1>7, <1>8

-----------------------------------------------------------------------------
(* Handlers that pause, resume, stop or reset a run.                        *)

\* Every step of these keeps the objects consistent (simulations.py, runner.py stop and
\* reset, engine.py stop and _finalise).
LEMMA StopsAlone ==
  ASSUME TypeInv, AloneInv, Alone, NEW q \in Request,
         \/ PauseOrResume(q) \/ StopCurrent(q) \/ StopForeign(q) \/ StopTrips(q)
         \/ StopFlush(q) \/ StopFinish(q) \/ HandlerRaises(q) \/ Drain(q)
         \/ DrainTimeout(q) \/ ResetEngine(q) \/ Release(q) \/ WriteRow(q)
  PROVE  AloneInv'
<1>0. /\ row \in [Run -> RowState]
      /\ current \in Engine \cup {None}
      /\ runners \in [Engine -> RunnerType]
      /\ engines \in [Engine -> EngineType]
      /\ requests \in [Request -> RequestType]
      /\ HandlerInv
      /\ last \in [Run -> Operation \cup {"none"}]
      /\ None \notin Engine \cup Run
  BY Parts, LifecycleAssumption
<1>i. /\ \A e \in Engine : EngineOK(e) /\ RunnerOK(e)
      /\ CurrentOK
      /\ StartOK(q) /\ StopOK(q)
      /\ \A r \in Run : RowOK(r)
  BY DEF AloneInv
<1>n. \A e \in Engine : ~Starting(e)
  <2>1. requests[q].pc \notin {"commit", "grace", "starting"}
    BY DEF PauseOrResume, StopCurrent, StopForeign, StopTrips, StopFlush, StopFinish,
           HandlerRaises, Drain, DrainTimeout, ResetEngine, Release, WriteRow, At
  <2> QED BY <2>1, NobodyStarts
<1>r. requests[q].run \in Run
  BY <1>0 DEF HandlerInv, PauseOrResume, StopCurrent, StopForeign, StopTrips, StopFlush,
              StopFinish, HandlerRaises, Drain, DrainTimeout, ResetEngine, Release, WriteRow,
              At
<1>1. CASE PauseOrResume(q)
  <2>1. /\ requests[q].pc = "loaded" /\ requests[q].op \in {"pause", "resume"}
        /\ requests' = [requests EXCEPT ![q].pc = "write"]
        /\ UNCHANGED <<row, current, runners, last>>
    BY <1>1 DEF PauseOrResume, At, Goto
  <2>2. \A e \in Engine : /\ engines'[e].runner = engines[e].runner
                          /\ engines'[e].start = engines[e].start
                          /\ engines'[e].loop = engines[e].loop
                          /\ engines'[e].sink = engines[e].sink
                          /\ engines'[e].hasRow = engines[e].hasRow
    BY <1>0, <1>1 DEF PauseOrResume, EngineType
  <2>3. /\ \A e \in Engine : EngineOK(e)' /\ RunnerOK(e)'
        /\ CurrentOK' /\ \A r \in Run : RowOK(r)'
    BY <1>n, <2>1, <2>2, ShapeKept
  <2>4. requests'[q].pc = "write" /\ requests'[q].op \in {"pause", "resume"}
    BY <1>0, <2>1 DEF RequestType
  <2>5. StartOK(q)' /\ StopOK(q)'
    BY <2>4 DEF StartOK, StopOK, Closing
  <2> QED BY <2>3, <2>5, AloneNext
<1>2. CASE StopCurrent(q)
  <2>1. PICK e : e = runners[current].engine
    OBVIOUS
  <2>2. /\ requests[q].pc = "loaded" /\ requests[q].op \in {"stop", "reset"}
        /\ IsCurrent(requests[q].run) /\ current \in Engine /\ e \in Engine \cup {None}
        /\ UNCHANGED <<row, current, runners, last>>
    BY <1>0, <1>2, <2>1 DEF StopCurrent, At, IsCurrent, RunnerType
  <2>3. CASE e = None /\ Goto(q, "release") /\ UNCHANGED engines
    <3>1. requests'[q] = [requests[q] EXCEPT !.pc = "release"]
      BY <1>0, <2>3 DEF Goto
    <3>2. ~IsRunning(current)
      BY <1>0, <1>i, <2>1, <2>2, <2>3 DEF RunnerOK, EngineOK, IsRunning, Busy, RunnerType
    <3>3. StartOK(q)' /\ StopOK(q)'
      BY <1>0, <1>i, <2>2, <3>1, <3>2
         DEF StartOK, StopOK, Closing, IsCurrent, IsRunning, RequestType
    <3> QED BY <1>n, <2>2, <2>3, <3>3, ShapeKept, AloneNext
  <2>4. CASE e # None /\ StopEngine(q, e)
    <3>1. \A x \in Engine : /\ engines'[x].runner = engines[x].runner
                            /\ engines'[x].start = engines[x].start
                            /\ engines'[x].loop = engines[x].loop
                            /\ engines'[x].sink = engines[x].sink
                            /\ engines'[x].hasRow = engines[x].hasRow
      BY <1>0, <2>4 DEF StopEngine, EngineType
    <3>2. /\ requests'[q].pc \in {"trips", "drain"}
          /\ requests'[q].runner = current /\ requests'[q].engine = e
          /\ requests'[q].op = requests[q].op /\ requests'[q].run = requests[q].run
          /\ requests'[q].seen = requests[q].seen
      BY <1>0, <2>4 DEF StopEngine, RequestType
    <3>3. StartOK(q)' /\ StopOK(q)'
      BY <1>i, <2>1, <2>2, <2>4, <3>2 DEF StartOK, StopOK, Closing, IsCurrent
    <3> QED BY <1>n, <2>2, <3>1, <3>3, ShapeKept, AloneNext
  <2>5. CASE /\ e # None /\ ~IsRunning(current)
             /\ requests' = [requests EXCEPT ![q].pc = "reset", ![q].runner = current]
             /\ UNCHANGED engines
    <3>1. /\ requests'[q].pc = "reset" /\ requests'[q].runner = current
          /\ requests'[q].op = requests[q].op /\ requests'[q].run = requests[q].run
          /\ requests'[q].seen = requests[q].seen
      BY <1>0, <2>5 DEF RequestType
    <3>2. StartOK(q)' /\ StopOK(q)'
      BY <1>i, <2>1, <2>2, <2>5, <3>1 DEF StartOK, StopOK, Closing, IsCurrent, IsRunning
    <3> QED BY <1>n, <2>2, <2>5, <3>2, ShapeKept, AloneNext
  <2> QED BY <1>2, <2>1, <2>3, <2>4, <2>5 DEF StopCurrent
<1>3. CASE StopForeign(q)
  <2>1. /\ requests[q].pc = "loaded" /\ ~IsCurrent(requests[q].run)
        /\ UNCHANGED <<row, current, runners, engines, last>>
        /\ requests'[q] = [requests[q] EXCEPT !.pc = "write"]
    BY <1>0, <1>3 DEF StopForeign, At, Goto
  <2>2. StartOK(q)' /\ StopOK(q)'
    BY <1>0, <1>i, <2>1 DEF StartOK, StopOK, Closing, IsCurrent, RequestType
  <2> QED BY <1>n, <2>1, <2>2, ShapeKept, AloneNext
<1>4. CASE StopTrips(q)
  <2>1. /\ requests[q].pc = "trips"
        /\ UNCHANGED <<row, current, runners, engines, last>>
        /\ requests'[q] = [requests[q] EXCEPT !.pc = "flush"]
    BY <1>0, <1>4 DEF StopTrips, Goto
  <2>2. StartOK(q)' /\ StopOK(q)'
    BY <1>0, <1>i, <2>1 DEF StartOK, StopOK, Closing, IsCurrent, RequestType
  <2> QED BY <1>n, <2>1, <2>2, ShapeKept, AloneNext
<1>5. CASE StopFlush(q)
  <2>1. /\ requests[q].pc = "flush"
        /\ UNCHANGED <<row, current, runners, last>>
        /\ requests'[q] = [requests[q] EXCEPT !.pc = "finish"]
    BY <1>0, <1>5 DEF StopFlush, Goto
  <2>2. \A x \in Engine : /\ engines'[x].runner = engines[x].runner
                          /\ engines'[x].start = engines[x].start
                          /\ engines'[x].loop = engines[x].loop
                          /\ engines'[x].sink = engines[x].sink
                          /\ engines'[x].hasRow = engines[x].hasRow
    BY <1>0, <1>5 DEF StopFlush, EngineType
  <2>3. StartOK(q)' /\ StopOK(q)'
    BY <1>0, <1>i, <2>1 DEF StartOK, StopOK, Closing, IsCurrent, RequestType
  <2> QED BY <1>n, <2>1, <2>2, <2>3, ShapeKept, AloneNext
<1>6. CASE StopFinish(q)
  <2>1. /\ requests[q].pc = "finish" /\ requests[q].op \in {"stop", "reset"}
        /\ UNCHANGED <<current, runners, engines, last>>
        /\ requests'[q] = [requests[q] EXCEPT !.pc = "drain"]
    BY <1>0, <1>6 DEF StopFinish, Goto, HandlerInv, Closing
  <2>2. /\ current \in Engine /\ requests[q].run = runners[current].run
        /\ requests[q].engine = runners[current].engine
        /\ requests[q].engine \in Engine
        /\ engines[requests[q].engine].runner = current
    BY <1>0, <1>i, <2>1 DEF StopOK, Closing, IsCurrent, CurrentOK, RunnerType
  <2>3. RunOf(requests[q].engine) = requests[q].run
    BY <2>2 DEF RunOf
  <2>4. \/ UNCHANGED row
        \/ /\ engines[requests[q].engine].hasRow
           /\ row' = [row EXCEPT ![requests[q].run] = "stopped"]
    BY <1>6, <2>3 DEF StopFinish
  <2>5. \A e \in Engine : EngineOK(e)' /\ RunnerOK(e)'
    BY <1>n, <2>1, ObjectsKept
  <2>6. CurrentOK'
    BY <1>0, <1>i, <1>r, <2>1, <2>2, <2>4 DEF CurrentOK
  <2>7. \A r \in Run : RowOK(r)'
    BY <1>0, <1>i, <1>r, <2>1, <2>2, <2>4 DEF CurrentOK, RowOK
  <2>8. StartOK(q)'
    BY <1>0, <2>1 DEF StartOK, RequestType
  <2>9. requests[q].seen = "pending" => requests[q].op = "stop" \/ row'[requests[q].run] = "pending"
    BY <1>0, <1>i, <2>1, <2>2, <2>4 DEF StopOK, CurrentOK
  <2>10. StopOK(q)'
    BY <1>0, <1>i, <2>1, <2>9 DEF StopOK, Closing, IsCurrent, RequestType
  <2> QED BY <2>5, <2>6, <2>7, <2>8, <2>10, AloneNext
<1>7. CASE HandlerRaises(q)
  <2>1. UNCHANGED <<row, current, runners, engines, last>>
    BY <1>7 DEF HandlerRaises, Refused
  <2>2. StartOK(q)' /\ StopOK(q)'
    BY <1>7, IdleOK DEF HandlerRaises, Refused
  <2> QED BY <1>n, <2>1, <2>2, ShapeKept, AloneNext
<1>8. CASE Drain(q)
  <2>1. /\ requests[q].pc = "drain" /\ requests[q].runner = current /\ current \in Engine
        /\ ~IsRunning(current) /\ CloseSink(current)
        /\ runners' = [runners EXCEPT ![current].sink = None]
        /\ UNCHANGED <<row, current, last>>
        /\ requests'[q] = [requests[q] EXCEPT !.pc =
                             IF requests[q].op = "reset" THEN "reset" ELSE "release"]
    BY <1>0, <1>8, <1>i DEF Drain, Goto, StopOK, Closing, IsCurrent
  <2>2. \A k \in Engine : /\ runners'[k].run = runners[k].run
                          /\ runners'[k].task = runners[k].task
                          /\ runners'[k].engine = runners[k].engine
    BY <1>0, <2>1 DEF RunnerType
  <2>3. \A x \in Engine : /\ engines'[x].runner = engines[x].runner
                          /\ engines'[x].start = engines[x].start
                          /\ engines'[x].loop = engines[x].loop
                          /\ engines'[x].sink \in {engines[x].sink, "closed"}
                          /\ engines'[x].hasRow = engines[x].hasRow
    BY <1>0, <2>1 DEF CloseSink, EngineType
  <2>4. \A x \in Engine : ~Live(x)
    BY <1>0, <1>i, <2>1 DEF EngineOK, IsRunning, Busy
  <2>5. \A x \in Engine : EngineOK(x)' /\ RunnerOK(x)'
    BY <1>0, <1>i, <1>n, <2>1, <2>2, <2>3, <2>4
       DEF EngineOK, RunnerOK, Busy, Live, Starting, IsRunning
  <2>6. CurrentOK' /\ \A r \in Run : RowOK(r)'
    BY <1>0, <1>i, <2>1, <2>2, <2>3 DEF CurrentOK, RowOK, RunnerType
  <2>7. StartOK(q)' /\ StopOK(q)'
    BY <1>0, <1>i, <2>1, <2>2 DEF StartOK, StopOK, Closing, IsCurrent, IsRunning, RequestType
  <2> QED BY <2>5, <2>6, <2>7, AloneNext
<1>9. CASE DrainTimeout(q)
  <2>1. /\ requests[q].pc = "drain" /\ requests[q].runner = current /\ current \in Engine
        /\ Live(runners[current].task) /\ runners[current].task \in Engine
        /\ engines' = [engines EXCEPT ![runners[current].task].loop = "close"]
        /\ UNCHANGED <<row, current, runners, requests, last>>
    BY <1>0, <1>9, <1>i
       DEF DrainTimeout, StopOK, Closing, IsCurrent, IsRunning, RunnerOK, RunnerType
  <2>2. \A x \in Engine : /\ engines'[x].runner = engines[x].runner
                          /\ engines'[x].start = engines[x].start
                          /\ engines'[x].sink = engines[x].sink
                          /\ engines'[x].hasRow = engines[x].hasRow
                          /\ engines'[x].loop = IF x = runners[current].task THEN "close"
                                                ELSE engines[x].loop
    BY <1>0, <2>1 DEF EngineType
  <2>3. \A x \in Engine : EngineOK(x)' /\ RunnerOK(x)'
    BY <1>0, <1>i, <1>n, <2>1, <2>2
       DEF EngineOK, RunnerOK, Busy, Live, Starting, IsRunning
  <2>4. CurrentOK' /\ \A r \in Run : RowOK(r)'
    BY <1>0, <1>i, <2>1, <2>2 DEF CurrentOK, RowOK, RunnerType
  <2>5. StartOK(q)' /\ StopOK(q)'
    BY <1>0, <1>i, <2>1 DEF StartOK, StopOK, Closing, IsCurrent, IsRunning
  <2> QED BY <2>3, <2>4, <2>5, AloneNext
<1>10. CASE ResetEngine(q)
  <2>1. PICK e : e = runners[current].engine
    OBVIOUS
  <2>2. /\ requests[q].pc = "reset" /\ requests[q].runner = current /\ current \in Engine
        /\ requests[q].op \in {"stop", "reset"} /\ IsCurrent(requests[q].run)
        /\ e \in Engine /\ ~IsRunning(current)
        /\ UNCHANGED <<row, current, runners, last>>
    BY <1>0, <1>10, <1>i, <2>1
       DEF ResetEngine, StopOK, Closing, IsCurrent, HandlerInv, RunnerType
  <2>3. \A x \in Engine : /\ engines'[x].runner = engines[x].runner
                          /\ engines'[x].start = engines[x].start
                          /\ engines'[x].loop = engines[x].loop
                          /\ engines'[x].sink = engines[x].sink
                          /\ engines'[x].hasRow => engines[x].hasRow
    BY <1>0, <1>10, <2>1, <2>2 DEF ResetEngine, EngineType
  <2>4. /\ requests'[q].pc \in {"trips", "release"}
        /\ requests'[q].pc = "trips" => requests'[q].engine = e
        /\ requests'[q].runner = current
        /\ requests'[q].op = requests[q].op /\ requests'[q].run = requests[q].run
        /\ requests'[q].seen = requests[q].seen
    BY <1>0, <1>10, <2>1, <2>2 DEF ResetEngine, Goto, RequestType
  <2>5. StartOK(q)' /\ StopOK(q)'
    BY <1>0, <1>i, <2>1, <2>2, <2>4 DEF StartOK, StopOK, Closing, IsCurrent, IsRunning
  <2> QED BY <1>n, <2>2, <2>3, <2>5, ShapeKept, AloneNext
<1>11. CASE Release(q)
  <2>1. /\ requests[q].pc = "release" /\ requests[q].op \in {"stop", "reset"}
        /\ current \in Engine /\ runners[current].run = requests[q].run
        /\ ~IsRunning(current)
        /\ current' = None
        /\ UNCHANGED <<row, runners, engines>>
    BY <1>0, <1>11, <1>i DEF Release, StopOK, IsCurrent, HandlerInv, Closing
  <2>2. \A x \in Engine : ~Live(x) /\ runners[x].task = None
    BY <1>0, <1>i, <2>1 DEF EngineOK, RunnerOK, IsRunning, Busy
  <2>3. \A x \in Engine : EngineOK(x)' /\ RunnerOK(x)'
    BY <1>i, <1>n, <2>1, <2>2
       DEF EngineOK, RunnerOK, Busy, Live, Starting, IsRunning
  <2>4. CurrentOK' /\ ~IsCurrent(requests[q].run)' /\ \A r : ~IsCurrent(r)'
    BY <2>1 DEF CurrentOK, IsCurrent
  <2>5. CASE requests[q].op = "stop" /\ row[requests[q].run] \in Terminal /\ Answered(q)
    <3>1. \A r \in Run : RowOK(r)'
      BY <1>0, <1>i, <1>r, <2>1, <2>5 DEF Answered, RowOK
    <3>2. StartOK(q)' /\ StopOK(q)'
      BY <2>5, IdleOK DEF Answered
    <3> QED BY <2>3, <2>4, <3>1, <3>2, AloneNext
  <2>6. CASE /\ requests[q].op = "stop"
             /\ requests' = [requests EXCEPT ![q].pc = "write",
                                             ![q].seen = row[requests[q].run]]
             /\ UNCHANGED last
    <3>1. \A r \in Run : RowOK(r)'
      BY <1>i, <2>1, <2>6 DEF RowOK
    <3>2. /\ requests'[q].pc = "write" /\ requests'[q].op = "stop"
          /\ requests'[q].run = requests[q].run
          /\ requests'[q].seen = row[requests[q].run]
      BY <1>0, <2>6 DEF RequestType
    <3>3. StartOK(q)' /\ StopOK(q)'
      BY <2>1, <2>4, <3>2 DEF StartOK, StopOK, Closing
    <3> QED BY <2>3, <2>4, <3>1, <3>3, AloneNext
  <2>7. CASE requests[q].op = "reset" /\ Goto(q, "write") /\ UNCHANGED last
    <3>1. \A r \in Run : RowOK(r)'
      BY <1>i, <2>1, <2>7 DEF RowOK
    <3>2. /\ requests'[q].pc = "write" /\ requests'[q].op = "reset"
          /\ requests'[q].run = requests[q].run /\ requests'[q].seen = requests[q].seen
      BY <1>0, <2>7 DEF Goto, RequestType
    <3>3. StartOK(q)' /\ StopOK(q)'
      BY <1>i, <2>1, <2>4, <2>7, <3>2 DEF StartOK, StopOK, Closing
    <3> QED BY <2>3, <2>4, <3>1, <3>3, AloneNext
  <2> QED BY <1>11, <2>5, <2>6, <2>7 DEF Release
<1>12. CASE WriteRow(q)
  <2>1. /\ requests[q].pc = "write"
        /\ OrmWrite(q, Written[requests[q].op])
        /\ last' = [last EXCEPT ![requests[q].run] = requests[q].op]
        /\ UNCHANGED <<current, runners, engines>>
        /\ requests[q].op \in {"pause", "resume", "stop", "reset"}
    BY <1>0, <1>12 DEF WriteRow, Answered, HandlerInv, RequestType, Operation
  <2>2. /\ requests[q].op = "stop" => row'[requests[q].run] \in Terminal
        /\ requests[q].op = "reset" => row'[requests[q].run] = "pending"
        /\ \A r \in Run \ {requests[q].run} : row'[r] = row[r] /\ last'[r] = last[r]
        /\ last'[requests[q].run] = requests[q].op
    <3>1. /\ Written["stop"] = "stopped" /\ Written["reset"] = "pending"
          /\ "stopped" \in Terminal
      BY DEF Written, Terminal
    <3>2. requests[q].op = "stop" => row'[requests[q].run] \in Terminal
      BY <1>0, <1>i, <1>r, <2>1, <3>1 DEF OrmWrite, StopOK
    <3>3. requests[q].op = "reset" => row'[requests[q].run] = "pending"
      BY <1>0, <1>i, <1>r, <2>1, <3>1 DEF OrmWrite, StopOK
    <3> QED BY <1>0, <1>r, <2>1, <3>2, <3>3 DEF OrmWrite
  <2>3. \A r \in Run : RowOK(r)'
    BY <1>i, <1>r, <2>1, <2>2 DEF RowOK
  <2>4. \A e \in Engine : EngineOK(e)' /\ RunnerOK(e)'
    BY <1>n, <2>1, ObjectsKept
  <2>5. requests[q].op \in {"pause", "resume"} =>
          \/ UNCHANGED row
          \/ row'[requests[q].run] \in {"paused", "running"}
    BY <1>0, <1>r, <2>1 DEF OrmWrite, Written
  <2>6. CurrentOK'
    BY <1>0, <1>i, <1>r, <2>1, <2>2, <2>5 DEF CurrentOK, StopOK, IsCurrent
  <2>7. StartOK(q)' /\ StopOK(q)'
    BY <1>12, IdleOK DEF WriteRow, Answered
  <2> QED BY <2>3, <2>4, <2>6, <2>7, AloneNext
<1> QED BY <1>1, <1>2, <1>3, <1>4, <1>5, <1>6, <1>7, <1>8, <1>9, <1>10, <1>11, <1>12

-----------------------------------------------------------------------------
(* Building an engine, and its background task.                             *)

\* Every step of them keeps the objects consistent (runner.py start and _supervise,
\* engine.py run and _finalise).
LEMMA EnginesAlone ==
  ASSUME TypeInv, AloneInv, Alone, NEW e \in Engine,
         StartUp(e) \/ StartRaises(e) \/ Loop(e) \/ LoopRaises(e)
  PROVE  AloneInv'
<1>0. /\ row \in [Run -> RowState]
      /\ current \in Engine \cup {None}
      /\ runners \in [Engine -> RunnerType]
      /\ engines \in [Engine -> EngineType]
      /\ requests \in [Request -> RequestType]
      /\ HandlerInv
      /\ last \in [Run -> Operation \cup {"none"}]
      /\ None \notin Engine \cup Run
  BY Parts, LifecycleAssumption
<1>i. /\ \A x \in Engine : EngineOK(x) /\ RunnerOK(x)
      /\ CurrentOK
      /\ \A q \in Request : StartOK(q) /\ StopOK(q)
      /\ \A r \in Run : RowOK(r)
  BY DEF AloneInv
\* The engine is the installed runner's, and its run is not one stopped or reset.
<1>b. /\ Busy(e) /\ current \in Engine /\ engines[e].runner = current
      /\ RunOf(e) = runners[current].run /\ runners[current].run \in Run
      /\ last[runners[current].run] \notin {"stop", "reset"}
  <2>1. Busy(e)
    BY DEF StartUp, StartRaises, Loop, LoopRaises, Build, CreateRun, RegisterVehicles, Tick,
           LoopEnds, TickEnds, LoopTrips, LoopFlush, LoopFinish, LoopClose, Busy, Live,
           Starting
  <2>2. current # None /\ engines[e].runner = current
    BY <1>i, <2>1 DEF EngineOK
  <2> QED BY <1>0, <1>i, <2>1, <2>2 DEF CurrentOK, RunOf
\* While an engine is being built, nothing is alive and nothing else is being built.
<1>s. ASSUME Starting(e)
      PROVE  /\ ~IsRunning(current)
             /\ \A x \in Engine : ~Live(x) /\ (x # e => ~Starting(x))
             /\ \A q \in Request : /\ requests[q].engine = e
                                   /\ requests[q].pc \in {"commit", "grace", "starting"}
                                   /\ requests[q].op = "start"
  <2>1. /\ ~IsRunning(current)
        /\ \A q \in Request : /\ requests[q].engine = e
                              /\ requests[q].pc \in {"commit", "grace", "starting"}
    BY <1>i, <1>s DEF EngineOK, Alone
  <2>2. \A x \in Engine : ~Live(x)
    BY <1>0, <1>i, <2>1 DEF EngineOK, IsRunning, Busy
  <2>3. \A x \in Engine : x # e => ~Starting(x)
    BY <1>i, <2>1 DEF EngineOK
  <2> QED BY <1>i, <2>1, <2>2, <2>3 DEF StartOK
<1>1. CASE Build(e)
  <2>1. /\ engines[e].start = "build"
        /\ engines' = [engines EXCEPT ![e].start = "create", ![e].sink = "open"]
        /\ runners' = [runners EXCEPT ![current].engine = e, ![current].sink = e]
        /\ UNCHANGED <<row, current, requests, last>>
        /\ Starting(e)
    BY <1>1, <1>b DEF Build, Starting
  <2>2. /\ engines'[e].runner = current /\ engines'[e].start = "create"
        /\ engines'[e].loop = engines[e].loop /\ engines'[e].hasRow = engines[e].hasRow
        /\ engines'[e].background = engines[e].background
        /\ \A x \in Engine \ {e} : engines'[x] = engines[x]
        /\ runners'[current].engine = e /\ runners'[current].sink = e
        /\ \A k \in Engine : /\ runners'[k].run = runners[k].run
                             /\ runners'[k].task = runners[k].task
    BY <1>0, <1>b, <2>1 DEF EngineType, RunnerType
  <2>3. \A x \in Engine : EngineOK(x)' /\ RunnerOK(x)'
    <3> SUFFICES ASSUME NEW x \in Engine PROVE EngineOK(x)' /\ RunnerOK(x)'
      OBVIOUS
    <3>0. /\ \A y \in Engine : ~Live(y) /\ (y # e => ~Starting(y))
          /\ ~IsRunning(current)
      BY <1>s, <2>1
    <3>1. EngineOK(x) /\ RunnerOK(x) /\ EngineOK(e)
      BY <1>i
    <3>2. CASE x = e
      BY <1>0, <1>b, <2>1, <2>2, <3>0, <3>1, <3>2
         DEF EngineOK, RunnerOK, Busy, Live, Starting, IsRunning
    <3>3. CASE x # e
      BY <1>0, <1>b, <2>1, <2>2, <3>0, <3>1, <3>3
         DEF EngineOK, RunnerOK, Busy, Live, Starting, IsRunning
    <3> QED BY <3>2, <3>3
  <2>4. CurrentOK'
    <3>1. ~engines[e].hasRow
      BY <1>i, <2>1 DEF EngineOK
    <3> QED BY <1>b, <2>1, <2>2, <3>1 DEF CurrentOK
  <2>5. \A q \in Request : StartOK(q)' /\ StopOK(q)'
    <3>1. ASSUME NEW q \in Request PROVE StartOK(q)' /\ StopOK(q)'
      <4>1. requests[q].engine = e /\ requests[q].op = "start"
            /\ requests[q].pc \in {"commit", "grace", "starting"}
        BY <1>s, <2>1, <3>1
      <4>2. requests[q].pc # "commit"
        BY <1>i, <2>1, <3>1, <4>1 DEF StartOK
      <4> QED BY <1>i, <2>1, <2>2, <3>1, <4>1, <4>2 DEF StartOK, StopOK, Closing
    <3> QED BY <3>1
  <2> QED BY <1>i, <2>1, <2>3, <2>4, <2>5 DEF AloneInv, RowOK
<1>2. CASE CreateRun(e)
  <2>1. /\ engines[e].start = "create"
        /\ engines' = [engines EXCEPT ![e].start = "register", ![e].hasRow = TRUE]
        /\ row' = [row EXCEPT ![runners[current].run] = "running"]
        /\ UNCHANGED <<current, runners, requests, last>>
        /\ Starting(e)
    BY <1>2, <1>b DEF CreateRun, Starting
  <2>2. /\ engines'[e].runner = current /\ engines'[e].start = "register"
        /\ engines'[e].loop = engines[e].loop /\ engines'[e].sink = engines[e].sink
        /\ engines'[e].background = engines[e].background
        /\ \A x \in Engine \ {e} : engines'[x] = engines[x]
    BY <1>0, <1>b, <2>1 DEF EngineType
  <2>3. \A x \in Engine : EngineOK(x)' /\ RunnerOK(x)'
    <3> SUFFICES ASSUME NEW x \in Engine PROVE EngineOK(x)' /\ RunnerOK(x)'
      OBVIOUS
    <3>0. /\ \A y \in Engine : ~Live(y) /\ (y # e => ~Starting(y))
          /\ ~IsRunning(current)
      BY <1>s, <2>1
    <3>1. EngineOK(x) /\ RunnerOK(x) /\ EngineOK(e)
      BY <1>i
    <3>2. CASE x = e
      BY <1>0, <1>b, <2>1, <2>2, <3>0, <3>1, <3>2
         DEF EngineOK, RunnerOK, Busy, Live, Starting, IsRunning
    <3>3. CASE x # e
      BY <1>0, <1>b, <2>1, <2>2, <3>0, <3>1, <3>3
         DEF EngineOK, RunnerOK, Busy, Live, Starting, IsRunning
    <3> QED BY <3>2, <3>3
  <2>4. CurrentOK'
    <3>1. runners[current].engine = e
      BY <1>i, <2>1 DEF EngineOK
    <3> QED BY <1>0, <1>b, <2>1, <2>2, <3>1 DEF CurrentOK
  <2>5. \A q \in Request : StartOK(q)' /\ StopOK(q)'
    <3>1. ASSUME NEW q \in Request PROVE StartOK(q)' /\ StopOK(q)'
      <4>1. requests[q].engine = e /\ requests[q].op = "start"
            /\ requests[q].pc \in {"commit", "grace", "starting"}
        BY <1>s, <2>1, <3>1
      <4>2. requests[q].pc # "commit"
        BY <1>i, <2>1, <3>1, <4>1 DEF StartOK
      <4> QED BY <1>i, <2>1, <2>2, <3>1, <4>1, <4>2 DEF StartOK, StopOK, Closing
    <3> QED BY <3>1
  <2>6. \A r \in Run : RowOK(r)'
    BY <1>0, <1>b, <1>i, <2>1 DEF RowOK
  <2> QED BY <2>3, <2>4, <2>5, <2>6 DEF AloneInv
<1>3. CASE RegisterVehicles(e)
  <2>1. /\ engines[e].start = "register"
        /\ engines' = [engines EXCEPT ![e].start = "done", ![e].state = "running",
                                      ![e].loop = "check"]
        /\ runners' = [runners EXCEPT ![current].task = e]
        /\ UNCHANGED <<row, current, requests, last>>
        /\ Starting(e)
    BY <1>3, <1>b DEF RegisterVehicles, Starting
  <2>2. /\ engines'[e].runner = current /\ engines'[e].start = "done"
        /\ engines'[e].loop = "check" /\ engines'[e].sink = engines[e].sink
        /\ engines'[e].background = engines[e].background
        /\ engines'[e].hasRow = engines[e].hasRow
        /\ \A x \in Engine \ {e} : engines'[x] = engines[x]
        /\ runners'[current].task = e
        /\ \A k \in Engine \ {current} : runners'[k].task = runners[k].task
        /\ \A k \in Engine : /\ runners'[k].run = runners[k].run
                             /\ runners'[k].engine = runners[k].engine
                             /\ runners'[k].sink = runners[k].sink
    BY <1>0, <1>b, <2>1 DEF EngineType, RunnerType
  <2>3. \A x \in Engine : EngineOK(x)' /\ RunnerOK(x)'
    <3> SUFFICES ASSUME NEW x \in Engine PROVE EngineOK(x)' /\ RunnerOK(x)'
      OBVIOUS
    <3>0. /\ \A y \in Engine : ~Live(y) /\ (y # e => ~Starting(y))
          /\ ~IsRunning(current)
      BY <1>s, <2>1
    <3>1. EngineOK(x) /\ RunnerOK(x) /\ EngineOK(e)
      BY <1>i
    <3>2. CASE x = e
      BY <1>0, <1>b, <2>1, <2>2, <3>0, <3>1, <3>2
         DEF EngineOK, RunnerOK, Busy, Live, Starting, IsRunning
    <3>3. CASE x # e
      BY <1>0, <1>b, <2>1, <2>2, <3>0, <3>1, <3>3
         DEF EngineOK, RunnerOK, Busy, Live, Starting, IsRunning
    <3> QED BY <3>2, <3>3
  <2>4. CurrentOK'
    BY <1>0, <1>b, <1>i, <2>1, <2>2 DEF CurrentOK, RunnerType
  <2>5. \A q \in Request : StartOK(q)' /\ StopOK(q)'
    <3>1. ASSUME NEW q \in Request PROVE StartOK(q)' /\ StopOK(q)'
      <4>1. requests[q].engine = e /\ requests[q].op = "start"
            /\ requests[q].pc \in {"commit", "grace", "starting"}
        BY <1>s, <2>1, <3>1
      <4>2. requests[q].pc # "commit"
        BY <1>i, <2>1, <3>1, <4>1 DEF StartOK
      <4> QED BY <1>i, <2>1, <2>2, <3>1, <4>1, <4>2 DEF StartOK, StopOK, Closing
    <3> QED BY <3>1
  <2> QED BY <1>i, <2>1, <2>3, <2>4, <2>5 DEF AloneInv, RowOK
<1>4. CASE StartRaises(e)
  <2>1. /\ engines[e].start \in {"build", "create", "register"}
        /\ engines' = [engines EXCEPT ![e].start = "failed"]
        /\ current' = IF engines[e].background THEN None ELSE current
        /\ UNCHANGED <<row, runners, requests, last>>
        /\ Starting(e)
    BY <1>4 DEF StartRaises, Starting
  <2>2. /\ engines'[e].start = "failed" /\ engines'[e].runner = current
        /\ engines'[e].loop = engines[e].loop /\ engines'[e].sink = engines[e].sink
        /\ engines'[e].background = engines[e].background
        /\ engines'[e].hasRow = engines[e].hasRow
        /\ \A x \in Engine \ {e} : engines'[x] = engines[x]
    BY <1>0, <1>b, <2>1 DEF EngineType
  <2>0. \A k \in Engine : runners[k].task = None
    BY <1>0, <1>i, <1>s, <2>1 DEF RunnerOK, IsRunning
  <2>3. \A x \in Engine : EngineOK(x)' /\ RunnerOK(x)'
    <3> SUFFICES ASSUME NEW x \in Engine PROVE EngineOK(x)' /\ RunnerOK(x)'
      OBVIOUS
    <3>0. \A y \in Engine : ~Live(y) /\ (y # e => ~Starting(y))
      BY <1>s, <2>1
    <3>1. EngineOK(x)
      BY <1>i
    <3>2. CASE x = e
      BY <2>0, <2>1, <2>2, <3>0, <3>1, <3>2
         DEF EngineOK, RunnerOK, Busy, Live, Starting, IsRunning
    <3>3. CASE x # e
      <4>1. ~(x # e /\ engines[x].start \in {"create", "register"})
        BY <3>0 DEF Starting
      <4> QED BY <2>0, <2>1, <2>2, <3>0, <3>1, <3>3, <4>1
         DEF EngineOK, RunnerOK, Busy, Live, Starting, IsRunning
    <3> QED BY <3>2, <3>3
  <2>4. CurrentOK'
    BY <1>0, <1>b, <1>i, <2>1, <2>2 DEF CurrentOK, RunnerType
  <2>5. \A q \in Request : StartOK(q)' /\ StopOK(q)'
    <3>1. ASSUME NEW q \in Request PROVE StartOK(q)' /\ StopOK(q)'
      <4>1. requests[q].engine = e /\ requests[q].op = "start"
            /\ requests[q].pc \in {"commit", "grace", "starting"}
        BY <1>s, <2>1, <3>1
      <4>2. requests[q].pc # "commit"
        BY <1>i, <2>1, <3>1, <4>1 DEF StartOK
      <4> QED BY <1>i, <2>1, <2>2, <3>1, <4>1, <4>2 DEF StartOK, StopOK, Closing
    <3> QED BY <3>1
  <2> QED BY <1>i, <2>1, <2>3, <2>4, <2>5 DEF AloneInv, RowOK
<1>n. ASSUME Live(e)
      PROVE  /\ runners[current].task = e /\ runners[current].engine = e
             /\ engines[e].sink = "open" => runners[current].sink = e
             /\ \A x \in Engine : ~Starting(x) /\ (x # e => ~Live(x))
  BY <1>0, <1>i, <1>n DEF EngineOK, IsRunning
<1>5. CASE LoopClose(e)
  <2>1. /\ engines[e].loop = "close"
        /\ runners' = [runners EXCEPT ![current].sink = None,
                                      ![current].task = IF @ = e THEN None ELSE @]
        /\ UNCHANGED <<row, current, requests, last>>
        /\ Live(e)
    BY <1>5, <1>b DEF LoopClose, Live
  <2>2. \A x \in Engine : /\ engines'[x].runner = engines[x].runner
                          /\ engines'[x].start = engines[x].start
                          /\ engines'[x].hasRow = engines[x].hasRow
                          /\ engines'[x].background = engines[x].background
                          /\ engines'[x].loop = IF x = e THEN "done" ELSE engines[x].loop
                          /\ engines'[x].sink = IF x = runners[current].sink THEN "closed"
                                                ELSE engines[x].sink
    <3>1. PICK g : g = [engines EXCEPT ![e].loop = "done"]
      OBVIOUS
    <3>2. \A x \in Engine : /\ g[x].runner = engines[x].runner
                            /\ g[x].start = engines[x].start
                            /\ g[x].hasRow = engines[x].hasRow
                            /\ g[x].background = engines[x].background
                            /\ g[x].loop = IF x = e THEN "done" ELSE engines[x].loop
                            /\ g[x].sink = engines[x].sink
                            /\ g[x] \in EngineType
      BY <1>0, <3>1 DEF EngineType
    <3>3. engines' = IF runners[current].sink = None THEN g
                     ELSE [g EXCEPT ![runners[current].sink].sink = "closed"]
      BY <1>5, <1>b, <3>1 DEF LoopClose
    <3>4. DOMAIN g = Engine
      BY <1>0, <3>1
    <3>5. g \in [Engine -> EngineType]
      BY <1>0, <3>1, <3>2, <3>4
    <3> QED BY <1>0, <3>2, <3>3, <3>5 DEF EngineType
  <2>3. /\ runners'[current].task = None
        /\ \A k \in Engine \ {current} : runners'[k].task = runners[k].task
        /\ \A k \in Engine : /\ runners'[k].run = runners[k].run
                             /\ runners'[k].engine = runners[k].engine
    BY <1>0, <1>b, <1>n, <2>1 DEF RunnerType
  <2>4. \A x \in Engine : EngineOK(x)' /\ RunnerOK(x)'
    <3> SUFFICES ASSUME NEW x \in Engine PROVE EngineOK(x)' /\ RunnerOK(x)'
      OBVIOUS
    <3>0. /\ \A y \in Engine : ~Starting(y) /\ (y # e => ~Live(y))
          /\ engines[e].sink = "open" => runners[current].sink = e
      BY <1>n, <2>1
    <3>1. EngineOK(x) /\ RunnerOK(x)
      BY <1>i
    <3>2. \A k \in Engine : runners'[k].task = None
      BY <1>0, <1>b, <1>i, <2>3 DEF RunnerOK
    <3>3. CASE x = e
      BY <1>0, <1>b, <2>1, <2>2, <3>0, <3>1, <3>2, <3>3
         DEF EngineOK, RunnerOK, Busy, Live, Starting
    <3>4. CASE x # e
      BY <1>0, <1>b, <2>1, <2>2, <3>0, <3>1, <3>2, <3>4
         DEF EngineOK, RunnerOK, Busy, Live, Starting
    <3> QED BY <3>3, <3>4
  <2>5. CurrentOK'
    BY <1>0, <1>b, <1>i, <2>1, <2>2, <2>3 DEF CurrentOK, RunnerType
  <2>6. \A q \in Request : StartOK(q)' /\ StopOK(q)'
    <3> SUFFICES ASSUME NEW q \in Request PROVE StartOK(q)' /\ StopOK(q)'
      OBVIOUS
    <3>1. \A r : IsCurrent(r)' <=> IsCurrent(r)
      BY <1>b, <2>1, <2>3 DEF IsCurrent
    <3>2. StartOK(q) /\ StopOK(q)
      BY <1>i
    <3>3. StartOK(q)'
      <4>1. requests[q].pc # "commit"
        BY <1>b, <1>n, <2>1, <3>2 DEF StartOK, Starting
      <4>2. requests[q].pc = "grace" =>
              /\ requests[q].engine \in Engine
              /\ engines'[requests[q].engine].background
              /\ engines'[requests[q].engine].start = "failed" => current' = None
        BY <2>1, <2>2, <3>2 DEF StartOK
      <4> QED BY <2>1, <3>2, <4>1, <4>2 DEF StartOK
    <3>4. StopOK(q)'
      BY <1>b, <2>1, <2>3, <3>1, <3>2 DEF StopOK, IsRunning
    <3> QED BY <3>3, <3>4
  <2> QED BY <1>i, <2>1, <2>4, <2>5, <2>6 DEF AloneInv, RowOK
<1>6. CASE \/ Tick(e) \/ LoopEnds(e) \/ TickEnds(e) \/ LoopTrips(e) \/ LoopFlush(e)
           \/ LoopFinish(e) \/ LoopRaises(e)
  <2>1. /\ Live(e)
        /\ UNCHANGED <<current, runners, requests, last>>
    BY <1>6 DEF Tick, LoopEnds, TickEnds, LoopTrips, LoopFlush, LoopFinish, LoopRaises, Live
  <2>2. /\ \A x \in Engine : /\ engines'[x].runner = engines[x].runner
                             /\ engines'[x].start = engines[x].start
                             /\ engines'[x].hasRow = engines[x].hasRow
                             /\ engines'[x].background = engines[x].background
                             /\ engines'[x].sink = engines[x].sink
                             /\ x # e => engines'[x].loop = engines[x].loop
        /\ engines'[e].loop \notin {"none", "done"}
    <3>1. CASE Tick(e) \/ LoopEnds(e) \/ LoopTrips(e) \/ LoopFlush(e) \/ LoopFinish(e)
      BY <1>0, <3>1
         DEF Tick, LoopEnds, LoopTrips, LoopFlush, LoopFinish, EngineType
    <3>2. CASE TickEnds(e)
      BY <1>0, <3>2 DEF TickEnds, EngineType
    <3>3. CASE LoopRaises(e)
      BY <1>0, <3>3 DEF LoopRaises, EngineType
    <3> QED BY <1>6, <3>1, <3>2, <3>3
  <2>3. \/ UNCHANGED row
        \/ /\ engines[e].hasRow
           /\ row' = [row EXCEPT ![runners[current].run] = engines[e].ending]
           /\ engines[e].ending \in Terminal
    BY <1>0, <1>6, <1>b
       DEF Tick, LoopEnds, TickEnds, LoopTrips, LoopFlush, LoopFinish, LoopRaises, EngineType
  <2>4. \A x \in Engine : EngineOK(x)' /\ RunnerOK(x)'
    <3> SUFFICES ASSUME NEW x \in Engine PROVE EngineOK(x)' /\ RunnerOK(x)'
      OBVIOUS
    <3>1. \A y \in Engine : /\ Live(y)' <=> Live(y)
                            /\ Starting(y)' <=> Starting(y)
      BY <2>1, <2>2 DEF Live, Starting
    <3>2. EngineOK(x) /\ RunnerOK(x)
      BY <1>i
    <3>3. engines'[x].loop = "done" => engines[x].loop = "done"
      BY <2>2
    <3>4. EngineOK(x)'
      BY <1>n, <2>1, <2>2, <3>1, <3>2, <3>3 DEF EngineOK, Busy, IsRunning
    <3>5. RunnerOK(x)'
      BY <1>0, <2>1, <3>1, <3>2 DEF RunnerOK, RunnerType
    <3> QED BY <3>4, <3>5
  <2>5. CurrentOK'
    BY <1>0, <1>b, <1>i, <2>1, <2>2, <2>3 DEF CurrentOK, RunnerType, Terminal
  <2>6. \A q \in Request : StartOK(q)' /\ StopOK(q)'
    <3> SUFFICES ASSUME NEW q \in Request PROVE StartOK(q)' /\ StopOK(q)'
      OBVIOUS
    <3>1. StartOK(q) /\ StopOK(q)
      BY <1>i
    <3>2. StartOK(q)'
      <4>1. requests[q].pc # "commit"
        BY <1>b, <1>n, <2>1, <3>1 DEF StartOK, Starting
      <4> QED BY <2>1, <2>2, <3>1, <4>1 DEF StartOK
    <3>3. \A r : IsCurrent(r)' <=> IsCurrent(r)
      BY <2>1 DEF IsCurrent
    <3>4. ASSUME requests[q].pc # "idle", requests[q].op = "reset",
                 requests[q].seen = "pending"
          PROVE  row'[requests[q].run] = "pending"
      <4>1. row[requests[q].run] = "pending" /\ requests[q].run \in Run
        BY <1>0, <3>1, <3>4 DEF StopOK, HandlerInv
      <4>2. engines[e].hasRow => row[runners[current].run] # "pending"
        BY <1>0, <1>b, <1>i, <1>n, <2>1 DEF CurrentOK
      <4> QED BY <1>0, <2>3, <4>1, <4>2
    <3>5. ASSUME requests[q].pc \in {"loaded", "write"}, requests[q].op = "stop",
                 ~IsCurrent(requests[q].run)
          PROVE  row'[requests[q].run] = requests[q].seen
      <4>1. /\ row[requests[q].run] = requests[q].seen /\ requests[q].run \in Run
            /\ requests[q].run # runners[current].run
        BY <1>0, <1>b, <3>1, <3>5 DEF StopOK, HandlerInv, IsCurrent
      <4> QED BY <1>0, <2>3, <4>1
    <3>6. StopOK(q)'
      BY <2>1, <3>1, <3>3, <3>4, <3>5 DEF StopOK, IsRunning
    <3> QED BY <3>2, <3>6
  <2>7. \A r \in Run : RowOK(r)'
    BY <1>0, <1>b, <1>i, <2>1, <2>3 DEF RowOK
  <2> QED BY <2>4, <2>5, <2>6, <2>7 DEF AloneInv
<1> QED BY <1>1, <1>2, <1>3, <1>4, <1>5, <1>6 DEF StartUp, Loop

\* Every step keeps the objects consistent.
LEMMA NextAlone == TypeInv /\ Alone /\ AloneInv /\ [Next]_vars => AloneInv'
<1> SUFFICES ASSUME TypeInv, Alone, AloneInv, [Next]_vars PROVE AloneInv'
  OBVIOUS
<1>0. /\ requests \in [Request -> RequestType]
      /\ row \in [Run -> RowState]
  BY Parts
<1>1. ASSUME NEW q \in Request, NEW op \in Operation, NEW r \in Run, LoadRun(q, op, r)
      PROVE  AloneInv'
  <2>1. /\ requests[q].pc = "idle"
        /\ UNCHANGED <<row, current, runners, engines, last>>
        /\ requests'[q].pc = "loaded" /\ requests'[q].op = op /\ requests'[q].run = r
        /\ requests'[q].seen = row[r]
    BY <1>0, <1>1 DEF LoadRun, Idle
  <2>2. \A e \in Engine : ~Starting(e)
    BY <2>1, NobodyStarts
  <2>3. /\ \A e \in Engine : EngineOK(e)' /\ RunnerOK(e)'
        /\ CurrentOK' /\ \A x \in Run : RowOK(x)'
    BY <2>1, <2>2, ShapeKept
  <2>4. StartOK(q)' /\ StopOK(q)'
    BY <2>1 DEF StartOK, StopOK, Closing
  <2> QED BY <2>3, <2>4, AloneNext
<1>2. CASE Crash
  <2>1. /\ \A e \in Engine : EngineOK(e)' /\ RunnerOK(e)'
        /\ CurrentOK'
    BY <1>2 DEF Crash, EngineOK, RunnerOK, CurrentOK, Busy, Live, Starting, NoRunner, NoEngine
  <2>2. \A q \in Request : StartOK(q)' /\ StopOK(q)'
    BY <1>2 DEF Crash, StartOK, StopOK, Closing, Idle
  <2>3. \A r \in Run : RowOK(r)'
    BY <1>2 DEF Crash, AloneInv, RowOK
  <2> QED BY <2>1, <2>2, <2>3 DEF AloneInv
<1>3. CASE UNCHANGED vars
  BY <1>3 DEF vars, AloneInv, EngineOK, RunnerOK, CurrentOK, StartOK, StopOK, RowOK, Busy,
              Live, Starting, IsRunning, IsCurrent
<1>4. ASSUME NEW q \in Request,
             Handle(q) \/ DrainTimeout(q) \/ CommitRaises(q) \/ HandlerRaises(q)
      PROVE  AloneInv'
  BY <1>4, StartsAlone, StopsAlone DEF Handle
<1>5. \A q \in Request : ~GraceOver(q)
  BY DEF GraceOver, Alone
<1> QED BY <1>1, <1>2, <1>3, <1>4, <1>5, EnginesAlone DEF Next

\* The objects stay consistent for as long as requests are made one at a time.
LEMMA AloneAlways == Alone => (Spec => [](TypeInv /\ AloneInv))
<1> SUFFICES ASSUME Alone PROVE Spec => [](TypeInv /\ AloneInv)
  OBVIOUS
<1>1. Init => TypeInv /\ AloneInv
  BY InitTyped, InitAlone
<1>2. TypeInv /\ AloneInv /\ [Next]_vars => (TypeInv /\ AloneInv)'
  BY NextTyped, NextAlone
<1> QED BY <1>1, <1>2, PTL DEF Spec

\* One run at a time (runner.py, "One run at a time"): requests made one after the other
\* never leave two engines ticking, whatever fails in between and whenever the process dies.
THEOREM OneRunWhenAlone ==
  ASSUME Alone
  PROVE  Spec => []OneRunAtATime
<1>1. TypeInv /\ AloneInv => OneRunAtATime
  BY AloneImplies
<1> QED BY <1>1, AloneAlways, PTL

\* An answered stop or reset (simulations.py) is final until the run is started again: no
\* engine of the run is left or on its way, and its row says how it ended.
THEOREM AnswersHoldWhenAlone ==
  ASSUME Alone
  PROVE  Spec => []AnswersHold
<1>1. TypeInv /\ AloneInv => AnswersHold
  BY AloneImplies
<1> QED BY <1>1, AloneAlways, PTL

\* No task ends with its sink open (runner.py _supervise, runner.py stop).
THEOREM SinkReleasedWhenAlone ==
  ASSUME Alone
  PROVE  Spec => []SinkReleased
<1>1. TypeInv /\ AloneInv => SinkReleased
  BY AloneImplies
<1> QED BY <1>1, AloneAlways, PTL

=============================================================================
