-------------------------- MODULE ScenarioRunProofs --------------------------
(***************************************************************************)
(* Theorems about ScenarioRun, for every tree of tasks and any nodes: what *)
(* CallProofs shows of the calls holds when the crash of a node is thrown  *)
(* into the greenlet of the root task as well; the run implements          *)
(* PlayerPromise, so that the exit code tells the result, with no process  *)
(* left; and a node that the tasks stop before they start it has one       *)
(* process at a time.                                                      *)
(***************************************************************************)
EXTENDS ScenarioRun, CallProofs

-----------------------------------------------------------------------------
(* The invariant                                                           *)

\* Where the main greenlet and the orchestration greenlet can be together.
PhaseInv ==
    /\ phase \in {"constructing", "refused", "starting"} => orchestration = "unborn"
    /\ phase \in {"closing", "ui", "exited"} => orchestration \in {"unborn", "ended"}
    /\ phase \in {"refused", "closing", "ui"} /\ orchestration = "unborn" =>
          raised \in {"error", "uncaught"}
    /\ phase \in {"constructing", "refused"} => \A n \in Nodes : process[n] = "none"
    /\ phase = "constructing" => \A n \in Nodes : forgotten[n] = 0
    /\ phase \in {"refused", "ui"} => \A n \in Nodes : Live(n) = 0
    /\ phase # "exited" => code = NotExited

\* The root task is called once, by the orchestration greenlet.
RootInv ==
    /\ orchestration \in {"unborn", "setup", "waiting"} => pc[Root] = "scheduled"
    /\ pc[Root] = "scheduled" \/ IsActive(Root) \/ Done(Root)
    /\ pc[Root] = "scheduled" => state[Root] = "INITIALIZED"

\* What the orchestration greenlet leaves to the main one.
EndInv ==
    orchestration = "ended" =>
      \/ pc[Root] = "scheduled" /\ raised \in {"error", "uncaught", "crash"}
      \/ /\ Done(Root)
         /\ state[Root] = "FINISHED" => raised = "none"
         /\ state[Root] = "ERRORED" =>
               IF outcome[Root] = "assertion" THEN raised = "assertion"
               ELSE raised \in {"error", "timeout", "oserror", "crash"}

\* A crash that was thrown in is on its way up to the root, or has ended it.
CrashInv ==
    crash = "thrown" =>
      /\ orchestration \in {"tasks", "ended"}
      /\ orchestration = "tasks" =>
           \/ IsActive(Root) /\ Unwinding(Root, "error")
           \/ Done(Root) /\ state[Root] = "ERRORED" /\ outcome[Root] = "error"

ResultInv == PhaseInv /\ RootInv /\ EndInv /\ CrashInv

-----------------------------------------------------------------------------
(* The calls of the tasks                                                  *)

\* The crash of a node hits the blocked frame of the root's greenlet.
Throw ==
    \E b \in Tasks : /\ pc[b] \in Blocked /\ GreenletOf[b] = Root
                     /\ Raise(b, "error")
                     /\ UNCHANGED <<next, poolVars, fired, reaped>>

\* What a step of the run is to the tasks.
LEMMA RunStepTasks ==
    ASSUME [RunNext]_runVars
    PROVE  \/ \E t \in Tasks : Step(t) \/ TimerFires(t)
           \/ Throw
           \/ UNCHANGED taskVars /\ (UNCHANGED reaped \/ ReapedFollows)
<1>1. CASE Main \/ Orchestration \/ UiQuit \/ UiEnds \/ RunTerminated
  BY <1>1 DEF Main, Construct, StartNode, SpawnOrchestration, JoinAll, JanitorDone, Exit,
              Orchestration, SetUp, ReadyTimeout, Discover, MainTaskOver, UiQuit, UiEnds,
              RunTerminated, runVars, vars, taskVars
<1>2. CASE Kill
  BY <1>2 DEF Kill, Throw, vars, taskVars
<1>3. ASSUME NEW n \in Nodes, JanitorStops(n) \/ NodeReady(n) \/ NodeExits(n)
      PROVE  UNCHANGED taskVars /\ (UNCHANGED reaped \/ ReapedFollows)
  BY <1>3 DEF JanitorStops, NodeReady, NodeExits, vars, taskVars
<1>4. ASSUME NEW t \in Tasks, TaskStep(t) \/ TaskTimer(t)
      PROVE  Step(t) \/ TimerFires(t)
  BY <1>4 DEF TaskStep, TaskTimer
<1>5. CASE UNCHANGED runVars
  BY <1>5 DEF runVars, vars, taskVars
<1> QED BY <1>1, <1>2, <1>3, <1>4, <1>5 DEF RunNext

LEMMA RunTypes == TypeOK /\ [RunNext]_runVars => TypeOK'
<1> SUFFICES ASSUME TypeOK, [RunNext]_runVars PROVE TypeOK'
  OBVIOUS
<1>1. CASE \E t \in Tasks : Step(t) \/ TimerFires(t)
  BY <1>1, TypeStep DEF Next
<1>2. CASE Throw
  <2>1. PICK b \in Tasks : Raise(b, "error") /\ UNCHANGED <<next, poolVars, fired, reaped>>
    BY <1>2 DEF Throw
  <2>2. "error" \in Errors
    BY DEF Errors
  <2> QED BY <2>1, <2>2, RaiseType DEF TypeOK, CallType, NoNewCall, poolVars
<1>3. CASE UNCHANGED taskVars /\ (UNCHANGED reaped \/ ReapedFollows)
  BY <1>3 DEF TypeOK, taskVars, callVars, poolVars, ReapedFollows
<1> QED BY <1>1, <1>2, <1>3, RunStepTasks

LEMMA RunCalls == CallInvariant /\ [RunNext]_runVars => CallInvariant'
<1> SUFFICES ASSUME CallInvariant, [RunNext]_runVars PROVE CallInvariant'
  OBVIOUS
<1>1. TypeOK'
  BY CallFacts, RunTypes
<1>2. CASE \E t \in Tasks : Step(t) \/ TimerFires(t)
  BY <1>2, CallInvariantStep
<1>3. CASE Throw
  <2>1. PICK X \in SUBSET Tasks : CallInv(X)
    BY DEF CallInvariant
  <2>2. PICK b \in Tasks : /\ pc[b] \in Blocked /\ GreenletOf[b] = Root
                           /\ Raise(b, "error") /\ UNCHANGED <<next, pool>>
    BY <1>3 DEF Throw, poolVars
  <2>3. ~IsLeaf(b) /\ InLoop(b) => LoopHere(b)
    BY <2>2, RootGreenlet DEF InLoop, LoopHere
  <2> QED BY <1>1, <2>1, <2>2, <2>3, ThrowCall DEF CallInvariant
<1>4. CASE UNCHANGED taskVars
  BY <1>1, <1>4, CallInvariantKept DEF taskVars, callVars, poolVars
<1> QED BY <1>2, <1>3, <1>4, RunStepTasks

\* The tasks are called as CallProofs says, crashes of nodes or not.
THEOREM RunCallsInvariant == RunSpec => []CallInvariant
<1>1. RunInit => CallInvariant
  BY CallInvariantInit DEF RunInit
<1> QED BY <1>1, RunCalls, PTL DEF RunSpec

\* The crash of a node takes the call it ends off the counter too.
THEOREM RunCountExact == RunSpec => []RunningCountExact
<1>1. RunInit => RunningCountExact
  BY CountInit DEF RunInit
<1>2. CallInvariant /\ RunningCountExact /\ [RunNext]_runVars => RunningCountExact'
  <2> SUFFICES ASSUME CallInvariant, RunningCountExact, [RunNext]_runVars
               PROVE  RunningCountExact'
    OBVIOUS
  <2>1. CASE \E t \in Tasks : Step(t) \/ TimerFires(t)
    BY <2>1, CountStep
  <2>2. CASE Throw
    <3>1. PICK b \in Tasks : pc[b] \in Blocked /\ Raise(b, "error")
      BY <2>2 DEF Throw
    <3>2. IsActive(b) /\ "error" \in Errors
      BY <3>1 DEF IsActive, Active, Errors
    <3> QED BY <3>1, <3>2, CallFacts, CountRaise
  <2>3. CASE UNCHANGED taskVars
    BY <2>3, CountKept DEF taskVars, callVars
  <2> QED BY <2>1, <2>2, <2>3, RunStepTasks
<1> QED BY <1>1, <1>2, RunCallsInvariant, PTL DEF RunSpec

\* Greenlets that run on after a crash count for the pool of their parallel task.
THEOREM RunConcurrencyKept == RunSpec => []ConcurrencyBound
<1>1. RunInit => PoolBound
  BY PoolBoundInit DEF RunInit
<1>2. TypeOK /\ PoolBound /\ [RunNext]_runVars => PoolBound'
  <2> SUFFICES ASSUME TypeOK, PoolBound, [RunNext]_runVars PROVE PoolBound'
    OBVIOUS
  <2>1. CASE \E t \in Tasks : Step(t) \/ TimerFires(t)
    BY <2>1, PoolBoundStep DEF Next
  <2>2. CASE UNCHANGED pool
    BY <2>2 DEF PoolBound, Slots
  <2> QED BY <2>1, <2>2, RunStepTasks DEF Throw, taskVars, poolVars
<1>3. CallInvariant => TypeOK
  BY CallFacts
<1> QED BY <1>1, <1>2, <1>3, PoolsHold, RunCallsInvariant, PTL DEF RunSpec

\* The steps that are run one at a time stay so through crashes, and a crash, like a
\* timer, is thrown into the one frame that its greenlet is blocked in.
THEOREM RunSerialOrder == RunSpec => [](SerialIsolation /\ OneBlockedFrame)
BY RunCallsInvariant, InTurn, OneFrame, PTL

\* A crash takes no failed assertion off the record of a task that ends as a success.
THEOREM RunAssertionNotLost == RunSpec => []AssertionReported
<1>1. RunInit => ReportInv
  BY DEF RunInit, Init, ReportInv, AssertionReported, FiredInv
<1>2. CallInvariant /\ ReportInv /\ [RunNext]_runVars => ReportInv'
  <2> SUFFICES ASSUME CallInvariant, ReportInv, [RunNext]_runVars PROVE ReportInv'
    OBVIOUS
  <2>1. CASE \E t \in Tasks : Step(t) \/ TimerFires(t)
    BY <2>1, ReportStep
  <2>2. CASE Throw
    <3>1. PICK b \in Tasks : pc[b] \in Blocked /\ Raise(b, "error") /\ UNCHANGED fired
      BY <2>2 DEF Throw
    <3>2. IsActive(b)
      BY <3>1 DEF IsActive, Active
    <3> QED BY <3>1, <3>2, CallFacts, ReportEndsUntimed
  <2>3. CASE UNCHANGED taskVars
    BY <2>3, CallFacts, ReportKept DEF taskVars, callVars, IsActive
  <2> QED BY <2>1, <2>2, <2>3, RunStepTasks
<1>3. ReportInv => AssertionReported
  BY DEF ReportInv
<1> QED BY <1>1, <1>2, <1>3, RunCallsInvariant, PTL DEF RunSpec

\* After the timeout of a composite task its greenlet calls nothing more below it,
\* nor does a crash make it.
THEOREM RunNothingAfterTimeout ==
    ASSUME OneTimer
    PROVE  RunSpec => NoWorkAfterTimeout
<1>1. RunInit => TimeoutUnwinds
  BY DEF RunInit, Init, TimeoutUnwinds
<1>2. ASSUME CallInvariant, TimeoutUnwinds, [RunNext]_runVars
      PROVE  TimeoutUnwinds' /\ [SpareTheTimedOut]_vars
  <2>1. CASE \E t \in Tasks : Step(t) \/ TimerFires(t)
    BY <1>2, <2>1, TimeoutUnwindsStep, SpareStep
  <2>2. CASE Throw
    BY <1>2, <2>2, TimeoutUnwindsThrow DEF Throw
  <2>3. CASE UNCHANGED taskVars
    BY <1>2, <2>3, TimeoutUnwindsKept DEF SpareTheTimedOut, IsActive, taskVars, callVars, poolVars
  <2> QED BY <1>2, <2>1, <2>2, <2>3, RunStepTasks
<1> QED BY <1>1, <1>2, RunCallsInvariant, PTL DEF RunSpec, NoWorkAfterTimeout, SpareTheTimedOut

-----------------------------------------------------------------------------
(* Type correctness                                                        *)

LEMMA RunTypeInit == RunInit => RunTypeOK
<1>1. RunInit => TypeOK
  BY CallInvariantInit, CallFacts DEF RunInit
<1> QED BY <1>1 DEF RunInit, RunTypeOK, Init, Processes, Running, Dead, AllCodes, Errors

\* The exit codes are those of the except clauses.
LEMMA ExitCodesType ==
    ASSUME raised \in Errors \cup {"none", "uncaught", "crash"}
    PROVE  ExitCodes(raised) \subseteq AllCodes
BY DEF ExitCodes, AllCodes, Errors

LEMMA RunTypeStep == CallInvariant /\ RunTypeOK /\ [RunNext]_runVars => RunTypeOK'
<1> SUFFICES ASSUME CallInvariant, RunTypeOK, [RunNext]_runVars PROVE RunTypeOK'
  OBVIOUS
<1>1. TypeOK'
  BY RunTypes DEF RunTypeOK
<1> USE <1>1
<1>2. CASE Main
  <2>1. CASE Construct \/ SpawnOrchestration \/ JoinAll \/ JanitorDone
    BY <2>1 DEF Construct, SpawnOrchestration, JoinAll, JanitorDone, RunTypeOK, nodeVars,
                vars, Errors
  <2>2. CASE StartNode
    <3>1. PICK n \in Nodes :
            /\ process[n] = "none"
            /\ \/ process' = [process EXCEPT ![n] = "running"] /\ UNCHANGED <<phase, raised>>
               \/ phase' = "closing" /\ raised' = "error" /\ UNCHANGED process
      BY <2>2 DEF StartNode
    <3>2. /\ process' \in [Nodes -> Processes]
          /\ \A m \in Nodes : process'[m] \in Dead <=> process[m] \in Dead
      BY <3>1 DEF RunTypeOK, Processes, Running, Dead
    <3> QED BY <2>2, <3>1, <3>2 DEF StartNode, RunTypeOK, vars, Errors
  <2>3. CASE Exit
    <3>1. code' \in AllCodes
      BY <2>3, ExitCodesType DEF Exit, RunTypeOK, AllCodes
    <3> QED BY <2>3, <3>1 DEF Exit, RunTypeOK, nodeVars, vars
  <2> QED BY <1>2, <2>1, <2>2, <2>3 DEF Main
<1>3. CASE Orchestration
  <2>1. CASE SetUp \/ ReadyTimeout \/ Discover
    BY <2>1 DEF SetUp, ReadyTimeout, Discover, EndOrchestration, RunTypeOK, nodeVars, vars,
                Errors
  <2>2. CASE MainTaskOver
    <3>1. state[Root] = "ERRORED" => outcome[Root] \in Errors
      BY ShapeAssumption DEF RunTypeOK, TypeOK
    <3>2. Done(Root) => state[Root] \in {"FINISHED", "ERRORED"}
      BY CallFacts, ShapeAssumption DEF CallLife
    <3>3. raised' \in Errors \cup {"none", "uncaught", "crash"} /\ orchestration' = "ended"
      BY <2>2, <3>1, <3>2 DEF MainTaskOver, EndOrchestration
    <3> QED BY <2>2, <3>3 DEF MainTaskOver, RunTypeOK, nodeVars, vars
  <2> QED BY <1>3, <2>1, <2>2 DEF Orchestration
<1>4. CASE Kill
  BY <1>4 DEF Kill, EndOrchestration, RunTypeOK, vars
<1>5. CASE UiQuit \/ UiEnds
  <2>1. CASE UiQuit
    <3>1. /\ process' \in [Nodes -> Processes]
          /\ \A n \in Nodes : process'[n] \in Dead <=> process[n] \in Dead
      BY <2>1 DEF UiQuit, RunTypeOK, Alive, Processes, Running, Dead
    <3> QED BY <2>1, <3>1 DEF UiQuit, RunTypeOK, mainVars, vars
  <2>2. CASE UiEnds
    BY <2>2 DEF UiEnds, RunTypeOK, mainVars, nodeVars, vars
  <2> QED BY <1>5, <2>1, <2>2
<1>6. ASSUME NEW n \in Nodes, JanitorStops(n) PROVE RunTypeOK'
  BY <1>6 DEF JanitorStops, ReapedFollows, RunTypeOK, mainVars, Processes, Dead
<1>7. ASSUME NEW n \in Nodes, NodeReady(n) PROVE RunTypeOK'
  BY <1>7 DEF NodeReady, RunTypeOK, nodeVars, vars
<1>8. ASSUME NEW n \in Nodes, NodeExits(n) PROVE RunTypeOK'
  BY <1>8 DEF NodeExits, ReapedFollows, RunTypeOK, mainVars, Processes, Dead
<1>9. ASSUME NEW t \in Tasks, TaskStep(t) PROVE RunTypeOK'
  <2>1. process' \in [Nodes -> Processes] /\ forgotten' \in [Nodes -> Nat]
    BY <1>9 DEF TaskStep, ProcessEffect, RunTypeOK, Processes, Running
  <2> QED BY <1>9, <2>1 DEF TaskStep, ReapedFollows, RunTypeOK, mainVars
<1>10. ASSUME NEW t \in Tasks, TaskTimer(t) PROVE RunTypeOK'
  BY <1>10 DEF TaskTimer, ReapedFollows, RunTypeOK, mainVars, nodeVars
<1>11. CASE UNCHANGED runVars
  BY <1>11 DEF runVars, mainVars, nodeVars, vars, RunTypeOK
<1> QED BY <1>2, <1>3, <1>4, <1>5, <1>6, <1>7, <1>8, <1>9, <1>10, <1>11
        DEF RunNext, RunTerminated

\* Every variable of a run has the values the code gives it, and what the tasks take
\* for reaped are the processes that have exited.
THEOREM RunTypeCorrect == RunSpec => []RunTypeOK
BY RunTypeInit, RunTypeStep, RunCallsInvariant, PTL DEF RunSpec

-----------------------------------------------------------------------------
(* The root task and the orchestration greenlet                            *)

LEMMA ResultInit == RunInit => ResultInv
BY ShapeAssumption DEF RunInit, Init, ResultInv, PhaseInv, RootInv, EndInv, CrashInv, IsActive

\* Only a task, a timer or a crash moves a task, all in a run that goes on.
LEMMA TaskMoves ==
    ASSUME [RunNext]_runVars, NEW u \in Tasks, ~Still(u)
    PROVE  /\ UNCHANGED mainVars
           /\ \/ UNCHANGED crash /\ \E t \in Tasks : TaskStep(t) \/ TaskTimer(t)
              \/ Kill /\ Throw /\ orchestration = "tasks"
<1>1. CASE \E t \in Tasks : TaskStep(t) \/ TaskTimer(t)
  BY <1>1 DEF TaskStep, TaskTimer, nodeVars
<1>2. CASE UNCHANGED <<pc, state, next, outcome>>
  BY <1>2 DEF Still
<1>3. CASE Kill /\ Throw
  BY <1>2, <1>3 DEF Kill, mainVars, vars, callVars
<1>4. CASE Kill /\ ~Throw
  BY <1>2, <1>4 DEF Kill, Throw, vars, callVars
<1> QED BY <1>1, <1>2, <1>3, <1>4 DEF RunNext, Main, Construct, StartNode, SpawnOrchestration,
           JoinAll, JanitorDone, Exit, Orchestration, SetUp, ReadyTimeout, Discover,
           MainTaskOver, UiQuit, UiEnds, JanitorStops, NodeReady, NodeExits, RunTerminated,
           runVars, vars, taskVars, callVars

\* The root task moves while the orchestration greenlet runs it, and not once it is over.
LEMMA RootMoves ==
    ASSUME CallInvariant, RunTypeOK, RootInv, EndInv, [RunNext]_runVars, ~Still(Root)
    PROVE  /\ UNCHANGED mainVars /\ orchestration = "tasks"
           /\ ~Done(Root) /\ (IsActive(Root) \/ Done(Root))'
<1>1. PICK X \in SUBSET Tasks : CallInv(X)
  BY DEF CallInvariant
<1>2. Root \in Tasks /\ TypeOK /\ \A t \in Tasks : CallLife(t)
  BY CallFacts, ShapeAssumption
<1>3. IsActive(Root) => orchestration = "tasks"
  BY DEF RunTypeOK, RootInv, EndInv, IsActive, Done, Active, Blocked
<1>4. ASSUME NEW b \in Tasks, pc[b] \in Blocked, NEW v, Raise(b, v), UNCHANGED next
      PROVE  IsActive(Root) /\ ~Done(Root) /\ (IsActive(Root) \/ Done(Root))'
  <2>1. IsActive(b) /\ ~Done(b) /\ state[b] = "RUNNING"
    BY <1>2, <1>4 DEF CallLife, IsActive, Done, Active, Blocked
  <2>2. /\ \A u \in Tasks \ {b} : Still(u)
        /\ (IsActive(b) \/ Done(b))'
    BY <1>2, <1>4, <2>1, AttemptEnds DEF Moves, TypeOK, Still, IsActive, Done, Active, Blocked
  <2> QED BY <1>2, <2>1, <2>2
<1>5. ASSUME NEW t \in Tasks, TaskStep(t)
      PROVE  orchestration = "tasks" /\ ~Done(Root) /\ (IsActive(Root) \/ Done(Root))'
  <2>1. Step(t) /\ (t = Root => orchestration = "tasks")
    BY <1>5 DEF TaskStep
  <2>2. t = Root /\ (IsActive(Root) \/ GreenletRun(Root))
    BY <1>1, <1>2, <2>1, StepMoves
  <2>3. CASE IsActive(Root)
    BY <1>2, <2>1, <2>2, <2>3, StepStays DEF IsActive, Done, Active, Blocked
  <2>4. CASE GreenletRun(Root)
    BY <1>2, <2>1, <2>2, <2>4
       DEF GreenletRun, Enter, TypeOK, Entry, IsActive, Done, Active, Blocked
  <2> QED BY <2>2, <2>3, <2>4
<1>6. ASSUME NEW t \in Tasks, TaskTimer(t)
      PROVE  IsActive(Root) /\ ~Done(Root) /\ (IsActive(Root) \/ Done(Root))'
  BY <1>4, <1>6 DEF TaskTimer, TimerFires
<1>7. ASSUME Throw PROVE IsActive(Root) /\ ~Done(Root) /\ (IsActive(Root) \/ Done(Root))'
  BY <1>4, <1>7 DEF Throw
<1> QED BY <1>2, <1>3, <1>5, <1>6, <1>7, TaskMoves

LEMMA PhaseStep ==
    ASSUME RunTypeOK, PhaseInv, [RunNext]_runVars
    PROVE  PhaseInv'
<1> USE DEF PhaseInv
<1>1. CASE Main
  <2>1. CASE SpawnOrchestration \/ JoinAll
    BY <2>1 DEF SpawnOrchestration, JoinAll, nodeVars
  <2>2. CASE StartNode
    BY <2>2 DEF StartNode
  <2>3. CASE JanitorDone
    BY <2>3 DEF JanitorDone, nodeVars, Live, Alive
  <2>4. CASE Exit
    BY <2>4 DEF Exit, nodeVars
  <2>5. CASE Construct
    BY <2>5 DEF Construct, nodeVars, Live, Alive, Running
  <2> QED BY <1>1, <2>1, <2>2, <2>3, <2>4, <2>5 DEF Main
<1>2. CASE Orchestration
  BY <1>2 DEF Orchestration, SetUp, ReadyTimeout, Discover, MainTaskOver, EndOrchestration,
              nodeVars, Live, Alive
<1>3. CASE Kill
  BY <1>3 DEF Kill, EndOrchestration, Live, Alive
<1>4. CASE UiQuit \/ UiEnds
  BY <1>4 DEF UiQuit, UiEnds, mainVars, nodeVars, RunTypeOK, Live, Alive, Running
<1>5. ASSUME NEW n \in Nodes, JanitorStops(n) \/ NodeReady(n) \/ NodeExits(n) PROVE PhaseInv'
  BY <1>5 DEF JanitorStops, NodeReady, NodeExits, JanitorOpen, mainVars, nodeVars, Live, Alive
<1>6. ASSUME NEW t \in Tasks, TaskStep(t) PROVE PhaseInv'
  BY <1>6 DEF TaskStep, ProcessEffect, JanitorOpen, mainVars, RunTypeOK, Live, Alive, Running
<1>7. ASSUME NEW t \in Tasks, TaskTimer(t) PROVE PhaseInv'
  BY <1>7 DEF TaskTimer, mainVars, nodeVars, Live, Alive
<1>8. CASE UNCHANGED runVars
  BY <1>8 DEF runVars, mainVars, nodeVars, Live, Alive
<1> QED BY <1>1, <1>2, <1>3, <1>4, <1>5, <1>6, <1>7, <1>8 DEF RunNext, RunTerminated

\* Nothing takes the orchestration greenlet back before the tasks.
LEMMA OrchestrationStep ==
    ASSUME PhaseInv, [RunNext]_runVars
    PROVE  /\ orchestration' \in {"unborn", "setup", "waiting"} =>
                 orchestration \in {"unborn", "setup", "waiting"}
           /\ orchestration = "tasks" => orchestration' \in {"tasks", "ended"}
           /\ orchestration = "ended" => UNCHANGED <<orchestration, raised>>
<1>1. CASE UNCHANGED <<orchestration, raised>>
  BY <1>1
<1>2. CASE Main \/ Orchestration \/ Kill
  BY <1>2 DEF PhaseInv, Main, Construct, StartNode, SpawnOrchestration, JoinAll, JanitorDone,
              Exit, Orchestration, SetUp, ReadyTimeout, Discover, MainTaskOver,
              EndOrchestration, Kill
<1> QED BY <1>1, <1>2 DEF RunNext, UiQuit, UiEnds, JanitorStops, NodeReady, NodeExits,
           TaskStep, TaskTimer, RunTerminated, runVars, mainVars

LEMMA RootStep ==
    ASSUME CallInvariant, RunTypeOK, PhaseInv, RootInv, EndInv, [RunNext]_runVars
    PROVE  RootInv'
<1>1. CASE Still(Root)
  BY <1>1, OrchestrationStep DEF RootInv, Still, IsActive, Done
<1>2. CASE ~Still(Root)
  BY <1>2, RootMoves DEF RootInv, mainVars, IsActive, Done, Active, Blocked
<1> QED BY <1>1, <1>2

LEMMA EndInvStep ==
    ASSUME CallInvariant, RunTypeOK, ResultInv, [RunNext]_runVars
    PROVE  EndInv'
<1> USE DEF ResultInv
<1>1. CASE orchestration = "ended"
  <2>1. UNCHANGED <<orchestration, raised>> /\ Still(Root)
    BY <1>1, OrchestrationStep, RootMoves
  <2> QED BY <1>1, <2>1 DEF EndInv, Still, Done
<1>2. ASSUME orchestration # "ended", orchestration' = "ended" PROVE EndInv'
  <2>1. Still(Root)
    BY <1>2, RootMoves DEF mainVars
  <2>2. \/ SetUp \/ ReadyTimeout \/ Discover \/ MainTaskOver
        \/ Kill /\ orchestration \in {"setup", "waiting"}
    BY <1>2 DEF RunNext, Main, Construct, StartNode, SpawnOrchestration, JoinAll, JanitorDone,
           Exit, Orchestration, UiQuit, UiEnds, JanitorStops, NodeReady, NodeExits, TaskStep,
           TaskTimer, RunTerminated, Kill, runVars, mainVars
  <2>3. CASE \/ SetUp \/ ReadyTimeout \/ Discover
             \/ Kill /\ orchestration \in {"setup", "waiting"}
    <3>1. /\ orchestration \in {"setup", "waiting"}
          /\ raised' \in {"error", "uncaught", "crash"}
      BY <1>2, <2>3 DEF SetUp, ReadyTimeout, Discover, Kill, EndOrchestration
    <3> QED BY <2>1, <3>1 DEF EndInv, RootInv, Still
  <2>4. CASE MainTaskOver
    <3>1. /\ orchestration = "tasks" /\ Done(Root)
          /\ raised' = IF state[Root] = "FINISHED" THEN "none"
                       ELSE IF crash = "thrown" THEN "crash" ELSE outcome[Root]
      BY <2>4 DEF MainTaskOver, EndOrchestration
    <3>2. state[Root] = "ERRORED" => outcome[Root] \in Errors
      BY ShapeAssumption DEF RunTypeOK, TypeOK
    <3>3. crash = "thrown" => outcome[Root] = "error"
      BY <3>1 DEF CrashInv, IsActive, Done, Active, Blocked
    <3> QED BY <2>1, <3>1, <3>2, <3>3 DEF EndInv, Still, Done, Errors
  <2> QED BY <2>2, <2>3, <2>4
<1>3. CASE orchestration' # "ended"
  BY <1>3 DEF EndInv
<1> QED BY <1>1, <1>2, <1>3

\* The crash takes the blocked frame of the root's greenlet up to the root.
LEMMA CrashStart ==
    ASSUME CallInvariant, Throw
    PROVE  \/ IsActive(Root)' /\ Unwinding(Root, "error")'
           \/ Done(Root)' /\ state'[Root] = "ERRORED" /\ outcome'[Root] = "error"
<1>1. PICK X \in SUBSET Tasks : CallInv(X)
  BY DEF CallInvariant
<1>2. PICK b \in Tasks : /\ pc[b] \in Blocked /\ GreenletOf[b] = Root
                         /\ Raise(b, "error") /\ UNCHANGED next
  BY DEF Throw
<1>3. Fail(b, "error") /\ TypeOK /\ Root \in Tasks
  BY <1>1, <1>2, ShapeAssumption DEF Raise, CallInv
<1>4. CASE b = Root
  BY <1>3, <1>4 DEF Fail, TypeOK, Done
<1>5. CASE b # Root
  <2>1. Root \in Ancestors[b] /\ GreenletOf[Root] = Root
    BY <1>3, <1>5, RootAbove, GreenletEquation DEF IsHead
  <2>2. Engaged(b)
    BY <1>2 DEF Engaged, IsActive, Active
  <2>3. pc[Root] = "call"
    BY <1>1, <1>2, <2>1, <2>2, CallersOnPath
  <2>4. IsActive(Root)'
    BY <1>3, <1>5, <2>3 DEF Fail, TypeOK, IsActive, Active
  <2>5. b \in Segment(Root) \ {Root}
    BY <1>2, <1>5, <2>1 DEF Segment
  <2>6. Unwinding(Root, "error")'
    BY <1>1, <1>2, <1>3, <2>5, UnwindStart
  <2> QED BY <2>4, <2>6
<1> QED BY <1>4, <1>5

LEMMA CrashStep ==
    ASSUME CallInvariant, RunTypeOK, ResultInv, [RunNext]_runVars
    PROVE  CrashInv'
<1> USE DEF ResultInv
<1>1. PICK X \in SUBSET Tasks : CallInv(X)
  BY DEF CallInvariant
<1> SUFFICES ASSUME crash' = "thrown"
             PROVE  /\ orchestration' \in {"tasks", "ended"}
                    /\ orchestration' = "tasks" =>
                         \/ IsActive(Root)' /\ Unwinding(Root, "error")'
                         \/ Done(Root)' /\ state'[Root] = "ERRORED" /\ outcome'[Root] = "error"
  BY DEF CrashInv
<1>2. CASE Kill
  <2>1. CASE Throw
    BY <1>2, <2>1, CrashStart DEF Kill, EndOrchestration
  <2>2. CASE ~Throw
    BY <1>2, <2>2 DEF Kill, Throw, EndOrchestration
  <2> QED BY <2>1, <2>2
<1>3. CASE ~Kill
  <2>1. crash = "thrown"
    BY <1>3 DEF RunNext, Main, Construct, StartNode, SpawnOrchestration, JoinAll, JanitorDone,
           Exit, Orchestration, SetUp, ReadyTimeout, Discover, MainTaskOver, UiQuit, UiEnds,
           JanitorStops, NodeReady, NodeExits, TaskStep, TaskTimer, RunTerminated, runVars,
           mainVars, nodeVars
  <2>2. orchestration \in {"tasks", "ended"} /\ orchestration' \in {"tasks", "ended"}
    BY <2>1, OrchestrationStep DEF CrashInv
  <2> SUFFICES ASSUME orchestration' = "tasks"
               PROVE  \/ IsActive(Root)' /\ Unwinding(Root, "error")'
                      \/ Done(Root)' /\ state'[Root] = "ERRORED" /\ outcome'[Root] = "error"
    BY <2>2
  <2>3. \/ IsActive(Root) /\ Unwinding(Root, "error")
        \/ Done(Root) /\ state[Root] = "ERRORED" /\ outcome[Root] = "error"
    BY <2>1, <2>2, OrchestrationStep DEF CrashInv
  <2>4. CASE Done(Root)
    <3>1. Still(Root) /\ ~IsActive(Root)
      BY <2>4, RootMoves DEF IsActive, Done, Active, Blocked
    <3> QED BY <2>3, <3>1 DEF Still, Done
  <2>5. CASE IsActive(Root) /\ Unwinding(Root, "error")
    <3>1. Root \in Tasks
      BY ShapeAssumption
    <3>2. ASSUME NEW t \in Tasks, Step(t)
          PROVE  /\ Unwinding(Root, "error")'
                 /\ \/ IsActive(Root)'
                    \/ Done(Root)' /\ state'[Root] = "ERRORED" /\ outcome'[Root] = "error"
      BY <1>1, <2>5, <3>1, <3>2, UnwindStep
    <3>3. ASSUME NEW b \in Tasks, pc[b] \in Blocked, NEW v, Raise(b, v), UNCHANGED next
          PROVE  IsActive(Root)' /\ Unwinding(Root, "error")'
      <4>1. Root \in Segment(Root)
        BY <3>1 DEF Segment
      <4> QED BY <1>1, <2>5, <3>1, <3>3, <4>1, ThrowSpares DEF Still, IsActive
    <3>4. ASSUME NEW t \in Tasks, TimerFires(t)
          PROVE  IsActive(Root)' /\ Unwinding(Root, "error")'
      BY <3>3, <3>4 DEF TimerFires
    <3>5. CASE Throw
      BY <3>3, <3>5 DEF Throw
    <3>6. CASE UNCHANGED taskVars
      BY <2>5, <3>6 DEF taskVars, callVars, Unwinding, Segment, IsActive, Done
    <3> QED BY <3>2, <3>4, <3>5, <3>6, RunStepTasks
  <2> QED BY <2>3, <2>4, <2>5
<1> QED BY <1>2, <1>3

LEMMA ResultStep == CallInvariant /\ RunTypeOK /\ ResultInv /\ [RunNext]_runVars => ResultInv'
BY PhaseStep, RootStep, EndInvStep, CrashStep DEF ResultInv

\* What the main greenlet, the orchestration greenlet and the root task agree on.
LEMMA ResultHolds == RunSpec => []ResultInv
BY ResultInit, ResultStep, RunCallsInvariant, RunTypeCorrect, PTL DEF RunSpec

-----------------------------------------------------------------------------
(* The promise                                                             *)

Busy == {n \in Nodes : Live(n) > 0}

\* The result is told once: when the root task's call is over.
LEMMA ResultOnce ==
    ASSUME CallInvariant, RunTypeOK, ResultInv, [RunNext]_runVars
    PROVE  \/ Result' = Result
           \/ Result = "open" /\ UNCHANGED mainVars
<1>1. CASE Still(Root)
  BY <1>1 DEF Result, Still
<1>2. CASE ~Still(Root)
  <2>1. ~Done(Root) /\ UNCHANGED mainVars
    BY <1>2, RootMoves DEF ResultInv
  <2>2. CallLife(Root)
    BY CallFacts, ShapeAssumption
  <2>3. state[Root] \in {"INITIALIZED", "RUNNING"}
    BY <2>1, <2>2 DEF CallLife, ResultInv, RootInv
  <2> QED BY <2>1, <2>3 DEF Result
<1> QED BY <1>1, <1>2

\* The code of each error is not one that tells something else.
LEMMA ErrorTells ==
    ASSUME raised \in {"error", "uncaught", "crash", "timeout", "oserror"}
    PROVE  ExitCodes(raised) \subseteq AllCodes \ {0, 30}
BY CodeAssumption DEF ExitCodes, AllCodes

\* Without a terminal for the UI that was asked for, the code is that of the
\* AttributeError; that of a constructor that refused, if there is no result yet.
LEMMA ExitHeadless ==
    ASSUME CallInvariant, RunTypeOK, ResultInv, Exit, ui = "headless"
    PROVE  code' \in Promise!Telling(Result)
<1>1. CASE phase = "ui"
  <2>1. code' = 10
    BY <1>1 DEF Exit
  <2> QED BY <2>1 DEF Promise!Telling, AllCodes
<1>2. CASE phase = "refused"
  <2>1. orchestration = "unborn" /\ raised \in {"error", "uncaught", "crash"}
    BY <1>2 DEF ResultInv, PhaseInv, RunTypeOK
  <2>2. Result = "open"
    BY <2>1 DEF ResultInv, RootInv, Result
  <2>3. code' \in AllCodes \ {0, 30}
    BY <1>2, <2>1, ErrorTells DEF Exit
  <2> QED BY <2>2, <2>3 DEF Promise!Telling
<1> QED BY <1>1, <1>2 DEF Exit

\* Otherwise the exit code tells the result of the root task.
LEMMA ExitPlain ==
    ASSUME CallInvariant, RunTypeOK, ResultInv, Exit, ui # "headless"
    PROVE  code' \in Promise!Telling(Result)
<1>2. code' \in ExitCodes(raised)
  BY DEF Exit
<1>3. ASSUME raised \in {"error", "uncaught", "crash", "timeout", "oserror"},
             Result \in {"open", "failure"}
      PROVE  code' \in Promise!Telling(Result)
  <2>1. Promise!Telling(Result) = AllCodes \ {0, 30}
    BY <1>3 DEF Promise!Telling
  <2> QED BY <1>2, <1>3, <2>1, ErrorTells
<1>4. CASE pc[Root] = "scheduled"
  <2>1. raised \in {"error", "uncaught", "crash"}
    BY <1>4 DEF Exit, ResultInv, PhaseInv, EndInv, Done
  <2>2. Result = "open"
    BY <1>4 DEF ResultInv, RootInv, Result
  <2> QED BY <1>3, <2>1, <2>2
<1>5. CASE orchestration = "ended" /\ Done(Root)
  <2>1. state[Root] \in {"FINISHED", "ERRORED"}
    BY <1>5, CallFacts, ShapeAssumption DEF CallLife
  <2>2. CASE state[Root] = "FINISHED"
    <3>1. raised = "none" /\ Result = "success"
      BY <1>5, <2>2 DEF ResultInv, EndInv, Result, Done
    <3>2. ExitCodes(raised) = {0} /\ Promise!Telling(Result) = {0}
      BY <3>1 DEF ExitCodes, Promise!Telling
    <3> QED BY <1>2, <3>2
  <2>3. CASE state[Root] = "ERRORED" /\ outcome[Root] = "assertion"
    <3>1. raised = "assertion" /\ Result = "assertion"
      BY <1>5, <2>3 DEF ResultInv, EndInv, Result, Done
    <3>2. ExitCodes(raised) = {30} /\ Promise!Telling(Result) = {30}
      BY <3>1 DEF ExitCodes, Promise!Telling
    <3> QED BY <1>2, <3>2
  <2>4. CASE state[Root] = "ERRORED" /\ outcome[Root] # "assertion"
    <3>1. raised \in {"error", "timeout", "oserror", "crash"} /\ Result = "failure"
      BY <1>5, <2>4 DEF ResultInv, EndInv, Result, Done
    <3> QED BY <1>3, <3>1
  <2> QED BY <2>1, <2>2, <2>3, <2>4
<1>6. orchestration = "unborn" => pc[Root] = "scheduled"
  BY DEF ResultInv, RootInv
<1>7. orchestration \in {"unborn", "ended"}
  BY DEF Exit, ResultInv, PhaseInv
<1> QED BY <1>4, <1>5, <1>6, <1>7 DEF ResultInv, EndInv

\* An exit is an exit of the promise.
LEMMA ExitTells ==
    ASSUME CallInvariant, RunTypeOK, ResultInv, Exit
    PROVE  Busy = {} /\ code = NotExited /\ code' \in Promise!Telling(Result)
<1>1. Busy = {} /\ code = NotExited
  BY DEF Exit, ResultInv, PhaseInv, Busy
<1> QED BY <1>1, ExitHeadless, ExitPlain

\* A UI without a terminal stays one.
LEMMA HeadlessStays == [RunNext]_runVars => UNCHANGED (ui = "headless")
BY DEF RunNext, Main, Construct, StartNode, SpawnOrchestration, JoinAll, JanitorDone,
       Exit, Orchestration, SetUp, ReadyTimeout, Discover, MainTaskOver, Kill, UiQuit,
       UiEnds, JanitorStops, NodeReady, NodeExits, TaskStep, TaskTimer,
       RunTerminated, runVars, mainVars, nodeVars

\* Once the program has exited, nothing the promise speaks of changes.
LEMMA ExitedStays ==
    ASSUME CallInvariant, RunTypeOK, ResultInv, [RunNext]_runVars, phase = "exited"
    PROVE  UNCHANGED <<code, process, forgotten, Result, ui = "headless">>
<1>1. orchestration \in {"unborn", "ended"}
  BY DEF ResultInv, PhaseInv
<1>2. UNCHANGED <<code, process, forgotten, ui = "headless">>
  BY <1>1, HeadlessStays DEF RunNext, Main, Construct, StartNode, SpawnOrchestration,
         JoinAll, JanitorDone, Exit, Orchestration, SetUp, ReadyTimeout, Discover, MainTaskOver, Kill, UiQuit,
         UiEnds, JanitorStops, NodeReady, NodeExits, JanitorOpen, TaskStep, TaskTimer,
         RunTerminated, runVars, mainVars, nodeVars
<1>3. Still(Root)
  BY <1>1, RootMoves DEF ResultInv
<1> QED BY <1>2, <1>3 DEF Result, Still

\* Only the exit changes the code.
LEMMA CodeStays == [RunNext]_runVars => UNCHANGED code \/ Exit
BY DEF RunNext, Main, Construct, StartNode, SpawnOrchestration, JoinAll, JanitorDone,
       Orchestration, SetUp, ReadyTimeout, Discover, MainTaskOver, Kill, UiQuit,
       UiEnds, JanitorStops, NodeReady, NodeExits, TaskStep, TaskTimer,
       RunTerminated, runVars, mainVars, nodeVars

\* Every step of the run is a step of the promise, or none for it.
LEMMA PromiseStep ==
    CallInvariant /\ RunTypeOK /\ ResultInv /\ [RunNext]_runVars =>
        [Promise!Next]_(Promise!vars)
<1> SUFFICES ASSUME CallInvariant, RunTypeOK, ResultInv, [RunNext]_runVars
             PROVE  [Promise!Next]_(Promise!vars)
  OBVIOUS
<1>1. CASE Exit
  <2>1. UNCHANGED <<Busy, Result, ui = "headless">>
    BY <1>1 DEF Exit, nodeVars, vars, callVars, Busy, Live, Alive, Result
  <2>2. Promise!Exit
    BY <1>1, <2>1, ExitTells DEF Promise!Exit, Busy
  <2> QED BY <2>2 DEF Promise!Next
<1>2. CASE phase = "exited"
  BY <1>2, ExitedStays DEF Promise!vars, Live, Alive
<1>3. CASE ~Exit /\ phase # "exited"
  <2>1. code = NotExited /\ UNCHANGED <<code, ui = "headless">>
    BY <1>3, CodeStays, HeadlessStays DEF ResultInv, PhaseInv
  <2>2. Result' \in IF Result = "open" THEN Promise!Results ELSE {Result}
    BY ResultOnce DEF Result, Promise!Results
  <2>3. Busy' \in SUBSET Nodes
    BY DEF Busy
  <2>4. Promise!Work
    BY <2>1, <2>2, <2>3 DEF Promise!Work, Busy
  <2> QED BY <2>4 DEF Promise!Next
<1> QED BY <1>1, <1>2, <1>3

\* The program exits at most once and leaves no node process behind.  If the root
\* task has succeeded it exits with 0, if that has failed with an assertion with 30,
\* and otherwise with neither, whichever greenlet the crash of a node is thrown into;
\* but once the root task is over and the UI was asked for without a terminal,
\* ScenarioUIManager.__exit__ makes it 10 in each of these cases.
THEOREM PromiseImplemented == RunSpec => PromiseKept
<1>1. RunInit => Promise!Init
  <2> SUFFICES ASSUME RunInit PROVE Promise!Init
    OBVIOUS
  <2>1. Busy = {}
    BY DEF RunInit, Busy, Live, Alive, Running
  <2>2. Result = "open"
    BY ShapeAssumption DEF RunInit, Init, Result
  <2> QED BY <2>1, <2>2 DEF Promise!Init, RunInit, Busy
<1> QED BY <1>1, PromiseStep, ResultHolds, RunCallsInvariant, RunTypeCorrect, PTL
        DEF RunSpec, PromiseKept, Promise!Spec

-----------------------------------------------------------------------------
(* One process per node                                                    *)

\* A serial task p stops a node with its i-th child and starts it with its j-th, and
\* nothing in between starts it.
RestartAt(p, i, j) ==
    /\ Kind[p] = "serial" /\ i < j
    /\ Kind[Children[p][i]] = "stop_node" /\ Kind[Children[p][j]] = "start_node"
    /\ Target[Children[p][i]] = Target[Children[p][j]]
    /\ \A k \in i+1..j-1, u \in Tasks :
          Kind[u] = "start_node" /\ Target[u] = Target[Children[p][j]] =>
             Children[p][k] \notin {u} \cup Ancestors[u]

\* What the author of a scenario has to see to: nodes run from the start, and
\* NodeRunner.start does not look whether its node has a process.
StopsFirst ==
    \A s \in Tasks : Kind[s] = "start_node" =>
       \E p \in Tasks : \E i, j \in DOMAIN Children[p] :
          Children[p][j] = s /\ RestartAt(p, i, j)

\* The i-th child of p has succeeded in this pass, and the j-th is not over.
Between(p, i, j) ==
    \/ pc[p] = "loop" /\ i < next[p] /\ next[p] <= j
    \/ /\ pc[p] = "call"
       /\ \/ next[p] = i /\ Done(Children[p][i]) /\ state[Children[p][i]] = "FINISHED"
          \/ i < next[p] /\ next[p] < j
          \/ next[p] = j /\ ~Done(Children[p][j])

DownInv ==
    \A p \in Tasks : \A i, j \in DOMAIN Children[p] :
       RestartAt(p, i, j) /\ Between(p, i, j) => ~Alive(Target[Children[p][j]])

\* The processes of the nodes are started first, the tasks are called later.
UncalledInv ==
    orchestration \in {"unborn", "setup", "waiting"} =>
       \A t \in Tasks \ {Root} : pc[t] = "idle"

ProcessInv == DownInv /\ UncalledInv /\ \A n \in Nodes : forgotten[n] = 0

\* While a node is being started again, its process is down.
LEMMA StartFindsDown ==
    ASSUME StopsFirst, CallInvariant, DownInv, NEW u \in Tasks,
           Kind[u] = "start_node", pc[u] = "request"
    PROVE  ~Alive(Target[u])
<1>1. PICK X \in SUBSET Tasks : CallInv(X)
  BY DEF CallInvariant
<1>2. PICK p \in Tasks : \E i, j \in DOMAIN Children[p] :
        Children[p][j] = u /\ RestartAt(p, i, j)
  BY DEF StopsFirst
<1> PICK i \in DOMAIN Children[p], j \in DOMAIN Children[p] :
      Children[p][j] = u /\ RestartAt(p, i, j)
  BY <1>2
<1>3. pc[p] = "call" /\ j = next[p]
  BY <1>1 DEF CallInv, TaskPlace, SerialPlace, RestartAt, Engaged, IsActive, Active,
                    Blocked
<1>4. Between(p, i, j)
  BY <1>3 DEF Between, Done
<1> QED BY <1>4 DEF DownInv

\* A start of the node that is under way is the one the serial task has come to.
LEMMA StartInPlace ==
    ASSUME NEW X \in SUBSET Tasks, CallInv(X),
           NEW p \in Tasks, NEW i \in DOMAIN Children[p], NEW j \in DOMAIN Children[p],
           RestartAt(p, i, j), pc[p] \in {"loop", "call"},
           i <= next[p], next[p] <= j,
           NEW u \in Tasks, Kind[u] = "start_node", pc[u] = "request",
           Target[u] = Target[Children[p][j]]
    PROVE  u = Children[p][j]
<1> DEFINE s == Children[p][j]
<1>1. s \in Tasks \ {p, Root} /\ Parent(s) = p /\ Kind[p] = "serial"
  BY ChildAt DEF RestartAt
<1>2. GreenletOf[s] = GreenletOf[p]
  BY <1>1, GreenletEquation DEF IsHead
<1>3. GreenletOf[u] = GreenletOf[s]
  BY <1>1, ProcessTasksAssumption DEF RestartAt
<1>4. Engaged(u) /\ Engaged(p) /\ u # p
  BY <1>1 DEF Engaged, IsActive, Active, Blocked
<1>5. p \in Ancestors[u] \/ u \in Ancestors[p]
  BY <1>2, <1>3, <1>4, OnePath
<1>6. IsLeaf(u) /\ IsLeaf(s)
  BY <1>1 DEF IsLeaf, Composites, RestartAt
<1>7. \A t \in Tasks : Ancestors[t] \cap {u, s} = {}
  BY <1>1, <1>6, ChildBetween, ShapeAssumption DEF IsLeaf, Offspring
<1>8. p \in Ancestors[u]
  BY <1>5, <1>7
<1>9. pc[p] = "call" /\ Children[p][next[p]] \in {u} \cup Ancestors[u]
  BY <1>2, <1>3, <1>4, <1>8, CallersOnPath
<1>10. next[p] # i
  <2>1. SUFFICES ASSUME next[p] = i PROVE FALSE
    OBVIOUS
  <2>2. Children[p][i] \in Tasks /\ IsLeaf(Children[p][i])
    BY ChildAt DEF IsLeaf, Composites, RestartAt
  <2>3. Children[p][i] \notin Ancestors[u]
    BY <2>2, ChildBetween, ShapeAssumption DEF IsLeaf, Offspring
  <2> QED BY <1>9, <2>1, <2>3 DEF RestartAt
<1>11. i \in Nat /\ j \in Nat /\ next[p] \in Nat
  BY ChildAt DEF CallInv, TypeOK
<1>12. next[p] = j
  BY <1>9, <1>10, <1>11 DEF RestartAt
<1> QED BY <1>7, <1>9, <1>12

\* Only the success of the stop_node task takes a serial task past it.
LEMMA BetweenStep ==
    ASSUME NEW X \in SUBSET Tasks, CallInv(X), NEW t \in Tasks, Step(t),
           NEW p \in Tasks, NEW i \in DOMAIN Children[p], NEW j \in DOMAIN Children[p],
           RestartAt(p, i, j), Between(p, i, j)', ~Between(p, i, j)
    PROVE  t = Children[p][i] /\ pc[t] = "request" /\ state'[t] = "FINISHED"
<1> DEFINE st == Children[p][i]
           s  == Children[p][j]
<1>1. /\ st \in Tasks \ {p, Root} /\ s \in Tasks \ {p, Root}
      /\ Parent(st) = p /\ Parent(s) = p
      /\ i \in Nat \ {0} /\ j \in Nat /\ i < j
  BY ChildAt DEF RestartAt
<1>2. TypeOK /\ \A u \in Tasks : CallLife(u)
  BY DEF CallInv, TaskPlace
<1>3. Kind[p] = "serial" /\ Kind[st] = "stop_node" /\ Kind[s] = "start_node"
  BY DEF RestartAt
<1>4. Entry(p) = "loop" /\ Entry(st) = "request" /\ IsLeaf(st)
  BY <1>3 DEF Entry, IsLeaf, Composites
<1>5. pc'[p] \in {"loop", "call"}
  BY DEF Between
<1>6. CASE ~Still(p)
  <2>1. CASE p = t /\ IsActive(p)
    <3>1. SerialCall(p) \/ SerialResume(p) \/ SerialReturn(p) \/ Retry(p)
      BY <1>2, <1>3, <2>1, StepMoves
         DEF Step, Spawn, GreenletRun, Discard, JoinReturn, LeafAnswers, CallLife, IsActive,
             Active, Blocked, Done, IsLeaf, Composites
    <3>2. CASE SerialCall(p)
      <4>1. /\ pc[p] = "loop" /\ next[p] \in Nat /\ next[p] <= Len(Children[p])
            /\ Enter(Children[p][next[p]], [pc EXCEPT ![p] = "call"])
        BY <1>2, <3>2 DEF SerialCall, TypeOK
      <4>2. next[p] \in DOMAIN Children[p] /\ Children[p][next[p]] \in Tasks \ {p}
        <5>1. next[p] \in Nat \ {0} /\ Children[p] \in Seq(Tasks)
          BY <1>2, ShapeAssumption DEF TypeOK
        <5>2. next[p] \in DOMAIN Children[p]
          BY <4>1, <5>1
        <5> QED BY <5>2, ChildAt
      <4>3. pc'[p] = "call" /\ next'[p] = next[p] /\ ~Done(Children[p][next[p]])'
        BY <1>2, <4>1, <4>2 DEF Enter, TypeOK, Entry, Done
      <4> QED BY <1>1, <4>1, <4>3 DEF Between
    <3>3. CASE SerialResume(p)
      <4>1. /\ pc[p] = "call" /\ Done(Children[p][next[p]])
            /\ state[Children[p][next[p]]] = "FINISHED" /\ next'[p] = next[p] + 1
            /\ pc'[p] = "loop" /\ next[p] \in Nat
        <5>1. ASSUME NEW v, Raise(p, v) PROVE FALSE
          BY <1>2, <1>5, <2>1, <5>1, AttemptEnds DEF Moves, TypeOK, CallLife
        <5> QED BY <1>2, <3>3, <5>1 DEF SerialResume, TypeOK
      <4> QED BY <1>1, <4>1 DEF Between
    <3>4. CASE SerialReturn(p)
      BY <1>2, <1>5, <2>1, <3>4, AttemptEnds DEF SerialReturn, Moves, TypeOK, CallLife
    <3>5. CASE Retry(p)
      BY <1>1, <1>2, <1>4, <3>5 DEF Retry, TypeOK, Between
    <3> QED BY <3>1, <3>2, <3>3, <3>4, <3>5
  <2>2. CASE GreenletRun(p)
    BY <1>1, <1>2, <1>4, <2>2 DEF GreenletRun, Enter, TypeOK, Between
  <2>3. CASE ~Engaged(p) /\ p # Root /\ Parent(p) = t /\ pc[t] \in {"loop", "slot"}
    <3>1. p # t
      BY <2>3, ParentFacts
    <3>2. SerialCall(t) \/ Spawn(t)
      <4>1. ASSUME SerialReturn(t) \/ JoinReturn(t) \/ Discard(t) \/ LeafAnswers(t) \/ Retry(t)
            PROVE  FALSE
        <5>1. SerialReturn(t)
          BY <2>3, <4>1 DEF JoinReturn, Discard, LeafAnswers, Retry, Done
        <5>2. state[t] = "RUNNING"
          BY <1>2, <5>1 DEF SerialReturn, CallLife, IsActive, Active
        <5> QED BY <1>2, <1>6, <3>1, <5>1, <5>2, AttemptEnds
                DEF SerialReturn, Moves, TypeOK, Still
      <4> QED BY <2>3, <4>1 DEF Step, SerialResume, GreenletRun
    <3>3. CASE SerialCall(t)
      <4>1. Enter(Children[t][next[t]], [pc EXCEPT ![t] = "call"])
        BY <3>3 DEF SerialCall
      <4>2. p = Children[t][next[t]]
        <5> DEFINE c == Children[t][next[t]]
        <5>1. SUFFICES ASSUME p # c PROVE Still(p)
          BY <1>6
        <5>2. /\ pc' = [[pc EXCEPT ![t] = "call"] EXCEPT ![c] = Entry(c)]
              /\ state' = [state EXCEPT ![c] = "RUNNING"]
              /\ next' = [next EXCEPT ![c] = 1] /\ outcome' = outcome
          BY <4>1 DEF Enter
        <5> HIDE DEF c
        <5> QED BY <1>2, <3>1, <5>1, <5>2 DEF TypeOK, Still
      <4>3. pc'[p] = "loop" /\ next'[p] = 1
        BY <1>2, <1>4, <3>1, <4>1, <4>2 DEF Enter, TypeOK
      <4> QED BY <1>1, <4>3 DEF Between
    <3>4. CASE Spawn(t)
      BY <1>2, <1>5, <1>6, <3>1, <3>4 DEF Spawn, TypeOK, Still
    <3> QED BY <3>2, <3>3, <3>4
  <2> QED BY <1>6, <2>1, <2>2, <2>3, StepMoves
<1>7. CASE Still(p)
  <2>1. pc'[p] = pc[p] /\ next'[p] = next[p]
    BY <1>7 DEF Still
  <2>2. pc[p] = "call"
    BY <1>5, <2>1 DEF Between
  <2>3. ASSUME NEW k \in {i, j}, next[p] = k, ~Still(Children[p][k])
        PROVE  t = Children[p][k] /\ IsActive(t)
    <3>1. IsActive(Children[p][k]) \/ Done(Children[p][k])
      BY <1>3, <2>2, <2>3 DEF CallInv, TaskPlace, SerialPlace
    <3>2. ~GreenletRun(Children[p][k])
      BY <3>1 DEF GreenletRun, IsActive, Active, Blocked, Done
    <3> QED BY <1>1, <2>2, <2>3, <3>2, StepMoves
  <2>4. next[p] # j
    <3>1. SUFFICES ASSUME next[p] = j PROVE FALSE
      OBVIOUS
    <3>2. Done(s) /\ ~Done(s)'
      BY <1>1, <2>1, <2>2, <3>1 DEF Between
    <3> QED BY <2>3, <3>1, <3>2 DEF Still, Done, IsActive, Active, Blocked
  <2>5. next[p] = i /\ state'[st] = "FINISHED" /\ Done(st)'
        /\ ~(state[st] = "FINISHED" /\ Done(st))
    BY <1>1, <2>1, <2>2, <2>4 DEF Between
  <2>6. t = st /\ IsActive(t)
    BY <2>3, <2>5 DEF Still, Done
  <2>7. t \notin Timed
    BY <1>3, <2>6, OptionAssumption DEF Composites
  <2> QED BY <1>2, <1>4, <2>5, <2>6, <2>7 DEF CallLife, IsActive, Active, Blocked
<1> QED BY <1>6, <1>7

\* A timer or a crash takes no serial task past a stop_node task.
LEMMA BetweenThrow ==
    ASSUME NEW X \in SUBSET Tasks, CallInv(X), NEW b \in Tasks, pc[b] \in Blocked,
           NEW v, Raise(b, v), UNCHANGED next,
           NEW p \in Tasks, NEW i \in DOMAIN Children[p], NEW j \in DOMAIN Children[p],
           RestartAt(p, i, j), Between(p, i, j)'
    PROVE  Between(p, i, j)
<1>1. TypeOK /\ CallLife(b) /\ state[b] = "RUNNING" /\ ~Done(b)
  BY DEF CallInv, TaskPlace, CallLife, IsActive, Active, Blocked, Done
<1>2. /\ \A u \in Tasks \ {b} : pc'[u] = pc[u] /\ state'[u] = state[u]
      /\ pc'[b] \in {"sleep", "done"}
  BY <1>1, AttemptEnds DEF Moves, TypeOK
<1>3. p # b
  BY <1>2 DEF Between
<1>4. Children[p][i] \in Tasks /\ Children[p][j] \in Tasks
  BY ChildAt
<1>5. CASE b # Children[p][i]
  BY <1>1, <1>2, <1>3, <1>4, <1>5 DEF Between, Done
<1>6. CASE b = Children[p][i]
  <2>1. b \notin Timed
    BY <1>6, OptionAssumption DEF RestartAt, Composites
  <2>2. state'[b] = "ERRORED"
    BY <1>1, <2>1 DEF Raise, Fail, TypeOK
  <2> QED BY <1>1, <1>2, <1>3, <1>4, <1>6, <2>2 DEF Between, Done
<1> QED BY <1>5, <1>6

\* A process comes up by StartNode and by a start_node task.
LEMMA ComesUp ==
    ASSUME RunTypeOK, [RunNext]_runVars, NEW n \in Nodes, ~Alive(n), Alive(n)'
    PROVE  \/ phase = "starting" /\ UNCHANGED <<orchestration, vars>>
           \/ \E t \in Tasks : TaskStep(t) /\ Starts(n)
<1>1. CASE StartNode
  BY <1>1 DEF StartNode
<1>2. ASSUME NEW t \in Tasks, TaskStep(t) PROVE Starts(n)
  BY <1>2 DEF TaskStep, ProcessEffect, Alive, Running, RunTypeOK
<1>3. ASSUME NEW m \in Nodes, JanitorStops(m) \/ NodeReady(m) \/ NodeExits(m) PROVE FALSE
  BY <1>3 DEF JanitorStops, NodeReady, NodeExits, nodeVars, Alive, Running, Dead, RunTypeOK
<1>4. CASE UiQuit
  BY <1>4 DEF UiQuit, Alive, Running
<1> QED BY <1>1, <1>2, <1>3, <1>4 DEF RunNext, Main, Construct, SpawnOrchestration, JoinAll,
           JanitorDone, Exit, Orchestration, SetUp, ReadyTimeout, Discover, MainTaskOver,
           Kill, UiEnds, TaskTimer, RunTerminated, runVars, nodeVars, Alive

LEMMA UncalledStep ==
    ASSUME CallInvariant, RunTypeOK, ResultInv, UncalledInv, [RunNext]_runVars
    PROVE  UncalledInv'
<1> SUFFICES ASSUME orchestration' \in {"unborn", "setup", "waiting"}, NEW u \in Tasks \ {Root}
             PROVE  pc'[u] = "idle"
  BY DEF UncalledInv
<1>1. PICK X \in SUBSET Tasks : CallInv(X)
  BY DEF CallInvariant
<1>2. /\ orchestration \in {"unborn", "setup", "waiting"} /\ pc[Root] = "scheduled"
      /\ \A t \in Tasks \ {Root} : pc[t] = "idle"
  BY OrchestrationStep DEF UncalledInv, ResultInv, RootInv
<1>3. SUFFICES ASSUME ~Still(u) PROVE FALSE
  BY <1>2 DEF Still
<1>4. PICK t \in Tasks : TaskStep(t) \/ TaskTimer(t)
  BY <1>2, <1>3, TaskMoves
<1>5. CASE TaskStep(t)
  <2>1. \/ u = t /\ (IsActive(t) \/ GreenletRun(t))
        \/ pc[t] \in {"loop", "slot"}
    BY <1>1, <1>3, <1>5, StepMoves DEF TaskStep
  <2> QED BY <1>2, <2>1 DEF GreenletRun, IsActive, Active, Blocked
<1>6. CASE TaskTimer(t)
  BY <1>2, <1>6 DEF TaskTimer, TimerFires, IsActive, Active, Blocked
<1> QED BY <1>4, <1>5, <1>6

\* When a start_node task succeeds, the serial task it is in is past it.
LEMMA StartEnds ==
    ASSUME NEW X \in SUBSET Tasks, CallInv(X), NEW t \in Tasks, Step(t),
           NEW p \in Tasks, NEW i \in DOMAIN Children[p], NEW j \in DOMAIN Children[p],
           RestartAt(p, i, j), Starts(Target[Children[p][j]])
    PROVE  ~Between(p, i, j)'
<1> SUFFICES ASSUME Between(p, i, j)' PROVE FALSE
  OBVIOUS
<1>1. PICK u \in Tasks : /\ Kind[u] = "start_node" /\ Target[u] = Target[Children[p][j]]
                         /\ pc[u] = "request" /\ state'[u] = "FINISHED"
  BY DEF Starts
<1>2. TypeOK /\ CallLife(u) /\ state[u] = "RUNNING" /\ IsActive(u)
  BY <1>1 DEF CallInv, TaskPlace, CallLife, IsActive, Active, Blocked
<1>3. u = t
  <2>1. ~Still(u) /\ Engaged(u)
    BY <1>1, <1>2 DEF Still, Engaged
  <2> QED BY <2>1, StepMoves
<1>4. LeafAnswers(u)
  BY <1>1, <1>2, <1>3 DEF Step, SerialCall, SerialResume, SerialReturn, Spawn, GreenletRun,
                          Discard, Done, JoinReturn, Retry
<1>5. UNCHANGED next /\ Done(u)' /\ \A q \in Tasks \ {u} : pc'[q] = pc[q]
  <2>1. PICK v : Raise(u, v) \/ Return(u, v)
    BY <1>4 DEF LeafAnswers
  <2>2. Moves(u, "done", "FINISHED")
    BY <1>1, <1>2, <2>1, AttemptEnds DEF Moves, TypeOK
  <2> QED BY <1>2, <1>4, <2>2 DEF Moves, LeafAnswers, TypeOK, Done
<1>6. p # u /\ i \in Nat /\ j \in Nat /\ i < j
  BY <1>1, ChildAt DEF RestartAt
<1>7. /\ pc[p] \in {"loop", "call"} /\ pc'[p] = pc[p] /\ next'[p] = next[p]
      /\ i <= next[p] /\ next[p] <= j
  <2>1. next[p] \in Nat
    BY <1>2 DEF TypeOK
  <2> QED BY <1>5, <1>6, <2>1 DEF Between
<1>8. u = Children[p][j]
  BY <1>1, <1>6, <1>7, StartInPlace
<1>9. pc[p] = "call" /\ next[p] = j
  BY <1>2, <1>8 DEF CallInv, TaskPlace, SerialPlace, RestartAt, Engaged
<1> QED BY <1>5, <1>6, <1>7, <1>8, <1>9 DEF Between

LEMMA DownStep ==
    ASSUME CallInvariant, RunTypeOK, ResultInv, UncalledInv, DownInv, [RunNext]_runVars
    PROVE  DownInv'
<1>1. PICK X \in SUBSET Tasks : CallInv(X)
  BY DEF CallInvariant
<1> SUFFICES ASSUME NEW p \in Tasks, NEW i \in DOMAIN Children[p],
                    NEW j \in DOMAIN Children[p], RestartAt(p, i, j), Between(p, i, j)',
                    Alive(Target[Children[p][j]])'
             PROVE  FALSE
  BY DEF DownInv, RestartAt
<1> DEFINE n == Target[Children[p][j]]
<1>2. n \in Nodes /\ Children[p][i] \in Tasks /\ Children[p][j] \in Tasks
  BY ChildAt, OptionAssumption
<1>3. CASE ~Alive(n)
  <2>1. CASE phase = "starting" /\ UNCHANGED <<orchestration, vars>>
    <3>1. pc[p] \in {"idle", "scheduled"}
      BY <2>1 DEF ResultInv, PhaseInv, RootInv, UncalledInv
    <3> QED BY <2>1, <3>1 DEF Between, vars, callVars
  <2>2. CASE \E t \in Tasks : TaskStep(t) /\ Starts(n)
    BY <1>1, <2>2, StartEnds DEF TaskStep
  <2> QED BY <1>2, <1>3, <2>1, <2>2, ComesUp
<1>4. CASE Alive(n)
  <2>1. ~Between(p, i, j)
    BY <1>4 DEF DownInv
  <2>2. ASSUME NEW t \in Tasks, TaskStep(t) PROVE FALSE
    <3>1. t = Children[p][i] /\ pc[t] = "request" /\ state'[t] = "FINISHED"
      BY <1>1, <2>1, <2>2, BetweenStep DEF TaskStep
    <3>2. process[n] = "exited"
      BY <2>2, <3>1 DEF TaskStep, StopWaits, RestartAt
    <3> QED BY <1>4, <3>2 DEF Alive, Running
  <2>3. ASSUME NEW b \in Tasks, pc[b] \in Blocked, NEW v, Raise(b, v), UNCHANGED next
        PROVE  FALSE
    BY <1>1, <2>1, <2>3, BetweenThrow
  <2>4. ASSUME NEW t \in Tasks, TaskTimer(t) PROVE FALSE
    BY <2>3, <2>4 DEF TaskTimer, TimerFires
  <2>5. CASE Throw
    BY <2>3, <2>5 DEF Throw
  <2>6. CASE \A u \in Tasks : Still(u)
    BY <1>2, <2>1, <2>6 DEF Still, Between, Done
  <2> QED BY <2>2, <2>4, <2>5, <2>6, TaskMoves
<1> QED BY <1>3, <1>4

\* A node's data directory is used by one process at a time, through restarts, timers,
\* crashes and key q: NodeRunner.start never puts a second process beside the first.
THEOREM OneProcessEach ==
    ASSUME StopsFirst
    PROVE  RunSpec => []OneProcess
<1>1. RunInit => ProcessInv
  BY ShapeAssumption DEF RunInit, Init, ProcessInv, DownInv, UncalledInv, Between, Alive,
                         Running
<1>2. ASSUME CallInvariant, RunTypeOK, ResultInv, ProcessInv, [RunNext]_runVars
      PROVE  ProcessInv'
  <2>1. DownInv' /\ UncalledInv'
    BY <1>2, DownStep, UncalledStep DEF ProcessInv
  <2>2. \A n \in Nodes : Starts(n) => ~Alive(n)
    BY <1>2, StartFindsDown DEF ProcessInv, Starts
  <2>3. \A n \in Nodes : forgotten'[n] = 0
    BY <1>2, <2>2 DEF ProcessInv, RunTypeOK, RunNext, Main, Construct, StartNode,
           SpawnOrchestration, JoinAll, JanitorDone, Exit, Orchestration, SetUp,
           ReadyTimeout, Discover, MainTaskOver, Kill, UiQuit, UiEnds, JanitorStops,
           NodeReady, NodeExits, TaskStep, ProcessEffect, TaskTimer, RunTerminated,
           runVars, nodeVars
  <2> QED BY <2>1, <2>3 DEF ProcessInv
<1>3. ProcessInv => OneProcess
  BY DEF ProcessInv, OneProcess, Live
<1> QED BY <1>1, <1>2, <1>3, ResultHolds, RunCallsInvariant, RunTypeCorrect, PTL DEF RunSpec

-----------------------------------------------------------------------------
(* The tasks that outlive their parents                                    *)

\* A crash is thrown into the greenlet of the root only.
Cut(p) == TimedOut(p) \/ (crash = "thrown" /\ GreenletOf[p] = Root)

LeftByCut ==
    FiredCalled /\ \A p \in Tasks : LeftBehind(p) => Cut(p)

LEMMA LeftByCutStep ==
    ASSUME CallInvariant, LeftByCut, [RunNext]_runVars
    PROVE  LeftByCut'
<1>1. crash = "thrown" => crash' = "thrown"
  BY DEF RunNext, Main, Construct, StartNode, SpawnOrchestration, JoinAll, JanitorDone, Exit,
         Orchestration, SetUp, ReadyTimeout, Discover, MainTaskOver, Kill, UiQuit, UiEnds,
         JanitorStops, NodeReady, NodeExits, TaskStep, TaskTimer, RunTerminated, runVars,
         nodeVars
<1>2. ASSUME NEW s \in Tasks, Step(s) PROVE LeftByCut'
  BY <1>1, <1>2, FiredCalledStep, LeftBehindStep DEF LeftByCut, Cut, LeftBehind
<1>3. ASSUME NEW s \in Tasks, TimerFires(s) PROVE LeftByCut'
  BY <1>1, <1>3, LeftBehindTimer DEF LeftByCut, Cut, LeftBehind
<1>4. CASE Kill /\ Throw
  <2>1. PICK b \in Tasks : /\ pc[b] \in Blocked /\ GreenletOf[b] = Root
                           /\ Raise(b, "error") /\ UNCHANGED <<next, fired>>
    BY <1>4 DEF Throw
  <2>2. crash' = "thrown"
    BY <1>4 DEF Kill
  <2> QED BY <2>1, <2>2, LeftBehindThrow DEF LeftByCut, Cut, LeftBehind
<1>5. CASE UNCHANGED <<pc, fired>>
  BY <1>1, <1>5 DEF LeftByCut, Cut, FiredCalled, LeftBehind, TimedOut, Engaged, IsActive, Done
<1>6. \/ \E t \in Tasks : TaskStep(t) \/ TaskTimer(t)
      \/ Kill /\ Throw
      \/ UNCHANGED <<pc, fired>>
  BY DEF RunNext, Main, Construct, StartNode, SpawnOrchestration, JoinAll, JanitorDone, Exit,
         Orchestration, SetUp, ReadyTimeout, Discover, MainTaskOver, Kill, Throw, UiQuit, UiEnds,
         JanitorStops, NodeReady, NodeExits, RunTerminated, runVars, vars, taskVars, callVars
<1> QED BY <1>2, <1>3, <1>4, <1>5, <1>6 DEF TaskStep, TaskTimer

\* A task runs on after its parent only as a greenlet of a parallel task that a timer on
\* its own greenlet, or the crash of a node, has cut short.
THEOREM OrphansOfCuts == RunSpec => []OrphansExplained
<1>1. RunInit => LeftByCut
  BY ParentFacts DEF RunInit, Init, LeftByCut, FiredCalled, LeftBehind, Engaged, IsActive,
                     Active, Blocked
<1>2. CallInvariant /\ LeftByCut => OrphansExplained
  BY OrphanIsLeft DEF LeftByCut, LeftBehind, Cut, OrphansExplained
<1> QED BY <1>1, <1>2, LeftByCutStep, RunCallsInvariant, PTL DEF RunSpec
=============================================================================
