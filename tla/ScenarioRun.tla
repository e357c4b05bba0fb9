---------------------------- MODULE ScenarioRun ----------------------------
(***************************************************************************)
(* One call of the scenario player, from the construction of the runner to *)
(* the exit code: run_ and ScenarioUIManager (main.py), run_scenario and   *)
(* the phases of setup_environment_and_run_main_task (runner.py), the node *)
(* processes (node_support.py) and the key q of the console UI (ui.py),    *)
(* around the task tree of TaskExecution.                                  *)
(*                                                                         *)
(* Four kinds of greenlet work on the node processes at the same time: the *)
(* main one that starts them and leaves the Janitor, the orchestration     *)
(* greenlet and the pools below it with their stop_node and start_node     *)
(* tasks, the UI's, and those the Janitor runs when a process dies.        *)
(***************************************************************************)
EXTENDS TaskExecution

CONSTANTS
    ErrorCodes,  \* the exit codes of the exceptions that are no assertions
    NotExited    \* the value of `code` before the exit

ASSUME CodeAssumption == ErrorCodes \subseteq {10, 20, 21, 22, 24, 26, 27}

\* The tasks that stop and start a given node follow each other on one greenlet;
\* a second process for a node that runs is then never what the author asked for.
ASSUME ProcessTasksAssumption ==
    \A t, u \in Tasks :
        /\ {Kind[t], Kind[u]} \subseteq {"stop_node", "start_node"}
        /\ Target[t] = Target[u]
        => GreenletOf[t] = GreenletOf[u]

VARIABLES
    phase,          \* where the main greenlet is in run_ and run_scenario
    orchestration,  \* the greenlet of setup_environment_and_run_main_task
    ready,          \* the nodes wait_for_nodes_to_be_ready is done with
    raised,         \* what run_ will have to catch
    process,        \* what NodeRunner._process refers to
    forgotten,      \* live processes of a node that _process refers to no more
    crash,          \* whether a node crash has stopped the Janitor
    ui,             \* the console UI: ended without one, headless with no terminal
    code            \* the exit code

mainVars == <<phase, orchestration, ready, raised, code>>
nodeVars == <<process, forgotten, crash>>
taskVars == <<callVars, next, poolVars, fired>>
runVars  == <<mainVars, nodeVars, ui, vars>>

Running   == {"running", "asked"}   \* asked: has been sent a SIGINT
Dead      == {"exited", "failed"}   \* failed: with a status other than 0
Processes == {"none"} \cup Running \cup Dead

Alive(n) == process[n] \in Running
Live(n)  == forgotten[n] + IF Alive(n) THEN 1 ELSE 0

\* The Janitor starts processes until it is being left.
JanitorOpen == phase \in {"starting", "joining"}

RunInit ==
    /\ Init
    /\ phase = "constructing"
    /\ orchestration = "unborn"
    /\ ready = {}
    /\ raised = "none"
    /\ process = [n \in Nodes |-> "none"]
    /\ forgotten = [n \in Nodes |-> 0]
    /\ crash = "none"
    /\ ui \in {"running", "headless", "ended"}
    /\ code = NotExited

\* What the hub has reaped: the processes whose end gevent has seen.
ReapedFollows == reaped' = {n \in Nodes : process'[n] \in Dead}

-----------------------------------------------------------------------------
(* The main greenlet: run_ and run_scenario                                *)

\* get_account and ScenarioRunner(...): a wrong password is raised outside of
\* the try block, a definition that is refused inside of it.
Construct ==
    /\ phase = "constructing"
    /\ \/ phase' = "starting" /\ UNCHANGED raised
       \/ phase' = "refused" /\ raised' \in {"error", "uncaught"}
    /\ UNCHANGED <<orchestration, ready, code, nodeVars, ui, vars>>

\* node_runner.start() for each node in turn; what it raises ends the run.
StartNode ==
    /\ phase = "starting"
    /\ \E n \in Nodes :
          /\ process[n] = "none"
          /\ \/ /\ process' = [process EXCEPT ![n] = "running"]
                /\ UNCHANGED <<phase, raised>>
             \/ phase' = "closing" /\ raised' = "error" /\ UNCHANGED process
    /\ UNCHANGED <<orchestration, ready, code, forgotten, crash, ui, vars>>

SpawnOrchestration ==
    /\ phase = "starting"
    /\ \A n \in Nodes : process[n] # "none"
    /\ phase' = "joining"
    /\ orchestration' = "setup"
    /\ UNCHANGED <<ready, raised, code, nodeVars, ui, vars>>

\* Mutant: joinall without raise_error=True.
JoinAllQuiet ==
    /\ phase = "joining" /\ orchestration = "ended"
    /\ phase' = "closing"
    /\ raised' = "none"
    /\ UNCHANGED <<orchestration, ready, code, nodeVars, ui, vars>>

\* Mutant: the main greenlet waits for the event `success` instead.
JoinAllEvent ==
    /\ phase = "joining" /\ orchestration = "ended" /\ raised = "none"
    /\ phase' = "closing"
    /\ UNCHANGED <<orchestration, ready, raised, code, nodeVars, ui, vars>>

\* joinall: go on when the orchestration greenlet is over, with its error.
JoinAll ==
    /\ phase = "joining" /\ orchestration = "ended"
    /\ phase' = "closing"
    /\ UNCHANGED <<orchestration, ready, raised, code, nodeVars, ui, vars>>

\* Leaving the Janitor: every process it started, forgotten or not, is sent a
\* signal and killed if it does not exit.
JanitorStops(n) ==
    /\ phase = "closing"
    /\ Live(n) > 0
    /\ \E end \in Dead :
          process' = [process EXCEPT ![n] = IF Alive(n) THEN end ELSE @]
    /\ forgotten' = [forgotten EXCEPT ![n] = 0]
    /\ ReapedFollows
    /\ UNCHANGED <<mainVars, crash, ui, taskVars>>

JanitorDone ==
    /\ phase = "closing"
    /\ \A n \in Nodes : Live(n) = 0
    /\ phase' = "ui"
    /\ UNCHANGED <<orchestration, ready, raised, code, nodeVars, ui, vars>>

\* The exit codes of the except clauses of run_.  A gevent.Timeout is none of
\* their exceptions, and what the Janitor raises may not be one.
ExitCodes(error) ==
    CASE error = "none"                  -> {0}
      [] error = "assertion"             -> {30}
      [] error = "error"                 -> ErrorCodes
      [] error = "oserror"               -> {10}
      [] error = "crash"                 -> {1, 10}
      [] error \in {"timeout", "uncaught"} -> {1}

AllCodes == {0, 1, 10, 30} \cup ErrorCodes

\* ScenarioUIManager.__exit__ waits until the UI greenlet is over; then run_
\* exits.  There is no UI yet for an error of the constructor.  A UI asked for
\* with no terminal is over at once, but it has no _loop: the AttributeError of
\* set_success takes the place of whatever run_scenario has returned or raised.
Exit ==
    /\ phase' = "exited"
    /\ \/ /\ phase = "refused" \/ (phase = "ui" /\ ui = "ended")
          /\ code' \in ExitCodes(raised)
       \/ /\ phase = "ui" /\ ui = "headless"
          /\ code' = 10
    /\ UNCHANGED <<orchestration, ready, raised, nodeVars, ui, vars>>

-----------------------------------------------------------------------------
(* The orchestration greenlet                                              *)

EndOrchestration(error) ==
    /\ orchestration' = "ended"
    /\ raised' = error

\* The on-chain set-up (module Funding), which may fail.
SetUp ==
    /\ orchestration = "setup"
    /\ \/ orchestration' = "waiting" /\ UNCHANGED raised
       \/ EndOrchestration("error")
    /\ UNCHANGED <<phase, ready, code, nodeVars, ui, vars>>

\* A node answers that it is ready.
NodeReady(n) ==
    /\ orchestration = "waiting"
    /\ n \notin ready /\ Alive(n)
    /\ ready' = ready \cup {n}
    /\ UNCHANGED <<phase, orchestration, raised, code, nodeVars, ui, vars>>

\* MAX_RAIDEN_STARTUP_TIME passes: nobody catches this Timeout.
ReadyTimeout ==
    /\ orchestration = "waiting"
    /\ ready # Nodes
    /\ EndOrchestration("uncaught")
    /\ UNCHANGED <<phase, ready, code, nodeVars, ui, vars>>

\* All nodes must have found the same token network; then root_task() is called.
Discover ==
    /\ orchestration = "waiting"
    /\ ready = Nodes
    /\ \/ orchestration' = "tasks" /\ UNCHANGED raised
       \/ EndOrchestration("error")
    /\ UNCHANGED <<phase, ready, code, nodeVars, ui, vars>>

\* root_task() has returned or raised; the greenlet dies with it.
MainTaskOver ==
    /\ orchestration = "tasks"
    /\ Done(Root)
    /\ EndOrchestration(IF state[Root] = "FINISHED" THEN "none"
                        ELSE IF crash = "thrown" THEN "crash" ELSE outcome[Root])
    /\ UNCHANGED <<phase, ready, code, nodeVars, ui, vars>>

\* The Janitor throws the crash of a node into the greenlet, wherever it is
\* blocked.  The greenlets of the pools below it are not told.
Kill ==
    /\ crash = "seen"
    /\ crash' = "thrown"
    /\ \/ /\ orchestration \in {"setup", "waiting"}
          /\ EndOrchestration("crash")
          /\ UNCHANGED vars
       \/ /\ orchestration = "tasks"
          /\ \E b \in Tasks :
                /\ pc[b] \in Blocked /\ GreenletOf[b] = Root
                /\ Raise(b, "error")
          /\ UNCHANGED <<orchestration, raised, next, poolVars, fired, reaped>>
    /\ UNCHANGED <<phase, ready, code, process, forgotten, ui>>

-----------------------------------------------------------------------------
(* The tasks and their effect on the node processes                        *)

\* A stop_node task is called: NodeRunner.stop sends SIGINT and waits.
Signals(n) ==
    \E t \in Tasks : /\ Kind[t] = "stop_node" /\ Target[t] = n
                     /\ pc[t] # "request" /\ pc'[t] = "request"

\* A start_node task succeeds: exec_under_watch gives a process, or nothing.
Starts(n) ==
    \E t \in Tasks : /\ Kind[t] = "start_node" /\ Target[t] = n
                     /\ pc[t] = "request" /\ state'[t] = "FINISHED"

ProcessEffect ==
    /\ process' = [n \in Nodes |->
          IF Starts(n) THEN IF JanitorOpen THEN "running" ELSE "none"
          ELSE IF Signals(n) /\ process[n] = "running" THEN "asked"
          ELSE process[n]]
    /\ forgotten' = [n \in Nodes |->
          forgotten[n] + IF Starts(n) /\ Alive(n) THEN 1 ELSE 0]

\* wait() returns 0, or raises after 10 minutes or for another exit status.
StopWaits(t) ==
    Kind[t] = "stop_node" /\ pc[t] = "request" =>
        (state'[t] = "FINISHED" <=> process[Target[t]] = "exited")

TaskStep(t) ==
    /\ phase # "exited"
    /\ t = Root => orchestration = "tasks"
    /\ Step(t)
    /\ StopWaits(t)
    /\ ProcessEffect
    /\ ReapedFollows
    /\ UNCHANGED <<mainVars, crash, ui>>

TaskTimer(t) ==
    /\ phase # "exited"
    /\ TimerFires(t)
    /\ UNCHANGED <<mainVars, nodeVars, ui>>
    /\ ReapedFollows

-----------------------------------------------------------------------------
(* The node processes                                                      *)

\* A process exits, as it was asked to or by itself.  A status other than 0 is
\* a crash to the Janitor.
NodeExits(n) ==
    /\ JanitorOpen
    /\ Alive(n)
    /\ \/ /\ process[n] = "asked"
          /\ process' = [process EXCEPT ![n] = "exited"]
          /\ UNCHANGED crash
       \/ /\ process' = [process EXCEPT ![n] = "failed"]
          /\ crash' = IF crash = "none" THEN "seen" ELSE crash
    /\ ReapedFollows
    /\ UNCHANGED <<mainVars, forgotten, ui, taskVars>>

-----------------------------------------------------------------------------
(* The key q of the UI                                                     *)

\* NodeController.stop: every node is sent a SIGINT.
UiQuit ==
    /\ ui = "running"
    /\ phase \notin {"constructing", "refused", "exited"}
    /\ ui' = "stopping"
    /\ process' = [n \in Nodes |-> IF Alive(n) THEN "asked" ELSE process[n]]
    /\ UNCHANGED <<mainVars, forgotten, crash, vars>>

\* The nodes have been waited for, for 10 minutes at most, and the loop is left;
\* an error of a stop, or the assertion for a node that was never started, ends
\* the greenlet as well.
UiEnds ==
    /\ ui = "stopping"
    /\ ui' = "ended"
    /\ UNCHANGED <<mainVars, nodeVars, vars>>

-----------------------------------------------------------------------------

Main == Construct \/ StartNode \/ SpawnOrchestration \/ JoinAll \/ JanitorDone
        \/ Exit

Orchestration == SetUp \/ ReadyTimeout \/ Discover \/ MainTaskOver

RunTerminated == phase = "exited" /\ UNCHANGED runVars

RunNext ==
    \/ Main \/ Orchestration \/ Kill \/ UiQuit \/ UiEnds
    \/ \E n \in Nodes : JanitorStops(n) \/ NodeReady(n) \/ NodeExits(n)
    \/ \E t \in Tasks : TaskStep(t) \/ TaskTimer(t)
    \/ RunTerminated

\* The hub runs every greenlet that is ready; requests, the set-up and the wait
\* for a node have time limits; whoever is told to press q does so in the end.
RunFairness ==
    /\ WF_runVars(Main) /\ WF_runVars(Orchestration)
    /\ WF_runVars(UiEnds) /\ WF_runVars(phase = "ui" /\ UiQuit)
    /\ SF_runVars(Kill)
    /\ \A n \in Nodes : WF_runVars(JanitorStops(n))
    /\ \A t \in Tasks : WF_runVars(TaskStep(t))
    /\ \A t \in Timed : SF_runVars(TaskTimer(t))

RunSpec == RunInit /\ [][RunNext]_runVars /\ RunFairness

-----------------------------------------------------------------------------
(* Properties                                                              *)

\* Every variable has the values the code gives it, and the processes the tasks
\* take for reaped are those that have exited.
RunTypeOK ==
    /\ TypeOK
    /\ phase \in {"constructing", "refused", "starting", "joining", "closing",
                  "ui", "exited"}
    /\ orchestration \in {"unborn", "setup", "waiting", "tasks", "ended"}
    /\ ready \subseteq Nodes
    /\ raised \in Errors \cup {"none", "uncaught", "crash"}
    /\ process \in [Nodes -> Processes]
    /\ forgotten \in [Nodes -> Nat]
    /\ reaped = {n \in Nodes : process[n] \in Dead}
    /\ crash \in {"none", "seen", "thrown"}
    /\ ui \in {"running", "headless", "stopping", "ended"}
    /\ code \in AllCodes \cup {NotExited}

\* A node's data directory is used by one process at a time, through restarts,
\* retries, time-outs, key q and crashes: start_node never meets a process that
\* stop_node has left alive.
OneProcess == \A n \in Nodes : Live(n) <= 1

\* A task runs on after its parent only as a greenlet of a parallel task whose
\* pool.join() a timer on its own greenlet, or a crash thrown into it, has cut
\* short: no answer, error or retry of any other task leaves a greenlet behind.
OrphansExplained ==
    \A p \in Tasks : \A c \in Offspring(p) :
        state[c] = "RUNNING" /\ state[p] # "RUNNING" =>
          /\ Kind[p] = "parallel"
          /\ TimedOut(p) \/ (crash = "thrown" /\ GreenletOf[p] = Root)

\* The program exits, whatever fails and whoever stops the nodes.
RunEnds == <>(phase = "exited")

\* The run implements PlayerPromise.
Result ==
    CASE state[Root] = "FINISHED" -> "success"
      [] state[Root] = "ERRORED"  -> IF outcome[Root] = "assertion"
                                     THEN "assertion" ELSE "failure"
      [] OTHER                    -> "open"

Promise == INSTANCE PlayerPromise WITH
               Codes <- AllCodes,
               busy <- {n \in Nodes : Live(n) > 0},
               result <- Result,
               headless <- (ui = "headless")

PromiseKept == Promise!Spec
=============================================================================
