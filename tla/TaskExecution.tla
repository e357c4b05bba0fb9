--------------------------- MODULE TaskExecution ---------------------------
(***************************************************************************)
(* The execution of a scenario's task tree: Task.__call__ with its retry   *)
(* loop and its gevent Timeout (tasks/base.py), SerialTask and             *)
(* ParallelTask with its gevent Pool (tasks/execution.py), and what the    *)
(* leaf tasks can answer.                                                  *)
(*                                                                         *)
(* A task is a stack frame: pc[t] says where its call stands.  The frames  *)
(* of a serial task and its children are on one greenlet; a parallel task  *)
(* puts each child on a greenlet of its own.  Greenlets are cooperative,   *)
(* so only a blocked frame can be hit by a timer.                          *)
(***************************************************************************)
EXTENDS Integers, Sequences, FiniteSets

CONSTANTS
    Tasks,        \* the task objects, the repetitions of `repeat` included
    Root,         \* the outermost task, called by the orchestration greenlet
    Kind,         \* the task type of each task
    Children,     \* the sequence `_tasks` of each task, empty for a leaf
    Concurrency,  \* the `concurrency` option of a parallel task, or NoLimit
    NoLimit,
    Timed,        \* the tasks with a positive timeout (option or default)
    Nodes,        \* the Raiden nodes
    Target        \* the node a stop_node or start_node task acts on

Composites == {"serial", "parallel"}
LeafKinds  == {"api", "assert", "wait", "stop_node", "start_node", "kill_node"}

ASSUME ShapeAssumption ==
    /\ IsFiniteSet(Tasks)
    /\ Root \in Tasks
    /\ Kind \in [Tasks -> Composites \cup LeafKinds]
    /\ Children \in [Tasks -> Seq(Tasks)]
    /\ \A t \in Tasks : Kind[t] \notin Composites => Children[t] = <<>>

\* Every task but the root has one parent and one place in it.
ASSUME TreeAssumption ==
    /\ \A p, q \in Tasks : \A i \in DOMAIN Children[p], j \in DOMAIN Children[q] :
          Children[p][i] = Children[q][j] => p = q /\ i = j
    /\ \A p \in Tasks : \A i \in DOMAIN Children[p] :
          Children[p][i] \notin {Root, p}
    /\ \A t \in Tasks \ {Root} :
          \E p \in Tasks : \E i \in DOMAIN Children[p] : Children[p][i] = t

ASSUME OptionAssumption ==
    /\ NoLimit \notin Nat
    /\ Concurrency \in [Tasks -> Nat \cup {NoLimit}]
    /\ \A t \in Tasks : Concurrency[t] # 0
    /\ Timed \subseteq Tasks
    /\ \A t \in Timed : Kind[t] \in Composites \cup {"api", "assert"}
    /\ Target \in [Tasks -> Nodes]

Offspring(t) == {Children[t][i] : i \in DOMAIN Children[t]}
IsLeaf(t)    == Kind[t] \notin Composites
Parent(t)    == CHOOSE p \in Tasks : t \in Offspring(p)

\* From every task the parents lead to the root: no set of tasks is its own parents.
ASSUME RootAssumption ==
    \A S \in SUBSET (Tasks \ {Root}) : S # {} => \E t \in S : Parent(t) \notin S

Ancestors[t \in Tasks] ==
    IF t = Root THEN {} ELSE {Parent(t)} \cup Ancestors[Parent(t)]

\* The first task called on the greenlet that runs t.
GreenletOf[t \in Tasks] ==
    IF t = Root THEN t
    ELSE IF Kind[Parent(t)] = "parallel" THEN t ELSE GreenletOf[Parent(t)]

\* A task object is called by one greenlet at a time as long as no composite
\* with a timeout contains another: one frame per task is then enough.
ASSUME NestingAssumption ==
    \A t \in Timed : \A u \in Ancestors[t] \cap Timed : IsLeaf(t)

\* Mutant: one greenlet more than the pool's size.
SlotsOffByOne(t) ==
    IF Concurrency[t] = NoLimit THEN Len(Children[t]) ELSE Concurrency[t] + 1

\* `Pool(size=...)`: without a size every child gets a slot at once.
Slots(t) == IF Concurrency[t] = NoLimit THEN Len(Children[t]) ELSE Concurrency[t]

-----------------------------------------------------------------------------

VARIABLES
    state,               \* Task._state
    pc,                  \* where the call of each task stands
    next,                \* the index of the child the loop of _run is at
    exception,           \* the local `exception` of __call__: last assertion
    outcome,             \* Task.exception: what an ERRORED task raised
    pool,                \* the greenlets in a parallel task's Pool
    watched,             \* the greenlets pool.join() looks at for errors
    fired,               \* the tasks whose Timeout has gone off in this call
    running_task_count,  \* ScenarioRunner.running_task_count
    reaped               \* the nodes whose stopped process has been waited for

callVars == <<state, pc, exception, outcome, running_task_count>>
poolVars == <<pool, watched>>
vars     == <<callVars, next, poolVars, fired, reaped>>

States   == {"INITIALIZED", "RUNNING", "FINISHED", "ERRORED"}
Blocked  == {"request", "sleep", "slot", "join"}
Active   == Blocked \cup {"loop", "call"}
Pcs      == Active \cup {"idle", "scheduled", "done"}
Errors   == {"assertion", "error", "timeout", "oserror"}

Done(t)   == pc[t] = "done"
IsActive(t) == pc[t] \in Active

\* Where a call, or a retry, of _run begins.
Entry(t) == IF IsLeaf(t) THEN "request" ELSE "loop"

Init ==
    /\ state = [t \in Tasks |-> "INITIALIZED"]
    /\ pc = [t \in Tasks |-> IF t = Root THEN "scheduled" ELSE "idle"]
    /\ next = [t \in Tasks |-> 1]
    /\ exception = [t \in Tasks |-> "none"]
    /\ outcome = [t \in Tasks |-> "none"]
    /\ pool = [t \in Tasks |-> {}]
    /\ watched = [t \in Tasks |-> {}]
    /\ fired = {}
    /\ running_task_count = 0
    /\ reaped = {}

-----------------------------------------------------------------------------
(* Task.__call__                                                           *)

\* Entering the call of t; `pcs` is pc with the caller already moved on.
Enter(t, pcs) ==
    /\ state' = [state EXCEPT ![t] = "RUNNING"]
    /\ pc' = [pcs EXCEPT ![t] = Entry(t)]
    /\ next' = [next EXCEPT ![t] = 1]
    /\ exception' = [exception EXCEPT ![t] = "none"]
    /\ fired' = fired \ {t}
    /\ running_task_count' = running_task_count + 1
    /\ UNCHANGED outcome

Finish(t) ==
    /\ state' = [state EXCEPT ![t] = "FINISHED"]
    /\ pc' = [pc EXCEPT ![t] = "done"]
    /\ running_task_count' = running_task_count - 1
    /\ UNCHANGED <<exception, outcome>>

\* Mutant: the counter is not decremented in a `finally`.
FailUncounted(t, error) ==
    /\ state' = [state EXCEPT ![t] = "ERRORED"]
    /\ pc' = [pc EXCEPT ![t] = "done"]
    /\ outcome' = [outcome EXCEPT ![t] = error]
    /\ UNCHANGED <<exception, running_task_count>>

Fail(t, error) ==
    /\ state' = [state EXCEPT ![t] = "ERRORED"]
    /\ pc' = [pc EXCEPT ![t] = "done"]
    /\ outcome' = [outcome EXCEPT ![t] = error]
    /\ running_task_count' = running_task_count - 1
    /\ UNCHANGED exception

\* Back to the head of the retry loop after `sleep(1)`.
GoToSleep(t) ==
    /\ pc' = [pc EXCEPT ![t] = "sleep"]
    /\ UNCHANGED <<state, outcome, running_task_count>>

\* _run returns: a call with a timeout is over only if the value is truthy.
Return(t, value) ==
    IF t \in Timed /\ value = "falsy"
    THEN GoToSleep(t) /\ UNCHANGED exception
    ELSE Finish(t)

\* Mutant: the recorded assertion is raised without testing that there is one.
HandleTimeoutRaiseNone(t) ==
    IF reaped # {} THEN Fail(t, "oserror") ELSE Fail(t, exception[t])

\* Mutant: the recorded assertion is not raised.
HandleTimeoutForget(t) ==
    IF reaped # {} THEN Fail(t, "oserror") ELSE Finish(t)

\* `except Timeout`: signal every node, which os.kill refuses for a process
\* that was waited for, then raise the assertion if one was recorded.
HandleTimeout(t) ==
    IF reaped # {} THEN Fail(t, "oserror")
    ELSE IF exception[t] # "none" THEN Fail(t, "assertion")
    ELSE Finish(t)

\* Mutant: a Timeout is caught with the assertions, inside the retry loop.
RaiseRetryTimeout(t, error) ==
    IF t \in Timed /\ error \in {"assertion", "timeout"}
    THEN /\ exception' = [exception EXCEPT ![t] = "assertion"]
         /\ GoToSleep(t)
    ELSE Fail(t, error)

\* _run raises: the handlers of __call__ from the inside out.
Raise(t, error) ==
    IF t \in Timed /\ error = "assertion"
    THEN /\ exception' = [exception EXCEPT ![t] = "assertion"]
         /\ GoToSleep(t)
    ELSE IF t \in Timed /\ error = "timeout" THEN HandleTimeout(t)
    ELSE Fail(t, error)

Retry(t) ==
    /\ pc[t] = "sleep"
    /\ pc' = [pc EXCEPT ![t] = Entry(t)]
    /\ next' = [next EXCEPT ![t] = 1]
    /\ UNCHANGED <<state, exception, outcome, running_task_count,
                   poolVars, fired, reaped>>

\* The Timeout of t is thrown into the frame its greenlet is blocked in: t's
\* own or that of a task below it on the same greenlet.  A node that was being
\* stopped there may have exited, and been reaped by the hub, just before.
TimerFires(t) ==
    /\ t \in Timed \ fired
    /\ IsActive(t)
    /\ fired' = fired \cup {t}
    /\ \E b \in Tasks :
          /\ pc[b] \in Blocked
          /\ \/ b = t
             \/ /\ ~IsLeaf(t)
                /\ t \in Ancestors[b] /\ GreenletOf[b] = GreenletOf[t]
          /\ Raise(b, "timeout")
          /\ \/ UNCHANGED reaped
             \/ Kind[b] = "stop_node" /\ reaped' = reaped \cup {Target[b]}
    /\ UNCHANGED <<next, poolVars>>

-----------------------------------------------------------------------------
(* SerialTask._run                                                         *)

\* Mutant: the loop goes on to the next child without waiting for this one.
SerialCallNoWait(t) ==
    /\ Kind[t] = "serial" /\ pc[t] = "loop"
    /\ next[t] <= Len(Children[t])
    /\ LET c == Children[t][next[t]] IN
          /\ state' = [state EXCEPT ![c] = "RUNNING"]
          /\ pc' = [pc EXCEPT ![c] = Entry(c)]
          /\ next' = [next EXCEPT ![t] = @ + 1]
          /\ fired' = fired \ {c}
    /\ running_task_count' = running_task_count + 1
    /\ UNCHANGED <<exception, outcome, poolVars, reaped>>

SerialCall(t) ==
    /\ Kind[t] = "serial" /\ pc[t] = "loop"
    /\ next[t] <= Len(Children[t])
    /\ Enter(Children[t][next[t]], [pc EXCEPT ![t] = "call"])
    /\ UNCHANGED <<poolVars, reaped>>

\* Mutant: an error of the child is swallowed.
SerialResumeSwallow(t) ==
    /\ Kind[t] = "serial" /\ pc[t] = "call" /\ Done(Children[t][next[t]])
    /\ pc' = [pc EXCEPT ![t] = "loop"]
    /\ next' = [next EXCEPT ![t] = @ + 1]
    /\ UNCHANGED <<state, exception, outcome, running_task_count, poolVars,
                   fired, reaped>>

\* Mutant: after a success the loop does not advance.
SerialResumeStuck(t) ==
    LET c == Children[t][next[t]] IN
    /\ Kind[t] = "serial" /\ pc[t] = "call" /\ Done(c)
    /\ \/ /\ state[c] = "FINISHED"
          /\ pc' = [pc EXCEPT ![t] = "loop"]
          /\ UNCHANGED <<state, exception, outcome, running_task_count>>
       \/ state[c] = "ERRORED" /\ Raise(t, outcome[c])
    /\ UNCHANGED <<next, poolVars, fired, reaped>>

\* The child has returned or raised: go on with the next, or let it propagate.
SerialResume(t) ==
    LET c == Children[t][next[t]] IN
    /\ Kind[t] = "serial" /\ pc[t] = "call" /\ Done(c)
    /\ \/ /\ state[c] = "FINISHED"
          /\ pc' = [pc EXCEPT ![t] = "loop"]
          /\ next' = [next EXCEPT ![t] = @ + 1]
          /\ UNCHANGED <<state, exception, outcome, running_task_count>>
       \/ /\ state[c] = "ERRORED"
          /\ Raise(t, outcome[c])
          /\ UNCHANGED next
    /\ UNCHANGED <<poolVars, fired, reaped>>

SerialReturn(t) ==
    /\ Kind[t] = "serial" /\ pc[t] = "loop"
    /\ next[t] > Len(Children[t])
    /\ Return(t, "falsy")
    /\ UNCHANGED <<next, poolVars, fired, reaped>>

-----------------------------------------------------------------------------
(* ParallelTask._run and gevent's Pool                                     *)

\* Start greenlets until the pool is full or no child is left; nothing else
\* runs meanwhile.  After the last one, pool.join(raise_error=True) takes its
\* copy of the greenlets that are in the pool at that moment.
Spawn(t) ==
    LET old  == IF pc[t] = "loop" THEN {} ELSE pool[t]
        room == next[t] + Slots(t) - Cardinality(old) - 1
        last == IF room < Len(Children[t]) THEN room ELSE Len(Children[t])
        new  == {Children[t][i] : i \in next[t]..last}
    IN
    /\ Kind[t] = "parallel"
    /\ pc[t] = "loop" \/ (pc[t] = "slot" /\ Cardinality(pool[t]) < Slots(t))
    /\ next' = [next EXCEPT ![t] = last + 1]
    /\ pool' = [pool EXCEPT ![t] = old \cup new]
    /\ pc' = [c \in Tasks |->
                IF c = t THEN IF last = Len(Children[t]) THEN "join" ELSE "slot"
                ELSE IF c \in new THEN "scheduled" ELSE pc[c]]
    /\ watched' = [watched EXCEPT ![t] = IF last = Len(Children[t])
                                         THEN old \cup new ELSE {}]
    /\ UNCHANGED <<state, exception, outcome, running_task_count, fired, reaped>>

\* The hub switches to a started greenlet (or to the orchestration greenlet).
GreenletRun(t) ==
    /\ pc[t] = "scheduled"
    /\ Enter(t, pc)
    /\ UNCHANGED <<poolVars, reaped>>

\* The link of a dead greenlet takes it out of the pool and frees its slot.
Discard(t) ==
    /\ Done(t)
    /\ t # Root /\ t \in pool[Parent(t)]
    /\ pool' = [pool EXCEPT ![Parent(t)] = @ \ {t}]
    /\ UNCHANGED <<callVars, next, watched, fired, reaped>>

\* Mutant: _run does not wait for the greenlets.
JoinReturnEarly(t) ==
    /\ pc[t] = "join"
    /\ Return(t, "falsy")
    /\ UNCHANGED <<next, poolVars, fired, reaped>>

\* Mutant: pool.join() without raise_error=True.
JoinReturnQuiet(t) ==
    /\ pc[t] = "join" /\ pool[t] = {}
    /\ Return(t, "falsy")
    /\ UNCHANGED <<next, poolVars, fired, reaped>>

JoinReturn(t) ==
    LET failed == {c \in watched[t] : state[c] = "ERRORED"} IN
    /\ pc[t] = "join" /\ pool[t] = {}
    /\ \/ failed = {} /\ Return(t, "falsy")
       \/ \E c \in failed : Raise(t, outcome[c])
    /\ UNCHANGED <<next, poolVars, fired, reaped>>

-----------------------------------------------------------------------------
(* The leaf tasks                                                          *)

\* What _run of a leaf can do.  An empty answer of a node is falsy; kill_node
\* calls a method NodeRunner does not have.
Answers(t) ==
    CASE Kind[t] = "api"        -> {"truthy", "falsy", "error"}
      [] Kind[t] = "assert"     -> {"truthy", "falsy", "assertion", "error"}
      [] Kind[t] = "wait"       -> {"falsy"}
      [] Kind[t] = "kill_node"  -> {"error"}
      [] OTHER                  -> {"falsy", "error"}

\* NodeRunner.stop waits for the process, whatever its exit status, unless the
\* wait itself times out; NodeRunner.start replaces it by a new one.
NodeEffect(t, answer) ==
    \/ Kind[t] = "stop_node" /\ reaped' = reaped \cup {Target[t]}
    \/ Kind[t] = "start_node" /\ answer = "falsy" /\ reaped' = reaped \ {Target[t]}
    \/ /\ Kind[t] \in {"stop_node", "start_node"} => answer = "error"
       /\ UNCHANGED reaped

LeafAnswers(t) ==
    /\ pc[t] = "request"
    /\ \E answer \in Answers(t) :
          /\ NodeEffect(t, answer)
          /\ IF answer \in Errors THEN Raise(t, answer) ELSE Return(t, answer)
    /\ UNCHANGED <<next, poolVars, fired>>

-----------------------------------------------------------------------------

Step(t) ==
    \/ SerialCall(t) \/ SerialResume(t) \/ SerialReturn(t)
    \/ Spawn(t) \/ GreenletRun(t) \/ Discard(t) \/ JoinReturn(t)
    \/ LeafAnswers(t) \/ Retry(t)

Terminated == Done(Root) /\ UNCHANGED vars

Next == (\E t \in Tasks : Step(t) \/ TimerFires(t)) \/ Terminated

\* The hub runs every runnable greenlet and callback, a request ends (it has a
\* timeout of its own), and a timer that is due hits its greenlet when it is
\* found blocked, which for a composite need not be all the time.
Fairness == \A t \in Tasks : WF_vars(Step(t)) /\ SF_vars(TimerFires(t))

Spec == Init /\ [][Next]_vars /\ Fairness

-----------------------------------------------------------------------------
(* Properties                                                              *)

\* Every variable has the values Task and gevent's Pool give it, and an ERRORED
\* task has raised something: `raise exception` never meets None.
TypeOK ==
    /\ state \in [Tasks -> States]
    /\ pc \in [Tasks -> Pcs]
    /\ next \in [Tasks -> Nat \ {0}]
    /\ \A t \in Tasks : pc[t] = "call" => next[t] <= Len(Children[t])
    /\ exception \in [Tasks -> {"none", "assertion"}]
    /\ outcome \in [Tasks -> Errors \cup {"none"}]
    /\ \A t \in Tasks : state[t] = "ERRORED" => outcome[t] \in Errors
    /\ pool \in [Tasks -> SUBSET Tasks]
    /\ watched \in [Tasks -> SUBSET Tasks]
    /\ fired \subseteq Timed
    /\ running_task_count \in Int
    /\ reaped \subseteq Nodes

\* The counter the UI shows is the number of running tasks, however the calls
\* of __call__ on different greenlets end: by a value, an error or a timer.
RunningCountExact ==
    running_task_count = Cardinality({t \in Tasks : state[t] = "RUNNING"})

\* A timer has gone off in, or around, the call of p on its greenlet.
TimedOut(p) ==
    \E t \in fired \cap ({p} \cup Ancestors[p]) : GreenletOf[t] = GreenletOf[p]

\* No task runs outside its parent: when _run of a composite task is over, by
\* success, error or timer, no greenlet of it is still at work on the nodes.
StructuredConcurrency ==
    \A p \in Tasks : \A c \in Offspring(p) :
        state[c] = "RUNNING" => state[p] = "RUNNING"

\* The children of a serial task run one at a time and in order, each after
\* the success of all the earlier ones in this pass of the retry loop.
SerialIsolation ==
    \A p \in Tasks : \A i, j \in DOMAIN Children[p] :
        /\ Kind[p] = "serial" /\ i < j
        /\ IsActive(Children[p][j])
        => state[Children[p][i]] = "FINISHED"

\* A successful composite task has only successful children: no error of a
\* child is lost on the way through pool.join() or the retry loop.
SuccessIsComplete ==
    \A p \in Tasks : \A c \in Offspring(p) :
        state[p] = "FINISHED" => state[c] = "FINISHED"

\* The scenario succeeds only if no task of it has failed.
VerdictHonest ==
    state[Root] = "FINISHED" => \A t \in Tasks : state[t] # "ERRORED"

\* A parallel task runs no more children at once than its `concurrency`.
ConcurrencyBound ==
    \A p \in Tasks : Kind[p] = "parallel" /\ Concurrency[p] # NoLimit =>
        Cardinality({c \in Offspring(p) : IsActive(c)}) <= Concurrency[p]

\* A greenlet is blocked in one frame, so a timer has one frame to be thrown in.
OneBlockedFrame ==
    \A a, b \in Tasks :
        pc[a] \in Blocked /\ pc[b] \in Blocked /\ GreenletOf[a] = GreenletOf[b]
        => a = b

\* A task that its timer ends as a success had no failed assertion on record.
AssertionReported ==
    \A t \in fired : state[t] = "FINISHED" => exception[t] = "none"

\* A request whose timeout passes without an answer fails its task.
TimeoutFailsRequest ==
    \A t \in fired : Kind[t] = "api" => state[t] # "FINISHED"

\* Once the timer of a composite task has gone off, its greenlet calls no
\* further task before the composite is over.
NoWorkAfterTimeout ==
    [][\A t \in fired, c \in Tasks :
          /\ IsActive(t) /\ t \in Ancestors[c] /\ GreenletOf[c] = GreenletOf[t]
          /\ ~IsActive(c)
          => ~IsActive(c)']_vars

\* Every scenario comes to an end.
Termination == <>Done(Root)

\* An error anywhere in the tree ends the scenario as an error.
ErrorsSurface ==
    \A t \in Tasks : (state[t] = "ERRORED") ~> (state[Root] = "ERRORED")

\* The execution implements the promises of TaskTree.
Tree     == INSTANCE TaskTree
TreeSpec == Tree!Spec
=============================================================================
