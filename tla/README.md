# A verification of the Raiden scenario player

The scenario player runs a scenario, a tree of tasks written in YAML, against a set of Raiden
nodes it starts itself and a chain it pays for. This directory holds TLA+ models of the parts of
it that decide whether a scenario's verdict can be trusted and whether its money and its files
survive: the execution of the task tree, one whole call of the program up to its exit code, the
on-chain set-up, the files successive runs share, the node snapshots, the assertion tasks, the
command that gets old funds back, and what a scenario definition gives to all of them. TLC checks
each model on small instances, and TLAPS proves the safety properties of all of them for every
value of their constants.

Contents: [the system](#1-the-system), [the modules](#2-the-modules-and-the-code),
[the runs](#3-the-runs), [fairness](#4-fairness), [the proofs](#5-the-proofs),
[disagreements](#6-where-code-and-documentation-disagree),
[what is not modelled](#7-what-is-not-modelled), [the plan](#8-plan).

`PROJECT.json` lists the components, the runs, the lines of code each definition stands for, for
each property a plausible bug that breaks it, the hazards and the theorems. Paths below are
relative to `src/scenario_player/` unless they name another directory.

## 1. The system

The program is one operating system process with gevent greenlets: they are cooperative, and a
switch happens only where one blocks (a request, a `sleep`, a wait for a pool or a process). Node
processes are children of it; the chain, its RPC node, the path finding service (PFS) and the
monitoring service are external.

| Component | State it keeps | Operations | Talks to |
|---|---|---|---|
| Task execution (`tasks/base.py`, `tasks/execution.py`, `tasks/raiden_node.py`) | state and exception of each task, the pool of each parallel task, the timers, the counter of running tasks, whether a node process has been waited for | calling a task, the retry loop, a timeout, serial and parallel `_run`, starting and stopping nodes | nodes by HTTP, node processes by signals, the UI through the counter |
| On-chain set-up (`runner.py`, `utils/token.py`) | one greenlet per transaction, the pool they are in, the balances on the chain | funding with ether, minting, approving, depositing, joining the pool | the chain; ends by calling the root task |
| Run identity files (`runner.py`, `node_support.py`, `utils/token.py`) | `seed.txt`, `run_number.txt`, `token.info`, the key stores | determining the run number and the seed, making keys, deploying or reusing the token | earlier and concurrent runs, through the files; reclaim-eth, through the key stores |
| Node control and snapshots (`node_support.py`, `tasks/execution.py`) | data and snapshot directories, which processes run | start, stop, take, restore and delete a snapshot | the snapshot task; later runs, through the directories |
| Assertion and channel tasks (`tasks/channels.py`, `tasks/blockchain.py`, `tasks/services.py`) | the last failed assertion of a polling task | requests, and checks of their answers | nodes, PFS, chain |
| Reclaiming funds (`utils/reclaim.py`, `main.py`) | the marks in node directories, plans of the user deposit contract (UDC), pending transfers | planning, withdrawing, collecting, marking, waiting | the chain; the directories of runs and snapshots |
| Run supervision (`main.py`, `runner.py`, `ui.py`) | the greenlets of main, orchestration and UI, the node processes, the error to report, the exit code | starting nodes, waiting for them, calling the root task, key q, the Janitor's kill, leaving the Janitor, exiting | everything above |
| Scenario definition and configuration (`definition.py`, `utils/configuration/`) | none that changes | parsing, defaults, validation | read by everything |
| Logging, console rendering, CLI, smoketest | output and option parsing | | |

Where it is hard, and what would make it right:

* **Task execution.** A timer is thrown into whichever frame its greenlet is blocked in, perhaps
  one below the task that set it, past `except` clauses and retry loops written for something
  else. Errors of greenlets are collected at the end by a pool that forgets dead greenlets as it
  goes. Correct means: no task outlives its parent, serial children keep their order, an error of
  a child reaches the top, a time-out ends the work, the scenario ends.
* **On-chain set-up.** Every greenlet decides on balances it read earlier, while others mint,
  reset the allowance to zero and deposit from the same account. Correct means: every deposit is
  covered, the root task runs only on funded nodes (but for errors the pool loses, section 6), no
  amount is negative, the set-up ends.
* **Run files.** Runs are killed, also between truncating a file and writing it, and runs of
  different scenarios overlap. Correct means: fresh numbers, one token for those that share it,
  no account lost, no run refused without a cause.
* **Snapshots.** Directories are removed and copied one by one. Correct means: what is restored
  was reached together, killed runs do no more harm than each its one directory, and no node writes
  to what is being copied.
* **Assertion tasks.** They compare lists, optional values and events. Correct means: what passes
  is true and what fails is false.
* **Run supervision.** Four kinds of greenlet start, stop and signal the same processes: main, the
  task tree, the UI and the Janitor, which throws a node's crash into the orchestration greenlet
  wherever it is blocked. Correct means: the program exits with no process left behind, its code
  is 0 exactly if the root task has succeeded and 30 exactly if it has failed with an assertion, and
  a node has one process. (For the code there is one exception, a UI without a terminal: section 6.)
* **Definition.** Defaults of one section depend on others, and a validation guards what the rest
  takes for granted. Correct means: what is accepted is what the other modules assume.
* **Reclaiming.** The mark that hides a directory for ever is written before the transfer is
  mined, a snapshot gives an account a second directory, and the channels are emptied by greenlets of
  a pool that forgets dead ones. Correct means: a mark never hides money, and what a successful call
  leaves behind is in the log (again but for errors the pool loses).

The complete list, each at its line, is `hazards` in PROJECT.json.

## 2. The modules and the code

| Module | Stands for |
|---|---|
| `TaskTree` | the abstract promise of a scenario: a tree of tasks, each beginning inside its parent and succeeding only after its children |
| `TaskExecution` | `Task.__call__`, `SerialTask`, `ParallelTask`, gevent's `Pool` and `Timeout`, what leaf tasks answer |
| `TaskExecutionProofs` | its types, and with timers on leaf tasks only that no task outlives its parent and that it implements `TaskTree` |
| `CallProofs` | its calls with timers anywhere: order, counter, pool limit, frames, recorded assertions, what a timer leaves |
| `PlayerPromise` | the abstract promise of one call of the program: exit code and processes |
| `ScenarioRun`, `ScenarioRunProofs` | `run_`, `ScenarioUIManager`, `run_scenario`, `NodeRunner`'s processes, key q, around `TaskExecution`; its theorems, the refinement of `PlayerPromise` among them |
| `Funding`, `FundingProofs` | `setup_environment_and_run_main_task` and the helpers of `utils/token.py`; its theorems |
| `RunFiles`, `RunFilesProofs` | the identity files over several runs; its theorems and those of `TransferIdentifier` |
| `TransferIdentifier` | the payment identifier as a number |
| `Snapshots`, `SnapshotsProofs` | `NodeController`, `SnapshotManager` and `SnapshotTask` over several runs; its theorems |
| `Assertions`, `AssertionsProofs` | the `_process_response` of the assertion tasks inside the retry loop; `Promise` is its reference definition; its theorems |
| `Reclaim`, `ReclaimProofs` | the `reclaim-eth` command; its theorems |
| `Configuration` | the defaults and validations of a scenario definition, as operators |
| `MC*` | the instances for TLC; those of `Funding`, `RunFiles` and `Snapshots` take their constants from a definition by `Configuration`, and assume that it is accepted |

**TaskExecution.** A task is a stack frame; `pc[t]` says where its call stands, `GreenletOf[t]`
which greenlet it is on. `Enter`, `Finish`, `Fail`, `Return` and `Raise` are the parts of
`__call__`, shared by the actions: `Return` is the `if return_val` of the retry loop and `Raise`
its handlers, from the inside out. `SerialCall`, `SerialResume` and `SerialReturn` are the loop of
`SerialTask._run`; `Spawn` fills the pool up to its size in one step, because nothing else runs
until the loop blocks, and takes the copy that `pool.join(raise_error=True)` examines;
`Discard` is the link that takes a dead greenlet out of the pool; `JoinReturn` raises the error of
a greenlet in that copy. `TimerFires` chooses a frame the greenlet is blocked in.
`LeafAnswers` lets a leaf do whatever its `_run` can: return a value that is true or false in
Python, raise an assertion or another error, and change whether a node's process has been waited
for (`reaped`), on which the SIGUSR1 of `_handle_timeout` depends. kill_node always ends in
an error: it calls a method that `NodeRunner` does not have.
Only the answers of the nodes and gevent's scheduling and pool are external.

**ScenarioRun.** It EXTENDS `TaskExecution` and adds what is around the tree. `phase` is where the
main greenlet is in `run_` and `run_scenario`: `Construct`, `StartNode` one node at a time,
`SpawnOrchestration`, `JoinAll`, then leaving the Janitor (`JanitorStops`, `JanitorDone`), waiting
for the UI, `Exit`. `orchestration` is the greenlet of
`setup_environment_and_run_main_task`; its set-up is one step here, since `Funding` has the rest,
then come `NodeReady`, `ReadyTimeout` and `Discover`, the tasks and `MainTaskOver`. `process[n]` is
what `NodeRunner._process` refers to, and `forgotten[n]` counts live processes it no longer refers
to. A task step is `TaskExecution`'s `Step` with its effect on the processes (`ProcessEffect`): a
stop_node signals and waits, a start_node gets a process from the Janitor, or none when the
Janitor is being left. `NodeExits` is a process that ends by itself or as asked; a status other than
0 is a crash to the Janitor, whose `Kill` is thrown into the frame the orchestration greenlet is
blocked in; the pools below it are not told and may go on working. `UiQuit` sends every node a
SIGINT whatever the tasks are doing. `ExitCodes` is the list of `except` clauses of `run_`. `ui` is
`headless` when the UI was asked for and the output is no terminal: then `ScenarioUI` has no `_loop`,
its greenlet is over at once, and `Exit` gives 10, because `set_success` raises an AttributeError in
`__exit__` whatever the scenario's result.
`reaped`, free in `TaskExecution`, follows from the processes here.

**Funding.** A greenlet reads and decides (`...Read`), then sends (`...Send`); anything may happen
in between. `DepositSend` waits for the mint and the approval as `joinall` does, and fails with
them. The approval is two transactions, to zero and to the maximum. `Reject` is a transaction the
chain or the RPC node refuses, for the kinds in `MayFail`. Balances of the chain start anywhere in
the sets the configuration gives.

**RunFiles.** Each run goes through seed, number, key stores and token; a write is a truncation
and a write, and a run may be killed before, between and after. `Overlapping = FALSE` says that
runs of *one* scenario do not overlap (the TODO at `runner.py:151` leaves that open); runs of
different scenarios always may.

A run that has its number sends `Transfers` transfers, with the identifiers of
`TransferIdentifier`: the decimal digits are numbers appended to numbers, with as many places as
the format string reserves or as the number needs. The hash of a name is a
constant of its scenario; `RunAssumption` has different ones for different scenarios.

**Snapshots.** A directory has the run that last worked on it and whether it is whole. Copies and
removals have a beginning and an end, and a crash between leaves part of a directory.
`StartNode` beside the task models a start_node in another branch of the scenario. A killed run takes
its node processes with it (`Stop`): a node that lives on after the kill of the player, and goes on
writing, is not modelled.

**Assertions.** A task is a record of its type and options; an answer is what the service sends.
`Check` is the code, with its order of checks, its truthiness tests and `zip`; `Promise` is the
claim, written with sets and bags. `Comparable` says when the two are about the same thing: where an
option is 0 or empty, or an event agrees in one argument and not in another, the code compares
something else (section 6). A list of events the code has filtered is the set of the positions it has
taken. The retry loop around it is that of `TaskExecution` for one
frame. The state machine chooses an answer at each poll.

**Reclaim.** `phase` is where the command is, `todo` what its loop has left. Contract calls are
waited for and so are one step; an ether transfer is sent (`SendEther`), the directory marked
(`Mark`), the transfer mined some time later (`Mine`), perhaps after the command was stopped
(`Stop`: killed, or an error nobody catches in the main greenlet) and called again (`Begin`).
`withdraw_all` has a greenlet for each channel: `SpawnWithdraw` is one round of its loop, with the
calls to the chain before the spawn, `WithdrawChannel` and `WithdrawFails` are a greenlet that ends,
the second with an error other than InsufficientEth, `Discard` is the link that takes it out of the
pool, and `Advance` is the end of the loop and of `pool.join(raise_error=True)`, which looks at the
greenlets that were in the pool when it began (`watched`). What a greenlet does is one step: two
greenlets with the same payer meet in either order, but not in the middle of a call. `Call` is the
`except InsufficientEth` of the helpers; `Withdraw` has none and ends the command.
The deposit read from the UDC is taken for what can be withdrawn, as the code does.

**Configuration.** A definition is a function from options to what the file gives or `Absent`.
`balance_per_node`, `max_funding` and the others are the properties of the classes in
`utils/configuration/`, `Accepted` is what `ScenarioDefinition.__init__` lets pass, in the parts
other modules depend on. It has no state; `Config == INSTANCE Configuration` in the MC modules
gives `Funding` its amounts, `RunFiles` its sets of reused accounts and tokens, and `Snapshots` its
scenario, each with an ASSUME that the definition is accepted (and, for snapshots, allows them).

**Composition.** `ScenarioRun` EXTENDS `TaskExecution` and instantiates `PlayerPromise` under a
refinement mapping of the processes and the root task's outcome. `TaskExecution` instantiates
`TaskTree` under a refinement mapping: of its variables `state` alone is visible there. `Assertions`
opens the `"assert"` leaves of `TaskExecution`. `Funding` ends where `TaskExecution` begins,
`RunFiles` names the directories that `Snapshots` copies and `Reclaim` finds.

## 3. The runs

| Run | Instance | States | Shows |
|---|---|---|---|
| `tasks_tree` | every kind of task: parallel and serial in each other, retried assertions, a stopped and restarted node, an empty parallel task; timers on two assertions, unlimited pools | 728 | the execution implements `TaskTree` (`TreeSpec`); no task outlives its parent, serial order, no success over a failed child, at most one blocked frame per greenlet, a recorded assertion is raised by the timer, errors surface, the scenario ends |
| `scenario_run` | two nodes, a timeout on the outermost task above a parallel task with a pool of one, whose first branch restarts a node; node crashes, key q at any time, failing set-up, with a UI, with one that has no terminal, and without | 172,726 | the run implements `PlayerPromise` and ends; a node has one process; greenlets outlive their parallel task only after its timer or a crash; the UI's counter is exact however calls end, the pool keeps its limit, nothing works on after the time-out |
| `funding_deposits` | two nodes, without ether, one in debt to a service, one without tokens; network token mints may be rejected | 275,174 | no interleaving leaves a deposit uncovered; nobody is topped up beyond the maximum |
| `funding_rejected` | one node, any transaction may be rejected, ether may run out | 207,868 | the set-up ends; nothing becomes negative; the root task meets an underfunded node only if the error of its greenlet was lost |
| `run_files` | three runs with fresh accounts beside two with reused accounts and token; one of the five is killed anywhere | 716,069 | fresh numbers, no payment identifier twice, one token, accounts kept, refusals only after a crash |
| `snapshots` | three nodes, four runs, two crashes | 52,672 | what is restored was reached together, and no more of it is incomplete than runs were killed; no copy under a running node; a refusal needs a crash; a copy is not changed |
| `assertions` | every assertion task with its options against answers of up to two channels, events or responses | 39,962 | what passes is true, what fails is false |
| `reclaim` | three accounts, two channels, a snapshot's copy of a directory; two calls, one stop or error | 4,472,899 | a mark never hides ether; success has emptied what it looked at; what is left has been warned of, but for a channel whose greenlet died before the join |
| `tasks_lost_error`, `tasks_request_timeout`, `assert_no_path`, `assert_settled` | | | violations, see section 6 |

*Bounds.* A hazard in the task tree needs a parent, a child that ends in one way and a sibling that
is still at work, on at most two levels of greenlets: the tree of `tasks_tree` has that. Two
children of a pool of one are the least that make the loop wait for a slot. The tree of
`scenario_run` stops and starts one node while the other is left to crash; `ErrorCodes` is
{20} because the codes of ordinary errors are told apart from 0 and 30 only. In `Funding` two
deposits are the least that compete for one allowance; amounts of 0 to 9 give each test of a
balance both answers. For
files and snapshots a hazard takes a run that is killed, one that finds what it left and, for a
mixture, one more with another directory done; two crashes in four runs give every order of these.
`RunFiles` keeps one digit instead of four and six for the run and the transfer, more than its five
runs and two transfers need. Two list entries are the least for an order, a repetition and a list
that is too short. In `Reclaim` two calls with a stop between any two steps are a crash and a
recovery; ether of 1, 5 and 9 with costs of 3 and 1 gives wallets that can make no call, one or
several. Two channels are the least for a greenlet that dies while another is still to be spawned. In
`funding_rejected` and `reclaim` the lost error does happen: without the words that except it, TLC
finds `FundedUnlessLost` and `LeftoversWarned` violated, and the bound in `RestoredTogether` is tight.

*Deadlock* is checked everywhere: each module has a `Terminated` step, enabled only where the
system really may stop.

*The passing instance of `assertions`* leaves out what the code does not promise or is
known not to do: settlements are in the order the task names them and no amounts are asserted
(`assert_settled` has the other order), events are filtered by one argument, and the PFS counts
are positive and given together with the count of requests (`assert_no_path` has zero). This is what
`Comparable` says, and the instance assumes it.

## 4. Fairness

`TaskExecution` has weak fairness of every greenlet's step: gevent's hub runs every greenlet that
is ready and every request ends, having a time limit of its own. It has strong fairness of each
timer: a timer that is due is thrown in when its greenlet is found blocked, and a composite task
that is retried is blocked again and again but not all the time. Nothing is assumed of answers:
an assertion may fail, or a value be empty, for ever. `Funding` has weak fairness of each
greenlet and of the chain (a transaction is mined or rejected), none of rejections.
In `ScenarioRun` there is weak fairness of the main greenlet, of the orchestration (the set-up,
the wait for a node and every request have time limits), of each task step, of what the Janitor
does as it is left (it kills a process that does not exit) and of a UI that is stopping its nodes (it
waits for 10 minutes at most). Kill and timers have strong fairness: both are thrown in when their
greenlet is found blocked. Without key q the UI would wait for ever, as the program
intends: after the nodes are gone the screen tells the user to press q, so that step alone of
the user's (`phase = "ui" /\ UiQuit`) is fair. No process need ever exit by itself.
`RunFiles`, `Snapshots`, `Assertions` and `Reclaim` check safety only: a run may be killed at
any time and need not be followed by another.

## 5. The proofs

The theorems hold for every value of the constants that meets the named assumptions of the modules
(`ShapeAssumption`, `TreeAssumption`, `OptionAssumption`, `RootAssumption`, `NestingAssumption`,
`CodeAssumption`, `ProcessTasksAssumption`, `FundingAssumption`, `RunAssumption`,
`DigitsAssumption`, `SnapshotAssumption`, `ReclaimAssumption`, `KnownTypes`, and the two `ContentAssumption`s,
which keep a value for "nothing there" apart from contents): any tree, any number of nodes, runs,
crashes and calls, any balances, lists of any length.

| Theorem | States | Also assumes |
|---|---|---|
| `TaskExecutionProofs!TypeCorrect` | `Spec => []TypeOK` | |
| `TaskExecutionProofs!Invariance` | `Spec => []IInv` | `LeafTimersOnly` |
| `TaskExecutionProofs!NoOrphans` | `Spec => []StructuredConcurrency` | `LeafTimersOnly` |
| `CallProofs!CallsInvariant` | `Spec => []CallInvariant` | |
| `CallProofs!SerialOrder` | `Spec => []SerialIsolation` | |
| `CallProofs!CountExact` | `Spec => []RunningCountExact` | |
| `CallProofs!ConcurrencyKept` | `Spec => []ConcurrencyBound` | |
| `CallProofs!OneFrameBlocked` | `Spec => []OneBlockedFrame` | |
| `CallProofs!AssertionNotLost` | `Spec => []AssertionReported` | |
| `CallProofs!OrphansOfTimers` | `Spec =>` a task runs on after its parent only as a greenlet of a parallel task that is `TimedOut` | |
| `CallProofs!NothingAfterTimeout` | `Spec => NoWorkAfterTimeout` | `OneTimer` |
| `TaskExecutionProofs!Implements` | `Spec => TreeSpec` | `LeafTimersOnly`, `UnlimitedPools` |
| `TaskExecutionProofs!NoErrorLost` | `Spec => []SuccessIsComplete` | `LeafTimersOnly`, `UnlimitedPools` |
| `ScenarioRunProofs!RunTypeCorrect` | `RunSpec => []RunTypeOK` | |
| `ScenarioRunProofs!RunCallsInvariant` | `RunSpec => []CallInvariant` | |
| `ScenarioRunProofs!RunSerialOrder` | `RunSpec => [](SerialIsolation /\ OneBlockedFrame)` | |
| `ScenarioRunProofs!RunCountExact` | `RunSpec => []RunningCountExact` | |
| `ScenarioRunProofs!RunConcurrencyKept` | `RunSpec => []ConcurrencyBound` | |
| `ScenarioRunProofs!RunAssertionNotLost` | `RunSpec => []AssertionReported` | |
| `ScenarioRunProofs!RunNothingAfterTimeout` | `RunSpec => NoWorkAfterTimeout` | `OneTimer` |
| `ScenarioRunProofs!OrphansOfCuts` | `RunSpec => []OrphansExplained` | |
| `ScenarioRunProofs!PromiseImplemented` | `RunSpec => PromiseKept` | |
| `ScenarioRunProofs!OneProcessEach` | `RunSpec => []OneProcess` | `StopsFirst` |
| `FundingProofs!TypeCorrect` | `Spec => []TypeOK` | |
| `FundingProofs!NotOverfunded` | `Spec => NoOverfunding` | |
| `FundingProofs!Covered` | `Spec => []DepositsCovered` | `DefaultFunding`, `ChainAccepts` |
| `FundingProofs!UnderfundedOnlyIfLost` | `Spec => []FundedUnlessLost` | |
| `RunFilesProofs!TypeCorrect` | `Spec => []TypeOK` | |
| `RunFilesProofs!FreshNumbers` | `Spec => []NumbersFresh` | `~Overlapping` |
| `RunFilesProofs!UniqueIdentifiers` | `Spec => []IdentifiersUnique` | `~Overlapping`, numbers fit their digits |
| `RunFilesProofs!KeptAccounts` | `Spec => AccountsKept` | `~Overlapping` |
| `RunFilesProofs!AgreedToken` | `Spec => []TokenAgreed` | `~Overlapping` |
| `RunFilesProofs!RefusalsNeedCrash` | `Spec => []FailuresNeedCrash` | `~Overlapping` |
| `RunFilesProofs!Injective` | equal identifiers come from equal hashes, runs and transfers | numbers fit their digits |
| `RunFilesProofs!Width` | an identifier fits 64 bits (below 1655360 * 10^11) | numbers fit their digits |
| `SnapshotsProofs!TypeCorrect` | `Spec => []TypeOK` | |
| `SnapshotsProofs!RestoredAsOne` | `Spec => []RestoredTogether` | |
| `SnapshotsProofs!CopiedAtRest` | `Spec => []CopyWhileStopped` | |
| `SnapshotsProofs!RefusalNeedsCrash` | `Spec => []RefusedNeedsCrash` | |
| `SnapshotsProofs!FrozenSnapshot` | `Spec => SnapshotFrozen` | |
| `AssertionsProofs!TypeCorrect` | `Spec => []TypeOK` | |
| `AssertionsProofs!PassesTrue` | `Spec => []PassesAreTrue` | `AllComparable` |
| `AssertionsProofs!RejectionsTrue` | `Spec => []RejectionsAreTrue` | `AllComparable` |
| `ReclaimProofs!TypeCorrect` | `Spec => []TypeOK` | |
| `ReclaimProofs!MarksHideNothing` | `Spec => []MarkedDrained` | |
| `ReclaimProofs!SuccessIsReal` | `Spec => []SuccessDrains` | |
| `ReclaimProofs!LeftoversKnown` | `Spec => []LeftoversWarned` | |

*TaskExecution.* `StructuredConcurrency` alone is not inductive: whether a task may leave depends on
where its frame and its children's frames are and on what its pool holds. `IInv` says for each task
how `state`, `pc` and `next` go together (`LifeInv`), that a pool is empty unless its task is
filling it or at join (`PoolInv`), for each child of a serial task where it is before, at or after
the loop's index (`SerialInv`), and of a parallel task that it is idle from the index on, and before
it in the pool until it is done (`ParallelInv`). One lemma per action shows that each is kept. The
heart is `SerialCall` and `Spawn`: a task that begins is idle and so are its children. That a tree
has one parent for each task (`TreeAssumption`) is what keeps the children of others untouched.
`LeafTimersOnly` (no composite has a timeout) is needed: a timer that hits a parallel task ends its
call with its greenlets at work, and `StructuredConcurrency` is then false.

*Calls, with timers anywhere.* `CallInvariant` (`CallProofs`) is what is left when `LeafTimersOnly`
is dropped. It has a set X of *torn* tasks: parallel tasks whose call has been ended from outside,
by a timer or a crash, while greenlets of their pools run on. For each task it says how `pc`,
`state` and `next` go together (`CallLife`), that a child of a serial task that is at work is the
one its caller waits for (`SerialPlace`), and that a child of a parallel task that is at work is in
its pool, its caller at `slot` or `join`, or torn (`ParallelPlace`). The difficulty is the retry
loop of a composite: its children are called again, and if one of them were torn, one task would run
twice at a time. So a torn task inside a loop is ERRORED with an error that no loop catches, and
either its caller is torn too or stands at the call and is about to see that error (`Torn`): the
error climbs past every loop before anything can be called again. That the torn set grows by the
caller when the error reaches it is `SerialResumeCall`. `RootAssumption` (from each task the parents
lead to the root) makes the tree an object of induction: as a schema of induction is out of the
prover's reach, it is stated of sets of tasks, and `TreeInduction` uses it for the equations of
`Ancestors` and `GreenletOf`.

From `CallInvariant` follow `SerialIsolation`; the counter, since a call is entered by a task not at
work and left by one at work; the pool limit; and `OneBlockedFrame`: the callers of a task on its
greenlet stand in the call that leads to it (`CallersOnPath`), so two tasks at work on one greenlet
are one above the other (`OnePath`) and only the lower one can be blocked. `AssertionReported` needs
in addition that a leaf whose timer has gone off is over (`FiredInv`).

What may outlive its parent when composites have timers is the subject of `OrphansOfTimers`, and of
`OrphansOfCuts` in a run with crashes. By `CallInvariant` it is a greenlet of a parallel task that is
torn (`OrphanIsLeft`); what is added is what has torn it. No step of a task leaves a greenlet behind,
since the one way out of a parallel task's own code is `JoinReturn`, with an empty pool
(`LeftBehindStep`); a timer or a crash does so for the frame it hits alone (`LeftBehindThrow`). The
cause stays on record: a composite with a timeout is in no loop, so it is called once and its
timer stays fired (`FiredKept`). Both causes are needed, TLC finds the property violated without
either.

For `NoWorkAfterTimeout`, `Unwinding(t, error)` says that every active task of t's greenlet at or
below t is in a call and that a callee which is over has raised this error. A blocked frame that is
hit starts it (`UnwindStart`: there is only one), a step of the greenlet carries it one caller up
(`UnwindStep`), another error thrown in cannot disturb it since nothing there is blocked
(`ThrowSpares`). `OneTimer` (no task with a timeout is below another one on the same greenlet) is
needed because `Task.__call__` has no way to tell timers apart: the `except Timeout` of an assertion
below a serial task with a timeout catches that task's Timeout, ends the assertion as if it were its
own, and the serial task goes on without a timer.

*The run.* A step of `ScenarioRun` is to the tasks a step of `TaskExecution`, a crash thrown into
the greenlet of the root (`Throw`), or nothing (`RunStepTasks`), so what is proved of the calls
carries over, a crash being one more error that unwinds; `RunTypeOK` follows with it. For
`PromiseKept` the invariant `ResultInv` has four parts: in which phases the main greenlet meets
which orchestration greenlet, and no process is left at the exit (`PhaseInv`); the root task is
called once, by the orchestration greenlet (`RootInv`); what that greenlet leaves in `raised` is the
result of the root task, or the task was never called (`EndInv`); and a crash that was thrown in is
on its way up to the root or has ended it as an error (`CrashInv`), which is why a crash can never
turn into exit code 0 or 30 by way of an assertion that is retried or raised meanwhile. `ExitTells`
and `ResultOnce` then make each step one of `PlayerPromise` or a stutter. `PlayerPromise` says itself
that with a UI and no terminal (`headless`, fixed from the start: `HeadlessStays`) the code is 10 after
any result, which is what `ExitHeadless` shows of the code; `ExitPlain` is the rest. `CodeAssumption` is the
list of exit codes in `exceptions`; that it has neither 0 nor 30 is what the last step needs.

`OneProcess` is proved for scenarios that stop a node before they start it (`StopsFirst`): each
start_node task has an earlier stop_node task of its node in the same serial task, with no start of
that node between. It is the author's part, since the nodes run from the beginning and
`NodeRunner.start` does not look for a process. `DownInv`: from the success of the stop_node on
until the start_node is over, the node's process is not alive. It is kept because no other
start_node of the node can be under way then: it would be on the same greenlet
(`ProcessTasksAssumption`), hence below the serial task, at the child it has come to
(`StartInPlace`).

*The refinement.* Without a limit on its pool a parallel task starts all its children in one step
and joins them in the same step, so that join watches every child (`WatchInv`). With `IInv` each
action is then a step of `TaskTree` or leaves `state` alone: a call or the start of a greenlet is
`Begin`, the end of a loop, of a join or of a leaf is `Finish` or `Fail`. `UnlimitedPools` is
needed: with a limit the statement is false (`tasks_lost_error`). `SuccessIsComplete` is proved of
the abstract tree and carried over, from `Implements` and `TypeCorrect`.

*Funding.* `NotOverfunded` needs no assumption on amounts or on the chain: a node's deposit is
changed by its own greenlet alone, so what it has read still holds when the transaction is made, and
deposit and amount make up max_funding exactly (`TopUpInv`).

For `Covered` the inductive invariant compares the account with a reserve: balance_per_node for each
node whose deposit is not over yet. Once minting is over the account has the reserve in tokens, once
the approval is over in allowance; a deposit takes at most its share from both. `DefaultFunding`
(max_funding equals balance_per_node) is needed: with 3 against 2, `userdeposit_maybe_deposit` tops
up to the larger number while `required_allowance` (`runner.py:545`) provides for the smaller, and
TLC finds `DepositsCovered` violated in the instance of `funding_deposits` changed that way.
`ChainAccepts` excludes only rejections of the three transactions the property is about.

`UnderfundedOnlyIfLost` assumes nothing of the chain, the account or the amounts. Two things are
tracked: what was spawned by when and is still in the pool or done, and which greenlets join watches
(`PoolInv`), so that a join that returns has waited for all and has raised the errors of those it
watched; and for each node which level its ether, its deposit and its tokens have reached when a
greenlet is done (`LevelInv`). The exception is real (section 6): an ether transfer or a deposit that
is refused before the last greenlets are spawned is `Lost`. The network token greenlets are the last
ones, so none of theirs is.

*RunFiles.* `RunInv` is one invariant for all five properties: the runs of a scenario follow each
other (`OrderInv`), the number file is empty only after a crash and never behind a number in use
(`NumberInv`), a key store that can be used is the one its runs use (`KeyInv`), the token file names
the token of all runs that have one (`TokenInv`), and a refusal points to a crash (`FailInv`).
`~Overlapping` is needed from the first of them on. `UniqueIdentifiers` joins `FreshNumbers` and
`Injective`; the numbers stay below the number of runs.

*TransferIdentifier* (in `RunFilesProofs`). Appending digits is multiplying by a power of ten and
adding less than it, so the last number and the rest are remainder and quotient (`Division`), three
times. For the hash, which has one to five digits, the leading 1 makes the lengths differ
(`HashesApart`).

*Snapshots.* `SnapshotInv` says what each place of the run has behind it: which directories are done
(`PlaceInv`), that nothing runs or starts from the stop to the last copy (`ProcessInv`), what a
taking and a restoring run have copied (`TakeInv`, `RestoreInv`), that complete copies are of one
preparation (`SnapInv`), and that a part of a snapshot needs a crash (`PartInv`). An incomplete
directory is accepted by the code, so `RestoredAsOne` bounds what that can do: a run that is killed has
at most one directory in its hands (`WholeInv`, `WholeBut`), so no more directories of a restored
snapshot are incomplete than runs were killed, and all are whole if none was.

*Reclaim.* `MarkedDrained` is strengthened to every account that is marked or about to be marked
(`DrainInv`): its ether is in a pending transfer or not worth one, and no step of the command adds
ether to a wallet. `SuccessDrains` needs to know what the loops have behind them: of a call under
way, each directory it has visited is served (`SuccessInv`), and the phases after the last loop have
visited them all. `LeftoversWarned` follows from the same picture for the tokens, the deposits and
the channels (`CollectInv`), where a channel that was spawned is emptied, warned of, still at work or
`died`; the join returns without an error only if none that it watched has.

*Assertions.* The answer decides, so the invariants say little (`Checked`, `Rejected`: the result and
the assertion on record are what the check makes of their answers), and the work is `ChecksSound`: for
each type of task, what passes is what is claimed and what fails is not. Both are about lists of any
length, folded over by the community modules' recursive functions. The theorems of induction of the
library take an operator and cannot be used; `NatSets` says the same of sets of numbers (one with
0 and the successors of its members has them all, from the well-foundedness of <) and does all the
inductions. A fold is the solution of an equation, so each proof begins with the existence of one
(`RemovalSolved`, `SumSolved`, `SetSumSolved`, `FlattenSolved`) and goes on with its steps.

`RemovedIsSame`: taking the elements of one list out of another as long leaves nothing exactly if both
have the same elements, each as often. The invariant of the loop relates the number of elements left
to how often each one has been met (`Kept`); a miss leaves the list longer than what is to come, for
good. It is what `assert_all` and the paths of the PFS history rest on, and where the mutant that
compares sets goes wrong. `DistinctIsSame` is its form for a list made of a set, in whatever order.
`SumsAgree`: a list added up from the left has the sum of its places in any order (`SetSumStep`).
`FirstOfFacts` is the loop over the fields that stops at the first that does not agree, `ZipIsEqual`
why a comparison by `zip` needs the lengths.

`AllComparable` (each answer of the service is comparable for its task, `Comparable`) is needed: the
two runs of section 6 are tasks and answers that are not, and both theorems are false of them. The
instance of the run `assertions` meets it, an ASSUME of `MCAssertions` that TLC evaluates.

*Only model-checked:* liveness (`Termination`, `ErrorsSurface`, `SetupEnds`, `RunEnds`), which is
beyond the prover. `Configuration` has nothing to prove: each of its operators is one expression of
the code. Outside of `LeafTimersOnly` and `UnlimitedPools`, `StructuredConcurrency`, `TreeSpec` and
`SuccessIsComplete` are false, hence not claimed.

## 6. Where code and documentation disagree

* `tasks_lost_error` (`tasks/execution.py:61`): with `concurrency`, a task that fails while the
  loop still waits for a slot has left the pool when `join(raise_error=True)` looks at it. The
  scenario succeeds. The same pool is used twice more. In the set-up (`runner.py:483`), if a
  funding transaction fails before the last greenlets are spawned, the root task runs on a node without
  its ether or deposit (the exception in `FundedUnlessLost`). In `withdraw_all`
  (`utils/reclaim.py:542`), if a greenlet dies before the last one is spawned, reclaim-eth ends well
  with the channel not emptied (the exception in `LeftoversWarned`); the comment above that join says
  "at this point we are ignoring errors", while its `raise_error=True` raises those it sees.
* `tasks_request_timeout` (`tasks/base.py:135`): a request whose timeout passes without an answer
  is FINISHED; the example scenario says the task will fail.
* `assert_no_path` (`tasks/services.py:220`): `routes_count: 0` is falsy and never compared,
  though a scenario relies on it.
* `assert_settled` (`tasks/blockchain.py:268`): the search in the other direction filters the
  result of the first.

Met on the way and not made a run, in `run_`: with the UI asked for and no terminal, leaving
`ScenarioUIManager` raises an AttributeError (`main.py:401`, `ui.py:195` and `ui.py:286`), and the exit
code is 10 although the scenario succeeded or failed with an assertion, for which the docstring
(`main.py:293`) promises 3x. `PlayerPromise` has this as its one exception. The docstring also gives
1x to errors of the start and 2x to errors of the definition, but what the configuration classes raise is a
ValueError and their `validate` uses assertions, neither of which is a ScenarioError, so both exit
with 10, while too little ether of the account is a ScenarioError and exits with 20; a gevent.Timeout of
`wait_for_nodes_to_be_ready` is no Exception and ends with status 1, as does a wrong password,
which is raised before the `try`. In the configuration: the docstring of
`UDCTokenSettings.validate` names an error it does not raise; a definition with `token.address`
and no `nodes.default_options` is a KeyError (`definition.py:42`, `OptionsWritable`), because
`NodesConfig` makes the options only for a definition without address; and `balance_fund` below
`balance_min` is accepted.

Elsewhere: the top-up beyond `balance_per_node` (section 5); an incomplete copy of a directory passes
for a snapshot (`node_support.py:442`), and a later run restores it and goes on from it; the debugging signal to a
stopped node turns an assertion into an OSError (`node_support.py:396`); in reclaim-eth, marks
are independent of the options, so a call without `--withdraw-from-udc` hides the directories from
a later call with it; one account that can pay for its plan and not for the withdrawal makes
every such call fail (`utils/reclaim.py:226`); utility tokens of a call that was stopped after the
withdrawal are collected only if another withdrawal is planned (`utils/reclaim.py:203`); and an
account with two directories makes the second transfer fail (`utils/reclaim.py:299`).

## 7. What is not modelled

* A composite task with a timeout inside another one (`NestingAssumption`): the outer timer could
  hit the inner retry loop while its children's greenlets live on, and one frame per task is
  then not enough.
* What the Janitor raises for a crashed node is external: the code is 1 or 10. Once a crash has
  ended the orchestration greenlet, greenlets of pools below it may go on until the process exits, so
  `OrphansExplained` takes the place of `StructuredConcurrency` in `ScenarioRun`. `ProcessTasksAssumption`: a scenario
  that starts and stops one node from two branches at once is the author's error, and could
  leave two processes on one directory; so is one that starts a node it has not stopped
  (`StopsFirst`).
* Overlapping runs of one scenario, which the source names as open; the states are there with
  `Overlapping = TRUE`. The race of two first runs for `seed.txt` is modelled; nothing is claimed of it.
* Payment identifiers of more than 10^4 runs or 10^6 transfers, where digits may run together, and
  scenarios whose names have the same 16-bit hash.
* Blocks and confirmations: a read sees the latest state. The capacity of a channel that
  reclaim-eth reads at an older block is therefore current in the model. A sent ether transfer is mined
  some time; one that the network drops is not modelled, nor what it would leave behind a mark.
* Node processes that survive the kill of the player, and a greenlet of `withdraw_all` that is in the
  middle of its calls while another with the same payer runs.
* Runs between two calls of reclaim-eth, hence accounts that are reused and funded again after
  having been marked; the minimum age, whose result `Dirs` is; more than one token.
* YAML parsing, options given as null, and the types of the options of tasks; logging, rendering,
  command line and smoketest: no state that another part depends on, or third-party code.

## 8. Plan

Done, in the order of what a wrong answer costs, a false verdict first, then money, then files: the
task tree with its promise, the set-up, run files, snapshots, assertions and reclaiming; then the
run as a whole with its own promise, the payment identifiers and the definition; and proofs of
the safety properties of all of these, for `TaskExecution` and `ScenarioRun` with timers on any tasks.

Left:

1. Nested timers in `TaskExecution`: frames per call instead of per task, and
   `NestingAssumption` dropped.
2. Without `LeafTimersOnly`, a form of `TreeSpec` that allows what `OrphansExplained` does, and no more.
3. `DepositsCovered` with max_funding above balance_per_node, for the chains and accounts for which it is true.
4. A set-up in `ScenarioRun` that is `Funding` itself instead of one step.
