------------------------ MODULE TaskExecutionProofs ------------------------
(***************************************************************************)
(* Proofs about TaskExecution, for every tree of tasks: type correctness,  *)
(* when only leaf tasks have a timeout, that a composite task is over only *)
(* when all the greenlets below it are, and, with unlimited pools, that it *)
(* implements TaskTree.                                                    *)
(***************************************************************************)
EXTENDS TaskExecution, FiniteSetTheorems, TLAPS

\* The timeouts are those of leaf tasks, as in every scenario of the repository.
LeafTimersOnly == \A t \in Timed : IsLeaf(t)

-----------------------------------------------------------------------------
(* The inductive invariant.                                                *)

\* The state of a task is determined by where its call stands, and each kind
\* of task stands only where its _run can.
LifeInv(t) ==
    /\ IsActive(t) <=> state[t] = "RUNNING"
    /\ Done(t) <=> state[t] \in {"FINISHED", "ERRORED"}
    /\ pc[t] \in {"request", "sleep"} => IsLeaf(t)
    /\ pc[t] \in {"loop", "slot", "join", "call"} => ~IsLeaf(t)
    /\ pc[t] = "call" => Kind[t] = "serial"
    /\ pc[t] \in {"slot", "join"} => Kind[t] = "parallel"
    /\ pc[t] \in {"idle", "scheduled"} => next[t] = 1
    /\ pc[t] = "loop" /\ Kind[t] = "parallel" => next[t] = 1
    /\ pc[t] = "slot" => next[t] <= Len(Children[t])

\* Where the i-th child of a serial task stands.
SerialInv(p, i) ==
    LET c == Children[p][i] IN
    Kind[p] = "serial" =>
      /\ i < next[p] => Done(c) /\ state[c] = "FINISHED"
      /\ i > next[p] => pc[c] = "idle"
      /\ i = next[p] =>
           \/ pc[p] \in {"idle", "scheduled", "loop"} /\ pc[c] = "idle"
           \/ pc[p] = "call" /\ (IsActive(c) \/ Done(c))
           \/ Done(p) /\ Done(c) /\ state[c] = "ERRORED" /\ state[p] = "ERRORED"

\* Where the i-th child of a parallel task stands.
ParallelInv(p, i) ==
    LET c == Children[p][i] IN
    Kind[p] = "parallel" =>
      /\ i >= next[p] => pc[c] = "idle" /\ pc[p] # "join" /\ ~Done(p)
      /\ i < next[p] => pc[c] # "idle" /\ pc[p] # "loop"
      /\ i < next[p] /\ ~Done(c) => c \in pool[p]

PoolInv(p) ==
    pool[p] # {} => pc[p] \in {"slot", "join"}

IInv ==
    /\ TypeOK
    /\ \A t \in Tasks : LifeInv(t) /\ PoolInv(t)
    /\ \A p \in Tasks : \A i \in DOMAIN Children[p] :
          SerialInv(p, i) /\ ParallelInv(p, i)

-----------------------------------------------------------------------------
(* Type correctness.                                                       *)

\* What the assumptions say of the children and the slots of a task.
LEMMA ChildFacts ==
    /\ \A t \in Tasks : Len(Children[t]) \in Nat /\ Slots(t) \in Nat
    /\ \A t \in Tasks : DOMAIN Children[t] = 1..Len(Children[t])
    /\ \A t \in Tasks : \A i \in 1..Len(Children[t]) : Children[t][i] \in Tasks
    /\ \A t \in Tasks : Offspring(t) \subseteq Tasks
    /\ \A t \in Tasks : IsLeaf(t) => Len(Children[t]) = 0 /\ Offspring(t) = {}
<1>1. \A t \in Tasks : Children[t] \in Seq(Tasks)
  BY ShapeAssumption
<1>2. \A t \in Tasks : /\ Len(Children[t]) \in Nat
                       /\ DOMAIN Children[t] = 1..Len(Children[t])
                       /\ \A i \in 1..Len(Children[t]) : Children[t][i] \in Tasks
  BY <1>1
<1>3. \A t \in Tasks : Slots(t) \in Nat
  BY <1>2, OptionAssumption DEF Slots
<1>4. \A t \in Tasks : IsLeaf(t) => Len(Children[t]) = 0 /\ Offspring(t) = {}
  BY ShapeAssumption DEF IsLeaf, Offspring
<1> QED BY <1>2, <1>3, <1>4 DEF Offspring

\* A subset of Tasks has a number of elements.
LEMMA Counting ==
    ASSUME NEW S \in SUBSET Tasks
    PROVE  Cardinality(S) \in Nat
BY FS_Subset, FS_CardinalityType, ShapeAssumption

\* The part of TypeOK that the end of a call, or of one attempt, can disturb.
CallType ==
    /\ state \in [Tasks -> States]
    /\ pc \in [Tasks -> Pcs]
    /\ exception \in [Tasks -> {"none", "assertion"}]
    /\ outcome \in [Tasks -> Errors \cup {"none"}]
    /\ \A u \in Tasks : state[u] = "ERRORED" => outcome[u] \in Errors
    /\ running_task_count \in Int

\* No task but the one that acts gets, and none loses, a child it waits for.
NoNewCall == \A u \in Tasks : pc'[u] = "call" => pc[u] = "call"

LEMMA FinishType ==
    ASSUME TypeOK, NEW t \in Tasks, Finish(t)
    PROVE  CallType' /\ NoNewCall
<1>1. state' \in [Tasks -> States] /\ pc' \in [Tasks -> Pcs] /\ NoNewCall
  BY DEF TypeOK, Finish, States, Pcs, Active, Blocked, NoNewCall
<1>2. \A u \in Tasks : state'[u] = "ERRORED" => outcome'[u] \in Errors
  BY DEF TypeOK, Finish
<1> QED BY <1>1, <1>2 DEF TypeOK, Finish, CallType

LEMMA FailType ==
    ASSUME TypeOK, NEW t \in Tasks, NEW error \in Errors, Fail(t, error)
    PROVE  CallType' /\ NoNewCall
<1>1. state' \in [Tasks -> States] /\ pc' \in [Tasks -> Pcs] /\ NoNewCall
  BY DEF TypeOK, Fail, States, Pcs, Active, Blocked, NoNewCall
<1>2. outcome' \in [Tasks -> Errors \cup {"none"}]
  BY DEF TypeOK, Fail
<1>3. \A u \in Tasks : state'[u] = "ERRORED" => outcome'[u] \in Errors
  BY DEF TypeOK, Fail
<1> QED BY <1>1, <1>2, <1>3 DEF TypeOK, Fail, CallType

LEMMA SleepType ==
    ASSUME TypeOK, NEW t \in Tasks, GoToSleep(t),
           exception' \in [Tasks -> {"none", "assertion"}]
    PROVE  CallType' /\ NoNewCall
BY DEF TypeOK, GoToSleep, Pcs, Active, Blocked, CallType, NoNewCall

\* A task that raises is left as the types say, whichever handler it meets.
LEMMA RaiseType ==
    ASSUME TypeOK, NEW t \in Tasks, NEW error \in Errors, Raise(t, error)
    PROVE  CallType' /\ NoNewCall
<1>1. CASE t \in Timed /\ error = "assertion"
  BY <1>1, SleepType DEF Raise, TypeOK
<1>2. CASE t \in Timed /\ error = "timeout"
  <2>1. HandleTimeout(t)
    BY <1>2 DEF Raise
  <2>2. {"oserror", "assertion"} \subseteq Errors
    BY DEF Errors
  <2> QED BY <2>1, <2>2, FailType, FinishType DEF HandleTimeout
<1>3. CASE ~(t \in Timed /\ error \in {"assertion", "timeout"})
  <2>1. Fail(t, error)
    BY <1>3 DEF Raise
  <2> QED BY <2>1, FailType
<1> QED BY <1>1, <1>2, <1>3

LEMMA ReturnType ==
    ASSUME TypeOK, NEW t \in Tasks, NEW value, Return(t, value)
    PROVE  CallType' /\ NoNewCall
BY SleepType, FinishType DEF Return, TypeOK

LEMMA EnterType ==
    ASSUME TypeOK, NEW t \in Tasks, NEW pcs \in [Tasks -> Pcs], Enter(t, pcs),
           UNCHANGED <<poolVars, reaped>>
    PROVE  (\A u \in Tasks : pcs[u] = "call" => next[u] <= Len(Children[u]))
           => TypeOK'
BY DEF TypeOK, States, Pcs, Active, Blocked, Enter, Entry, poolVars

\* Starting children leaves the loop of a parallel task at its next child.
LEMMA SpawnType ==
    ASSUME TypeOK, NEW t \in Tasks, Spawn(t)
    PROVE  TypeOK'
<1> DEFINE old  == IF pc[t] = "loop" THEN {} ELSE pool[t]
           room == next[t] + Slots(t) - Cardinality(old) - 1
           last == IF room < Len(Children[t]) THEN room ELSE Len(Children[t])
           new  == {Children[t][i] : i \in next[t]..last}
<1>1. old \in SUBSET Tasks /\ Cardinality(old) \in Nat /\ Cardinality(old) <= Slots(t)
  BY Counting, FS_EmptySet, ChildFacts DEF TypeOK, Spawn
<1>2. room \in Nat /\ last \in Nat
  BY <1>1, ChildFacts DEF TypeOK
<1>3. new \subseteq Tasks
  BY <1>2, ChildFacts DEF TypeOK
<1> HIDE DEF old, last, new
<1>4. /\ next' = [next EXCEPT ![t] = last + 1]
      /\ pool' = [pool EXCEPT ![t] = old \cup new]
      /\ pc' = [c \in Tasks |->
                  IF c = t THEN IF last = Len(Children[t]) THEN "join" ELSE "slot"
                  ELSE IF c \in new THEN "scheduled" ELSE pc[c]]
      /\ watched' = [watched EXCEPT ![t] = IF last = Len(Children[t])
                                           THEN old \cup new ELSE {}]
      /\ UNCHANGED <<state, exception, outcome, running_task_count, fired, reaped>>
  BY DEF Spawn, old, last, new
<1>5. /\ next' \in [Tasks -> Nat \ {0}] /\ pool' \in [Tasks -> SUBSET Tasks]
      /\ watched' \in [Tasks -> SUBSET Tasks]
  BY <1>1, <1>2, <1>3, <1>4 DEF TypeOK
<1>6. pc' \in [Tasks -> Pcs]
  BY <1>4 DEF TypeOK, Pcs, Active, Blocked
<1> QED BY <1>4, <1>5, <1>6 DEF TypeOK

LEMMA TypeStep == TypeOK /\ [Next]_vars => TypeOK'
<1> SUFFICES ASSUME TypeOK, [Next]_vars PROVE TypeOK'
  OBVIOUS
<1> USE DEF poolVars, callVars
<1>1. ASSUME NEW t \in Tasks, SerialCall(t) PROVE TypeOK'
  <2>1. Children[t][next[t]] \in Tasks /\ [pc EXCEPT ![t] = "call"] \in [Tasks -> Pcs]
    BY <1>1, ChildFacts DEF TypeOK, SerialCall, Pcs, Active
  <2>2. \A u \in Tasks : [pc EXCEPT ![t] = "call"][u] = "call"
                          => next[u] <= Len(Children[u])
    BY <1>1 DEF TypeOK, SerialCall
  <2> QED BY <1>1, <2>1, <2>2, EnterType DEF SerialCall
<1>2. ASSUME NEW t \in Tasks, SerialResume(t) PROVE TypeOK'
  <2> DEFINE c == Children[t][next[t]]
  <2>1. CASE pc' = [pc EXCEPT ![t] = "loop"] /\ next' = [next EXCEPT ![t] = @ + 1]
              /\ UNCHANGED <<state, exception, outcome, running_task_count>>
    BY <2>1, <1>2 DEF SerialResume, TypeOK, Pcs, Active
  <2>2. CASE state[c] = "ERRORED" /\ Raise(t, outcome[c]) /\ UNCHANGED next
    <3>1. outcome[c] \in Errors
      BY <1>2, <2>2, ChildFacts DEF SerialResume, TypeOK
    <3> QED BY <3>1, <2>2, <1>2, RaiseType DEF SerialResume, TypeOK, CallType, NoNewCall
  <2> QED BY <1>2, <2>1, <2>2 DEF SerialResume
<1>3. ASSUME NEW t \in Tasks, SerialReturn(t) PROVE TypeOK'
  BY <1>3, ReturnType DEF SerialReturn, TypeOK, CallType, NoNewCall
<1>4. ASSUME NEW t \in Tasks, Spawn(t) PROVE TypeOK'
  BY <1>4, SpawnType
<1>5. ASSUME NEW t \in Tasks, GreenletRun(t) PROVE TypeOK'
  BY <1>5, EnterType DEF GreenletRun, TypeOK
<1>6. ASSUME NEW t \in Tasks, Discard(t) PROVE TypeOK'
  BY <1>6 DEF Discard, TypeOK
<1>7. ASSUME NEW t \in Tasks, JoinReturn(t) PROVE TypeOK'
  <2>1. CASE Return(t, "falsy")
    BY <1>7, <2>1, ReturnType DEF JoinReturn, TypeOK, CallType, NoNewCall
  <2>2. ASSUME NEW c \in watched[t], state[c] = "ERRORED", Raise(t, outcome[c])
        PROVE  TypeOK'
    <3>1. outcome[c] \in Errors
      BY <2>2 DEF TypeOK
    <3> QED BY <1>7, <2>2, <3>1, RaiseType DEF JoinReturn, TypeOK, CallType, NoNewCall
  <2> QED BY <1>7, <2>1, <2>2 DEF JoinReturn
<1>8. ASSUME NEW t \in Tasks, LeafAnswers(t) PROVE TypeOK'
  <2>1. PICK answer \in Answers(t) :
          /\ NodeEffect(t, answer)
          /\ IF answer \in Errors THEN Raise(t, answer) ELSE Return(t, answer)
    BY <1>8 DEF LeafAnswers
  <2>2. reaped' \subseteq Nodes
    BY <2>1, OptionAssumption DEF NodeEffect, TypeOK
  <2>3. CASE answer \in Errors
    BY <1>8, <2>1, <2>2, <2>3, RaiseType DEF LeafAnswers, TypeOK, CallType, NoNewCall
  <2>4. CASE answer \notin Errors
    BY <1>8, <2>1, <2>2, <2>4, ReturnType DEF LeafAnswers, TypeOK, CallType, NoNewCall
  <2> QED BY <2>3, <2>4
<1>9. ASSUME NEW t \in Tasks, Retry(t) PROVE TypeOK'
  BY <1>9 DEF Retry, Entry, TypeOK, Pcs, Active, Blocked
<1>10. ASSUME NEW t \in Tasks, TimerFires(t) PROVE TypeOK'
  <2>1. PICK b \in Tasks : /\ Raise(b, "timeout")
                           /\ \/ UNCHANGED reaped
                              \/ reaped' = reaped \cup {Target[b]}
    BY <1>10 DEF TimerFires
  <2>2. reaped' \subseteq Nodes
    BY <2>1, OptionAssumption DEF TypeOK
  <2>3. "timeout" \in Errors
    BY DEF Errors
  <2> QED BY <1>10, <2>1, <2>2, <2>3, RaiseType DEF TimerFires, TypeOK, CallType, NoNewCall
<1>11. CASE UNCHANGED vars
  BY <1>11 DEF vars, TypeOK
<1> QED BY <1>1, <1>2, <1>3, <1>4, <1>5, <1>6, <1>7, <1>8, <1>9, <1>10, <1>11
        DEF Next, Step, Terminated

\* Every reachable state has the types TypeOK gives; in particular a task that
\* ends ERRORED has an exception to raise.
THEOREM TypeCorrect == Spec => []TypeOK
<1>1. Init => TypeOK
  BY ShapeAssumption DEF Init, TypeOK, States, Pcs, Active, Blocked, Errors
<1> QED BY <1>1, TypeStep, PTL DEF Spec

-----------------------------------------------------------------------------
(* The inductive invariant is preserved.                                   *)

\* A place in the tree is a child of one parent only, and never its own parent.
LEMMA PlaceFacts ==
    ASSUME NEW p \in Tasks, NEW i \in DOMAIN Children[p]
    PROVE  /\ Children[p][i] \in Tasks \ {p, Root}
           /\ \A q \in Tasks : \A j \in DOMAIN Children[q] :
                Children[p][i] = Children[q][j] => p = q /\ i = j
BY ChildFacts, TreeAssumption

TaskInv(t) ==
    /\ LifeInv(t) /\ PoolInv(t)
    /\ \A i \in DOMAIN Children[t] : SerialInv(t, i) /\ ParallelInv(t, i)

\* Only the call of t has moved, within its activity or to its end.
OnlyMoved(t) ==
    /\ IsActive(t) /\ (IsActive(t) \/ Done(t))'
    /\ \A u \in Tasks \ {t} :
          pc'[u] = pc[u] /\ state'[u] = state[u] /\ next'[u] = next[u]
    /\ UNCHANGED pool

\* Then every other task, the parent of t included, keeps its invariant.
LEMMA OthersStep ==
    ASSUME IInv, NEW t \in Tasks, OnlyMoved(t), NEW p \in Tasks \ {t}
    PROVE  TaskInv(p)'
<1>1. LifeInv(p)' /\ PoolInv(p)'
  BY DEF IInv, OnlyMoved, LifeInv, PoolInv, IsActive, Done
<1>2. ASSUME NEW i \in DOMAIN Children[p] PROVE SerialInv(p, i)' /\ ParallelInv(p, i)'
  <2>1. Children[p][i] \in Tasks /\ SerialInv(p, i) /\ ParallelInv(p, i)
    BY PlaceFacts DEF IInv
  <2>2. CASE Children[p][i] # t
    BY <2>1, <2>2 DEF OnlyMoved, SerialInv, ParallelInv, IsActive, Done
  <2>3. CASE Children[p][i] = t
    <3>1. ~Done(t) /\ pc[t] # "idle" /\ pc'[t] # "idle"
      BY DEF OnlyMoved, IsActive, Done, Active, Blocked
    <3> QED BY <2>1, <2>3, <3>1 DEF OnlyMoved, SerialInv, ParallelInv, IsActive, Done, IInv, TypeOK
  <2> QED BY <2>2, <2>3
<1> QED BY <1>1, <1>2 DEF TaskInv

\* The call of t takes the value s, standing at x; the loop stays where it is.
Moves(t, x, s) ==
    /\ pc' = [pc EXCEPT ![t] = x]
    /\ state' = [state EXCEPT ![t] = s]

LEMMA EndMoves ==
    ASSUME NEW t \in Tasks, NEW v, Finish(t) \/ Fail(t, v)
    PROVE  \/ Moves(t, "done", "FINISHED")
           \/ Moves(t, "done", "ERRORED")
BY DEF Finish, Fail, Moves

\* With leaf timers only, a composite task that returns or raises is over.
LEMMA CompositeEnds ==
    ASSUME LeafTimersOnly, NEW t \in Tasks, ~IsLeaf(t), NEW v
    PROVE  /\ Return(t, v) => Finish(t)
           /\ Raise(t, v) => Fail(t, v)
BY DEF LeafTimersOnly, Return, Raise

\* An attempt of a leaf task ends the call or goes to sleep.
LEMMA LeafMoves ==
    ASSUME TypeOK, NEW t \in Tasks, NEW v, state[t] = "RUNNING",
           Return(t, v) \/ Raise(t, v)
    PROVE  \/ Moves(t, "done", "FINISHED")
           \/ Moves(t, "done", "ERRORED")
           \/ Moves(t, "sleep", "RUNNING")
BY DEF TypeOK, Return, Raise, HandleTimeout, GoToSleep, Finish, Fail, Moves

LEMMA LeafStep ==
    ASSUME IInv, TypeOK', NEW t \in Tasks, IsLeaf(t), IsActive(t), UNCHANGED pool,
           \A u \in Tasks \ {t} : next'[u] = next[u],
           \/ Moves(t, "done", "FINISHED")
           \/ Moves(t, "done", "ERRORED")
           \/ Moves(t, "sleep", "RUNNING")
           \/ Moves(t, "request", "RUNNING")
    PROVE  IInv'
<1>1. OnlyMoved(t)
  BY DEF OnlyMoved, Moves, IsActive, Done, Active, Blocked, IInv, TypeOK
<1>2. LifeInv(t)'
  BY DEF IInv, TypeOK, LifeInv, Moves, IsActive, Done, Active, Blocked
<1>3. PoolInv(t)'
  BY DEF IInv, LifeInv, PoolInv
<1>4. DOMAIN Children[t] = {}
  BY ChildFacts
<1>5. \A p \in Tasks \ {t} : TaskInv(p)'
  BY <1>1, OthersStep
<1> QED BY <1>2, <1>3, <1>4, <1>5 DEF TaskInv, IInv

LEMMA LeafAnswersStep ==
    ASSUME IInv, TypeOK', NEW t \in Tasks, LeafAnswers(t)
    PROVE  IInv'
<1>1. IsLeaf(t) /\ IsActive(t) /\ state[t] = "RUNNING" /\ TypeOK
  BY DEF LeafAnswers, IInv, LifeInv, IsActive, Active, Blocked
<1>2. PICK answer : Return(t, answer) \/ Raise(t, answer)
  BY DEF LeafAnswers
<1> QED BY <1>1, <1>2, LeafMoves, LeafStep DEF LeafAnswers, poolVars

LEMMA RetryStep ==
    ASSUME IInv, TypeOK', NEW t \in Tasks, Retry(t)
    PROVE  IInv'
<1>1. IsLeaf(t) /\ IsActive(t) /\ state[t] = "RUNNING" /\ TypeOK
  BY DEF Retry, IInv, LifeInv, IsActive, Active, Blocked
<1>2. Moves(t, "request", "RUNNING")
  BY <1>1 DEF Retry, Entry, Moves, TypeOK
<1> QED BY <1>1, <1>2, LeafStep DEF Retry, poolVars, TypeOK, IInv

LEMMA TimerFiresStep ==
    ASSUME LeafTimersOnly, IInv, TypeOK', NEW t \in Tasks, TimerFires(t)
    PROVE  IInv'
<1>1. IsLeaf(t) /\ IsActive(t) /\ state[t] = "RUNNING" /\ TypeOK
  BY DEF TimerFires, LeafTimersOnly, IInv, LifeInv
<1>2. Raise(t, "timeout")
  BY <1>1 DEF TimerFires
<1> QED BY <1>1, <1>2, LeafMoves, LeafStep DEF TimerFires, poolVars

-----------------------------------------------------------------------------
(* The steps of the composite tasks.                                       *)

\* What is left to show when only the composite task t has moved.
LEMMA CompositeStep ==
    ASSUME IInv, TypeOK', NEW t \in Tasks, OnlyMoved(t), TaskInv(t)'
    PROVE  IInv'
<1>1. \A p \in Tasks \ {t} : TaskInv(p)'
  BY OthersStep
<1> QED BY <1>1 DEF TaskInv, IInv

\* A composite task whose call ends, the loop and the children staying put.
LEMMA EndStep ==
    ASSUME IInv, TypeOK', NEW t \in Tasks, ~IsLeaf(t), IsActive(t),
           pool[t] = {}, UNCHANGED <<next, pool>>,
           NEW s \in {"FINISHED", "ERRORED"}, Moves(t, "done", s),
           \A i \in DOMAIN Children[t] :
              /\ Done(Children[t][i]) \/ (Kind[t] = "serial" /\ i > next[t])
              /\ Kind[t] = "parallel" => i < next[t]
              /\ Kind[t] = "serial" /\ i = next[t]
                    => state[Children[t][i]] = "ERRORED" /\ s = "ERRORED"
    PROVE  IInv'
<1>1. OnlyMoved(t)
  BY DEF OnlyMoved, Moves, IsActive, Done, Active, Blocked, IInv, TypeOK
<1>2. LifeInv(t)' /\ PoolInv(t)'
  BY DEF IInv, TypeOK, LifeInv, PoolInv, Moves, IsActive, Done, Active, Blocked
<1>3. ASSUME NEW i \in DOMAIN Children[t] PROVE SerialInv(t, i)' /\ ParallelInv(t, i)'
  <2>1. /\ Children[t][i] \in Tasks \ {t} /\ next[t] \in Nat /\ i \in Nat
        /\ SerialInv(t, i) /\ ParallelInv(t, i)
    BY PlaceFacts, ChildFacts DEF IInv, TypeOK
  <2>2. /\ pc'[Children[t][i]] = pc[Children[t][i]]
        /\ state'[Children[t][i]] = state[Children[t][i]]
        /\ pc'[t] = "done" /\ state'[t] = s /\ next'[t] = next[t]
    BY <2>1 DEF Moves, IInv, TypeOK
  <2>3. SerialInv(t, i)'
    BY <2>1, <2>2 DEF SerialInv, Done, IsActive
  <2>4. ParallelInv(t, i)'
    BY <2>1, <2>2 DEF ParallelInv, Done
  <2> QED BY <2>3, <2>4
<1> QED BY <1>1, <1>2, <1>3, CompositeStep DEF TaskInv

LEMMA SerialReturnStep ==
    ASSUME LeafTimersOnly, IInv, TypeOK', NEW t \in Tasks, SerialReturn(t)
    PROVE  IInv'
<1>1. ~IsLeaf(t) /\ IsActive(t) /\ pool[t] = {} /\ Kind[t] = "serial"
  BY DEF SerialReturn, IInv, LifeInv, PoolInv, IsActive, Active, IsLeaf, Composites
<1>2. Moves(t, "done", "FINISHED")
  BY <1>1, CompositeEnds DEF SerialReturn, Finish, Moves
<1>3. \A i \in DOMAIN Children[t] : i < next[t] /\ Done(Children[t][i])
  BY <1>1, ChildFacts DEF SerialReturn, IInv, SerialInv, TypeOK
<1> QED BY <1>1, <1>2, <1>3, EndStep DEF SerialReturn, poolVars

LEMMA SerialResumeStep ==
    ASSUME LeafTimersOnly, IInv, TypeOK', NEW t \in Tasks, SerialResume(t)
    PROVE  IInv'
<1> DEFINE c == Children[t][next[t]]
<1>1. ~IsLeaf(t) /\ IsActive(t) /\ pool[t] = {} /\ Kind[t] = "serial"
  BY DEF SerialResume, IInv, LifeInv, PoolInv, IsActive, Active, IsLeaf, Composites
<1>2. next[t] \in DOMAIN Children[t] /\ c \in Tasks \ {t} /\ Done(c)
  BY PlaceFacts, ChildFacts DEF SerialResume, IInv, TypeOK
<1>3. CASE /\ state[c] = "FINISHED"
           /\ pc' = [pc EXCEPT ![t] = "loop"]
           /\ next' = [next EXCEPT ![t] = @ + 1]
           /\ UNCHANGED <<state, exception, outcome, running_task_count>>
  <2>1. OnlyMoved(t)
    BY <1>1, <1>3 DEF OnlyMoved, SerialResume, poolVars, IsActive, Active, IInv, TypeOK
  <2>2. LifeInv(t)' /\ PoolInv(t)'
    BY <1>1, <1>3 DEF IInv, TypeOK, LifeInv, PoolInv, SerialResume, poolVars,
                      IsActive, Done, Active, Blocked
  <2>3. ASSUME NEW i \in DOMAIN Children[t] PROVE SerialInv(t, i)' /\ ParallelInv(t, i)'
    <3>1. /\ Children[t][i] \in Tasks \ {t} /\ i \in Nat /\ next[t] \in Nat
          /\ SerialInv(t, i)
      BY PlaceFacts, ChildFacts DEF IInv, TypeOK
    <3>2. /\ pc'[t] = "loop" /\ next'[t] = next[t] + 1
          /\ pc'[Children[t][i]] = pc[Children[t][i]]
          /\ state'[Children[t][i]] = state[Children[t][i]]
      BY <1>3, <3>1 DEF IInv, TypeOK
    <3> QED BY <1>1, <1>2, <1>3, <3>1, <3>2 DEF SerialInv, ParallelInv, Done
  <2> QED BY <2>1, <2>2, <2>3, CompositeStep DEF TaskInv
<1>4. CASE state[c] = "ERRORED" /\ Raise(t, outcome[c]) /\ UNCHANGED next
  <2>1. Moves(t, "done", "ERRORED")
    BY <1>1, <1>4, CompositeEnds DEF Fail, Moves
  <2>2. \A i \in DOMAIN Children[t] :
           /\ Done(Children[t][i]) \/ i > next[t]
           /\ i = next[t] => state[Children[t][i]] = "ERRORED"
    BY <1>1, <1>2, <1>4, ChildFacts DEF IInv, SerialInv, TypeOK
  <2> QED BY <1>1, <1>4, <2>1, <2>2, EndStep DEF SerialResume, poolVars
<1> QED BY <1>3, <1>4 DEF SerialResume

LEMMA JoinReturnStep ==
    ASSUME LeafTimersOnly, IInv, TypeOK', NEW t \in Tasks, JoinReturn(t)
    PROVE  IInv'
<1>1. ~IsLeaf(t) /\ IsActive(t) /\ pool[t] = {} /\ Kind[t] = "parallel"
  BY DEF JoinReturn, IInv, LifeInv, IsActive, Active, Blocked
<1>2. PICK s \in {"FINISHED", "ERRORED"} : Moves(t, "done", s)
  BY <1>1, CompositeEnds DEF JoinReturn, Finish, Fail, Moves
<1>3. \A i \in DOMAIN Children[t] : i < next[t] /\ Done(Children[t][i])
  BY <1>1, ChildFacts DEF JoinReturn, IInv, ParallelInv, TypeOK
<1> QED BY <1>1, <1>2, <1>3, EndStep DEF JoinReturn, poolVars

\* None of the children of a task that is not called yet is.
LEMMA IdleChildren ==
    ASSUME IInv, NEW c \in Tasks, pc[c] \in {"idle", "scheduled"},
           NEW i \in DOMAIN Children[c]
    PROVE  pc[Children[c][i]] = "idle"
<1>1. next[c] = 1 /\ SerialInv(c, i) /\ ParallelInv(c, i) /\ i \in Nat /\ i >= 1
  BY ChildFacts DEF IInv, LifeInv
<1>2. Kind[c] \in {"serial", "parallel"}
  BY ChildFacts, <1>1 DEF IsLeaf, Composites
<1>3. CASE Kind[c] = "parallel"
  BY <1>1, <1>3 DEF ParallelInv
<1>4. CASE Kind[c] = "serial" /\ i > 1
  BY <1>1, <1>4 DEF SerialInv
<1>5. CASE Kind[c] = "serial" /\ i = 1
  BY <1>1, <1>5 DEF SerialInv, Done
<1> QED BY <1>1, <1>2, <1>3, <1>4, <1>5

\* A task that is called for the first time, and its children that are not.
LEMMA EnterSelf ==
    ASSUME IInv, TypeOK', NEW c \in Tasks, pc[c] \in {"idle", "scheduled"},
           pc'[c] = Entry(c), state'[c] = "RUNNING", next'[c] = 1, UNCHANGED pool,
           \A i \in DOMAIN Children[c] : pc'[Children[c][i]] = pc[Children[c][i]]
    PROVE  TaskInv(c)'
<1>1. /\ LifeInv(c) /\ PoolInv(c) /\ next[c] = 1
      /\ \A i \in DOMAIN Children[c] : SerialInv(c, i) /\ ParallelInv(c, i)
  BY DEF IInv, LifeInv
<1>2. LifeInv(c)' /\ PoolInv(c)'
  BY <1>1 DEF LifeInv, PoolInv, Entry, IsActive, Done, Active, Blocked
<1>3. ASSUME NEW i \in DOMAIN Children[c] PROVE SerialInv(c, i)' /\ ParallelInv(c, i)'
  <2>1. i \in Nat /\ i >= 1 /\ ~IsLeaf(c) /\ pc'[c] = "loop"
    BY ChildFacts DEF Entry
  <2>2. pc[Children[c][i]] = "idle"
    BY IdleChildren
  <2> QED BY <2>1, <2>2 DEF SerialInv, ParallelInv, Done
<1> QED BY <1>2, <1>3 DEF TaskInv

LEMMA GreenletRunStep ==
    ASSUME IInv, TypeOK', NEW t \in Tasks, GreenletRun(t)
    PROVE  IInv'
<1>1. /\ pc[t] = "scheduled" /\ pc'[t] = Entry(t) /\ pc'[t] \in {"request", "loop"}
      /\ state'[t] = "RUNNING" /\ next'[t] = 1 /\ UNCHANGED pool
      /\ \A u \in Tasks \ {t} :
            pc'[u] = pc[u] /\ state'[u] = state[u] /\ next'[u] = next[u]
  BY DEF GreenletRun, Enter, Entry, IInv, TypeOK, poolVars
<1>2. TaskInv(t)'
  BY <1>1, EnterSelf, PlaceFacts
<1>3. ASSUME NEW p \in Tasks \ {t} PROVE TaskInv(p)'
  <2>1. LifeInv(p)' /\ PoolInv(p)'
    BY <1>1 DEF IInv, LifeInv, PoolInv, IsActive, Done
  <2>2. ASSUME NEW i \in DOMAIN Children[p] PROVE SerialInv(p, i)' /\ ParallelInv(p, i)'
    <3>1. /\ Children[p][i] \in Tasks /\ SerialInv(p, i) /\ ParallelInv(p, i)
          /\ next[p] \in Nat /\ i \in Nat
      BY PlaceFacts, ChildFacts DEF IInv, TypeOK
    <3>2. CASE Children[p][i] # t
      BY <1>1, <3>1, <3>2 DEF SerialInv, ParallelInv, IsActive, Done
    <3>3. CASE Children[p][i] = t
      BY <1>1, <3>1, <3>3 DEF SerialInv, ParallelInv, IsActive, Done, Active, Blocked
    <3> QED BY <3>2, <3>3
  <2> QED BY <2>1, <2>2 DEF TaskInv
<1> QED BY <1>2, <1>3 DEF TaskInv, IInv

LEMMA SerialCallStep ==
    ASSUME IInv, TypeOK', NEW t \in Tasks, SerialCall(t)
    PROVE  IInv'
<1>0. next[t] \in DOMAIN Children[t] /\ Children[t][next[t]] \in Tasks \ {t}
  BY PlaceFacts, ChildFacts DEF SerialCall, IInv, TypeOK
<1> PICK c \in Tasks \ {t} : c = Children[t][next[t]]
  BY <1>0
<1>1. next[t] \in DOMAIN Children[t] /\ c \in Tasks \ {t} /\ c = Children[t][next[t]]
  BY <1>0
<1>2. pc[c] = "idle" /\ pc[t] = "loop" /\ Kind[t] = "serial" /\ state[t] = "RUNNING"
  BY <1>1 DEF SerialCall, IInv, SerialInv, LifeInv, IsActive, Active, Done
<1>3. /\ pc'[c] = Entry(c) /\ pc'[c] \in {"request", "loop"} /\ pc'[t] = "call"
      /\ state'[c] = "RUNNING" /\ state'[t] = state[t]
      /\ next'[c] = 1 /\ next'[t] = next[t]
      /\ UNCHANGED pool
      /\ \A u \in Tasks \ {t, c} :
            pc'[u] = pc[u] /\ state'[u] = state[u] /\ next'[u] = next[u]
  BY <1>1 DEF SerialCall, Enter, Entry, IInv, TypeOK, poolVars
<1>4. TaskInv(c)'
  <2>1. ASSUME NEW i \in DOMAIN Children[c]
        PROVE  pc'[Children[c][i]] = pc[Children[c][i]]
    <3>1. Children[c][i] \in Tasks \ {t, c}
      BY <1>1, <1>2, IdleChildren, PlaceFacts
    <3> QED BY <3>1, <1>3
  <2>2. c \in Tasks /\ pc[c] \in {"idle", "scheduled"}
    BY <1>1, <1>2
  <2> QED BY <1>3, <2>1, <2>2, EnterSelf
<1>5. TaskInv(t)'
  <2>1. LifeInv(t)' /\ PoolInv(t)'
    BY <1>1, <1>2, <1>3 DEF IInv, LifeInv, PoolInv, IsActive, Done, Active
  <2>2. ASSUME NEW i \in DOMAIN Children[t] PROVE SerialInv(t, i)' /\ ParallelInv(t, i)'
    <3>1. Children[t][i] \in Tasks \ {t} /\ SerialInv(t, i) /\ next[t] \in Nat /\ i \in Nat
      BY PlaceFacts, ChildFacts DEF IInv, TypeOK
    <3>2. CASE i = next[t]
      BY <1>2, <1>3, <3>1, <3>2 DEF SerialInv, ParallelInv, IsActive, Done, Active, Blocked
    <3>3. CASE i # next[t]
      <4>1. Children[t][i] # c
        BY <1>1, <3>3, PlaceFacts
      <4> QED BY <1>2, <1>3, <3>1, <3>3, <4>1 DEF SerialInv, ParallelInv, IsActive, Done
    <3> QED BY <3>2, <3>3
  <2> QED BY <2>1, <2>2 DEF TaskInv
<1>6. ASSUME NEW p \in Tasks \ {t, c} PROVE TaskInv(p)'
  <2>1. LifeInv(p)' /\ PoolInv(p)'
    BY <1>3 DEF IInv, LifeInv, PoolInv, IsActive, Done
  <2>2. ASSUME NEW i \in DOMAIN Children[p] PROVE SerialInv(p, i)' /\ ParallelInv(p, i)'
    <3>1. /\ Children[p][i] \in Tasks \ {c} /\ SerialInv(p, i) /\ ParallelInv(p, i)
          /\ next[p] \in Nat /\ i \in Nat
      <4>1. p # t /\ p \in Tasks
        BY <1>1
      <4>2. Children[p][i] \in Tasks /\ Children[p][i] # c
        BY <1>1, <4>1, PlaceFacts
      <4>3. SerialInv(p, i) /\ ParallelInv(p, i)
        BY <4>1 DEF IInv
      <4>4. next[p] \in Nat
        BY <4>1 DEF IInv, TypeOK
      <4>5. i \in Nat
        BY <4>1, ChildFacts
      <4> QED BY <4>2, <4>3, <4>4, <4>5
    <3>2. CASE Children[p][i] # t
      BY <1>3, <3>1, <3>2 DEF SerialInv, ParallelInv, IsActive, Done
    <3>3. CASE Children[p][i] = t
      BY <1>2, <1>3, <3>1, <3>3 DEF SerialInv, ParallelInv, IsActive, Done, Active, Blocked
    <3> QED BY <3>2, <3>3
  <2> QED BY <2>1, <2>2 DEF TaskInv
<1>7. \A p \in Tasks : TaskInv(p)'
  BY <1>4, <1>5, <1>6
<1> QED BY <1>7 DEF TaskInv, IInv

LEMMA DiscardStep ==
    ASSUME IInv, TypeOK', NEW t \in Tasks, Discard(t)
    PROVE  IInv'
<1>1. UNCHANGED <<state, pc, next>> /\ Done(t)
  BY DEF Discard, callVars
<1>2. \A p \in Tasks : pool'[p] \subseteq pool[p] /\ pool[p] \subseteq pool'[p] \cup {t}
  BY DEF Discard, IInv, TypeOK
<1>3. ASSUME NEW p \in Tasks PROVE TaskInv(p)'
  <2>1. LifeInv(p)' /\ PoolInv(p)'
    BY <1>1, <1>2 DEF IInv, LifeInv, PoolInv, IsActive, Done
  <2>2. ASSUME NEW i \in DOMAIN Children[p] PROVE SerialInv(p, i)' /\ ParallelInv(p, i)'
    BY <1>1, <1>2 DEF IInv, SerialInv, ParallelInv, IsActive, Done
  <2> QED BY <2>1, <2>2 DEF TaskInv
<1> QED BY <1>3 DEF TaskInv, IInv

\* Starting children: those between `next` and the last one the pool admits.
LEMMA SpawnStep ==
    ASSUME IInv, TypeOK', NEW t \in Tasks, Spawn(t)
    PROVE  IInv'
<1> DEFINE old  == IF pc[t] = "loop" THEN {} ELSE pool[t]
           room == next[t] + Slots(t) - Cardinality(old) - 1
           last == IF room < Len(Children[t]) THEN room ELSE Len(Children[t])
           new  == {Children[t][i] : i \in next[t]..last}
<1>1. /\ Kind[t] = "parallel" /\ pc[t] \in {"loop", "slot"} /\ state[t] = "RUNNING"
      /\ next[t] \in Nat \ {0} /\ LifeInv(t) /\ ~IsLeaf(t)
  BY DEF Spawn, IInv, TypeOK, LifeInv, IsActive, Active, Blocked
<1>2. old \in SUBSET Tasks /\ Cardinality(old) \in Nat /\ Cardinality(old) <= Slots(t)
  BY Counting, FS_EmptySet, ChildFacts DEF IInv, TypeOK, Spawn
<1>3. last \in Nat /\ last <= Len(Children[t]) /\ next[t] <= last + 1
  BY <1>1, <1>2, ChildFacts DEF LifeInv
<1> HIDE DEF old, last, new
<1>4. /\ next' = [next EXCEPT ![t] = last + 1]
      /\ pool' = [pool EXCEPT ![t] = old \cup new]
      /\ pc' = [c \in Tasks |->
                  IF c = t THEN IF last = Len(Children[t]) THEN "join" ELSE "slot"
                  ELSE IF c \in new THEN "scheduled" ELSE pc[c]]
      /\ UNCHANGED state
  BY DEF Spawn, old, last, new
<1>5. ASSUME NEW p \in Tasks, NEW i \in DOMAIN Children[p]
      PROVE  Children[p][i] \in new <=> (p = t /\ i \in next[t]..last)
  <2>1. next[t]..last \subseteq DOMAIN Children[t] /\ i \in Nat
    BY <1>1, <1>3, ChildFacts
  <2> QED BY <2>1, PlaceFacts DEF new
<1>6. \A u \in new : u \in Tasks \ {t} /\ pc[u] = "idle"
  <2>1. ASSUME NEW i \in next[t]..last
        PROVE  Children[t][i] \in Tasks \ {t} /\ pc[Children[t][i]] = "idle"
    <3>1. i \in DOMAIN Children[t] /\ i >= next[t]
      BY <1>1, <1>3, ChildFacts
    <3> QED BY <1>1, <3>1, PlaceFacts DEF IInv, ParallelInv
  <2> QED BY <2>1 DEF new
<1>7. ASSUME NEW p \in Tasks \ {t} PROVE TaskInv(p)'
  <2>1. /\ next'[p] = next[p] /\ pool'[p] = pool[p] /\ state'[p] = state[p]
        /\ pc'[p] = IF p \in new THEN "scheduled" ELSE pc[p]
    BY <1>4 DEF IInv, TypeOK
  <2>2. LifeInv(p)' /\ PoolInv(p)'
    BY <1>6, <2>1 DEF IInv, LifeInv, PoolInv, IsActive, Done, Active, Blocked
  <2>3. ASSUME NEW i \in DOMAIN Children[p] PROVE SerialInv(p, i)' /\ ParallelInv(p, i)'
    <3>1. /\ Children[p][i] \in Tasks /\ Children[p][i] \notin new
          /\ SerialInv(p, i) /\ ParallelInv(p, i)
      BY <1>5, PlaceFacts DEF IInv
    <3>2. /\ pc'[t] \in {"join", "slot"} /\ state'[Children[p][i]] = state[Children[p][i]]
          /\ Children[p][i] # t => pc'[Children[p][i]] = pc[Children[p][i]]
      BY <1>4, <3>1
    <3>3. CASE p \notin new
      BY <1>1, <2>1, <3>1, <3>2, <3>3 DEF SerialInv, ParallelInv, IsActive, Done, Active, Blocked
    <3>4. CASE p \in new
      BY <1>1, <1>6, <2>1, <3>1, <3>2, <3>4
         DEF SerialInv, ParallelInv, IsActive, Done, Active, Blocked
    <3> QED BY <3>3, <3>4
  <2> QED BY <2>2, <2>3 DEF TaskInv
<1>8. TaskInv(t)'
  <2>1. /\ next'[t] = last + 1 /\ pool'[t] = old \cup new /\ state'[t] = "RUNNING"
        /\ pc'[t] = IF last = Len(Children[t]) THEN "join" ELSE "slot"
    BY <1>1, <1>4 DEF IInv, TypeOK
  <2>2. LifeInv(t)' /\ PoolInv(t)'
    BY <1>1, <1>3, <2>1, ChildFacts DEF LifeInv, PoolInv, IsActive, Done, Active, Blocked
  <2>3. ASSUME NEW i \in DOMAIN Children[t] PROVE SerialInv(t, i)' /\ ParallelInv(t, i)'
    <3>1. /\ Children[t][i] \in Tasks \ {t} /\ i \in 1..Len(Children[t]) /\ ParallelInv(t, i)
          /\ pc'[Children[t][i]] = IF i \in next[t]..last THEN "scheduled"
                                   ELSE pc[Children[t][i]]
      BY <1>4, <1>5, PlaceFacts, ChildFacts DEF IInv
    <3>2. CASE i < next[t]
      <4>1. old = pool[t]
        BY <1>1, <3>1, <3>2 DEF ParallelInv, old
      <4> QED BY <1>1, <1>3, <2>1, <3>1, <3>2, <4>1, ChildFacts
              DEF SerialInv, ParallelInv, Done
    <3>3. CASE i \in next[t]..last
      <4>1. Children[t][i] \in new
        BY <3>3 DEF new
      <4> QED BY <1>1, <1>3, <2>1, <3>1, <3>3, <4>1, ChildFacts
              DEF SerialInv, ParallelInv, Done
    <3>4. CASE i > last /\ i >= next[t]
      BY <1>1, <1>3, <2>1, <3>1, <3>4, ChildFacts DEF SerialInv, ParallelInv, Done
    <3> QED BY <1>1, <1>3, <3>1, <3>2, <3>3, <3>4, ChildFacts
  <2> QED BY <2>2, <2>3 DEF TaskInv
<1> QED BY <1>7, <1>8 DEF TaskInv, IInv

-----------------------------------------------------------------------------
(* The theorems.                                                           *)

LEMMA IInvInit == Init => IInv
<1> SUFFICES ASSUME Init PROVE IInv
  OBVIOUS
<1>1. TypeOK
  BY ShapeAssumption DEF Init, TypeOK, States, Pcs, Active, Blocked, Errors
<1>2. ASSUME NEW t \in Tasks PROVE LifeInv(t) /\ PoolInv(t)
  BY DEF Init, LifeInv, PoolInv, IsActive, Done, Active, Blocked
<1>3. ASSUME NEW p \in Tasks, NEW i \in DOMAIN Children[p]
      PROVE  SerialInv(p, i) /\ ParallelInv(p, i)
  <2>1. pc[Children[p][i]] = "idle" /\ i \in Nat /\ i >= 1 /\ next[p] = 1
    BY PlaceFacts, ChildFacts DEF Init
  <2>2. pc[p] \in {"idle", "scheduled"}
    BY DEF Init
  <2> QED BY <2>1, <2>2 DEF SerialInv, ParallelInv, Done
<1> QED BY <1>1, <1>2, <1>3 DEF IInv

LEMMA IInvStep ==
    ASSUME LeafTimersOnly
    PROVE  IInv /\ [Next]_vars => IInv'
<1> SUFFICES ASSUME IInv, [Next]_vars PROVE IInv'
  OBVIOUS
<1>1. TypeOK'
  BY TypeStep DEF IInv
<1>2. ASSUME NEW t \in Tasks, Step(t) \/ TimerFires(t) PROVE IInv'
  <2> USE <1>1
  <2>1. CASE SerialCall(t)
    BY <2>1, SerialCallStep
  <2>2. CASE SerialResume(t)
    BY <2>2, SerialResumeStep
  <2>3. CASE SerialReturn(t)
    BY <2>3, SerialReturnStep
  <2>4. CASE Spawn(t)
    BY <2>4, SpawnStep
  <2>5. CASE GreenletRun(t)
    BY <2>5, GreenletRunStep
  <2>6. CASE Discard(t)
    BY <2>6, DiscardStep
  <2>7. CASE JoinReturn(t)
    BY <2>7, JoinReturnStep
  <2>8. CASE LeafAnswers(t)
    BY <2>8, LeafAnswersStep
  <2>9. CASE Retry(t)
    BY <2>9, RetryStep
  <2>10. CASE TimerFires(t)
    BY <2>10, TimerFiresStep
  <2> QED BY <1>2, <2>1, <2>2, <2>3, <2>4, <2>5, <2>6, <2>7, <2>8, <2>9, <2>10 DEF Step
<1>3. CASE UNCHANGED vars
  BY <1>3 DEF vars, callVars, poolVars, IInv, TypeOK, LifeInv, PoolInv, SerialInv,
              ParallelInv, IsActive, Done
<1> QED BY <1>2, <1>3 DEF Next, Terminated

THEOREM Invariance == ASSUME LeafTimersOnly PROVE Spec => []IInv
BY IInvInit, IInvStep, PTL DEF Spec

\* A running child stands in the pool, or in the call, of its parent.
LEMMA RunningInParent == IInv => StructuredConcurrency
<1> SUFFICES ASSUME IInv, NEW p \in Tasks, NEW i \in DOMAIN Children[p],
                    state[Children[p][i]] = "RUNNING"
             PROVE  state[p] = "RUNNING"
  BY DEF StructuredConcurrency, Offspring
<1> DEFINE c == Children[p][i]
<1>1. /\ c \in Tasks /\ IsActive(c) /\ ~Done(c) /\ pc[c] # "idle"
      /\ SerialInv(p, i) /\ ParallelInv(p, i) /\ LifeInv(p) /\ PoolInv(p)
      /\ i \in Nat /\ next[p] \in Nat /\ ~IsLeaf(p)
  BY PlaceFacts, ChildFacts DEF IInv, TypeOK, LifeInv, IsActive, Done, Active, Blocked
<1>2. CASE Kind[p] = "serial"
  BY <1>1, <1>2 DEF SerialInv, LifeInv, IsActive, Active
<1>3. CASE Kind[p] = "parallel"
  <2>1. pool[p] # {}
    BY <1>1, <1>3 DEF ParallelInv
  <2> QED BY <1>1, <2>1 DEF PoolInv, LifeInv, IsActive, Active, Blocked
<1> QED BY <1>1, <1>2, <1>3 DEF IsLeaf, Composites

\* No task is at work outside its parent: when a composite task is over, all
\* the greenlets below it are, whatever the `concurrency` of its parallel tasks.
THEOREM NoOrphans == ASSUME LeafTimersOnly PROVE Spec => []StructuredConcurrency
BY Invariance, RunningInParent, PTL

-----------------------------------------------------------------------------
(* The refinement: when, besides, no parallel task limits its concurrency,  *)
(* each step of the greenlets, the pool and the timers is a step of the     *)
(* abstract tree of TaskTree or leaves it unchanged.                        *)

\* No parallel task has a `concurrency` option.
UnlimitedPools == \A t \in Tasks : Concurrency[t] = NoLimit

\* Then pool.join() comes in one step and watches every child.
WatchInv ==
    \A p \in Tasks : /\ pc[p] # "slot"
                     /\ pc[p] = "join" => watched[p] = Offspring(p)

-----------------------------------------------------------------------------
(* What join watches.                                                      *)

\* A step that does not start children leaves alone what join watches, and
\* brings no task to join.
LEMMA NoSpawn ==
    ASSUME IInv, NEW t \in Tasks, Step(t) \/ TimerFires(t), ~Spawn(t)
    PROVE  /\ watched' = watched
           /\ \A p \in Tasks : pc'[p] \in {"slot", "join"} => pc'[p] = pc[p]
<1> USE DEF poolVars, callVars
<1>0. pc \in [Tasks -> Pcs]
  BY DEF IInv, TypeOK
<1>1. ASSUME NEW u \in Tasks, NEW v, Return(u, v) \/ Raise(u, v)
      PROVE  \A p \in Tasks : pc'[p] \in {"slot", "join"} => pc'[p] = pc[p]
  BY <1>0, <1>1 DEF Return, Raise, HandleTimeout, GoToSleep, Finish, Fail
<1>2. CASE SerialCall(t) \/ GreenletRun(t)
  BY <1>0, <1>2 DEF SerialCall, GreenletRun, Enter, Entry
<1>3. CASE SerialResume(t) \/ SerialReturn(t)
  BY <1>0, <1>1, <1>3 DEF SerialResume, SerialReturn
<1>4. CASE Discard(t) \/ Retry(t)
  BY <1>0, <1>4 DEF Discard, Retry, Entry
<1>5. CASE JoinReturn(t)
  BY <1>1, <1>5 DEF JoinReturn
<1>6. CASE LeafAnswers(t)
  BY <1>1, <1>6 DEF LeafAnswers
<1>7. CASE TimerFires(t)
  BY <1>1, <1>7 DEF TimerFires
<1> QED BY <1>2, <1>3, <1>4, <1>5, <1>6, <1>7 DEF Step

\* Without a limit all children are started at once.
LEMMA SpawnAll ==
    ASSUME UnlimitedPools, IInv, NEW t \in Tasks, Spawn(t), pc[t] # "slot"
    PROVE  /\ pc'[t] = "join" /\ watched' = [watched EXCEPT ![t] = Offspring(t)]
           /\ \A p \in Tasks \ {t} : pc'[p] \in {"slot", "join"} => pc'[p] = pc[p]
<1>1. pc[t] = "loop" /\ Kind[t] = "parallel" /\ next[t] = 1
  BY DEF Spawn, IInv, LifeInv
<1>2. Slots(t) = Len(Children[t]) /\ Len(Children[t]) \in Nat /\ Cardinality({}) = 0
  BY ChildFacts, FS_EmptySet DEF UnlimitedPools, Slots
<1>3. Offspring(t) = {Children[t][i] : i \in 1..Len(Children[t])}
  BY ChildFacts DEF Offspring
<1> DEFINE old  == IF pc[t] = "loop" THEN {} ELSE pool[t]
           room == next[t] + Slots(t) - Cardinality(old) - 1
           last == IF room < Len(Children[t]) THEN room ELSE Len(Children[t])
           new  == {Children[t][i] : i \in next[t]..last}
<1>4. old = {} /\ last = Len(Children[t]) /\ new = Offspring(t)
  BY <1>1, <1>2, <1>3
<1> HIDE DEF old, last, new
<1>5. /\ pc' = [c \in Tasks |->
                  IF c = t THEN IF last = Len(Children[t]) THEN "join" ELSE "slot"
                  ELSE IF c \in new THEN "scheduled" ELSE pc[c]]
      /\ watched' = [watched EXCEPT ![t] = IF last = Len(Children[t])
                                           THEN old \cup new ELSE {}]
  BY DEF Spawn, old, last, new
<1> QED BY <1>4, <1>5

LEMMA WatchStep ==
    ASSUME UnlimitedPools, IInv, WatchInv, [Next]_vars
    PROVE  WatchInv'
<1>1. CASE UNCHANGED vars
  BY <1>1 DEF vars, callVars, poolVars, WatchInv
<1>2. ASSUME NEW t \in Tasks, Spawn(t) PROVE WatchInv'
  <2>1. watched \in [Tasks -> SUBSET Tasks]
    BY DEF IInv, TypeOK
  <2> QED BY <1>2, <2>1, SpawnAll DEF WatchInv
<1>3. ASSUME NEW t \in Tasks, Step(t) \/ TimerFires(t), ~Spawn(t) PROVE WatchInv'
  BY <1>3, NoSpawn DEF WatchInv
<1> QED BY <1>1, <1>2, <1>3 DEF Next, Terminated

-----------------------------------------------------------------------------
(* Each step is one of the tree's.                                         *)

\* A task that is not called yet is INITIALIZED.
LEMMA NotCalled ==
    ASSUME IInv, NEW t \in Tasks, pc[t] \in {"idle", "scheduled"}
    PROVE  state[t] = "INITIALIZED"
BY DEF IInv, TypeOK, States, LifeInv, IsActive, Done, Active, Blocked

LEMMA SerialCallBegins ==
    ASSUME IInv, NEW t \in Tasks, SerialCall(t)
    PROVE  Tree!Next
<1> DEFINE i == next[t]
           c == Children[t][i]
<1>1. /\ i \in DOMAIN Children[t] /\ i \in Nat /\ c \in Tasks \ {t, Root}
      /\ Kind[t] = "serial" /\ pc[t] = "loop" /\ state[t] = "RUNNING"
  BY PlaceFacts, ChildFacts DEF SerialCall, IInv, TypeOK, LifeInv, IsActive, Active
<1>2. pc[c] = "idle" /\ state[c] = "INITIALIZED"
  BY <1>1, NotCalled DEF IInv, SerialInv, Done
<1>3. \A j \in 1..(i - 1) : state[Children[t][j]] = "FINISHED"
  BY <1>1, ChildFacts DEF IInv, SerialInv
<1>4. state' = [state EXCEPT ![c] = "RUNNING"]
  BY DEF SerialCall, Enter
<1>5. Tree!IsChild(c, t, i)
  BY <1>1 DEF Tree!IsChild
<1>6. Tree!Begin(c)
  BY <1>1, <1>2, <1>3, <1>4, <1>5 DEF Tree!Begin, Tree!Become
<1> QED BY <1>1, <1>6 DEF Tree!Next

LEMMA GreenletBegins ==
    ASSUME IInv, NEW t \in Tasks, GreenletRun(t)
    PROVE  Tree!Next
<1>1. pc[t] = "scheduled" /\ state[t] = "INITIALIZED"
      /\ state' = [state EXCEPT ![t] = "RUNNING"]
  BY NotCalled DEF GreenletRun, Enter
<1>2. ASSUME t # Root
      PROVE  \E p \in Tasks : \E i \in DOMAIN Children[p] :
                Tree!IsChild(t, p, i) /\ state[p] = "RUNNING" /\ Kind[p] # "serial"
  <2>0. PICK p \in Tasks : \E i \in DOMAIN Children[p] : Children[p][i] = t
    BY <1>2, TreeAssumption
  <2>1. PICK i \in DOMAIN Children[p] : Children[p][i] = t
    BY <2>0
  <2>2. /\ SerialInv(p, i) /\ ParallelInv(p, i) /\ LifeInv(p) /\ PoolInv(p)
        /\ i \in Nat /\ next[p] \in Nat /\ ~IsLeaf(p)
    BY ChildFacts DEF IInv, TypeOK
  <2>3. Kind[p] = "parallel"
    BY <1>1, <2>1, <2>2 DEF SerialInv, IsLeaf, Composites, IsActive, Active, Blocked, Done
  <2>4. pool[p] # {}
    BY <1>1, <2>1, <2>2, <2>3 DEF ParallelInv, Done
  <2>5. state[p] = "RUNNING"
    BY <2>2, <2>4 DEF PoolInv, LifeInv, IsActive, Active, Blocked
  <2> QED BY <2>1, <2>3, <2>5 DEF Tree!IsChild
<1>3. Tree!Begin(t)
  BY <1>1, <1>2 DEF Tree!Begin, Tree!Become
<1> QED BY <1>3 DEF Tree!Next

\* The abstract end of a composite task, given how its children have ended.
LEMMA CompositeTreeEnd ==
    ASSUME IInv, NEW t \in Tasks, state[t] = "RUNNING",
           \/ /\ Finish(t)
              /\ \A i \in DOMAIN Children[t] : state[Children[t][i]] = "FINISHED"
           \/ /\ \E v : Fail(t, v)
              /\ \A i \in DOMAIN Children[t] : state[Children[t][i]] # "RUNNING"
              /\ \E i \in DOMAIN Children[t] : state[Children[t][i]] = "ERRORED"
    PROVE  Tree!Next
<1>1. CASE /\ Finish(t)
           /\ \A i \in DOMAIN Children[t] : state[Children[t][i]] = "FINISHED"
  <2>1. Tree!Finish(t)
    BY <1>1 DEF Finish, Tree!Finish, Tree!Offspring, Tree!Become
  <2> QED BY <2>1 DEF Tree!Next
<1>2. CASE /\ \E v : Fail(t, v)
           /\ \A i \in DOMAIN Children[t] : state[Children[t][i]] # "RUNNING"
           /\ \E i \in DOMAIN Children[t] : state[Children[t][i]] = "ERRORED"
  <2>1. state' = [state EXCEPT ![t] = "ERRORED"]
    BY <1>2 DEF Fail
  <2>2. Tree!Fail(t)
    BY <1>2, <2>1 DEF Tree!Fail, Tree!Offspring, Tree!Become
  <2> QED BY <2>2 DEF Tree!Next
<1> QED BY <1>1, <1>2

LEMMA SerialEnds ==
    ASSUME LeafTimersOnly, IInv, NEW t \in Tasks, SerialReturn(t) \/ SerialResume(t)
    PROVE  [Tree!Next]_state
<1>1. ~IsLeaf(t) /\ state[t] = "RUNNING" /\ Kind[t] = "serial"
  BY DEF SerialReturn, SerialResume, IInv, LifeInv, IsActive, Active, IsLeaf, Composites
<1>2. \A i \in DOMAIN Children[t] :
         /\ i \in Nat /\ next[t] \in Nat /\ SerialInv(t, i)
         /\ state[Children[t][i]] = "RUNNING" <=> IsActive(Children[t][i])
  BY ChildFacts DEF IInv, TypeOK, LifeInv
<1>3. CASE SerialReturn(t)
  <2>1. Finish(t)
    BY <1>1, <1>3, CompositeEnds DEF SerialReturn
  <2>2. \A i \in DOMAIN Children[t] : state[Children[t][i]] = "FINISHED"
    BY <1>1, <1>2, <1>3, ChildFacts DEF SerialReturn, SerialInv
  <2> QED BY <1>1, <2>1, <2>2, CompositeTreeEnd
<1>4. CASE SerialResume(t)
  <2> DEFINE c == Children[t][next[t]]
  <2>1. next[t] \in DOMAIN Children[t] /\ Done(c)
    BY <1>4, ChildFacts DEF SerialResume, IInv, TypeOK
  <2>2. CASE UNCHANGED state
    BY <2>2
  <2>3. CASE state[c] = "ERRORED" /\ Raise(t, outcome[c])
    <3>1. Fail(t, outcome[c])
      BY <1>1, <2>3, CompositeEnds
    <3>2. \A i \in DOMAIN Children[t] : ~IsActive(Children[t][i])
      BY <1>1, <1>2, <2>1 DEF SerialInv, IsActive, Active, Blocked, Done
    <3> QED BY <1>1, <1>2, <2>1, <2>3, <3>1, <3>2, CompositeTreeEnd
  <2> QED BY <1>4, <2>2, <2>3 DEF SerialResume
<1> QED BY <1>3, <1>4

LEMMA JoinEnds ==
    ASSUME LeafTimersOnly, IInv, WatchInv, NEW t \in Tasks, JoinReturn(t)
    PROVE  Tree!Next
<1>1. /\ ~IsLeaf(t) /\ state[t] = "RUNNING" /\ Kind[t] = "parallel"
      /\ pc[t] = "join" /\ pool[t] = {} /\ watched[t] = Offspring(t)
  BY DEF JoinReturn, IInv, LifeInv, IsActive, Active, Blocked, WatchInv
<1>2. \A i \in DOMAIN Children[t] :
         /\ Children[t][i] \in Tasks /\ Done(Children[t][i])
         /\ state[Children[t][i]] \in {"FINISHED", "ERRORED"}
  <2> SUFFICES ASSUME NEW i \in DOMAIN Children[t]
               PROVE  /\ Children[t][i] \in Tasks /\ Done(Children[t][i])
                      /\ state[Children[t][i]] \in {"FINISHED", "ERRORED"}
    OBVIOUS
  <2>0. Children[t][i] \in Tasks /\ i \in Nat
    BY ChildFacts
  <2>1. ParallelInv(t, i) /\ LifeInv(Children[t][i]) /\ next[t] \in Nat
    BY <2>0 DEF IInv, TypeOK
  <2>2. i < next[t]
    BY <1>1, <2>0, <2>1 DEF ParallelInv
  <2>3. Children[t][i] \notin pool[t]
    BY <1>1
  <2>4. Done(Children[t][i])
    BY <1>1, <2>1, <2>2, <2>3 DEF ParallelInv
  <2> QED BY <2>0, <2>1, <2>4 DEF LifeInv
<1>3. CASE /\ {c \in watched[t] : state[c] = "ERRORED"} = {}
           /\ Return(t, "falsy")
  <2>1. Finish(t)
    BY <1>1, <1>3, CompositeEnds
  <2>2. \A i \in DOMAIN Children[t] : state[Children[t][i]] = "FINISHED"
    BY <1>1, <1>2, <1>3 DEF Offspring
  <2> QED BY <1>1, <2>1, <2>2, CompositeTreeEnd
<1>4. ASSUME NEW c \in watched[t], state[c] = "ERRORED", Raise(t, outcome[c])
      PROVE  Tree!Next
  <2>1. Fail(t, outcome[c])
    BY <1>1, <1>4, CompositeEnds
  <2>2. \E i \in DOMAIN Children[t] : state[Children[t][i]] = "ERRORED"
    BY <1>1, <1>4 DEF Offspring
  <2> QED BY <1>1, <1>2, <2>1, <2>2, CompositeTreeEnd
<1> QED BY <1>3, <1>4 DEF JoinReturn

LEMMA LeafEnds ==
    ASSUME LeafTimersOnly, IInv, NEW t \in Tasks, LeafAnswers(t) \/ TimerFires(t)
    PROVE  [Tree!Next]_state
<1>1. IsLeaf(t) /\ state[t] = "RUNNING" /\ TypeOK
  BY DEF LeafAnswers, TimerFires, LeafTimersOnly, IInv, LifeInv, IsActive, Active, Blocked
<1>2. PICK v : Return(t, v) \/ Raise(t, v)
  <2>1. CASE LeafAnswers(t)
    BY <2>1 DEF LeafAnswers
  <2>2. CASE TimerFires(t)
    BY <1>1, <2>2 DEF TimerFires
  <2> QED BY <2>1, <2>2
<1>3. Tree!Offspring(t) = {}
  BY <1>1, ChildFacts DEF Offspring, Tree!Offspring
<1>4. CASE Moves(t, "done", "FINISHED") \/ Moves(t, "done", "ERRORED")
  BY <1>1, <1>3, <1>4 DEF Moves, Tree!Next, Tree!Finish, Tree!Fail, Tree!Become
<1>5. CASE Moves(t, "sleep", "RUNNING")
  <2>1. state' = state
    BY <1>1, <1>5 DEF Moves, TypeOK
  <2> QED BY <2>1
<1> QED BY <1>1, <1>2, <1>4, <1>5, LeafMoves

LEMMA TreeStep ==
    ASSUME LeafTimersOnly, IInv, WatchInv, [Next]_vars
    PROVE  [Tree!Next]_state
<1>1. CASE UNCHANGED vars
  BY <1>1 DEF vars, callVars
<1>2. ASSUME NEW t \in Tasks, Step(t) \/ TimerFires(t) PROVE [Tree!Next]_state
  <2>1. CASE Spawn(t) \/ Discard(t) \/ Retry(t)
    BY <2>1 DEF Spawn, Discard, Retry, callVars
  <2> QED BY <1>2, <2>1, SerialCallBegins, GreenletBegins, SerialEnds, JoinEnds, LeafEnds
          DEF Step
<1> QED BY <1>1, <1>2 DEF Next, Terminated

-----------------------------------------------------------------------------
(* The theorems.                                                           *)

\* For every tree of tasks the execution with greenlets, pools, retries and timers
\* keeps the promises of TaskTree.
THEOREM Implements ==
    ASSUME LeafTimersOnly, UnlimitedPools
    PROVE  Spec => TreeSpec
<1>1. Init => WatchInv
  BY DEF Init, WatchInv
<1>2. Init => Tree!Init
  BY DEF Init, Tree!Init
<1> QED BY <1>1, <1>2, Invariance, WatchStep, TreeStep, PTL DEF Spec, TreeSpec, Tree!Spec

\* A step of the tree keeps the children of a successful task as they are.
LEMMA TreeCompletes ==
    ASSUME TypeOK, SuccessIsComplete, [Tree!Next]_state
    PROVE  SuccessIsComplete'
<1>1. CASE UNCHANGED state
  BY <1>1 DEF SuccessIsComplete
<1>2. ASSUME NEW t \in Tasks, Tree!Begin(t) \/ Tree!Fail(t) PROVE SuccessIsComplete'
  <2>1. state[t] # "FINISHED" /\ \E s \in {"RUNNING", "ERRORED"} : state' = [state EXCEPT ![t] = s]
    BY <1>2 DEF Tree!Begin, Tree!Fail, Tree!Become
  <2> QED BY <2>1, ChildFacts DEF SuccessIsComplete, TypeOK
<1>3. ASSUME NEW t \in Tasks, Tree!Finish(t) PROVE SuccessIsComplete'
  <2>1. state' = [state EXCEPT ![t] = "FINISHED"]
        /\ \A c \in Offspring(t) : state[c] = "FINISHED"
    BY <1>3 DEF Tree!Finish, Tree!Become, Tree!Offspring, Offspring
  <2> QED BY <2>1, ChildFacts DEF SuccessIsComplete, TypeOK
<1> QED BY <1>1, <1>2, <1>3 DEF Tree!Next

\* No error is lost: a composite task that succeeds has only successful children.
THEOREM NoErrorLost ==
    ASSUME LeafTimersOnly, UnlimitedPools
    PROVE  Spec => []SuccessIsComplete
<1>1. Init => SuccessIsComplete
  BY ChildFacts DEF Init, SuccessIsComplete
<1>2. TypeOK /\ SuccessIsComplete /\ [Tree!Next]_state => SuccessIsComplete'
  BY TreeCompletes
<1>3. Spec => TreeSpec
  BY Implements
<1> QED BY <1>1, <1>2, <1>3, TypeCorrect, PTL DEF Spec, TreeSpec, Tree!Spec
=============================================================================
