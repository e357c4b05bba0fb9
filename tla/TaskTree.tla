------------------------------ MODULE TaskTree ------------------------------
(***************************************************************************)
(* What running a scenario promises.  A scenario is a tree of tasks; each  *)
(* task is INITIALIZED, then RUNNING, then FINISHED or ERRORED, and        *)
(*                                                                         *)
(*   - a task begins only inside its parent, and the children of a serial  *)
(*     task begin one after the other, each after the success of the last; *)
(*   - a task succeeds only when all of its children have succeeded;       *)
(*   - a composite task fails only because of a failed child, and never    *)
(*     leaves a child running behind.                                      *)
(*                                                                         *)
(* There are no greenlets, pools, retries or timers here: TaskExecution    *)
(* models those and is shown to implement this module when only leaf tasks *)
(* have a timeout and no parallel task limits its concurrency.             *)
(***************************************************************************)
EXTENDS Naturals, Sequences

CONSTANTS
    Tasks,      \* every task of the scenario
    Root,       \* the outermost task
    Kind,       \* what each task is; "serial" and "parallel" are composite
    Children    \* the sequence of children of each task, empty for a leaf

VARIABLE state  \* the TaskState of each task

Offspring(t) == {Children[t][i] : i \in DOMAIN Children[t]}

\* The task t is the i-th child of p.
IsChild(t, p, i) == i \in DOMAIN Children[p] /\ Children[p][i] = t

Init == state = [t \in Tasks |-> "INITIALIZED"]

Become(t, s) == state' = [state EXCEPT ![t] = s]

Begin(t) ==
    /\ state[t] = "INITIALIZED"
    /\ t # Root => \E p \in Tasks : \E i \in DOMAIN Children[p] :
           /\ IsChild(t, p, i)
           /\ state[p] = "RUNNING"
           /\ Kind[p] = "serial" =>
                \A j \in 1..(i - 1) : state[Children[p][j]] = "FINISHED"
    /\ Become(t, "RUNNING")

Finish(t) ==
    /\ state[t] = "RUNNING"
    /\ \A c \in Offspring(t) : state[c] = "FINISHED"
    /\ Become(t, "FINISHED")

Fail(t) ==
    /\ state[t] = "RUNNING"
    /\ \A c \in Offspring(t) : state[c] # "RUNNING"
    /\ Offspring(t) # {} => \E c \in Offspring(t) : state[c] = "ERRORED"
    /\ Become(t, "ERRORED")

Next == \E t \in Tasks : Begin(t) \/ Finish(t) \/ Fail(t)

Spec == Init /\ [][Next]_state
=============================================================================
