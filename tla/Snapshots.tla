----------------------------- MODULE Snapshots -----------------------------
(***************************************************************************)
(* Node snapshots over successive runs of one scenario: NodeController and *)
(* SnapshotManager (node_support.py), and SnapshotTask (tasks/execution.py)*)
(*                                                                         *)
(* With reuse_accounts the data directories outlive a run.  A run may      *)
(* delete the snapshot, restores it if it is there, and otherwise takes it *)
(* when the snapshot task has run its subtasks.  Directories are copied    *)
(* and removed one by one and not at once, and the scenario player may be  *)
(* killed at any point.                                                    *)
(***************************************************************************)
EXTENDS Integers, FiniteSets

CONSTANTS
    Count,       \* nodes.count
    MaxRuns,     \* bound on the runs
    MaxCrashes,  \* bound on the runs that are killed or fail in a copy
    Startable,   \* the nodes a start_node task beside the snapshot task starts
    Missing      \* a directory that does not exist

Nodes == 1..Count

ASSUME SnapshotAssumption ==
    /\ Count \in Nat \ {0} /\ MaxRuns \in Nat /\ MaxCrashes \in Nat
    /\ Startable \subseteq Nodes

\* A directory: the run that last did the subtasks on it (0: none), and whether
\* it is whole or the beginning of a copy, or the rest of a removal.
Content == [prepared : 0..MaxRuns, whole : BOOLEAN]
Fresh   == [prepared |-> 0, whole |-> TRUE]
Part(c) == [c EXCEPT !.whole = FALSE]

ASSUME ContentAssumption == Missing \notin Content

VARIABLES
    run,          \* the current run
    pc,           \* where it stands
    restoring,    \* nodes.restore_snapshot in this run
    restored,     \* NodeController.snapshot_restored
    at,           \* the node whose directory is being copied or removed
    running,      \* the nodes whose process runs
    stopping,     \* the nodes NodeController.stop waits for
    data,         \* the data directories
    snap,         \* the snapshot directories
    crashes

procVars == <<running, stopping>>
vars     == <<run, pc, restoring, restored, at, procVars, data, snap, crashes>>

Init ==
    /\ run = 0 /\ pc = "idle" /\ at = 1 /\ crashes = 0
    /\ restoring = FALSE /\ restored = FALSE
    /\ running = {} /\ stopping = {}
    /\ data = [n \in Nodes |-> Missing]
    /\ snap = [n \in Nodes |-> Missing]

\* get_snapshot_info
Existing == {n \in Nodes : snap[n] # Missing}

Goto(place) == pc' = place /\ UNCHANGED <<run, restoring, restored, crashes>>

\* Every node process dies with the scenario player.
Stop(place) ==
    /\ pc' = place /\ running' = {} /\ stopping' = {} /\ at' = 1
    /\ UNCHANGED <<run, restoring, restored, data, snap>>

-----------------------------------------------------------------------------
(* NodeController.__init__                                                 *)

\* Mutant: a data directory that is missing is not made.
BeginNoMkdir(delete, restore) ==
    /\ pc \in {"idle", "refused"} /\ run < MaxRuns
    /\ run' = run + 1
    /\ restoring' = restore /\ restored' = FALSE
    /\ pc' = IF delete THEN "delete" ELSE IF restore THEN "restore" ELSE "start"
    /\ UNCHANGED <<at, procVars, data, snap, crashes>>

Begin(delete, restore) ==
    /\ pc \in {"idle", "refused"} /\ run < MaxRuns
    /\ run' = run + 1
    /\ data' = [n \in Nodes |-> IF data[n] = Missing THEN Fresh ELSE data[n]]
    /\ restoring' = restore /\ restored' = FALSE
    /\ pc' = IF delete THEN "delete" ELSE IF restore THEN "restore" ELSE "start"
    /\ UNCHANGED <<at, procVars, snap, crashes>>

\* SnapshotManager.delete: rmtree removes the directories one after the other, in
\* the order in which the file system lists them.
DeleteBegin(n) ==
    /\ pc = "delete" /\ snap[n] # Missing /\ Goto("deleting")
    /\ at' = n
    /\ snap' = [snap EXCEPT ![n] = Part(@)]
    /\ UNCHANGED <<procVars, data>>

DeleteEnd ==
    /\ pc = "deleting" /\ Goto("delete")
    /\ at' = 1
    /\ snap' = [snap EXCEPT ![at] = Missing]
    /\ UNCHANGED <<procVars, data>>

Deleted ==
    /\ pc = "delete" /\ Existing = {}
    /\ Goto(IF restoring THEN "restore" ELSE "start")
    /\ UNCHANGED <<at, procVars, data, snap>>

\* Mutant: no snapshot yet is an inconsistent one.
RestoreStrict ==
    /\ pc = "restore"
    /\ Goto(IF Existing = Nodes THEN "remove" ELSE "refused")
    /\ UNCHANGED <<at, procVars, data, snap>>

\* SnapshotManager.restore: no directory, all of them, or a ScenarioError.
Restore ==
    /\ pc = "restore"
    /\ \/ Existing = {} /\ Goto("start")
       \/ Existing = Nodes /\ Goto("remove")
       \/ Existing \notin {{}, Nodes} /\ Goto("refused")
    /\ UNCHANGED <<at, procVars, data, snap>>

RemoveBegin ==
    /\ pc = "remove" /\ Goto("removing")
    /\ data' = [data EXCEPT ![at] = Part(@)]
    /\ UNCHANGED <<at, procVars, snap>>

RemoveEnd ==
    /\ pc = "removing" /\ Goto("copy_back")
    /\ data' = [data EXCEPT ![at] = Missing]
    /\ UNCHANGED <<at, procVars, snap>>

CopyBackBegin ==
    /\ pc = "copy_back" /\ Goto("copying_back")
    /\ data' = [data EXCEPT ![at] = Part(snap[at])]
    /\ UNCHANGED <<at, procVars, snap>>

CopyBackEnd ==
    /\ pc = "copying_back"
    /\ data' = [data EXCEPT ![at] = snap[at]]
    /\ \/ /\ at < Count
          /\ pc' = "remove" /\ at' = at + 1
          /\ UNCHANGED restored
       \/ /\ at = Count
          /\ pc' = "start" /\ at' = 1
          /\ restored' = TRUE
    /\ UNCHANGED <<run, restoring, procVars, snap, crashes>>

-----------------------------------------------------------------------------
(* The nodes and the snapshot task                                         *)

StartNodes ==
    /\ pc = "start" /\ Goto("task")
    /\ running' = Nodes
    /\ UNCHANGED <<at, stopping, data, snap>>

Skip ==
    /\ pc = "task" /\ restored
    /\ Goto("after")
    /\ UNCHANGED <<at, procVars, data, snap>>

\* The subtasks change the state of the nodes, in any order.
Work(n) ==
    /\ pc = "task" /\ ~restored /\ data[n].prepared # run
    /\ data' = [data EXCEPT ![n].prepared = run]
    /\ UNCHANGED <<run, pc, restoring, restored, at, procVars, snap, crashes>>

\* NodeController.stop: a greenlet per node waits for the end of its process.
StopNodes ==
    /\ pc = "task" /\ ~restored /\ \A n \in Nodes : data[n].prepared = run
    /\ Goto("stop")
    /\ stopping' = Nodes
    /\ UNCHANGED <<at, running, data, snap>>

StopNode(n) ==
    /\ n \in stopping
    /\ stopping' = stopping \ {n} /\ running' = running \ {n}
    /\ UNCHANGED <<run, pc, restoring, restored, at, data, snap, crashes>>

\* Meanwhile a parallel branch of the scenario may start a stopped node.
StartNode(n) ==
    /\ pc = "stop" /\ n \in Startable \ (stopping \cup running)
    /\ running' = running \cup {n}
    /\ UNCHANGED <<run, pc, restoring, restored, at, stopping, data, snap, crashes>>

\* Mutant: _check_conditions is left out.
TakeUnchecked ==
    /\ pc = "stop" /\ stopping = {}
    /\ \/ Existing = {} /\ Goto("copy")
       \/ Existing = Nodes /\ Goto("restart")
       \/ Existing \notin {{}, Nodes} /\ Goto("refused")
    /\ UNCHANGED <<at, procVars, data, snap>>

\* Mutant: the snapshot is taken again.
TakeAgain ==
    /\ pc = "stop" /\ stopping = {}
    /\ IF running # {} THEN Goto("failed") ELSE Goto("copy")
    /\ UNCHANGED <<at, procVars, data, snap>>

\* Mutant: an interrupted snapshot is refused only when it is restored.
TakeResume ==
    /\ pc = "stop" /\ stopping = {}
    /\ IF running # {} THEN Goto("failed") /\ UNCHANGED at
       ELSE IF Existing = Nodes THEN Goto("restart") /\ UNCHANGED at
       ELSE /\ Goto("copy")
            /\ at' = CHOOSE n \in Nodes \ Existing :
                        \A m \in Nodes \ Existing : n <= m
    /\ UNCHANGED <<procVars, data, snap>>

\* SnapshotManager.take, up to the copies.
Take ==
    /\ pc = "stop" /\ stopping = {}
    /\ \/ running # {} /\ Goto("failed")          \* AssertionError
       \/ running = {} /\ Existing = {} /\ Goto("copy")
       \/ running = {} /\ Existing = Nodes /\ Goto("restart")
       \/ running = {} /\ Existing \notin {{}, Nodes} /\ Goto("refused")
    /\ UNCHANGED <<at, procVars, data, snap>>

CopyBegin ==
    /\ pc = "copy" /\ Goto("copying")
    /\ snap' = [snap EXCEPT ![at] = Part(data[at])]
    /\ UNCHANGED <<at, procVars, data>>

CopyEnd ==
    /\ pc = "copying"
    /\ snap' = [snap EXCEPT ![at] = data[at]]
    /\ \/ at < Count /\ Goto("copy") /\ at' = at + 1
       \/ at = Count /\ Goto("restart") /\ at' = 1
    /\ UNCHANGED <<procVars, data>>

Restart ==
    /\ pc = "restart" /\ Goto("after")
    /\ running' = Nodes
    /\ UNCHANGED <<at, stopping, data, snap>>

\* The rest of the scenario succeeds or fails; an error may end a run before.
End ==
    /\ pc \in {"task", "stop", "restart", "after", "failed"}
    /\ Stop("idle")
    /\ UNCHANGED crashes

\* The scenario player is killed, or a copy or a removal fails (a full disk).
Crash ==
    /\ pc \notin {"idle", "refused"} /\ crashes < MaxCrashes
    /\ crashes' = crashes + 1
    /\ Stop("idle")

-----------------------------------------------------------------------------

Terminated == pc \in {"idle", "refused"} /\ run = MaxRuns /\ UNCHANGED vars

Next ==
    \/ \E delete, restore \in BOOLEAN : Begin(delete, restore)
    \/ \E n \in Nodes : DeleteBegin(n)
    \/ DeleteEnd \/ Deleted \/ Restore
    \/ RemoveBegin \/ RemoveEnd \/ CopyBackBegin \/ CopyBackEnd
    \/ StartNodes \/ Skip \/ StopNodes \/ Take \/ CopyBegin \/ CopyEnd \/ Restart
    \/ \E n \in Nodes : Work(n) \/ StopNode(n) \/ StartNode(n)
    \/ End \/ Crash \/ Terminated

Spec == Init /\ [][Next]_vars

-----------------------------------------------------------------------------
(* Properties                                                              *)

Copying == {"copy", "copying", "remove", "removing", "copy_back", "copying_back"}

\* A directory is missing or has a content; the data directories are missing
\* only between the two halves of a restore, or after a crash there.
TypeOK ==
    /\ run \in 0..MaxRuns /\ at \in Nodes /\ crashes \in 0..MaxCrashes
    /\ pc \in Copying \cup {"idle", "refused", "delete", "deleting", "restore", "start",
                            "task", "stop", "restart", "after", "failed"}
    /\ restoring \in BOOLEAN /\ restored \in BOOLEAN
    /\ running \subseteq Nodes /\ stopping \subseteq Nodes
    /\ data \in [Nodes -> Content \cup {Missing}]
    /\ snap \in [Nodes -> Content \cup {Missing}]
    /\ \A n \in Nodes : data[n] = Missing => pc \in {"idle", "copy_back"}

\* When a run skips the snapshot task, the states its nodes go on from were
\* reached together, by one run of the subtasks: a snapshot is never put
\* together from the copies of two runs, wherever runs were killed.  It need not
\* be complete: a directory that a killed run has left half copied, or half
\* removed, exists, and so get_snapshot_info accepts it.  But each killed run
\* spoils one directory at most, and with no killed run all of them are whole.
RestoredTogether ==
    restored =>
        /\ \A n, m \in Nodes :
              data[n].prepared # 0 /\ data[n].prepared = data[m].prepared
        /\ Cardinality({n \in Nodes : ~data[n].whole}) <= crashes

\* No node runs while its directory, or that of another node, is copied, even
\* when other branches of the scenario start nodes while these are stopped.
CopyWhileStopped == pc \in Copying => running = {}

\* A snapshot is refused as inconsistent only after a run was killed or a copy
\* failed: a scenario that fails elsewhere leaves none or all of the snapshot.
RefusedNeedsCrash == pc = "refused" => crashes > 0

\* A copy in the snapshot changes only when the user asks to delete it.
SnapshotFrozen ==
    [][\A n \in Nodes :
          snap[n] # Missing /\ snap[n].whole /\ snap'[n] # snap[n] => pc = "delete"]_vars
=============================================================================
