---------------------------- MODULE MCSnapshots ----------------------------
(* Three nodes of a scenario whose definition allows snapshots; each run may *)
(* have restore_snapshot or not.                                             *)
EXTENDS Snapshots

CONSTANTS Absent, Malformed, PfsFee

Config == INSTANCE Configuration

Definition(restore) ==
    Config!Define(Count, [reuse_accounts |-> TRUE, reuse |-> TRUE,
                          restore_snapshot |-> restore])

ASSUME DefinitionAssumption ==
    \A restore \in BOOLEAN : /\ Config!Accepted(Definition(restore))
                             /\ Config!AllowsSnapshots(Definition(restore))
=============================================================================
