--------------------------- MODULE MCScenarioRun ---------------------------
(***************************************************************************)
(* A scenario for TLC that restarts a node while greenlets of an earlier   *)
(* pool, the UI and the Janitor may be at work.                            *)
(***************************************************************************)
EXTENDS ScenarioRun, MCTaskExecution

\* serial: {timeout, tasks: [parallel: {concurrency: 1, tasks: [serial:
\*          [stop_node, start_node], assert]}]}
RestartTree ==
    [root |-> Serial(<<"both">>),
     both |-> Parallel(<<"restart", "check">>),
     restart |-> Serial(<<"stop", "start">>),
     stop |-> Leaf("stop_node"), start |-> Leaf("start_node"),
     check |-> Leaf("assert")]
=============================================================================
