-------------------------- MODULE MCTaskExecution --------------------------
(***************************************************************************)
(* Scenario trees for TLC.  A tree is a function from tasks to records of  *)
(* kind, children and options; each configuration picks one.               *)
(***************************************************************************)
EXTENDS TaskExecution

Leaf(kind)         == [kind |-> kind, children |-> <<>>]
Serial(children)   == [kind |-> "serial", children |-> children]
Parallel(children) == [kind |-> "parallel", children |-> children]

\* serial: [parallel: [assert, serial: [stop_node, transfer]], parallel: [],
\*          start_node, parallel: [assert, kill_node]]
FullTree ==
    [root |-> Serial(<<"both", "none", "start", "last">>),
     both |-> Parallel(<<"early", "inner">>),
     early |-> Leaf("assert"),
     inner |-> Serial(<<"stop", "pay">>),
     stop |-> Leaf("stop_node"), pay |-> Leaf("api"),
     none |-> Parallel(<<>>),
     start |-> Leaf("start_node"),
     last |-> Parallel(<<"check", "kill">>),
     check |-> Leaf("assert"), kill |-> Leaf("kill_node")]

\* parallel: {concurrency: 2, tasks: [transfer x 3]}
PoolTree ==
    [root |-> Serial(<<"both">>),
     both |-> Parallel(<<"a", "b", "c">>),
     a |-> Leaf("api"), b |-> Leaf("api"), c |-> Leaf("api")]

\* serial: [transfer: {timeout}]
RequestTree == [root |-> Serial(<<"pay">>), pay |-> Leaf("api")]

CONSTANTS Scenario, Limit, TimedTasks

MCTasks       == DOMAIN Scenario
MCKind        == [t \in MCTasks |-> Scenario[t].kind]
MCChildren    == [t \in MCTasks |-> Scenario[t].children]
MCConcurrency == [t \in MCTasks |-> Limit]
MCTarget      == [t \in MCTasks |-> "node0"]
=============================================================================
