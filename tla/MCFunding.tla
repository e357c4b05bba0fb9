----------------------------- MODULE MCFunding -----------------------------
(***************************************************************************)
(* Small chains: the balances of every node start from the same small      *)
(* sets; n2 owes something to a service, and only n1 may lack tokens.      *)
(* What the scenario asks for is taken from a definition.                  *)
(***************************************************************************)
EXTENDS Funding

CONSTANTS
    NodeEther, OwnEther, NodeDeposits, NodeTokens,  \* sets of balances
    Rejected,                        \* the kinds of transactions that may fail
    GivenFunding,                    \* what the definition gives for max_funding
    Absent, Malformed, PfsFee

Config == INSTANCE Configuration

Definition == Config!Define(Cardinality(Nodes),
    [enable |-> TRUE, balance_per_node |-> 2, max_funding |-> GivenFunding,
     balance_min |-> 1, balance_fund |-> 2])

ASSUME DefinitionAssumption == Config!Accepted(Definition)

MCBalancePerNode == Config!balance_per_node(Definition)
MCMaxFunding     == Config!max_funding(Definition)
MCTokenMin       == Config!min_balance(Definition)
MCTokenMax       == Config!token_max_funding(Definition)
MCUdcEnabled     == Config!is_udc_enabled(Definition)

MCSpent        == [n \in Nodes |-> IF n = "n2" THEN 1 ELSE 0]
MCMayFail      == {j \in Jobs : j[1] \in Rejected}
MCEtherStart   == {[n \in Nodes \cup {Orchestrator} |->
                      IF n = Orchestrator THEN own ELSE e[n]] :
                   own \in OwnEther, e \in [Nodes -> NodeEther]}
MCDepositStart == {d \in [Nodes -> NodeDeposits] : \A n \in Nodes : MCSpent[n] <= d[n]}
MCTokenStart   == {[n \in Nodes |-> IF n = "n1" THEN t ELSE TokenMin] : t \in NodeTokens}
=============================================================================
