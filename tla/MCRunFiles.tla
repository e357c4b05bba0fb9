----------------------------- MODULE MCRunFiles -----------------------------
(* Three runs of a scenario with accounts of its own and two of one that     *)
(* reuses accounts and token, from the same installation.                    *)
EXTENDS RunFiles

CONSTANTS Absent, Malformed, PfsFee

Config == INSTANCE Configuration

Definition == [s \in Scenarios |->
    Config!Define(Count, IF s = "fresh" THEN << >>
                         ELSE [reuse_accounts |-> TRUE, reuse |-> TRUE])]

ASSUME DefinitionAssumption == \A s \in Scenarios : Config!Accepted(Definition[s])

MCReuseAccounts == {s \in Scenarios : Config!reuse_accounts(Definition[s])}
MCReuseToken    == {s \in Scenarios : Config!should_reuse_token(Definition[s])}

MCHash     == [s \in Scenarios |-> IF s = "fresh" THEN 3 ELSE 31]
MCScenario == [p \in Runs |-> IF p <= 3 THEN "fresh" ELSE "reused"]
=============================================================================
