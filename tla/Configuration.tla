--------------------------- MODULE Configuration ---------------------------
(***************************************************************************)
(* What a scenario definition means: the defaults of its options and the   *)
(* definitions that are refused when they are loaded (definition.py and    *)
(* utils/configuration/).  The MC modules take the constants of Funding    *)
(* and RunFiles from definitions by these operators.                       *)
(*                                                                         *)
(* A definition is a function from options to what the YAML file gives for *)
(* them; sections are left out, since no option has the name of another,   *)
(* and nothing is given as null.                                           *)
(***************************************************************************)
EXTENDS Integers

CONSTANTS
    Absent,     \* what an option that is not given has for its value
    Malformed,  \* a value of the wrong type
    PfsFee      \* pfs_fee of the environment

Given(d, option, default) == IF d[option] = Absent THEN default ELSE d[option]

\* settings.services.udc
balance_per_node(d) == Given(d, "balance_per_node", 200 * PfsFee)
max_funding(d)      == Given(d, "max_funding", balance_per_node(d))
is_udc_enabled(d)   == Given(d, "enable", FALSE) /\ Given(d, "deposit", TRUE)

\* settings.gas_price: a number, or a strategy of web3 in upper or lower case
gas_price(d) == Given(d, "gas_price", "fast")
KnownPrices  == {"number", "fast", "medium"}

\* token
min_balance(d)        == Given(d, "balance_min", 5000)
token_max_funding(d)  == Given(d, "balance_fund", 50000)
should_reuse_token(d) == Given(d, "reuse", FALSE)
deploy_token(d)       == d["address"] = Absent

\* nodes
reuse_accounts(d)   == Given(d, "reuse_accounts", FALSE)
restore_snapshot(d) == Given(d, "restore_snapshot", FALSE)

-----------------------------------------------------------------------------

\* The options whose type is looked at while the definition is loaded; `enable`
\* and `deposit` are looked at only when the set-up asks for them.
Checked == {"balance_per_node", "max_funding", "gas_price", "count",
            "reuse_accounts", "restore_snapshot", "node_options"}

WellTyped(d) == \A option \in Checked : d[option] # Malformed

\* UDCTokenSettings.validate, SettingsConfig.validate
SettingsValid(d) ==
    /\ max_funding(d) >= balance_per_node(d)
    /\ gas_price(d) \in KnownPrices

\* TokenConfig.validate: address and reuse are exclusive; an empty address is
\* none.  (What it asks of token.info is RunFiles' Load.)
TokenValid(d) ==
    \/ d["address"] = Absent \/ d["reuse"] = Absent
    \/ (d["address"] # "") # d["reuse"]

\* NodesConfig.validate
NodesValid(d) ==
    /\ d["count"] # Absent
    /\ restore_snapshot(d) => reuse_accounts(d)

\* NodesConfig makes the default_options if they are not given, but only for a
\* definition without address; ScenarioDefinition then writes to them.
OptionsWritable(d) == deploy_token(d) \/ d["default_options"] # Absent

\* ScenarioDefinition.__init__, which ends with ScenarioConfig.validate
Accepted(d) ==
    /\ WellTyped(d) /\ SettingsValid(d) /\ TokenValid(d) /\ NodesValid(d)
    /\ OptionsWritable(d)
    /\ d["tasks"] = 1

\* SnapshotManager.check_scenario_config
AllowsSnapshots(d) == reuse_accounts(d) /\ (should_reuse_token(d) \/ ~deploy_token(d))

Options == Checked \cup {"enable", "deposit", "balance_min", "balance_fund",
                         "reuse", "address", "default_options", "tasks"}

\* A definition that gives no more than it must, but for `given`.
Define(count, given) ==
    [option \in Options |->
        CASE option \in DOMAIN given -> given[option]
          [] option = "count"        -> count
          [] option = "tasks"        -> 1
          [] OTHER                   -> Absent]
=============================================================================
