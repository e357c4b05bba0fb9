------------------------------ MODULE Funding ------------------------------
(***************************************************************************)
(* Setting up the on-chain state before a scenario runs                    *)
(* (ScenarioRunner.setup_environment_and_run_main_task, runner.py, and the *)
(* helpers of utils/token.py).                                             *)
(*                                                                         *)
(* The orchestration greenlet spawns one greenlet per transaction into a   *)
(* Pool: ether for every node, the approval and the minting of utility     *)
(* tokens for the scenario player's account, a deposit per node in the     *)
(* user deposit contract, network tokens for every node.  Each one reads   *)
(* the chain, decides, and later sends its transaction.  In between the    *)
(* orchestration greenlet blocks on calls of its own, and at the end it    *)
(* joins the pool and runs the scenario's root task.                       *)
(***************************************************************************)
EXTENDS Integers, FiniteSets

CONSTANTS
    Nodes,             \* the Raiden nodes' addresses
    Orchestrator,      \* the scenario player's own address
    BalancePerNode,    \* udc.token.balance_per_node
    MaxFunding,        \* udc.token.max_funding
    MintTo,            \* ORCHESTRATION_MAXIMUM_BALANCE
    AllowanceMax,      \* UINT256_MAX
    EtherMin,          \* NODE_ACCOUNT_BALANCE_MIN
    EtherFund,         \* NODE_ACCOUNT_BALANCE_FUND
    TokenMin,          \* token.min_balance
    TokenMax,          \* token.max_funding
    Spent,             \* what the UDC owes to services, per node
    UdcEnabled,        \* is_udc_enabled(settings.services.udc)
    EtherStart,        \* what the balances on the chain may be at first:
    UtilityStart,      \* each a set of values of the variable
    AllowanceStart,
    DepositStart,
    TokenStart,
    MayFail            \* the transactions the chain or its RPC node may reject

Required == BalancePerNode * Cardinality(Nodes)

ASSUME FundingAssumption ==
    /\ IsFiniteSet(Nodes) /\ Orchestrator \notin Nodes
    /\ BalancePerNode \in Nat /\ MaxFunding \in Nat
    /\ MaxFunding >= BalancePerNode       \* UDCTokenSettings.validate
    /\ MintTo \in Nat /\ MintTo >= Required
    /\ AllowanceMax \in Nat /\ AllowanceMax >= Required
    /\ EtherMin \in Nat /\ EtherFund \in Nat /\ EtherMin <= EtherFund
    /\ TokenMin \in Nat /\ TokenMax \in Nat /\ TokenMin <= TokenMax
    /\ Spent \in [Nodes -> Nat]
    /\ UdcEnabled \in BOOLEAN
    /\ EtherStart \subseteq [Nodes \cup {Orchestrator} -> Nat]
    /\ UtilityStart \subseteq Nat /\ AllowanceStart \subseteq Nat
    /\ DepositStart \subseteq [Nodes -> Nat]
    /\ \A d \in DepositStart : \A n \in Nodes : Spent[n] <= d[n]
    /\ TokenStart \subseteq [Nodes -> Nat]

NodeJobs == {"eth", "deposit", "token"} \X Nodes
Mint     == <<"mint", Orchestrator>>
Approve  == <<"approve", Orchestrator>>
Jobs     == NodeJobs \cup {Mint, Approve}

VARIABLES
    phase,      \* where the orchestration greenlet stands
    job,        \* where each transaction greenlet stands
    amount,     \* what it has decided to send
    pool,       \* the greenlets in the Pool
    watched,    \* the greenlets pool.join() looks at for errors
    ether,      \* ether balances, the orchestrator's included
    utility,    \* the orchestrator's utility token balance
    allowance,  \* what the UDC may take of it
    deposit,    \* total deposit of each node in the UDC
    token       \* network token balance of each node

mainVars  == <<phase, pool, watched>>
chainVars == <<ether, utility, allowance, deposit, token>>
vars      == <<mainVars, job, amount, chainVars>>

Effective(n) == deposit[n] - Spent[n]
Ended(j)     == job[j] \in {"ok", "failed"}

Init ==
    /\ phase = "start"
    /\ job = [j \in Jobs |-> "unborn"]
    /\ amount = [j \in Jobs |-> 0]
    /\ pool = {} /\ watched = {}
    /\ ether \in EtherStart
    /\ utility \in UtilityStart
    /\ allowance \in AllowanceStart
    /\ deposit \in DepositStart
    /\ token \in TokenStart

-----------------------------------------------------------------------------
(* The orchestration greenlet.                                             *)

Start(jobs) ==
    /\ job' = [j \in Jobs |-> IF j \in jobs THEN "read" ELSE job[j]]
    /\ pool' = pool \cup jobs
    /\ UNCHANGED <<amount, chainVars>>

SpawnEther ==
    /\ phase = "start"
    /\ phase' = IF UdcEnabled THEN "udc" ELSE "token"
    /\ Start({"eth"} \X Nodes)
    /\ UNCHANGED watched

\* After the blocking look-up of the UDC and its token.
SpawnDeposits ==
    /\ phase = "udc" /\ phase' = "token"
    /\ Start({Mint, Approve} \cup ({"deposit"} \X Nodes))
    /\ UNCHANGED watched

\* After the blocking look-up, or deployment, of the network token: the last
\* greenlets start and pool.join(raise_error=True) copies those in the pool.
SpawnTokens ==
    /\ phase = "token" /\ phase' = "join"
    /\ Start({"token"} \X Nodes)
    /\ watched' = pool'

\* A blocking call of the orchestration greenlet fails.
SetupFails ==
    /\ phase \in {"udc", "token"} /\ phase' = "failed"
    /\ UNCHANGED <<pool, watched, job, amount, chainVars>>

\* Mutant: the join does not raise.
JoinReturnQuiet ==
    /\ phase = "join" /\ pool = {}
    /\ phase' = "running"
    /\ UNCHANGED <<pool, watched, job, amount, chainVars>>

JoinReturn ==
    /\ phase = "join" /\ pool = {}
    /\ phase' = IF \E j \in watched : job[j] = "failed" THEN "failed" ELSE "running"
    /\ UNCHANGED <<pool, watched, job, amount, chainVars>>

\* The link of a dead greenlet takes it out of the pool.
Discard(j) ==
    /\ j \in pool /\ Ended(j)
    /\ pool' = pool \ {j}
    /\ UNCHANGED <<phase, watched, job, amount, chainVars>>

-----------------------------------------------------------------------------
(* The transaction greenlets.  A read decides between doing nothing and    *)
(* sending an amount; a rejected transaction raises.                       *)

End(j, how) == job' = [job EXCEPT ![j] = how]

Decide(j, enough, topup) ==
    /\ job[j] = "read"
    /\ \/ enough /\ End(j, "ok") /\ UNCHANGED amount
       \/ ~enough /\ End(j, "send") /\ amount' = [amount EXCEPT ![j] = topup]
    /\ UNCHANGED <<mainVars, chainVars>>

\* Mutant: a rejected transaction is decided on again.
RejectRetry(j) ==
    /\ job[j] \in {"send", "raise"} /\ j \in MayFail
    /\ End(j, "read")
    /\ UNCHANGED <<mainVars, amount, chainVars>>

\* The chain, or the RPC node, refuses the transaction: the greenlet dies.
Reject(j) ==
    /\ job[j] \in {"send", "raise"} /\ j \in MayFail
    /\ End(j, "failed")
    /\ UNCHANGED <<mainVars, amount, chainVars>>

\* Mutant: the balance is topped up without a look at the minimum.
EtherReadAlways(n) == Decide(<<"eth", n>>, FALSE, EtherFund - ether[n])

\* eth_maybe_transfer
EtherRead(n) ==
    Decide(<<"eth", n>>, ether[n] >= EtherMin, EtherFund - ether[n])

EtherSend(n) ==
    LET j == <<"eth", n>> IN
    /\ job[j] = "send"
    /\ \/ /\ ether[Orchestrator] >= amount[j]
          /\ ether' = [ether EXCEPT ![n] = @ + amount[j],
                                    ![Orchestrator] = @ - amount[j]]
          /\ End(j, "ok")
       \/ /\ ether[Orchestrator] < amount[j]
          /\ End(j, "failed") /\ UNCHANGED ether
    /\ UNCHANGED <<mainVars, amount, utility, allowance, deposit, token>>

\* token_maybe_mint, of utility tokens for the orchestrator
MintRead == Decide(Mint, utility >= Required, MintTo - utility)

MintSend ==
    /\ job[Mint] = "send"
    /\ utility' = utility + amount[Mint]
    /\ End(Mint, "ok")
    /\ UNCHANGED <<mainVars, amount, ether, allowance, deposit, token>>

\* token_maybe_mint, of network tokens for a node
TokenRead(n) ==
    Decide(<<"token", n>>, token[n] >= TokenMin, TokenMax - token[n])

TokenSend(n) ==
    LET j == <<"token", n>> IN
    /\ job[j] = "send"
    /\ token' = [token EXCEPT ![n] = @ + amount[j]]
    /\ End(j, "ok")
    /\ UNCHANGED <<mainVars, amount, ether, utility, allowance, deposit>>

\* userdeposit_maybe_increase_allowance: to zero first, then to the maximum
AllowanceRead == Decide(Approve, allowance >= Required, AllowanceMax)

AllowanceZero ==
    /\ job[Approve] = "send"
    /\ allowance' = 0
    /\ End(Approve, "raise")
    /\ UNCHANGED <<mainVars, amount, ether, utility, deposit, token>>

AllowanceRaise ==
    /\ job[Approve] = "raise"
    /\ allowance' = amount[Approve]
    /\ End(Approve, "ok")
    /\ UNCHANGED <<mainVars, amount, ether, utility, deposit, token>>

\* Mutant: the top-up forgets what is already deposited.
DepositReadFull(n) ==
    Decide(<<"deposit", n>>, Effective(n) >= BalancePerNode, MaxFunding)

\* userdeposit_maybe_deposit
DepositRead(n) ==
    Decide(<<"deposit", n>>, Effective(n) >= BalancePerNode, MaxFunding - Effective(n))

\* What the UDC does with a deposit.
Transfer(n) ==
    LET j == <<"deposit", n>> IN
    \/ /\ utility >= amount[j] /\ allowance >= amount[j]
       /\ utility' = utility - amount[j]
       /\ allowance' = allowance - amount[j]
       /\ deposit' = [deposit EXCEPT ![n] = @ + amount[j]]
       /\ End(j, "ok")
    \/ /\ utility < amount[j] \/ allowance < amount[j]
       /\ End(j, "failed")
       /\ UNCHANGED <<utility, allowance, deposit>>

\* Mutant: the deposit does not wait for the minting and the approval.
DepositSendEarly(n) ==
    /\ job[<<"deposit", n>>] = "send"
    /\ Transfer(n)
    /\ UNCHANGED <<mainVars, amount, ether, token>>

\* joinall(mint_greenlets, raise_error=True) comes first.
DepositSend(n) ==
    LET j == <<"deposit", n>> IN
    /\ job[j] = "send"
    /\ \/ /\ job[Mint] = "ok" /\ job[Approve] = "ok"
          /\ Transfer(n)
       \/ /\ "failed" \in {job[Mint], job[Approve]}
          /\ End(j, "failed")
          /\ UNCHANGED <<utility, allowance, deposit>>
    /\ UNCHANGED <<mainVars, amount, ether, token>>

-----------------------------------------------------------------------------

Main == SpawnEther \/ SpawnDeposits \/ SpawnTokens \/ JoinReturn

NodeStep(n) ==
    \/ EtherRead(n) \/ EtherSend(n)
    \/ DepositRead(n) \/ DepositSend(n)
    \/ TokenRead(n) \/ TokenSend(n)

OrchestratorStep ==
    \/ MintRead \/ MintSend
    \/ AllowanceRead \/ AllowanceZero \/ AllowanceRaise

Terminated == phase \in {"running", "failed"} /\ UNCHANGED vars

Next ==
    \/ Main \/ SetupFails
    \/ OrchestratorStep \/ \E n \in Nodes : NodeStep(n)
    \/ \E j \in Jobs : Discard(j) \/ Reject(j)
    \/ Terminated

\* The hub runs every greenlet, and every transaction is mined or rejected.
Fairness ==
    /\ WF_vars(Main) /\ WF_vars(OrchestratorStep)
    /\ \A n \in Nodes : WF_vars(EtherRead(n) \/ EtherSend(n))
                        /\ WF_vars(DepositRead(n) \/ DepositSend(n))
                        /\ WF_vars(TokenRead(n) \/ TokenSend(n))
    /\ \A j \in Jobs : WF_vars(Discard(j))

Spec == Init /\ [][Next]_vars /\ Fairness

-----------------------------------------------------------------------------
(* Properties                                                              *)

\* No amount is negative, although each is a difference computed from a balance
\* read earlier, and no transaction takes from an account more than it has.
TypeOK ==
    /\ phase \in {"start", "udc", "token", "join", "running", "failed"}
    /\ job \in [Jobs -> {"unborn", "read", "send", "raise", "ok", "failed"}]
    /\ amount \in [Jobs -> Nat]
    /\ pool \in SUBSET Jobs /\ watched \in SUBSET Jobs
    /\ ether \in [Nodes \cup {Orchestrator} -> Nat]
    /\ utility \in Nat /\ allowance \in Nat
    /\ deposit \in [Nodes -> Nat]
    /\ token \in [Nodes -> Nat]

\* A greenlet whose error nobody sees: it was dead, and out of the pool, before
\* pool.join(raise_error=True) copied the pool.
Lost(j) == job[j] = "failed" /\ j \notin watched

\* The root task runs only when every node has enough ether, enough utility
\* tokens in the user deposit contract and enough network tokens, whichever
\* transactions are rejected and whatever the order: but for a node whose ether
\* or deposit was refused before the last greenlets were spawned (runner.py:483).
\* Network tokens are spawned last, so that no refusal of theirs is missed.
FundedUnlessLost ==
    phase = "running" => \A n \in Nodes :
       /\ ether[n] >= EtherMin \/ Lost(<<"eth", n>>)
       /\ UdcEnabled => Effective(n) >= BalancePerNode \/ Lost(<<"deposit", n>>)
       /\ token[n] >= TokenMin

\* When the chain rejects nothing, the account has the tokens and the allowance
\* for every deposit the set-up decides on, whatever the interleaving of the
\* reads, the approval to zero and the deposits of the other nodes.
DepositsCovered == \A n \in Nodes : job[<<"deposit", n>>] # "failed"

\* No node is topped up beyond max_funding.
NoOverfunding ==
    [][\A n \in Nodes : deposit'[n] # deposit[n] => Effective(n)' <= MaxFunding]_vars

\* The set-up comes to an end, whichever transactions are rejected.
SetupEnds == <>(phase \in {"running", "failed"})
=============================================================================
