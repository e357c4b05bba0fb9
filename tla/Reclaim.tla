------------------------------ MODULE Reclaim ------------------------------
(***************************************************************************)
(* The reclaim-eth command (main.py) and its helpers (utils/reclaim.py):   *)
(* getting back the ether and the tokens that old runs left with the       *)
(* accounts of their nodes.                                                *)
(*                                                                         *)
(* The accounts are found through the node directories below the data      *)
(* path; a snapshot gives a second directory to an account.  One after the *)
(* other the command plans and makes the withdrawals from the user deposit *)
(* contract, collects the utility tokens, empties the channels, collects   *)
(* the network tokens, sends the ether and marks each directory, and waits *)
(* for the ether transfers.  It may be stopped anywhere and called again.  *)
(*                                                                         *)
(* Contract calls are waited for by their proxies; an ether transfer is    *)
(* only sent.  An account's transactions are mined in the order of their   *)
(* nonces, so a contract call waits for a transfer that is still pending.  *)
(*                                                                         *)
(* The channels are emptied by greenlets of a gevent Pool, one for each.   *)
(* A greenlet that is over leaves the pool a little later, and the join    *)
(* raises the errors only of those that are in the pool when it begins.    *)
(***************************************************************************)
EXTENDS Integers, FiniteSets

CONSTANTS
    Dirs,          \* the node directories old enough to be looked at
    Accounts,
    Account,       \* the account whose key store a directory has
    Channels,      \* the open channels of the token network
    Ends,          \* the two participants of each
    GasCost,       \* what a contract call costs
    TxCost,        \* reclaim_tx_cost, what an ether transfer costs
    EthStart, DepositStart, TokenStart,   \* what the accounts may have at first
    CapacityStart,                        \* and what the channels may have
    MaxCalls,      \* bound on the calls of the command
    MaxCrashes     \* bound on the times it is killed or meets another error

ASSUME ReclaimAssumption ==
    /\ IsFiniteSet(Dirs) /\ Account \in [Dirs -> Accounts]
    /\ Ends \in [Channels -> Accounts \X Accounts]
    /\ GasCost \in Nat /\ TxCost \in Nat /\ MaxCalls \in Nat /\ MaxCrashes \in Nat
    /\ \A amounts \in EthStart \cup DepositStart \cup TokenStart :
          amounts \in [Accounts -> Nat]
    /\ \A amounts \in CapacityStart : amounts \in [Channels -> Nat]

VARIABLES
    phase,       \* what the command is at
    from_udc,    \* --withdraw-from-udc
    tokens,      \* --reclaim-token was given
    todo,        \* the directories, accounts or channels this phase has to visit
    candidates,  \* reclamation_candidates, the directories
    planned,     \* planned_withdraws, the accounts
    warned,      \* the accounts the log says have not enough ether
    pool,        \* withdraw_all: the channels whose greenlet is in the Pool
    working,     \* the channels whose greenlet is not over
    died,        \* the channels whose greenlet ended with an error
    watched,     \* the channels whose greenlet pool.join() looks at
    txs,         \* the accounts whose ether transfer this call waits for
    pending,     \* the accounts with an ether transfer that is not mined yet
    sent,        \* the directory whose transfer is sent and whose mark is due
    stuck,       \* one of txs was accepted but can never be mined
    marked,      \* the directories with the file `reclaimed`
    eth, deposit, plan, utility, token, capacity,        \* the chain
    calls, crashes

options  == <<from_udc, tokens>>
greenlets == <<pool, working, died, watched>>
progress == <<todo, candidates, planned, warned, greenlets>>
transfer == <<txs, pending, sent, stuck, marked>>
assets   == <<deposit, plan, utility, token, capacity>>
bounds   == <<calls, crashes>>
vars     == <<phase, options, progress, transfer, eth, assets, bounds>>

Init ==
    /\ phase = "done" /\ from_udc = FALSE /\ tokens = FALSE
    /\ todo = {} /\ candidates = {} /\ planned = {} /\ warned = {}
    /\ pool = {} /\ working = {} /\ died = {} /\ watched = {}
    /\ txs = {} /\ pending = {} /\ sent = {} /\ stuck = FALSE /\ marked = {}
    /\ eth \in EthStart /\ deposit \in DepositStart
    /\ token \in TokenStart /\ capacity \in CapacityStart
    /\ plan = [a \in Accounts |-> 0] /\ utility = [a \in Accounts |-> 0]
    /\ calls = 0 /\ crashes = 0

Idle     == {"done", "failed", "killed"}
Owner(S) == {Account[d] : d \in S}

-----------------------------------------------------------------------------
(* The command                                                             *)

\* What a phase has to visit; a channel only if both its ends are candidates.
Visits(next, dirs, plans) ==
    CASE next = "withdraw" -> plans
      [] next = "channels" ->
            {c \in Channels : Ends[c][1] \in Owner(dirs) /\ Ends[c][2] \in Owner(dirs)}
      [] next = "wait"     -> {}
      [] OTHER             -> dirs

TokenPhase(erc20) == IF erc20 THEN "channels" ELSE "ether"

\* reclaim_eth of main.py: get_reclamation_candidates, then the first phase.
Begin(udc, erc20) ==
    LET dirs == Dirs \ marked
        next == IF udc THEN "plan" ELSE TokenPhase(erc20)
    IN
    /\ phase \in Idle /\ calls < MaxCalls /\ calls' = calls + 1
    /\ from_udc' = udc /\ tokens' = erc20
    /\ candidates' = dirs /\ planned' = {} /\ warned' = {}
    /\ phase' = next /\ todo' = Visits(next, dirs, {})
    /\ pool' = {} /\ working' = {} /\ died' = {} /\ watched' = {}
    /\ txs' = {} /\ sent' = {} /\ stuck' = FALSE
    /\ UNCHANGED <<pending, marked, eth, assets, crashes>>

\* Without a planned withdrawal the utility tokens are not looked at either.
Following ==
    CASE phase = "plan"     -> IF planned = {} THEN TokenPhase(tokens) ELSE "withdraw"
      [] phase = "withdraw" -> "utility"
      [] phase = "utility"  -> TokenPhase(tokens)
      [] phase = "channels" -> "token"
      [] phase = "token"    -> "ether"
      [] phase = "ether"    -> "wait"

\* Mutant: pool.join() without raise_error.
AdvanceQuiet ==
    /\ phase \in {"plan", "withdraw", "utility", "channels", "token", "ether"}
    /\ todo = {} /\ pool = {}
    /\ phase' = Following
    /\ todo' = Visits(Following, candidates, planned)
    /\ UNCHANGED <<options, candidates, planned, warned, greenlets, transfer, eth, assets,
                   bounds>>

\* The loop of a phase is over, and in withdraw_all also pool.join(): its errors
\* end the command.
Advance ==
    /\ phase \in {"plan", "withdraw", "utility", "channels", "token", "ether"}
    /\ todo = {} /\ pool = {}
    /\ \/ /\ phase = "channels" /\ died \cap watched # {}
          /\ phase' = "failed" /\ UNCHANGED todo
       \/ /\ phase # "channels" \/ died \cap watched = {}
          /\ phase' = Following
          /\ todo' = Visits(Following, candidates, planned)
    /\ UNCHANGED <<options, candidates, planned, warned, greenlets, transfer, eth, assets,
                   bounds>>

Visit(place, x) == phase = place /\ x \in todo /\ todo' = todo \ {x}

-----------------------------------------------------------------------------
(* The contract calls                                                      *)

\* Mutant: any ether at all is taken for enough.
CanPayAny(a) == eth[a] > 0

CanPay(a) == eth[a] >= GasCost

\* What a call that moves amount leaves; InsufficientEth leaves everything.
Left(a, amount) == IF CanPay(a) THEN 0 ELSE amount

\* A call with `except InsufficientEth: log.warning`, skipped for amount 0.
Call(a, amount) ==
    \/ amount = 0 /\ UNCHANGED <<eth, warned>>
    \/ /\ amount > 0 /\ a \notin pending /\ CanPay(a)
       /\ eth' = [eth EXCEPT ![a] = @ - GasCost] /\ UNCHANGED warned
    \/ /\ amount > 0 /\ a \notin pending /\ ~CanPay(a)
       /\ warned' = warned \cup {a} /\ UNCHANGED eth

\* withdraw_from_udc, first loop: an equal plan of an earlier call is kept.
PlanWithdraw(d) ==
    LET a      == Account[d]
        amount == IF plan[a] = deposit[a] THEN 0 ELSE deposit[a]
        fails  == amount > 0 /\ ~CanPay(a)
    IN
    /\ Visit("plan", d) /\ Call(a, amount)
    /\ plan' = [plan EXCEPT ![a] = IF deposit[a] > 0 /\ ~fails THEN deposit[a] ELSE @]
    /\ planned' = IF deposit[a] > 0 /\ ~fails THEN planned \cup {a} ELSE planned
    /\ UNCHANGED <<phase, options, candidates, greenlets, transfer, deposit, utility,
                   token, capacity, bounds>>

\* Second loop: here InsufficientEth is not caught, and ends the command.
Withdraw(a) ==
    /\ Visit("withdraw", a) /\ a \notin pending
    /\ \/ /\ CanPay(a)
          /\ eth' = [eth EXCEPT ![a] = @ - GasCost]
          /\ utility' = [utility EXCEPT ![a] = @ + deposit[a]]
          /\ deposit' = [deposit EXCEPT ![a] = 0]
          /\ plan' = [plan EXCEPT ![a] = 0]
          /\ UNCHANGED phase
       \/ /\ ~CanPay(a) /\ phase' = "failed"
          /\ UNCHANGED <<eth, utility, deposit, plan>>
    /\ UNCHANGED <<options, candidates, planned, warned, greenlets, transfer, token,
                   capacity, bounds>>

\* reclaim_erc20 with the utility token.
CollectUtility(d) ==
    LET a == Account[d] IN
    /\ Visit("utility", d) /\ Call(a, utility[a])
    /\ utility' = [utility EXCEPT ![a] = Left(a, @)]
    /\ UNCHANGED <<phase, options, candidates, planned, greenlets, transfer, deposit,
                   plan, token, capacity, bounds>>

\* withdraw_all: calls to the chain, and then a greenlet, for each channel.  The
\* join begins with the spawn of the last one.
SpawnWithdraw(c) ==
    /\ Visit("channels", c)
    /\ pool' = pool \cup {c} /\ working' = working \cup {c}
    /\ watched' = IF todo' = {} THEN pool' ELSE watched
    /\ UNCHANGED <<phase, options, candidates, planned, warned, died, transfer, eth, assets,
                   bounds>>

\* _withdraw_participant_left_capacity_from_channel: everything goes to
\* participant1, who pays.
WithdrawChannel(c) ==
    LET a == Ends[c][1] IN
    /\ phase = "channels" /\ c \in working /\ Call(a, capacity[c])
    /\ working' = working \ {c}
    /\ capacity' = [capacity EXCEPT ![c] = Left(a, @)]
    /\ token' = [token EXCEPT ![a] = @ + capacity[c] - Left(a, capacity[c])]
    /\ UNCHANGED <<phase, options, todo, candidates, planned, pool, died, watched, transfer,
                   deposit, plan, utility, bounds>>

\* Any other error ends the greenlet, with the gas of a transaction spent or not.
WithdrawFails(c) ==
    LET a == Ends[c][1] IN
    /\ phase = "channels" /\ c \in working /\ crashes < MaxCrashes
    /\ working' = working \ {c} /\ died' = died \cup {c} /\ crashes' = crashes + 1
    /\ \/ UNCHANGED eth
       \/ a \notin pending /\ CanPay(a) /\ eth' = [eth EXCEPT ![a] = @ - GasCost]
    /\ UNCHANGED <<phase, options, todo, candidates, planned, warned, pool, watched,
                   transfer, assets, calls>>

\* The hub takes a greenlet that is over out of the pool.
Discard(c) ==
    /\ phase = "channels" /\ c \in pool \ working
    /\ pool' = pool \ {c}
    /\ UNCHANGED <<phase, options, todo, candidates, planned, warned, working, died,
                   watched, transfer, eth, assets, bounds>>

\* reclaim_erc20 with a --reclaim-token.
CollectToken(d) ==
    LET a == Account[d] IN
    /\ Visit("token", d) /\ Call(a, token[a])
    /\ token' = [token EXCEPT ![a] = Left(a, @)]
    /\ UNCHANGED <<phase, options, candidates, planned, greenlets, transfer, deposit,
                   plan, utility, capacity, bounds>>

-----------------------------------------------------------------------------
(* reclaim_eth of utils/reclaim.py                                         *)

\* Mutant: compared with what a contract call costs.
WorthItGas(a) == eth[a] >= GasCost

\* The balance is the mined one, whatever is pending.
WorthIt(a) == eth[a] > TxCost

\* transact.  A second transfer beside a pending one exceeds the balance: the
\* node refuses it, or takes it and never mines it.
SendEther(d) ==
    LET a == Account[d] IN
    /\ phase = "ether" /\ sent = {} /\ d \in todo
    /\ \/ /\ ~WorthIt(a) /\ UNCHANGED <<phase, txs, pending, stuck>>
       \/ /\ WorthIt(a) /\ a \notin pending
          /\ txs' = txs \cup {a} /\ pending' = pending \cup {a}
          /\ UNCHANGED <<phase, stuck>>
       \/ /\ WorthIt(a) /\ a \in pending
          /\ phase' = "failed" /\ UNCHANGED <<txs, pending, stuck>>
       \/ /\ WorthIt(a) /\ a \in pending
          /\ stuck' = TRUE /\ UNCHANGED <<phase, txs, pending>>
    /\ sent' = {d}
    /\ UNCHANGED <<options, progress, marked, eth, assets, bounds>>

\* (node_dir / "reclaimed").touch()
Mark ==
    /\ phase = "ether" /\ sent # {}
    /\ marked' = marked \cup sent /\ todo' = todo \ sent /\ sent' = {}
    /\ UNCHANGED <<phase, options, candidates, planned, warned, greenlets, txs, pending,
                   stuck, eth, assets, bounds>>

\* Mutant: the command does not wait for its transfers.
WaitNot ==
    /\ phase = "wait" /\ phase' = "done"
    /\ UNCHANGED <<options, progress, transfer, eth, assets, bounds>>

\* wait_for_txs, to the end or to its timeout.
Wait ==
    /\ phase = "wait"
    /\ \/ phase' = "done" /\ txs \cap pending = {} /\ ~stuck
       \/ phase' = "failed" /\ (txs \cap pending # {} \/ stuck)
    /\ UNCHANGED <<options, progress, transfer, eth, assets, bounds>>

-----------------------------------------------------------------------------
(* The surroundings                                                        *)

\* The chain mines a transfer of everything the account had.
Mine(a) ==
    /\ a \in pending /\ pending' = pending \ {a}
    /\ eth' = [eth EXCEPT ![a] = 0]
    /\ UNCHANGED <<phase, options, progress, txs, sent, stuck, marked, assets, bounds>>

\* The command is killed, or its main greenlet meets an error nobody catches; the
\* greenlets of the pool end with the process.
Stop ==
    /\ phase \notin Idle /\ crashes < MaxCrashes
    /\ phase' = "killed" /\ crashes' = crashes + 1
    /\ UNCHANGED <<options, progress, transfer, eth, assets, calls>>

Terminated ==
    /\ phase \in Idle /\ calls = MaxCalls /\ pending = {}
    /\ UNCHANGED vars

Next ==
    \/ \E udc, erc20 \in BOOLEAN : Begin(udc, erc20)
    \/ Advance
    \/ \E d \in Dirs : PlanWithdraw(d) \/ CollectUtility(d) \/ CollectToken(d) \/ SendEther(d)
    \/ \E c \in Channels :
          SpawnWithdraw(c) \/ WithdrawChannel(c) \/ WithdrawFails(c) \/ Discard(c)
    \/ \E a \in Accounts : Withdraw(a) \/ Mine(a)
    \/ Mark
    \/ Wait
    \/ Stop
    \/ Terminated

Spec == Init /\ [][Next]_vars

-----------------------------------------------------------------------------
(* Properties                                                              *)

\* The types; no account pays what it does not have, in any order of calls.
TypeOK ==
    /\ phase \in Idle \cup {"plan", "withdraw", "utility", "channels", "token", "ether", "wait"}
    /\ from_udc \in BOOLEAN /\ tokens \in BOOLEAN /\ stuck \in BOOLEAN
    /\ todo \subseteq Dirs \cup Accounts \cup Channels
    /\ candidates \subseteq Dirs /\ sent \subseteq Dirs /\ marked \subseteq Dirs
    /\ planned \subseteq Accounts /\ warned \subseteq Accounts
    /\ working \subseteq pool /\ pool \subseteq Channels
    /\ died \subseteq Channels /\ watched \subseteq Channels
    /\ txs \subseteq Accounts /\ pending \subseteq Accounts
    /\ eth \in [Accounts -> Nat] /\ deposit \in [Accounts -> Nat]
    /\ plan \in [Accounts -> Nat] /\ utility \in [Accounts -> Nat]
    /\ token \in [Accounts -> Nat]
    /\ capacity \in [Channels -> Nat]
    /\ calls \in 0..MaxCalls /\ crashes \in 0..MaxCrashes

\* A call that ends well has emptied every wallet it looked at, up to the cost
\* of a transfer, and the chain has confirmed it (reclaim.py, reclaim_eth).
SuccessDrains ==
    phase = "done" => \A d \in candidates : d \in marked /\ eth[Account[d]] <= TxCost

\* The mark that makes every later call skip a directory is never there while
\* its account has ether that no transfer is under way for, wherever the command
\* was stopped and however its calls overlap with late transfers.
MarkedDrained ==
    \A d \in marked : Account[d] \in pending \/ eth[Account[d]] <= TxCost

\* What a call that ends well was asked to collect and left behind is with an
\* account it has warned of: deposits, tokens, and what the channels paid out.
\* The utility tokens only if a withdrawal was planned.  The exception is a
\* channel whose greenlet died of another error before withdraw_all had spawned
\* its last one: it had left the pool, pool.join(raise_error=True) saw nothing,
\* and the call ends well without a warning.  No other error is lost.
LeftoversWarned ==
    phase = "done" =>
        /\ \A a \in Owner(candidates) \ warned :
              /\ from_udc => deposit[a] = 0
              /\ from_udc /\ planned # {} => utility[a] = 0
              /\ tokens => token[a] = 0
        /\ tokens => \A c \in Visits("channels", candidates, {}) :
              capacity[c] = 0 \/ Ends[c][1] \in warned \/ c \in died \ watched
=============================================================================
