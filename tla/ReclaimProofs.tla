--------------------------- MODULE ReclaimProofs ---------------------------
(***************************************************************************)
(* Proofs about Reclaim, for all node directories, accounts, channels and  *)
(* balances, and any number of calls and stops.                            *)
(***************************************************************************)
EXTENDS Reclaim, TLAPS

-----------------------------------------------------------------------------
(* Type correctness.                                                       *)

Phases == Idle \cup {"plan", "withdraw", "utility", "channels", "token", "ether", "wait"}
Places == Dirs \cup Accounts \cup Channels

LEMMA PlaceFacts ==
    /\ \A d \in Dirs : Account[d] \in Accounts
    /\ \A c \in Channels : Ends[c][1] \in Accounts /\ Ends[c][2] \in Accounts
BY ReclaimAssumption

LEMMA CostFacts ==
    GasCost \in Nat /\ TxCost \in Nat /\ MaxCalls \in Nat /\ MaxCrashes \in Nat
BY ReclaimAssumption

LEMMA VisitsType ==
    ASSUME NEW next, NEW dirs \in SUBSET Dirs, NEW plans \in SUBSET Accounts
    PROVE  Visits(next, dirs, plans) \in SUBSET Places
BY DEF Visits, Places

\* What a call costs is there, and what it leaves is an amount.
LEMMA CallType ==
    ASSUME TypeOK, NEW a \in Accounts, NEW amount \in Nat, Call(a, amount)
    PROVE  /\ eth' \in [Accounts -> Nat] /\ warned' \in SUBSET Accounts
           /\ Left(a, amount) \in {0, amount} /\ Left(a, amount) \in Nat
BY CostFacts DEF TypeOK, Call, Left, CanPay

LEMMA CommandType ==
    ASSUME TypeOK, (\E udc, erc20 \in BOOLEAN : Begin(udc, erc20)) \/ Advance
    PROVE  TypeOK'
<1>1. ASSUME NEW udc \in BOOLEAN, NEW erc20 \in BOOLEAN, Begin(udc, erc20) PROVE TypeOK'
  <2>1. todo' \in SUBSET Places
    BY <1>1, VisitsType DEF Begin
  <2>2. phase' \in Phases /\ calls' \in 0..MaxCalls
    BY <1>1, CostFacts DEF Begin, TokenPhase, Phases, TypeOK
  <2> QED BY <1>1, <2>1, <2>2 DEF Begin, TypeOK, Phases, Places, assets
<1>2. CASE Advance
  <2>1. todo' \in SUBSET Places
    BY <1>2, VisitsType DEF Advance, TypeOK, Places
  <2>2. phase' \in Phases
    BY <1>2 DEF Advance, Following, TokenPhase, Phases, Idle
  <2> QED BY <1>2, <2>1, <2>2 DEF Advance, TypeOK, Phases, Places, options, greenlets,
                                  transfer, assets, bounds
<1> QED BY <1>1, <1>2

LEMMA DepositType ==
    ASSUME TypeOK,
           (\E d \in Dirs : PlanWithdraw(d) \/ CollectUtility(d))
           \/ (\E a \in Accounts : Withdraw(a))
    PROVE  TypeOK'
<1> USE PlaceFacts
<1>1. ASSUME NEW d \in Dirs, PlanWithdraw(d) PROVE TypeOK'
  <2> DEFINE a == Account[d]
             amount == IF plan[a] = deposit[a] THEN 0 ELSE deposit[a]
  <2>1. a \in Accounts /\ amount \in Nat /\ Call(a, amount)
    BY <1>1 DEF PlanWithdraw, TypeOK
  <2>2. eth' \in [Accounts -> Nat] /\ warned' \in SUBSET Accounts
    BY <2>1, CallType
  <2>3. plan' \in [Accounts -> Nat] /\ planned' \in SUBSET Accounts
        /\ todo' \in SUBSET Places
    BY <1>1, <2>1 DEF PlanWithdraw, Visit, TypeOK, Places
  <2> QED BY <1>1, <2>2, <2>3 DEF PlanWithdraw, TypeOK, Places, options, greenlets,
                                  transfer, bounds
<1>2. ASSUME NEW d \in Dirs, CollectUtility(d) PROVE TypeOK'
  <2>1. Account[d] \in Accounts /\ utility[Account[d]] \in Nat
        /\ Call(Account[d], utility[Account[d]])
    BY <1>2 DEF CollectUtility, TypeOK
  <2>2. eth' \in [Accounts -> Nat] /\ warned' \in SUBSET Accounts
        /\ Left(Account[d], utility[Account[d]]) \in Nat
    BY <2>1, CallType
  <2>3. utility' \in [Accounts -> Nat] /\ todo' \in SUBSET Places
    BY <1>2, <2>1, <2>2 DEF CollectUtility, Visit, TypeOK, Places
  <2> QED BY <1>2, <2>2, <2>3 DEF CollectUtility, TypeOK, Places, options, greenlets,
                                  transfer, bounds
<1>3. ASSUME NEW a \in Accounts, Withdraw(a) PROVE TypeOK'
  <2>1. eth' \in [Accounts -> Nat] /\ utility' \in [Accounts -> Nat]
        /\ deposit' \in [Accounts -> Nat] /\ plan' \in [Accounts -> Nat]
    BY <1>3, CostFacts DEF Withdraw, CanPay, TypeOK
  <2>2. phase' \in Phases /\ todo' \in SUBSET Places
    BY <1>3 DEF Withdraw, Visit, TypeOK, Phases, Places, Idle
  <2> QED BY <1>3, <2>1, <2>2 DEF Withdraw, TypeOK, Phases, Places, options, greenlets,
                                  transfer, bounds
<1> QED BY <1>1, <1>2, <1>3

\* The steps of withdraw_all and of its greenlets.
WithdrawAll(c) == SpawnWithdraw(c) \/ WithdrawChannel(c) \/ WithdrawFails(c) \/ Discard(c)

LEMMA WithdrawType ==
    ASSUME TypeOK, NEW c \in Channels, WithdrawAll(c)
    PROVE  TypeOK'
<1> USE PlaceFacts
<1>1. CASE WithdrawChannel(c)
  <2> DEFINE a == Ends[c][1]
  <2>1. a \in Accounts /\ capacity[c] \in Nat /\ Call(a, capacity[c])
    BY <1>1 DEF WithdrawChannel, TypeOK
  <2>2. eth' \in [Accounts -> Nat] /\ warned' \in SUBSET Accounts
        /\ Left(a, capacity[c]) \in {0, capacity[c]}
    BY <2>1, CallType
  <2>3. capacity' \in [Channels -> Nat] /\ token' \in [Accounts -> Nat]
    BY <1>1, <2>1, <2>2 DEF WithdrawChannel, TypeOK
  <2> QED BY <1>1, <2>2, <2>3 DEF WithdrawChannel, TypeOK, options, transfer, bounds
<1>2. CASE SpawnWithdraw(c)
  BY <1>2 DEF SpawnWithdraw, Visit, TypeOK, options, transfer, assets, bounds
<1>3. CASE WithdrawFails(c)
  <2>1. eth' \in [Accounts -> Nat]
    BY <1>3, CostFacts DEF WithdrawFails, CanPay, TypeOK
  <2>2. crashes' \in 0..MaxCrashes
    BY <1>3, CostFacts DEF WithdrawFails, TypeOK
  <2> QED BY <1>3, <2>1, <2>2 DEF WithdrawFails, TypeOK, options, transfer, assets
<1>4. CASE Discard(c)
  BY <1>4 DEF Discard, TypeOK, options, transfer, assets, bounds
<1> QED BY <1>1, <1>2, <1>3, <1>4 DEF WithdrawAll

LEMMA TokenType ==
    ASSUME TypeOK,
           (\E c \in Channels : WithdrawAll(c)) \/ (\E d \in Dirs : CollectToken(d))
    PROVE  TypeOK'
<1> USE PlaceFacts
<1>1. ASSUME NEW c \in Channels, WithdrawAll(c) PROVE TypeOK'
  BY <1>1, WithdrawType
<1>2. ASSUME NEW d \in Dirs, CollectToken(d) PROVE TypeOK'
  <2>1. Account[d] \in Accounts /\ token[Account[d]] \in Nat
        /\ Call(Account[d], token[Account[d]])
    BY <1>2 DEF CollectToken, TypeOK
  <2>2. eth' \in [Accounts -> Nat] /\ warned' \in SUBSET Accounts
        /\ Left(Account[d], token[Account[d]]) \in Nat
    BY <2>1, CallType
  <2>3. token' \in [Accounts -> Nat] /\ todo' \in SUBSET Places
    BY <1>2, <2>1, <2>2 DEF CollectToken, Visit, TypeOK, Places
  <2> QED BY <1>2, <2>2, <2>3 DEF CollectToken, TypeOK, Places, options, greenlets,
                                  transfer, bounds
<1> QED BY <1>1, <1>2

LEMMA EtherType ==
    ASSUME TypeOK, (\E d \in Dirs : SendEther(d)) \/ Mark \/ Wait
                   \/ (\E a \in Accounts : Mine(a)) \/ Stop
    PROVE  TypeOK'
<1>1. ASSUME NEW d \in Dirs, SendEther(d) PROVE TypeOK'
  BY <1>1, PlaceFacts DEF SendEther, TypeOK, Idle, options, progress, greenlets, assets,
                          bounds
<1>2. CASE Mark
  BY <1>2 DEF Mark, TypeOK, options, greenlets, assets, bounds
<1>3. CASE Wait
  BY <1>3 DEF Wait, TypeOK, Idle, options, progress, greenlets, transfer, assets, bounds
<1>4. ASSUME NEW a \in Accounts, Mine(a) PROVE TypeOK'
  BY <1>4 DEF Mine, TypeOK, options, progress, greenlets, assets, bounds
<1>5. CASE Stop
  BY <1>5, CostFacts DEF Stop, TypeOK, Idle, options, progress, greenlets, transfer,
                                assets
<1> QED BY <1>1, <1>2, <1>3, <1>4, <1>5

LEMMA TypeStep == TypeOK /\ [Next]_vars => TypeOK'
<1> SUFFICES ASSUME TypeOK, [Next]_vars PROVE TypeOK'
  OBVIOUS
<1>1. CASE UNCHANGED vars
  BY <1>1 DEF vars, TypeOK, options, progress, greenlets, transfer, assets, bounds
<1>2. CASE Next
  BY <1>1, <1>2, CommandType, DepositType, TokenType, EtherType
     DEF Next, Terminated, WithdrawAll
<1> QED BY <1>1, <1>2

\* The types of Reclaim; in particular no wallet pays more than it has, in any
\* order of plans, withdrawals and transfers over any number of calls.
THEOREM TypeCorrect == Spec => []TypeOK
<1>1. Init => TypeOK
  <2> SUFFICES ASSUME Init PROVE TypeOK
    OBVIOUS
  <2>1. eth \in [Accounts -> Nat] /\ deposit \in [Accounts -> Nat]
        /\ token \in [Accounts -> Nat] /\ capacity \in [Channels -> Nat]
    BY ReclaimAssumption DEF Init
  <2>2. plan \in [Accounts -> Nat] /\ utility \in [Accounts -> Nat]
    BY DEF Init
  <2>3. calls \in 0..MaxCalls /\ crashes \in 0..MaxCrashes
    BY CostFacts DEF Init
  <2> QED BY <2>1, <2>2, <2>3 DEF Init, TypeOK, Idle
<1> QED BY <1>1, TypeStep, PTL DEF Spec

-----------------------------------------------------------------------------
(* A mark never hides ether.                                               *)

\* Nothing to lose: the account is empty or its transfer is under way.
Safe(a) == a \in pending \/ eth[a] <= TxCost

\* MarkedDrained, and the directory that is marked next.
DrainInv ==
    /\ \A d \in marked : Safe(Account[d])
    /\ phase \notin Idle => \A d \in sent : Safe(Account[d])

\* Ether only goes away, and a transfer ends by taking all of it.
LEMMA SafeKept ==
    ASSUME TypeOK, TypeOK', NEW a \in Accounts, Safe(a),
           \/ pending \subseteq pending' /\ eth'[a] <= eth[a]
           \/ \E b \in Accounts : Mine(b)
    PROVE  Safe(a)'
BY CostFacts DEF TypeOK, Safe, Mine

\* The steps that leave pending, marked and sent as they are.
LEMMA CallsKeep ==
    ASSUME TypeOK,
           \/ \E d \in Dirs : PlanWithdraw(d) \/ CollectUtility(d) \/ CollectToken(d)
           \/ \E c \in Channels : WithdrawAll(c)
           \/ \E a \in Accounts : Withdraw(a)
    PROVE  /\ UNCHANGED <<pending, marked, sent>> /\ phase \notin Idle
           /\ \A a \in Accounts : eth'[a] <= eth[a]
<1>1. ASSUME NEW a \in Accounts, NEW amount, Call(a, amount)
      PROVE  \A b \in Accounts : eth'[b] <= eth[b]
  BY <1>1, CostFacts DEF Call, TypeOK
<1>2. ASSUME NEW d \in Dirs, PlanWithdraw(d) \/ CollectUtility(d) \/ CollectToken(d)
      PROVE  /\ UNCHANGED <<pending, marked, sent>> /\ phase \notin Idle
             /\ \E amount : Call(Account[d], amount)
  BY <1>2 DEF PlanWithdraw, CollectUtility, CollectToken, Visit, Idle, transfer
<1>3. ASSUME NEW c \in Channels, WithdrawAll(c)
      PROVE  /\ UNCHANGED <<pending, marked, sent>> /\ phase \notin Idle
             /\ \A b \in Accounts : eth'[b] <= eth[b]
  <2>1. UNCHANGED <<pending, marked, sent>> /\ phase = "channels"
    BY <1>3 DEF WithdrawAll, SpawnWithdraw, WithdrawChannel, WithdrawFails, Discard, Visit,
                transfer
  <2>2. \A b \in Accounts : eth'[b] <= eth[b]
    <3>1. CASE WithdrawChannel(c)
      BY <3>1, <1>1, PlaceFacts DEF WithdrawChannel
    <3>2. CASE WithdrawFails(c)
      BY <3>2, PlaceFacts, CostFacts DEF WithdrawFails, TypeOK
    <3>3. CASE SpawnWithdraw(c) \/ Discard(c)
      BY <3>3 DEF SpawnWithdraw, Discard, TypeOK
    <3> QED BY <1>3, <3>1, <3>2, <3>3 DEF WithdrawAll
  <2> QED BY <2>1, <2>2 DEF Idle
<1>4. ASSUME NEW a \in Accounts, Withdraw(a)
      PROVE  /\ UNCHANGED <<pending, marked, sent>> /\ phase \notin Idle
             /\ \A b \in Accounts : eth'[b] <= eth[b]
  BY <1>4, CostFacts DEF Withdraw, Visit, Idle, transfer, TypeOK
<1> QED BY <1>1, <1>2, <1>3, <1>4, PlaceFacts

LEMMA DrainStep == TypeOK /\ TypeOK' /\ DrainInv /\ [Next]_vars => DrainInv'
<1> SUFFICES ASSUME TypeOK, TypeOK', DrainInv, [Next]_vars PROVE DrainInv'
  OBVIOUS
<1> USE PlaceFacts
<1>1. CASE UNCHANGED vars
  BY <1>1 DEF vars, DrainInv, Safe, transfer
<1>2. CASE \E udc, erc20 \in BOOLEAN : Begin(udc, erc20)
  BY <1>2 DEF Begin, DrainInv, Safe
<1>3. CASE Advance
  <2>1. UNCHANGED <<marked, pending, sent, eth>>
    BY <1>3 DEF Advance, transfer
  <2>2. phase \notin Idle
    BY <1>3 DEF Advance, Idle
  <2> QED BY <2>1, <2>2 DEF DrainInv, Safe
<1>4. CASE \/ \E d \in Dirs : PlanWithdraw(d) \/ CollectUtility(d) \/ CollectToken(d)
           \/ \E c \in Channels : WithdrawAll(c)
           \/ \E a \in Accounts : Withdraw(a)
  BY <1>4, CallsKeep, SafeKept DEF DrainInv, TypeOK
<1>5. ASSUME NEW d \in Dirs, SendEther(d) PROVE DrainInv'
  <2>1. UNCHANGED <<marked, eth>> /\ pending \subseteq pending' /\ sent' = {d}
    BY <1>5 DEF SendEther
  <2>2. Safe(Account[d])'
    BY <1>5, <2>1, CostFacts DEF SendEther, Safe, WorthIt, TypeOK
  <2>3. \A a \in Accounts : Safe(a) => Safe(a)'
    BY <2>1 DEF Safe
  <2> QED BY <2>1, <2>2, <2>3 DEF DrainInv, TypeOK
<1>6. CASE Mark
  BY <1>6 DEF Mark, DrainInv, Safe, Idle
<1>7. CASE Wait \/ Stop
  BY <1>7 DEF Wait, Stop, DrainInv, Safe, Idle, transfer
<1>8. ASSUME NEW a \in Accounts, Mine(a) PROVE DrainInv'
  <2>1. UNCHANGED <<marked, sent, phase>>
    BY <1>8 DEF Mine
  <2> QED BY <1>8, <2>1, SafeKept DEF DrainInv, TypeOK
<1> QED BY <1>1, <1>2, <1>3, <1>4, <1>5, <1>6, <1>7, <1>8 DEF Next, Terminated, WithdrawAll

\* Whatever directories share an account, wherever calls are stopped and whenever
\* transfers are mined, a directory that later calls skip has no ether left to
\* lose.
THEOREM MarksHideNothing == Spec => []MarkedDrained
<1>1. Init => DrainInv
  BY DEF Init, DrainInv
<1>2. DrainInv => MarkedDrained
  BY DEF DrainInv, Safe, MarkedDrained
<1> QED BY <1>1, <1>2, DrainStep, TypeCorrect, PTL DEF Spec

-----------------------------------------------------------------------------
(* A successful call has emptied the wallets.                              *)

Collecting == {"plan", "withdraw", "utility", "channels", "token"}

\* What this call has done for an account, unless it has to end with an error.
Served(a) == stuck \/ a \in txs \cap pending \/ eth[a] <= TxCost

\* The directories this call has been through, and the one it is at.
Visited == (candidates \ todo) \cup sent

SuccessInv ==
    /\ phase \in Collecting => sent = {}
    /\ phase = "ether" => candidates \ todo \subseteq marked
    /\ phase = "wait" => todo = {} /\ candidates \subseteq marked
    /\ phase \in {"ether", "wait"} => \A d \in Visited : Served(Account[d])
    /\ SuccessDrains

LEMMA SuccessAdvance ==
    ASSUME TypeOK, SuccessInv, Advance
    PROVE  SuccessInv'
<1>1. UNCHANGED <<candidates, marked, sent, txs, pending, stuck, eth>>
  BY DEF Advance, transfer
<1>2. phase \in Collecting \cup {"ether"} /\ todo = {}
  BY DEF Advance, Collecting
<1>3. CASE phase = "ether"
  <2>1. phase' = "wait" /\ todo' = {}
    BY <1>3 DEF Advance, Following, Visits
  <2> QED BY <1>1, <1>2, <1>3, <2>1
          DEF SuccessInv, Visited, Served, SuccessDrains, Collecting
<1>4. CASE phase \in Collecting
  <2>1. phase' \in {"withdraw", "utility", "channels", "token", "ether", "failed"}
        /\ sent = {}
    BY <1>4 DEF Advance, Following, TokenPhase, Collecting, SuccessInv
  <2>2. phase' = "ether" => todo' = candidates
    BY <2>1 DEF Advance, Visits
  <2> QED BY <1>1, <2>1, <2>2 DEF SuccessInv, Visited, SuccessDrains, Collecting
<1> QED BY <1>2, <1>3, <1>4

LEMMA SuccessSend ==
    ASSUME TypeOK, SuccessInv, NEW d \in Dirs, SendEther(d)
    PROVE  SuccessInv'
<1>1. UNCHANGED <<candidates, todo, marked, eth>> /\ sent' = {d} /\ sent = {}
      /\ phase = "ether" /\ phase' \in {"ether", "failed"}
      /\ txs \subseteq txs' /\ pending \subseteq pending' /\ (stuck => stuck')
  BY DEF SendEther, progress
<1>2. phase' = "ether" => Served(Account[d])'
  BY PlaceFacts, CostFacts DEF SendEther, Served, WorthIt, TypeOK
<1>3. \A e \in Visited : Served(Account[e])'
  BY <1>1 DEF SuccessInv, Served
<1>4. Visited' \subseteq Visited \cup {d}
  BY <1>1 DEF Visited
<1> QED BY <1>1, <1>2, <1>3, <1>4 DEF SuccessInv, SuccessDrains, Collecting

LEMMA SuccessStep == TypeOK /\ TypeOK' /\ SuccessInv /\ [Next]_vars => SuccessInv'
<1> SUFFICES ASSUME TypeOK, TypeOK', SuccessInv, [Next]_vars PROVE SuccessInv'
  OBVIOUS
<1> USE PlaceFacts
<1>1. CASE UNCHANGED vars
  BY <1>1 DEF vars, SuccessInv, Visited, Served, SuccessDrains, transfer, progress
<1>2. ASSUME NEW udc \in BOOLEAN, NEW erc20 \in BOOLEAN, Begin(udc, erc20)
      PROVE  SuccessInv'
  <2>1. sent' = {} /\ phase' \in {"plan", "channels", "ether"}
    BY <1>2 DEF Begin, TokenPhase
  <2>2. phase' = "ether" => todo' = candidates'
    BY <1>2, <2>1 DEF Begin, Visits
  <2> QED BY <2>1, <2>2 DEF SuccessInv, Visited, SuccessDrains, Collecting
<1>3. CASE \/ \E d \in Dirs : PlanWithdraw(d) \/ CollectUtility(d) \/ CollectToken(d)
           \/ \E c \in Channels : WithdrawAll(c)
           \/ \E a \in Accounts : Withdraw(a)
  <2>1. phase \in Collecting /\ phase' \in Collecting \cup {"failed"} /\ sent' = sent
    BY <1>3 DEF PlanWithdraw, CollectUtility, CollectToken, WithdrawAll, SpawnWithdraw,
                WithdrawChannel, WithdrawFails, Discard, Withdraw, Visit, Collecting, transfer
  <2> QED BY <2>1 DEF SuccessInv, SuccessDrains, Collecting
<1>4. CASE Mark
  <2>1. UNCHANGED <<candidates, txs, pending, stuck, eth>> /\ phase = "ether"
        /\ phase' = "ether" /\ marked' = marked \cup sent /\ todo' = todo \ sent /\ sent' = {}
    BY <1>4 DEF Mark
  <2>2. Visited' \subseteq Visited
    BY <2>1 DEF Visited
  <2> QED BY <2>1, <2>2 DEF SuccessInv, Served, SuccessDrains, Collecting
<1>5. CASE Wait
  <2>1. UNCHANGED <<candidates, marked, eth>> /\ phase = "wait"
    BY <1>5 DEF Wait, progress, transfer
  <2>2. \/ phase' = "failed"
        \/ phase' = "done" /\ txs \cap pending = {} /\ ~stuck
    BY <1>5 DEF Wait
  <2>3. \A d \in candidates : d \in marked /\ Served(Account[d])
    BY <2>1 DEF SuccessInv, Visited
  <2> QED BY <2>1, <2>2, <2>3 DEF SuccessInv, SuccessDrains, Served, Collecting
<1>6. ASSUME NEW a \in Accounts, Mine(a) PROVE SuccessInv'
  <2>1. UNCHANGED <<phase, candidates, todo, sent, txs, stuck, marked>>
    BY <1>6 DEF Mine, progress
  <2>2. \A b \in Accounts : /\ b # a => eth'[b] = eth[b] /\ (b \in pending <=> b \in pending')
                            /\ b = a => eth'[b] <= TxCost
    BY <1>6, CostFacts DEF Mine, TypeOK
  <2>3. \A b \in Accounts : Served(b) => Served(b)'
    BY <2>1, <2>2 DEF Served
  <2>4. Visited' = Visited /\ Visited \subseteq Dirs /\ candidates \subseteq Dirs
    BY <2>1 DEF Visited, TypeOK
  <2>5. SuccessDrains'
    BY <2>1, <2>2, <2>4 DEF SuccessInv, SuccessDrains
  <2> QED BY <2>1, <2>3, <2>4, <2>5 DEF SuccessInv
<1>7. CASE Stop
  BY <1>7 DEF Stop, SuccessInv, SuccessDrains, Collecting
<1> QED BY <1>1, <1>2, <1>3, <1>4, <1>5, <1>6, <1>7, SuccessAdvance, SuccessSend
        DEF Next, Terminated, WithdrawAll

\* A call that ends well has emptied every wallet it looked at, whatever it was
\* asked for, in whatever order its loops went and its transfers were mined.
THEOREM SuccessIsReal == Spec => []SuccessDrains
<1>1. Init => SuccessInv
  BY DEF Init, SuccessInv, SuccessDrains, Collecting
<1>2. SuccessInv => SuccessDrains
  BY DEF SuccessInv
<1> QED BY <1>1, <1>2, SuccessStep, TypeCorrect, PTL DEF Spec

-----------------------------------------------------------------------------
(* What a successful call has left behind, it has warned of.               *)

Over == phase \in {"failed", "killed"}

\* The channels a call with --reclaim-token goes through.
Both == {c \in Channels : Ends[c][1] \in Owner(candidates) /\ Ends[c][2] \in Owner(candidates)}

\* Which asset is still to be collected, by the phase the command is at.
DepositDue(d) ==
    \/ phase = "plan" /\ (d \in todo \/ Account[d] \in planned)
    \/ phase = "withdraw" /\ Account[d] \in todo
UtilityDue(d) == phase \in {"plan", "withdraw"} \/ (phase = "utility" /\ d \in todo)
ChannelDue(c) ==
    \/ phase \in {"plan", "withdraw", "utility"}
    \/ phase = "channels" /\ c \in todo \cup working
TokenDue(d) ==
    \/ phase \in {"plan", "withdraw", "utility", "channels"}
    \/ phase = "token" /\ d \in todo

\* The greenlet of the channel died, and pool.join() will not tell.
Unseen(c) == c \in died /\ (phase = "channels" \/ c \notin watched)

CollectInv ==
    /\ phase \in {"plan", "withdraw", "utility"} => from_udc
    /\ phase \in {"channels", "token"} => tokens
    /\ from_udc => \A d \in candidates :
          Account[d] \in warned \/ deposit[Account[d]] = 0 \/ DepositDue(d) \/ Over
    /\ from_udc /\ planned # {} => \A d \in candidates :
          Account[d] \in warned \/ utility[Account[d]] = 0 \/ UtilityDue(d) \/ Over
    /\ tokens => \A c \in Both :
          Ends[c][1] \in warned \/ capacity[c] = 0 \/ ChannelDue(c) \/ Unseen(c) \/ Over
    /\ tokens => \A d \in candidates :
          Account[d] \in warned \/ token[Account[d]] = 0 \/ TokenDue(d) \/ Over

\* A step that moves nothing else, in a phase it does not leave for a later one.
LEMMA CollectKept ==
    ASSUME CollectInv, UNCHANGED <<from_udc, tokens, todo, candidates, planned, warned, greenlets,
                                   deposit, utility, token, capacity>>,
           \/ phase' = phase
           \/ phase' \in {"failed", "killed"}
           \/ phase \in {"ether", "wait"} /\ phase' \in {"ether", "wait", "done"}
    PROVE  CollectInv'
BY DEF CollectInv, DepositDue, UtilityDue, ChannelDue, TokenDue, Unseen, Over, Both, Owner,
       greenlets

LEMMA CollectBegin ==
    ASSUME TypeOK, NEW udc \in BOOLEAN, NEW erc20 \in BOOLEAN, Begin(udc, erc20)
    PROVE  CollectInv'
<1>1. /\ from_udc' = udc /\ tokens' = erc20 /\ planned' = {}
      /\ phase' = IF udc THEN "plan" ELSE IF erc20 THEN "channels" ELSE "ether"
  BY DEF Begin, TokenPhase
<1>2. phase' = "plan" => todo' = candidates'
  BY DEF Begin, Visits
<1>3. phase' = "channels" => todo' = Both'
  BY <1>1 DEF Begin, Visits, Both, Owner
<1>. QED  BY <1>1, <1>2, <1>3
          DEF CollectInv, DepositDue, UtilityDue, ChannelDue, TokenDue, Unseen

LEMMA CollectAdvance ==
    ASSUME TypeOK, CollectInv, Advance
    PROVE  CollectInv'
<1>1. /\ UNCHANGED <<from_udc, tokens, candidates, planned, warned, died, watched, deposit,
                     utility, token, capacity>>
      /\ Both' = Both /\ todo = {} /\ working = {}
      /\ phase' = "failed" \/ phase' = Following
  BY DEF Advance, options, greenlets, assets, Both, Owner, TypeOK
<1>2. /\ phase' = "withdraw" => todo' = planned
      /\ phase' \in {"utility", "token"} => todo' = candidates
      /\ phase' = "channels" => todo' = Both
  BY DEF Advance, Visits, Both, Following, TokenPhase
<1>. USE DEF CollectInv, DepositDue, UtilityDue, ChannelDue, TokenDue, Unseen, Over
<1>0. CASE phase' = "failed"
  BY <1>0, <1>1
<1>3. CASE phase = "plan"
  BY <1>1, <1>2, <1>3 DEF Following, TokenPhase
<1>4. CASE phase = "withdraw"
  BY <1>1, <1>2, <1>4 DEF Following
<1>5. CASE phase = "utility"
  BY <1>1, <1>2, <1>5 DEF Following, TokenPhase
<1>6. CASE phase = "channels" /\ died \cap watched = {}
  BY <1>1, <1>2, <1>6 DEF Following
<1>7. CASE phase \in {"token", "ether"}
  BY <1>1, <1>2, <1>7 DEF Following
<1>. QED  BY <1>0, <1>3, <1>4, <1>5, <1>6, <1>7 DEF Advance

LEMMA CollectWithdraw ==
    ASSUME TypeOK, CollectInv, NEW c \in Channels, WithdrawAll(c)
    PROVE  CollectInv'
<1>. USE DEF CollectInv, DepositDue, UtilityDue, ChannelDue, TokenDue, Unseen, Over
<1>1. /\ phase = "channels" /\ Both' = Both /\ warned \subseteq warned'
      /\ UNCHANGED <<phase, from_udc, tokens, candidates, planned, deposit, utility>>
      /\ died \subseteq died'
  BY DEF WithdrawAll, SpawnWithdraw, WithdrawChannel, WithdrawFails, Discard, Visit, Call,
         options, assets, Both, Owner
<1>2. CASE WithdrawChannel(c)
  <2>1. UNCHANGED todo /\ working' = working \ {c}
    BY <1>2 DEF WithdrawChannel
  <2>2. capacity'[c] = 0 \/ Ends[c][1] \in warned'
    BY <1>2 DEF WithdrawChannel, Call, Left, TypeOK
  <2>3. \A e \in Channels \ {c} : capacity'[e] = capacity[e]
    BY <1>2 DEF WithdrawChannel, TypeOK
  <2>. QED  BY <1>1, <2>1, <2>2, <2>3 DEF Both
<1>3. CASE SpawnWithdraw(c)
  <2>1. UNCHANGED capacity /\ todo' = todo \ {c} /\ working' = working \cup {c}
    BY <1>3 DEF SpawnWithdraw, Visit, assets
  <2>. QED  BY <1>1, <2>1
<1>4. CASE WithdrawFails(c)
  <2>1. /\ UNCHANGED <<capacity, todo>>
        /\ working' = working \ {c} /\ died' = died \cup {c}
    BY <1>4 DEF WithdrawFails, assets
  <2>. QED  BY <1>1, <2>1
<1>5. CASE Discard(c)
  <2>1. UNCHANGED <<capacity, todo, working>>
    BY <1>5 DEF Discard, assets
  <2>. QED  BY <1>1, <2>1
<1>. QED  BY <1>2, <1>3, <1>4, <1>5 DEF WithdrawAll

LEMMA CollectVisit ==
    ASSUME TypeOK, CollectInv,
           \/ \E d \in Dirs : PlanWithdraw(d) \/ CollectUtility(d) \/ CollectToken(d)
           \/ \E a \in Accounts : Withdraw(a)
    PROVE  CollectInv'
<1>. USE PlaceFacts DEF Visit
<1>0. warned \subseteq warned'
  BY DEF PlanWithdraw, CollectUtility, CollectToken, Withdraw, Call
<1>1. ASSUME NEW d \in Dirs, PlanWithdraw(d) PROVE CollectInv'
  <2>1. /\ phase = "plan" /\ planned \subseteq planned' /\ todo' = todo \ {d}
        /\ UNCHANGED <<phase, from_udc, tokens, candidates, deposit>>
    BY <1>1 DEF PlanWithdraw, options
  <2>2. deposit[Account[d]] = 0 \/ Account[d] \in planned' \/ Account[d] \in warned'
    BY <1>1, CostFacts DEF PlanWithdraw, Call, TypeOK
  <2>. QED  BY <1>0, <2>1, <2>2
            DEF CollectInv, DepositDue, UtilityDue, ChannelDue, TokenDue, Unseen, Over
<1>2. ASSUME NEW a \in Accounts, Withdraw(a) PROVE CollectInv'
  <2>1. /\ phase = "withdraw" /\ todo' = todo \ {a}
        /\ UNCHANGED <<from_udc, tokens, candidates, planned, warned>>
    BY <1>2 DEF Withdraw, options
  <2>2. \/ phase' = "failed"
        \/ /\ phase' = phase /\ deposit'[a] = 0
           /\ \A b \in Accounts \ {a} : deposit'[b] = deposit[b]
    BY <1>2 DEF Withdraw, TypeOK
  <2>. QED  BY <2>1, <2>2
            DEF CollectInv, DepositDue, UtilityDue, ChannelDue, TokenDue, Unseen, Over,
                TypeOK
<1>3. ASSUME NEW d \in Dirs, CollectUtility(d) PROVE CollectInv'
  <2>1. /\ phase = "utility" /\ todo' = todo \ {d}
        /\ UNCHANGED <<phase, from_udc, tokens, candidates, planned, deposit>>
    BY <1>3 DEF CollectUtility, options
  <2>2. utility'[Account[d]] = 0 \/ Account[d] \in warned'
    BY <1>3 DEF CollectUtility, Call, Left, TypeOK
  <2>3. \A b \in Accounts \ {Account[d]} : utility'[b] = utility[b]
    BY <1>3 DEF CollectUtility, TypeOK
  <2>. QED  BY <1>0, <2>1, <2>2, <2>3
            DEF CollectInv, DepositDue, UtilityDue, ChannelDue, TokenDue, Unseen, Over,
                TypeOK
<1>4. ASSUME NEW d \in Dirs, CollectToken(d) PROVE CollectInv'
  <2>1. /\ phase = "token" /\ todo' = todo \ {d} /\ Both' = Both
        /\ UNCHANGED <<phase, from_udc, tokens, candidates, planned, deposit, utility,
                       capacity, died, watched>>
    BY <1>4 DEF CollectToken, options, greenlets, Both, Owner
  <2>2. token'[Account[d]] = 0 \/ Account[d] \in warned'
    BY <1>4 DEF CollectToken, Call, Left, TypeOK
  <2>3. \A b \in Accounts \ {Account[d]} : token'[b] = token[b]
    BY <1>4 DEF CollectToken, TypeOK
  <2>. QED  BY <1>0, <2>1, <2>2, <2>3
            DEF CollectInv, DepositDue, UtilityDue, ChannelDue, TokenDue, Unseen, Over,
                TypeOK
<1>. QED  BY <1>1, <1>2, <1>3, <1>4

LEMMA CollectStep == TypeOK /\ CollectInv /\ [Next]_vars => CollectInv'
<1>. SUFFICES ASSUME TypeOK, CollectInv, [Next]_vars PROVE CollectInv'
  OBVIOUS
<1>1. CASE UNCHANGED vars
  BY <1>1, CollectKept DEF vars, options, progress, assets
<1>2. ASSUME NEW d \in Dirs, SendEther(d) PROVE CollectInv'
  BY <1>2, CollectKept DEF SendEther, options, progress, assets
<1>3. CASE Mark
  <2>1. /\ phase = "ether" /\ todo' = todo \ sent
        /\ UNCHANGED <<phase, from_udc, tokens, candidates, planned, warned, greenlets,
                       deposit, utility, token, capacity>>
    BY <1>3 DEF Mark, options, assets
  <2>. QED  BY <2>1
            DEF CollectInv, DepositDue, UtilityDue, ChannelDue, TokenDue, Unseen, Over, Both,
                Owner, greenlets
<1>4. CASE Wait  BY <1>4, CollectKept DEF Wait, options, progress, assets
<1>5. CASE Stop  BY <1>5, CollectKept DEF Stop, options, progress, assets
<1>6. ASSUME NEW a \in Accounts, Mine(a) PROVE CollectInv'
  BY <1>6, CollectKept DEF Mine, options, progress, assets
<1>. QED  BY <1>1, <1>2, <1>3, <1>4, <1>5, <1>6, CollectBegin, CollectAdvance, CollectVisit,
          CollectWithdraw DEF Next, Terminated, WithdrawAll

\* Deposits, utility tokens, channels and network tokens that a successful call was
\* asked for and left behind belong to accounts it has warned of, but for the
\* channels whose greenlets died before withdraw_all's pool.join() could see them.
THEOREM LeftoversKnown == Spec => []LeftoversWarned
<1>1. Init => CollectInv
  BY DEF Init, CollectInv
<1>2. TypeOK /\ CollectInv => LeftoversWarned
  <2>. SUFFICES ASSUME TypeOK, CollectInv, phase = "done" PROVE LeftoversWarned
    BY DEF LeftoversWarned
  <2>1. ASSUME NEW d \in candidates, Account[d] \notin warned
        PROVE  /\ from_udc => deposit[Account[d]] = 0
               /\ from_udc /\ planned # {} => utility[Account[d]] = 0
               /\ tokens => token[Account[d]] = 0
    BY <2>1 DEF CollectInv, DepositDue, UtilityDue, TokenDue, Over
  <2>2. tokens => \A c \in Both :
          capacity[c] = 0 \/ Ends[c][1] \in warned \/ c \in died \ watched
    BY DEF CollectInv, ChannelDue, Unseen, Over
  <2>3. Visits("channels", candidates, {}) = Both
    BY DEF Visits, Both
  <2>. QED  BY <2>1, <2>2, <2>3 DEF LeftoversWarned, Owner
<1>. QED  BY <1>1, <1>2, CollectStep, TypeCorrect, PTL DEF Spec
=============================================================================
