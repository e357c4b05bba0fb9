--------------------------- MODULE FundingProofs ---------------------------
(***************************************************************************)
(* For every number of nodes, every start of the chain and whatever order  *)
(* the greenlets run in: the types; that no node is topped up beyond       *)
(* max_funding; that the root task meets an underfunded node only when the *)
(* pool has lost the error of its greenlet; and, when max_funding is       *)
(* balance_per_node (the default) and the chain rejects nothing the        *)
(* deposits need, that none of them lacks tokens or allowance.             *)
(***************************************************************************)
EXTENDS Funding, FiniteSetTheorems, TLAPS

LEMMA JobFacts ==
    /\ \A n \in Nodes : /\ <<"eth", n>> \in Jobs /\ <<"deposit", n>> \in Jobs
                        /\ <<"token", n>> \in Jobs
    /\ Mint \in Jobs /\ Approve \in Jobs
    /\ \A n \in Nodes : <<"deposit", n>> \notin {Mint, Approve}
    /\ Mint # Approve
BY DEF Jobs, NodeJobs, Mint, Approve

LEMMA RequiredType == Cardinality(Nodes) \in Nat /\ Required \in Nat
BY FS_CardinalityType, FundingAssumption DEF Required

-----------------------------------------------------------------------------
(* Type correctness.                                                       *)

JobType ==
    job \in [Jobs -> {"unborn", "read", "send", "raise", "ok", "failed"}]

LEMMA EndType ==
    ASSUME JobType, NEW j, NEW how \in {"send", "raise", "ok", "failed"}, End(j, how)
    PROVE  JobType'
BY DEF JobType, End

LEMMA DecideType ==
    ASSUME TypeOK, NEW j \in Jobs, NEW enough, NEW topup, enough \/ topup \in Nat,
           Decide(j, enough, topup)
    PROVE  TypeOK'
<1>1. JobType'
  BY EndType DEF Decide, TypeOK, JobType
<1>2. amount' \in [Jobs -> Nat]
  BY DEF Decide, TypeOK
<1> QED BY <1>1, <1>2 DEF Decide, TypeOK, JobType, mainVars, chainVars

LEMMA MainType ==
    ASSUME TypeOK, Main \/ SetupFails
    PROVE  TypeOK'
<1>1. ASSUME NEW S \in SUBSET Jobs, Start(S) PROVE JobType' /\ pool' \in SUBSET Jobs
  BY <1>1 DEF Start, TypeOK, JobType
<1>2. /\ {"eth"} \X Nodes \in SUBSET Jobs /\ {"token"} \X Nodes \in SUBSET Jobs
      /\ {Mint, Approve} \cup ({"deposit"} \X Nodes) \in SUBSET Jobs
  BY DEF Jobs, NodeJobs
<1>3. CASE SpawnEther
  BY <1>1, <1>2, <1>3 DEF SpawnEther, Start, TypeOK, JobType, chainVars
<1>4. CASE SpawnDeposits
  BY <1>1, <1>2, <1>4 DEF SpawnDeposits, Start, TypeOK, JobType, chainVars
<1>5. CASE SpawnTokens
  BY <1>1, <1>2, <1>5 DEF SpawnTokens, Start, TypeOK, JobType, chainVars
<1>6. CASE JoinReturn \/ SetupFails
  BY <1>6 DEF JoinReturn, SetupFails, TypeOK, chainVars
<1> QED BY <1>3, <1>4, <1>5, <1>6 DEF Main

LEMMA OrchestratorType ==
    ASSUME TypeOK, OrchestratorStep
    PROVE  TypeOK'
<1> USE JobFacts, FundingAssumption
<1>1. CASE MintRead
  <2>1. utility >= Required \/ MintTo - utility \in Nat
    BY RequiredType DEF TypeOK
  <2> QED BY <1>1, <2>1, DecideType DEF MintRead
<1>2. CASE MintSend
  <2>1. JobType'
    BY <1>2, EndType DEF MintSend, TypeOK, JobType
  <2>2. utility' \in Nat
    BY <1>2 DEF MintSend, TypeOK
  <2> QED BY <1>2, <2>1, <2>2 DEF MintSend, TypeOK, JobType, mainVars
<1>3. CASE AllowanceRead
  BY <1>3, DecideType DEF AllowanceRead
<1>4. CASE AllowanceZero
  <2>1. JobType'
    BY <1>4, EndType DEF AllowanceZero, TypeOK, JobType
  <2> QED BY <1>4, <2>1 DEF AllowanceZero, TypeOK, JobType, mainVars
<1>5. CASE AllowanceRaise
  <2>1. JobType'
    BY <1>5, EndType DEF AllowanceRaise, TypeOK, JobType
  <2>2. allowance' \in Nat
    BY <1>5 DEF AllowanceRaise, TypeOK
  <2> QED BY <1>5, <2>1, <2>2 DEF AllowanceRaise, TypeOK, JobType, mainVars
<1> QED BY <1>1, <1>2, <1>3, <1>4, <1>5 DEF OrchestratorStep

LEMMA NodeType ==
    ASSUME TypeOK, NEW n \in Nodes, NodeStep(n)
    PROVE  TypeOK'
<1> USE JobFacts, FundingAssumption
<1>1. CASE EtherRead(n)
  <2>1. ether[n] >= EtherMin \/ EtherFund - ether[n] \in Nat
    BY DEF TypeOK
  <2> QED BY <1>1, <2>1, DecideType DEF EtherRead
<1>2. CASE EtherSend(n)
  <2>1. JobType'
    BY <1>2, EndType DEF EtherSend, TypeOK, JobType
  <2>2. ether' \in [Nodes \cup {Orchestrator} -> Nat]
    <3> DEFINE x == amount[<<"eth", n>>]
    <3>1. /\ x \in Nat /\ ether \in [Nodes \cup {Orchestrator} -> Nat]
          /\ n \in Nodes \cup {Orchestrator} /\ Orchestrator \in Nodes \cup {Orchestrator}
          /\ n # Orchestrator
      BY DEF TypeOK
    <3>2. CASE /\ ether[Orchestrator] >= x
               /\ ether' = [ether EXCEPT ![n] = @ + x, ![Orchestrator] = @ - x]
      <4> HIDE DEF x
      <4>1. ether[n] + x \in Nat /\ ether[Orchestrator] - x \in Nat
        BY <3>1, <3>2
      <4> QED BY <3>1, <3>2, <4>1
    <3> QED BY <1>2, <3>1, <3>2 DEF EtherSend
  <2> QED BY <1>2, <2>1, <2>2 DEF EtherSend, TypeOK, JobType, mainVars
<1>3. CASE DepositRead(n)
  <2>1. Effective(n) >= BalancePerNode \/ MaxFunding - Effective(n) \in Nat
    BY DEF TypeOK, Effective
  <2> QED BY <1>3, <2>1, DecideType DEF DepositRead
<1>4. CASE DepositSend(n)
  <2>1. JobType'
    BY <1>4, EndType DEF DepositSend, Transfer, TypeOK, JobType
  <2>2. utility' \in Nat /\ allowance' \in Nat /\ deposit' \in [Nodes -> Nat]
    <3> DEFINE x == amount[<<"deposit", n>>]
    <3>1. x \in Nat /\ utility \in Nat /\ allowance \in Nat /\ deposit \in [Nodes -> Nat]
      BY DEF TypeOK
    <3>2. CASE UNCHANGED <<utility, allowance, deposit>>
      BY <3>1, <3>2
    <3>3. CASE /\ utility >= x /\ allowance >= x
               /\ utility' = utility - x /\ allowance' = allowance - x
               /\ deposit' = [deposit EXCEPT ![n] = @ + x]
      <4> HIDE DEF x
      <4> QED BY <3>1, <3>3
    <3> QED BY <1>4, <3>2, <3>3 DEF DepositSend, Transfer
  <2> QED BY <1>4, <2>1, <2>2 DEF DepositSend, TypeOK, JobType, mainVars
<1>5. CASE TokenRead(n)
  <2>1. token[n] >= TokenMin \/ TokenMax - token[n] \in Nat
    BY DEF TypeOK
  <2> QED BY <1>5, <2>1, DecideType DEF TokenRead
<1>6. CASE TokenSend(n)
  <2>1. JobType'
    BY <1>6, EndType DEF TokenSend, TypeOK, JobType
  <2>2. token' \in [Nodes -> Nat]
    <3>1. amount[<<"token", n>>] \in Nat /\ token \in [Nodes -> Nat]
      BY DEF TypeOK
    <3>2. token' = [token EXCEPT ![n] = @ + amount[<<"token", n>>]]
      BY <1>6 DEF TokenSend
    <3> QED BY <3>1, <3>2
  <2> QED BY <1>6, <2>1, <2>2 DEF TokenSend, TypeOK, JobType, mainVars
<1> QED BY <1>1, <1>2, <1>3, <1>4, <1>5, <1>6 DEF NodeStep

LEMMA TypeStep == TypeOK /\ [Next]_vars => TypeOK'
<1> SUFFICES ASSUME TypeOK, [Next]_vars PROVE TypeOK'
  OBVIOUS
<1>1. ASSUME NEW j \in Jobs, Discard(j) PROVE TypeOK'
  BY <1>1 DEF Discard, TypeOK, chainVars
<1>2. ASSUME NEW j \in Jobs, Reject(j) PROVE TypeOK'
  <2>1. JobType'
    BY <1>2, EndType DEF Reject, TypeOK, JobType
  <2> QED BY <1>2, <2>1 DEF Reject, TypeOK, JobType, mainVars, chainVars
<1>3. CASE UNCHANGED vars
  BY <1>3 DEF vars, mainVars, chainVars, TypeOK
<1> QED BY <1>1, <1>2, <1>3, MainType, OrchestratorType, NodeType DEF Next, Terminated

LEMMA InitType == Init => TypeOK
<1> SUFFICES ASSUME Init PROVE TypeOK
  OBVIOUS
<1>1. /\ job \in [Jobs -> {"unborn", "read", "send", "raise", "ok", "failed"}]
      /\ amount \in [Jobs -> Nat] /\ pool \in SUBSET Jobs /\ watched \in SUBSET Jobs
  BY DEF Init
<1>2. /\ ether \in [Nodes \cup {Orchestrator} -> Nat]
      /\ utility \in Nat /\ allowance \in Nat
      /\ deposit \in [Nodes -> Nat] /\ token \in [Nodes -> Nat]
  BY FundingAssumption DEF Init
<1> QED BY <1>1, <1>2 DEF Init, TypeOK

\* Every balance and every amount sent is a natural number: no transaction of
\* the set-up takes from an account more than it has.
THEOREM TypeCorrect == Spec => []TypeOK
BY InitType, TypeStep, PTL DEF Spec

-----------------------------------------------------------------------------
(* Every deposit is covered.                                               *)

DepositJob(n) == <<"deposit", n>>

\* The default of udc.token.max_funding.
DefaultFunding == MaxFunding = BalancePerNode

\* The chain takes the approval, the minting and the deposits.
ChainAccepts == /\ Mint \notin MayFail /\ Approve \notin MayFail
                /\ \A n \in Nodes : DepositJob(n) \notin MayFail

\* The nodes whose deposit is still to be made or to be found unnecessary.
Pending == {n \in Nodes : ~Ended(DepositJob(n))}

\* One balance_per_node is set aside for each pending node.
Reserve == BalancePerNode * Cardinality(Pending)

CoveredInv ==
    /\ \A n \in Nodes :
          /\ job[DepositJob(n)] # "failed"
          /\ job[DepositJob(n)] = "send" => amount[DepositJob(n)] <= BalancePerNode
          /\ deposit[n] >= Spent[n]
    /\ job[Mint] # "failed" /\ job[Approve] # "failed" /\ job[Mint] # "raise"
    /\ job[Mint] = "send" => utility + amount[Mint] >= Required
    /\ job[Mint] = "ok" => utility >= Reserve
    /\ job[Approve] \in {"send", "raise"} => amount[Approve] >= Required
    /\ job[Approve] = "ok" => allowance >= Reserve

LEMMA Times ==
    ASSUME NEW a \in Nat, NEW b \in Nat, NEW c \in Nat
    PROVE  /\ c * a \in Nat
           /\ a <= b => c * a <= c * b
           /\ c * (a + 1) = c * a + c
OBVIOUS

LEMMA Paid ==
    ASSUME NEW u \in Nat, NEW r, NEW s \in Nat, NEW x \in Nat, NEW b \in Nat,
           u >= r, r = s + b, x <= b
    PROVE  u - x >= s
OBVIOUS

LEMMA ReserveFacts ==
    /\ Reserve \in Nat /\ Reserve <= Required
    /\ IsFiniteSet(Pending) /\ Cardinality(Pending) \in Nat
<1>1. /\ IsFiniteSet(Pending) /\ Cardinality(Pending) \in Nat
      /\ Cardinality(Pending) <= Cardinality(Nodes)
  BY FS_Subset, FS_CardinalityType, FundingAssumption DEF Pending
<1> QED BY <1>1, Times, RequiredType, FundingAssumption DEF Reserve, Required

LEMMA ReserveShrinks ==
    ASSUME TypeOK, NEW n \in Nodes, n \in Pending, Pending' = Pending \ {n}
    PROVE  Reserve = Reserve' + BalancePerNode /\ Reserve' \in Nat
<1>1. /\ Cardinality(Pending \ {n}) = Cardinality(Pending) - 1
      /\ IsFiniteSet(Pending \ {n})
  BY ReserveFacts, FS_RemoveElement
<1>2. Cardinality(Pending') \in Nat /\ Cardinality(Pending) = Cardinality(Pending') + 1
  BY <1>1, ReserveFacts, FS_CardinalityType
<1> QED BY <1>2, Times, FundingAssumption DEF Reserve

\* A step that ends no deposit keeps what the deposits need.
LEMMA ReserveKept ==
    ASSUME \A n \in Nodes : Ended(DepositJob(n))' <=> Ended(DepositJob(n))
    PROVE  Reserve' = Reserve
<1>1. Pending' = Pending
  BY DEF Pending
<1> QED BY <1>1 DEF Reserve

LEMMA OrchestratorCovered ==
    ASSUME TypeOK, CoveredInv, OrchestratorStep
    PROVE  CoveredInv'
<1>1. \A n \in Nodes : job'[DepositJob(n)] = job[DepositJob(n)]
  BY JobFacts DEF OrchestratorStep, MintRead, MintSend, AllowanceRead, AllowanceZero,
                  AllowanceRaise, Decide, End, TypeOK, DepositJob
<1>2. Reserve' = Reserve
  BY <1>1, ReserveKept DEF Ended
<1>3. \A n \in Nodes : amount'[DepositJob(n)] = amount[DepositJob(n)]
  BY JobFacts DEF OrchestratorStep, MintRead, MintSend, AllowanceRead, AllowanceZero,
                  AllowanceRaise, Decide, TypeOK, DepositJob
<1>4. UNCHANGED deposit
  BY DEF OrchestratorStep, MintRead, MintSend, AllowanceRead, AllowanceZero,
         AllowanceRaise, Decide, chainVars
<1> USE <1>1, <1>2, <1>3, <1>4, JobFacts, ReserveFacts, RequiredType, FundingAssumption
<1>5. CASE MintRead
  BY <1>5 DEF MintRead, Decide, End, CoveredInv, TypeOK, chainVars
<1>6. CASE MintSend
  BY <1>6 DEF MintSend, End, CoveredInv, TypeOK
<1>7. CASE AllowanceRead
  BY <1>7 DEF AllowanceRead, Decide, End, CoveredInv, TypeOK, chainVars
<1>8. CASE AllowanceZero
  BY <1>8 DEF AllowanceZero, End, CoveredInv, TypeOK
<1>9. CASE AllowanceRaise
  BY <1>9 DEF AllowanceRaise, End, CoveredInv, TypeOK
<1> QED BY <1>5, <1>6, <1>7, <1>8, <1>9 DEF OrchestratorStep

\* A step of the chain's jobs that the deposits do not depend on.
Unrelated ==
    /\ \A j \in {Mint, Approve} \cup {DepositJob(n) : n \in Nodes} :
          /\ job'[j] = job[j] \/ (job[j] = "unborn" /\ job'[j] = "read")
          /\ amount'[j] = amount[j]
    /\ UNCHANGED <<utility, allowance, deposit>>

LEMMA UnrelatedCovered ==
    ASSUME TypeOK, CoveredInv, Unrelated
    PROVE  CoveredInv'
<1>1. \A n \in Nodes : Ended(DepositJob(n))' <=> Ended(DepositJob(n))
  BY DEF Unrelated, Ended
<1> QED BY <1>1, ReserveKept DEF Unrelated, CoveredInv

\* A job is spawned once: only an unborn one becomes ready to read.
SpawnInv ==
    /\ phase = "start" => \A j \in Jobs : job[j] = "unborn"
    /\ phase = "udc" => \A j \in Jobs \ ({"eth"} \X Nodes) : job[j] = "unborn"
    /\ phase = "token" => \A j \in {"token"} \X Nodes : job[j] = "unborn"

LEMMA SpawnStep == TypeOK /\ SpawnInv /\ [Next]_vars => SpawnInv'
<1> SUFFICES ASSUME TypeOK, SpawnInv, [Next]_vars PROVE SpawnInv'
  OBVIOUS
<1>1. CASE Main \/ SetupFails
  <2>1. ({"eth"} \X Nodes) \cap ({"token"} \X Nodes) = {}
    OBVIOUS
  <2>2. ({Mint, Approve} \cup ({"deposit"} \X Nodes)) \cap ({"token"} \X Nodes) = {}
    BY DEF Mint, Approve
  <2>3. {"token"} \X Nodes \subseteq Jobs
    BY DEF Jobs, NodeJobs
  <2> QED BY <1>1, <2>1, <2>2, <2>3 DEF Main, SetupFails, SpawnEther, SpawnDeposits,
             SpawnTokens, JoinReturn, Start, SpawnInv, TypeOK
<1>2. ASSUME NEW j \in Jobs, job[j] # "unborn", UNCHANGED phase,
             \A k \in Jobs \ {j} : job'[k] = job[k]
      PROVE  SpawnInv'
  <2>1. {"token"} \X Nodes \subseteq Jobs
    BY DEF Jobs, NodeJobs
  <2> QED BY <1>2, <2>1 DEF SpawnInv
<1>3. CASE OrchestratorStep
  <2>1. PICK j \in {Mint, Approve} : /\ job[j] # "unborn" /\ UNCHANGED phase
                                     /\ \A k \in Jobs \ {j} : job'[k] = job[k]
    BY <1>3 DEF OrchestratorStep, MintRead, MintSend, AllowanceRead, AllowanceZero,
                AllowanceRaise, Decide, End, mainVars, TypeOK
  <2> QED BY <1>2, <2>1, JobFacts
<1>4. ASSUME NEW n \in Nodes, NodeStep(n) PROVE SpawnInv'
  <2>1. PICK j \in {<<"eth", n>>, <<"deposit", n>>, <<"token", n>>} :
           /\ job[j] # "unborn" /\ UNCHANGED phase
           /\ \A k \in Jobs \ {j} : job'[k] = job[k]
    BY <1>4 DEF NodeStep, EtherRead, EtherSend, DepositRead, DepositSend, Transfer,
                TokenRead, TokenSend, Decide, End, mainVars, TypeOK
  <2> QED BY <1>2, <2>1, JobFacts
<1>5. ASSUME NEW j \in Jobs, Discard(j) \/ Reject(j) PROVE SpawnInv'
  <2>1. CASE Reject(j)
    BY <1>2, <2>1 DEF Reject, End, mainVars, TypeOK
  <2>2. CASE Discard(j)
    BY <2>2 DEF Discard, SpawnInv
  <2> QED BY <1>5, <2>1, <2>2
<1>6. CASE UNCHANGED vars
  BY <1>6 DEF vars, mainVars, SpawnInv
<1> QED BY <1>1, <1>3, <1>4, <1>5, <1>6 DEF Next, Terminated

LEMMA MainCovered ==
    ASSUME TypeOK, SpawnInv, CoveredInv, Main \/ SetupFails
    PROVE  CoveredInv'
<1>1. \A n \in Nodes : /\ DepositJob(n) \in Jobs
                       /\ DepositJob(n) \notin {"eth"} \X Nodes
                       /\ DepositJob(n) \notin {"token"} \X Nodes
  BY JobFacts DEF DepositJob
<1>2. {Mint, Approve} \cap (({"eth"} \X Nodes) \cup ({"token"} \X Nodes)) = {}
  BY DEF Mint, Approve
<1>3. UNCHANGED amount /\ UNCHANGED <<utility, allowance, deposit>>
  BY DEF Main, SetupFails, SpawnEther, SpawnDeposits, SpawnTokens, JoinReturn, Start,
         chainVars
<1>4. ASSUME NEW j \in {Mint, Approve} \cup {DepositJob(n) : n \in Nodes}
      PROVE  job'[j] = job[j] \/ (job[j] = "unborn" /\ job'[j] = "read")
  <2>1. /\ j \in Jobs /\ j \notin {"eth"} \X Nodes /\ j \notin {"token"} \X Nodes
    BY <1>1, <1>2, JobFacts
  <2> QED BY <2>1 DEF Main, SetupFails, SpawnEther, SpawnDeposits, SpawnTokens,
             JoinReturn, Start, SpawnInv, TypeOK
<1> QED BY <1>3, <1>4, UnrelatedCovered DEF Unrelated

LEMMA NodeCovered ==
    ASSUME DefaultFunding, TypeOK, CoveredInv, NEW n \in Nodes, NodeStep(n)
    PROVE  CoveredInv'
<1> USE JobFacts, FundingAssumption
<1> DEFINE d == DepositJob(n)
<1>1. CASE EtherRead(n) \/ EtherSend(n) \/ TokenRead(n) \/ TokenSend(n)
  <2>1. ASSUME NEW j \in {Mint, Approve} \cup {DepositJob(m) : m \in Nodes}
        PROVE  j \in Jobs /\ j # <<"eth", n>> /\ j # <<"token", n>>
    <3>1. j \in {Mint, Approve} \/ \E m \in Nodes : j = <<"deposit", m>>
      BY DEF DepositJob
    <3>2. CASE j \in {Mint, Approve}
      BY <3>2 DEF Mint, Approve
    <3>3. ASSUME NEW m \in Nodes, j = <<"deposit", m>>
          PROVE  j \in Jobs /\ j # <<"eth", n>> /\ j # <<"token", n>>
      BY <3>3
    <3> QED BY <3>1, <3>2, <3>3
  <2>2. PICK k \in {<<"eth", n>>, <<"token", n>>} :
           \A j \in Jobs \ {k} : job'[j] = job[j] /\ amount'[j] = amount[j]
    <3>1. CASE EtherRead(n) \/ EtherSend(n)
      <4>1. \A j \in Jobs \ {<<"eth", n>>} : job'[j] = job[j] /\ amount'[j] = amount[j]
        BY <3>1 DEF EtherRead, EtherSend, Decide, End, TypeOK
      <4> QED BY <4>1
    <3>2. CASE TokenRead(n) \/ TokenSend(n)
      <4>1. \A j \in Jobs \ {<<"token", n>>} : job'[j] = job[j] /\ amount'[j] = amount[j]
        BY <3>2 DEF TokenRead, TokenSend, Decide, End, TypeOK
      <4> QED BY <4>1
    <3> QED BY <1>1, <3>1, <3>2
  <2>3. UNCHANGED <<utility, allowance, deposit>>
    BY <1>1 DEF EtherRead, EtherSend, TokenRead, TokenSend, Decide, chainVars
  <2>4. Unrelated
    BY <2>1, <2>2, <2>3 DEF Unrelated
  <2> QED BY <2>4, UnrelatedCovered
<1>2. ASSUME \A m \in Nodes \ {n} : UNCHANGED <<job[DepositJob(m)]>>,
             Ended(d)'
      PROVE  Pending' = Pending \ {n}
  BY <1>2 DEF Pending, Ended
<1>3. CASE DepositRead(n)
  <2>1. /\ job[d] = "read"
        /\ \A j \in Jobs \ {d} : job'[j] = job[j] /\ amount'[j] = amount[j]
        /\ UNCHANGED <<utility, allowance, deposit>>
    BY <1>3 DEF DepositRead, Decide, End, TypeOK, chainVars, DepositJob
  <2>2. \A m \in Nodes \ {n} : DepositJob(m) \in Jobs \ {d}
    BY DEF DepositJob
  <2>3. d \in Jobs /\ Mint \in Jobs \ {d} /\ Approve \in Jobs \ {d}
    BY DEF DepositJob
  <2>4. CASE job'[d] = "ok"
    <3>1. n \in Pending /\ Pending' = Pending \ {n}
      BY <1>2, <2>1, <2>2, <2>4 DEF Ended, Pending
    <3>2. Reserve = Reserve' + BalancePerNode /\ Reserve' \in Nat
      BY <3>1, ReserveShrinks
    <3> HIDE DEF d
    <3> QED BY <2>1, <2>2, <2>3, <2>4, <3>2 DEF CoveredInv, TypeOK, d
  <2>5. CASE job'[d] = "send" /\ amount'[d] = MaxFunding - Effective(n)
    <3>1. amount'[d] <= BalancePerNode
      BY <2>5 DEF DefaultFunding, Effective, CoveredInv, TypeOK
    <3>2. \A m \in Nodes : Ended(DepositJob(m))' <=> Ended(DepositJob(m))
      BY <2>1, <2>2, <2>5 DEF Ended
    <3>3. Reserve' = Reserve
      BY <3>2, ReserveKept
    <3> QED BY <2>1, <2>2, <2>3, <2>5, <3>1, <3>3 DEF CoveredInv, TypeOK
  <2> QED BY <1>3, <2>3, <2>4, <2>5 DEF DepositRead, Decide, End, TypeOK, DepositJob
<1>4. CASE DepositSend(n)
  <2>1. /\ job[d] = "send" /\ job[Mint] = "ok" /\ job[Approve] = "ok" /\ Transfer(n)
        /\ UNCHANGED amount
    BY <1>4 DEF DepositSend, CoveredInv, DepositJob
  <2>2. n \in Pending /\ amount[d] \in Nat /\ amount[d] <= BalancePerNode /\ d \in Jobs
    BY <2>1 DEF Pending, Ended, CoveredInv, TypeOK, DepositJob
  <2>3. Reserve >= BalancePerNode
    <3>1. Cardinality(Pending) \in Nat \ {0}
      BY <2>2, ReserveFacts, FS_EmptySet
    <3>2. Cardinality(Pending) - 1 \in Nat
      BY <3>1
    <3>3. Reserve = BalancePerNode * (Cardinality(Pending) - 1) + BalancePerNode
      BY <3>1, <3>2, Times DEF Reserve
    <3> QED BY <3>2, <3>3, Times
  <2>4. utility >= amount[d] /\ allowance >= amount[d]
    BY <2>1, <2>2, <2>3, ReserveFacts DEF CoveredInv, TypeOK
  <2>5. /\ utility' = utility - amount[d] /\ allowance' = allowance - amount[d]
        /\ deposit' = [deposit EXCEPT ![n] = @ + amount[d]]
        /\ job' = [job EXCEPT ![d] = "ok"]
    <3>1. utility \in Nat /\ allowance \in Nat /\ amount[d] \in Nat
      BY <2>2 DEF TypeOK
    <3>2. ~(utility < amount[d]) /\ ~(allowance < amount[d])
      BY <2>4, <3>1
    <3> QED BY <2>1, <3>2 DEF Transfer, End, DepositJob
  <2>6. Pending' = Pending \ {n}
    <3>1. \A m \in Nodes \ {n} : DepositJob(m) # d
      BY DEF DepositJob
    <3>2. Ended(d)' /\ \A m \in Nodes \ {n} : job'[DepositJob(m)] = job[DepositJob(m)]
      BY <2>2, <2>5, <3>1 DEF Ended, TypeOK
    <3> QED BY <1>2, <3>2
  <2>7. Reserve = Reserve' + BalancePerNode /\ Reserve' \in Nat
    BY <2>2, <2>6, ReserveShrinks
  <2>8. Mint # d /\ Approve # d
    BY DEF DepositJob
  <2>9. utility' >= Reserve' /\ allowance' >= Reserve'
    <3>1. utility >= Reserve /\ allowance >= Reserve
      BY <2>1 DEF CoveredInv
    <3>2. utility \in Nat /\ allowance \in Nat /\ BalancePerNode \in Nat
      BY FundingAssumption DEF TypeOK
    <3>3. utility - amount[d] >= Reserve' /\ allowance - amount[d] >= Reserve'
      BY <2>2, <2>7, <3>1, <3>2, Paid
    <3> QED BY <2>5, <3>3
  <2>10. \A m \in Nodes : /\ job'[DepositJob(m)] # "failed"
                          /\ job'[DepositJob(m)] = "send" => job[DepositJob(m)] = "send"
                          /\ deposit'[m] >= Spent[m]
    <3>1. \A m \in Nodes : DepositJob(m) \in Jobs
      BY JobFacts DEF DepositJob
    <3>2. \A j \in Jobs : job'[j] = job[j] \/ job'[j] = "ok"
      BY <2>2, <2>5 DEF TypeOK
    <3>3. ASSUME NEW m \in Nodes PROVE deposit'[m] >= Spent[m]
      <4>1. deposit[m] >= Spent[m] /\ deposit[m] \in Nat /\ Spent[m] \in Nat
        BY FundingAssumption DEF CoveredInv, TypeOK
      <4>2. deposit'[m] = deposit[m] \/ deposit'[m] = deposit[m] + amount[d]
        BY <2>5 DEF TypeOK
      <4> HIDE DEF d
      <4> QED BY <2>2, <4>1, <4>2
    <3> QED BY <3>1, <3>2, <3>3 DEF CoveredInv
  <2> HIDE DEF d
  <2> QED BY <2>1, <2>2, <2>5, <2>8, <2>9, <2>10 DEF CoveredInv, TypeOK
<1> QED BY <1>1, <1>3, <1>4 DEF NodeStep

LEMMA CoveredStep ==
    ASSUME DefaultFunding, ChainAccepts
    PROVE  TypeOK /\ SpawnInv /\ CoveredInv /\ [Next]_vars => CoveredInv'
<1> SUFFICES ASSUME TypeOK, SpawnInv, CoveredInv, [Next]_vars PROVE CoveredInv'
  OBVIOUS
<1>1. ASSUME NEW j \in Jobs, Discard(j) PROVE CoveredInv'
  <2>1. Unrelated
    BY <1>1 DEF Discard, Unrelated, chainVars
  <2> QED BY <2>1, UnrelatedCovered
<1>2. ASSUME NEW j \in Jobs, Reject(j) PROVE CoveredInv'
  <2>1. j \notin {Mint, Approve} /\ \A n \in Nodes : j # DepositJob(n)
    BY <1>2 DEF ChainAccepts, Reject
  <2>2. Unrelated
    BY <1>2, <2>1, JobFacts DEF Reject, End, Unrelated, chainVars, TypeOK, DepositJob
  <2> QED BY <2>2, UnrelatedCovered
<1>3. CASE UNCHANGED vars
  <2>1. Unrelated
    BY <1>3 DEF vars, chainVars, Unrelated
  <2> QED BY <2>1, UnrelatedCovered
<1> QED BY <1>1, <1>2, <1>3, MainCovered, OrchestratorCovered, NodeCovered
        DEF Next, Terminated

\* With the default max_funding and a chain that rejects nothing, the account
\* never lacks the tokens or the allowance for a deposit, for any number of
\* nodes, any start of the chain and any order of the greenlets.
THEOREM Covered ==
    ASSUME DefaultFunding, ChainAccepts
    PROVE  Spec => []DepositsCovered
<1>1. Init => TypeOK /\ SpawnInv /\ CoveredInv
  <2> SUFFICES ASSUME Init PROVE TypeOK /\ SpawnInv /\ CoveredInv
    OBVIOUS
  <2>1. \A j \in Jobs : job[j] = "unborn"
    BY DEF Init
  <2>2. \A n \in Nodes : deposit[n] >= Spent[n] /\ DepositJob(n) \in Jobs
    BY FundingAssumption, JobFacts DEF Init, DepositJob
  <2>3. SpawnInv
    BY <2>1 DEF Init, SpawnInv, Jobs, NodeJobs
  <2>4. CoveredInv
    BY <2>1, <2>2, JobFacts DEF CoveredInv
  <2> QED BY <2>3, <2>4, InitType
<1>2. CoveredInv => DepositsCovered
  BY DEF CoveredInv, DepositsCovered, DepositJob
<1> QED BY <1>1, <1>2, TypeStep, SpawnStep, CoveredStep, PTL DEF Spec

-----------------------------------------------------------------------------
(* The root task meets an underfunded node only through an error that the   *)
(* pool has lost.                                                          *)

EtherJob(n) == <<"eth", n>>
TokenJob(n) == <<"token", n>>

\* What was spawned by when, and what the pool and join know of it.
PoolInv ==
    /\ phase \in {"udc", "token", "join", "running"} =>
          \A n \in Nodes : job[EtherJob(n)] # "unborn"
    /\ UdcEnabled /\ phase \in {"token", "join", "running"} =>
          \A n \in Nodes : job[DepositJob(n)] # "unborn"
    /\ phase \in {"join", "running"} => \A n \in Nodes : job[TokenJob(n)] # "unborn"
    /\ \A j \in Jobs \ pool : job[j] = "unborn" \/ Ended(j)
    /\ phase \in {"join", "running"} => {"token"} \X Nodes \subseteq watched
    /\ phase = "running" => pool = {} /\ \A j \in watched : job[j] # "failed"

\* A greenlet that is done has left its node with enough, one that is about to
\* send sends enough.
LevelInv ==
    \A n \in Nodes :
       /\ job[EtherJob(n)] = "ok"     => ether[n] >= EtherMin
       /\ job[EtherJob(n)] = "send"   => ether[n] + amount[EtherJob(n)] >= EtherMin
       /\ job[DepositJob(n)] = "ok"   => Effective(n) >= BalancePerNode
       /\ job[DepositJob(n)] = "send" =>
             Effective(n) + amount[DepositJob(n)] >= BalancePerNode
       /\ job[TokenJob(n)] = "ok"     => token[n] >= TokenMin
       /\ job[TokenJob(n)] = "send"   => token[n] + amount[TokenJob(n)] >= TokenMin

LEMMA KindFacts ==
    /\ \A n \in Nodes : /\ EtherJob(n) \in Jobs /\ DepositJob(n) \in Jobs
                        /\ TokenJob(n) \in Jobs
    /\ \A n, m \in Nodes : /\ EtherJob(n) # DepositJob(m)
                           /\ EtherJob(n) # TokenJob(m)
                           /\ DepositJob(n) # TokenJob(m)
                           /\ n # m => /\ EtherJob(n) # EtherJob(m)
                                       /\ DepositJob(n) # DepositJob(m)
                                       /\ TokenJob(n) # TokenJob(m)
    /\ \A n \in Nodes : {EtherJob(n), DepositJob(n), TokenJob(n)} \cap {Mint, Approve} = {}
BY JobFacts DEF EtherJob, DepositJob, TokenJob, Mint, Approve

\* A step of a greenlet moves one job that was under way, and the orchestration
\* greenlet and the pool stand still.
Moves(j) ==
    /\ job[j] \in {"read", "send", "raise"}
    /\ job' = [job EXCEPT ![j] = job'[j]]
    /\ job'[j] \in {"send", "raise", "ok", "failed"}
    /\ UNCHANGED mainVars

LEMMA OrchestratorMoves ==
    ASSUME TypeOK, OrchestratorStep
    PROVE  \E j \in {Mint, Approve} : Moves(j)
<1>1. ASSUME MintRead \/ MintSend PROVE Moves(Mint)
  BY <1>1, JobFacts DEF MintRead, MintSend, Decide, End, TypeOK, Moves
<1>2. ASSUME AllowanceRead \/ AllowanceZero \/ AllowanceRaise PROVE Moves(Approve)
  BY <1>2, JobFacts DEF AllowanceRead, AllowanceZero, AllowanceRaise, Decide, End,
                        TypeOK, Moves
<1> QED BY <1>1, <1>2 DEF OrchestratorStep

LEMMA NodeMoves ==
    ASSUME TypeOK, NEW n \in Nodes
    PROVE  /\ EtherRead(n) \/ EtherSend(n) => Moves(EtherJob(n))
           /\ DepositRead(n) \/ DepositSend(n) => Moves(DepositJob(n))
           /\ TokenRead(n) \/ TokenSend(n) => Moves(TokenJob(n))
<1> USE KindFacts
<1>1. ASSUME EtherRead(n) \/ EtherSend(n) PROVE Moves(EtherJob(n))
  BY <1>1 DEF EtherRead, EtherSend, Decide, End, TypeOK, Moves, EtherJob
<1>2. ASSUME DepositRead(n) \/ DepositSend(n) PROVE Moves(DepositJob(n))
  BY <1>2 DEF DepositRead, DepositSend, Transfer, Decide, End, TypeOK, Moves, DepositJob
<1>3. ASSUME TokenRead(n) \/ TokenSend(n) PROVE Moves(TokenJob(n))
  BY <1>3 DEF TokenRead, TokenSend, Decide, End, TypeOK, Moves, TokenJob
<1> QED BY <1>1, <1>2, <1>3

LEMMA RejectMoves ==
    ASSUME TypeOK, NEW j \in Jobs, Reject(j)
    PROVE  Moves(j)
BY DEF Reject, End, TypeOK, Moves

LEMMA PoolMoves ==
    ASSUME TypeOK, PoolInv, NEW j \in Jobs, Moves(j)
    PROVE  PoolInv'
<1>1. j \in pool /\ phase # "running"
  BY DEF PoolInv, Moves, Ended
<1>2. \A k \in Jobs : /\ job'[k] = job[k] \/ k = j
                      /\ job'[k] = "unborn" => job[k] = "unborn"
  BY DEF Moves, TypeOK
<1>3. UNCHANGED <<phase, pool, watched>>
  BY DEF Moves, mainVars
<1> QED BY <1>1, <1>2, <1>3, KindFacts DEF PoolInv, Ended

LEMMA PoolMain ==
    ASSUME TypeOK, PoolInv, Main \/ SetupFails
    PROVE  PoolInv'
<1> USE KindFacts
<1>1. \A n \in Nodes : /\ EtherJob(n) \in {"eth"} \X Nodes
                       /\ DepositJob(n) \in {"deposit"} \X Nodes
                       /\ TokenJob(n) \in {"token"} \X Nodes
  BY DEF EtherJob, DepositJob, TokenJob
<1>2. ASSUME NEW S \in SUBSET Jobs, Start(S)
      PROVE  /\ \A j \in Jobs : job'[j] = IF j \in S THEN "read" ELSE job[j]
             /\ pool' = pool \cup S
             /\ \A j \in Jobs \ pool' : job'[j] = "unborn" \/ Ended(j)'
  BY <1>2 DEF Start, PoolInv, Ended
<1>3. /\ {"eth"} \X Nodes \in SUBSET Jobs /\ {"token"} \X Nodes \in SUBSET Jobs
      /\ {Mint, Approve} \cup ({"deposit"} \X Nodes) \in SUBSET Jobs
  BY DEF Jobs, NodeJobs
<1>4. CASE SpawnEther
  BY <1>1, <1>2, <1>3, <1>4 DEF SpawnEther, PoolInv
<1>5. CASE SpawnDeposits
  BY <1>1, <1>2, <1>3, <1>5 DEF SpawnDeposits, PoolInv
<1>6. CASE SpawnTokens
  <2>1. /\ phase = "token" /\ phase' = "join" /\ watched' = pool'
        /\ Start({"token"} \X Nodes)
    BY <1>6 DEF SpawnTokens
  <2>2. /\ \A j \in Jobs : job'[j] = IF j \in {"token"} \X Nodes THEN "read" ELSE job[j]
        /\ pool' = pool \cup ({"token"} \X Nodes)
        /\ \A j \in Jobs \ pool' : job'[j] = "unborn" \/ Ended(j)'
    BY <1>2, <1>3, <2>1
  <2> QED BY <1>1, <2>1, <2>2 DEF PoolInv
<1>7. CASE JoinReturn
  BY <1>7 DEF JoinReturn, PoolInv, Ended
<1>8. CASE SetupFails
  BY <1>8 DEF SetupFails, PoolInv, Ended
<1> QED BY <1>4, <1>5, <1>6, <1>7, <1>8 DEF Main

LEMMA PoolStep == TypeOK /\ PoolInv /\ [Next]_vars => PoolInv'
<1> SUFFICES ASSUME TypeOK, PoolInv, [Next]_vars PROVE PoolInv'
  OBVIOUS
<1>1. CASE OrchestratorStep
  BY <1>1, OrchestratorMoves, PoolMoves, JobFacts
<1>2. ASSUME NEW n \in Nodes, NodeStep(n) PROVE PoolInv'
  BY <1>2, NodeMoves, PoolMoves, KindFacts DEF NodeStep
<1>3. ASSUME NEW j \in Jobs, Reject(j) PROVE PoolInv'
  BY <1>3, RejectMoves, PoolMoves
<1>4. ASSUME NEW j \in Jobs, Discard(j) PROVE PoolInv'
  BY <1>4 DEF Discard, PoolInv, Ended
<1>5. CASE UNCHANGED vars
  BY <1>5 DEF vars, mainVars, PoolInv, Ended
<1> QED BY <1>1, <1>2, <1>3, <1>4, <1>5, PoolMain DEF Next, Terminated

\* A step that only spawns greenlets, or ends some with an error.
Idles ==
    /\ \A j \in Jobs : job'[j] = job[j] \/ job'[j] \in {"read", "failed"}
    /\ UNCHANGED <<amount, chainVars>>

LEMMA IdlesLevel ==
    ASSUME LevelInv, Idles
    PROVE  LevelInv'
BY KindFacts DEF LevelInv, Idles, chainVars, Effective

LEMMA MainIdles ==
    ASSUME TypeOK, Main \/ SetupFails
    PROVE  Idles
BY DEF Main, SetupFails, SpawnEther, SpawnDeposits, SpawnTokens, JoinReturn, Start,
       Idles, TypeOK, chainVars

LEMMA OrchestratorLevel ==
    ASSUME TypeOK, LevelInv, OrchestratorStep
    PROVE  LevelInv'
<1>1. \A n \in Nodes : \A j \in {EtherJob(n), DepositJob(n), TokenJob(n)} :
         job'[j] = job[j] /\ amount'[j] = amount[j]
  <2>1. \A j \in Jobs \ {Mint, Approve} : job'[j] = job[j] /\ amount'[j] = amount[j]
    BY DEF OrchestratorStep, MintRead, MintSend, AllowanceRead, AllowanceZero,
           AllowanceRaise, Decide, End, TypeOK
  <2> QED BY <2>1, KindFacts
<1>2. UNCHANGED <<ether, deposit, token>>
  BY DEF OrchestratorStep, MintRead, MintSend, AllowanceRead, AllowanceZero,
         AllowanceRaise, Decide, chainVars
<1> QED BY <1>1, <1>2 DEF LevelInv, Effective

LEMMA NodeLevel ==
    ASSUME TypeOK, LevelInv, NEW n \in Nodes, NodeStep(n)
    PROVE  LevelInv'
<1> USE KindFacts, FundingAssumption
<1>0. ASSUME NEW k \in {EtherJob(n), DepositJob(n), TokenJob(n)}, Moves(k),
             \A j \in Jobs \ {k} : amount'[j] = amount[j],
             \A m \in Nodes \ {n} : /\ ether'[m] = ether[m] /\ deposit'[m] = deposit[m]
                                    /\ token'[m] = token[m],
             k # EtherJob(n) => ether'[n] = ether[n],
             k # DepositJob(n) => deposit'[n] = deposit[n],
             k # TokenJob(n) => token'[n] = token[n],
             /\ k = EtherJob(n) => /\ job'[k] = "ok" => ether'[n] >= EtherMin
                                   /\ job'[k] = "send" => ether'[n] + amount'[k] >= EtherMin
             /\ k = DepositJob(n) => /\ job'[k] = "ok" => Effective(n)' >= BalancePerNode
                                     /\ job'[k] = "send" =>
                                           Effective(n)' + amount'[k] >= BalancePerNode
             /\ k = TokenJob(n) => /\ job'[k] = "ok" => token'[n] >= TokenMin
                                   /\ job'[k] = "send" => token'[n] + amount'[k] >= TokenMin
      PROVE  LevelInv'
  <2>1. \A j \in Jobs \ {k} : job'[j] = job[j] /\ amount'[j] = amount[j]
    BY <1>0 DEF Moves, TypeOK
  <2>2. ASSUME NEW m \in Nodes
        PROVE  /\ job'[EtherJob(m)] = "ok"   => ether'[m] >= EtherMin
               /\ job'[EtherJob(m)] = "send" => ether'[m] + amount'[EtherJob(m)] >= EtherMin
    <3>1. CASE EtherJob(m) = k
      BY <1>0, <3>1
    <3>2. CASE EtherJob(m) # k
      BY <1>0, <2>1, <3>2 DEF LevelInv
    <3> QED BY <3>1, <3>2
  <2>3. ASSUME NEW m \in Nodes
        PROVE  /\ job'[DepositJob(m)] = "ok"   => Effective(m)' >= BalancePerNode
               /\ job'[DepositJob(m)] = "send" =>
                     Effective(m)' + amount'[DepositJob(m)] >= BalancePerNode
    <3>1. CASE DepositJob(m) = k
      BY <1>0, <3>1
    <3>2. CASE DepositJob(m) # k
      BY <1>0, <2>1, <3>2 DEF LevelInv, Effective
    <3> QED BY <3>1, <3>2
  <2>4. ASSUME NEW m \in Nodes
        PROVE  /\ job'[TokenJob(m)] = "ok"   => token'[m] >= TokenMin
               /\ job'[TokenJob(m)] = "send" => token'[m] + amount'[TokenJob(m)] >= TokenMin
    <3>1. CASE TokenJob(m) = k
      BY <1>0, <3>1
    <3>2. CASE TokenJob(m) # k
      BY <1>0, <2>1, <3>2 DEF LevelInv
    <3> QED BY <3>1, <3>2
  <2> QED BY <2>2, <2>3, <2>4 DEF LevelInv
<1>1. CASE EtherRead(n)
  <2> DEFINE k == EtherJob(n)
  <2>1. /\ \A j \in Jobs \ {k} : amount'[j] = amount[j]
        /\ UNCHANGED chainVars
    BY <1>1 DEF EtherRead, Decide, TypeOK, EtherJob
  <2>2. /\ job'[k] = "ok" => ether[n] >= EtherMin
        /\ job'[k] = "send" => amount'[k] = EtherFund - ether[n]
    BY <1>1 DEF EtherRead, Decide, End, TypeOK, EtherJob
  <2>3. job'[k] = "send" => ether[n] + amount'[k] >= EtherMin
    BY <2>2 DEF TypeOK
  <2> QED BY <1>0, <1>1, <2>1, <2>2, <2>3, NodeMoves DEF chainVars
<1>2. CASE EtherSend(n)
  <2> DEFINE k == EtherJob(n)
  <2>1. /\ UNCHANGED <<amount, deposit, token>> /\ job[k] = "send"
        /\ \A m \in Nodes \ {n} : ether'[m] = ether[m]
        /\ job'[k] = "ok" => ether'[n] = ether[n] + amount[k]
        /\ job'[k] # "send"
    BY <1>2 DEF EtherSend, End, TypeOK, EtherJob
  <2> QED BY <1>0, <1>2, <2>1, NodeMoves DEF LevelInv
<1>3. CASE DepositRead(n)
  <2> DEFINE k == DepositJob(n)
  <2>1. /\ \A j \in Jobs \ {k} : amount'[j] = amount[j]
        /\ UNCHANGED chainVars
    BY <1>3 DEF DepositRead, Decide, TypeOK, DepositJob
  <2>2. /\ job'[k] = "ok" => Effective(n) >= BalancePerNode
        /\ job'[k] = "send" => amount'[k] = MaxFunding - Effective(n)
    BY <1>3 DEF DepositRead, Decide, End, TypeOK, DepositJob
  <2>3. Effective(n) \in Int /\ Effective(n)' = Effective(n)
    BY <2>1 DEF Effective, TypeOK, chainVars
  <2>4. job'[k] = "send" => Effective(n)' + amount'[k] >= BalancePerNode
    BY <2>2, <2>3
  <2> QED BY <1>0, <1>3, <2>1, <2>2, <2>3, <2>4, NodeMoves DEF chainVars
<1>4. CASE DepositSend(n)
  <2> DEFINE k == DepositJob(n)
  <2>1. /\ UNCHANGED <<amount, ether, token>> /\ job[k] = "send"
        /\ \A m \in Nodes \ {n} : deposit'[m] = deposit[m]
        /\ job'[k] = "ok" => deposit'[n] = deposit[n] + amount[k]
        /\ job'[k] # "send"
    BY <1>4 DEF DepositSend, Transfer, End, TypeOK, DepositJob
  <2>2. job'[k] = "ok" => Effective(n)' >= BalancePerNode
    <3>1. Effective(n) + amount[k] >= BalancePerNode
      BY <2>1 DEF LevelInv
    <3>2. deposit[n] \in Nat /\ Spent[n] \in Nat /\ amount[k] \in Nat
      BY DEF TypeOK
    <3> QED BY <2>1, <3>1, <3>2 DEF Effective
  <2> QED BY <1>0, <1>4, <2>1, <2>2, NodeMoves
<1>5. CASE TokenRead(n)
  <2> DEFINE k == TokenJob(n)
  <2>1. /\ \A j \in Jobs \ {k} : amount'[j] = amount[j]
        /\ UNCHANGED chainVars
    BY <1>5 DEF TokenRead, Decide, TypeOK, TokenJob
  <2>2. /\ job'[k] = "ok" => token[n] >= TokenMin
        /\ job'[k] = "send" => amount'[k] = TokenMax - token[n]
    BY <1>5 DEF TokenRead, Decide, End, TypeOK, TokenJob
  <2>3. job'[k] = "send" => token[n] + amount'[k] >= TokenMin
    BY <2>2 DEF TypeOK
  <2> QED BY <1>0, <1>5, <2>1, <2>2, <2>3, NodeMoves DEF chainVars
<1>6. CASE TokenSend(n)
  <2> DEFINE k == TokenJob(n)
  <2>1. /\ UNCHANGED <<amount, ether, deposit>> /\ job[k] = "send"
        /\ \A m \in Nodes \ {n} : token'[m] = token[m]
        /\ token'[n] = token[n] + amount[k]
        /\ job'[k] = "ok"
    BY <1>6 DEF TokenSend, End, TypeOK, TokenJob
  <2> QED BY <1>0, <1>6, <2>1, NodeMoves DEF LevelInv
<1> QED BY <1>1, <1>2, <1>3, <1>4, <1>5, <1>6 DEF NodeStep

LEMMA LevelStep == TypeOK /\ LevelInv /\ [Next]_vars => LevelInv'
<1> SUFFICES ASSUME TypeOK, LevelInv, [Next]_vars PROVE LevelInv'
  OBVIOUS
<1>1. ASSUME NEW j \in Jobs, Discard(j) \/ Reject(j) PROVE Idles
  BY <1>1 DEF Discard, Reject, End, Idles, chainVars, TypeOK
<1>2. CASE UNCHANGED vars
  BY <1>2 DEF vars, chainVars, LevelInv, Effective
<1> QED BY <1>1, <1>2, IdlesLevel, MainIdles, OrchestratorLevel, NodeLevel
        DEF Next, Terminated

\* For any number of nodes, any amounts and whatever the chain rejects: the root
\* task meets a node without its ether or its deposit only if the greenlet that
\* should have funded it had died and left the pool before the last greenlets were
\* spawned, and it meets no node without its network tokens.
THEOREM UnderfundedOnlyIfLost == Spec => []FundedUnlessLost
<1>1. Init => PoolInv /\ LevelInv
  <2> SUFFICES ASSUME Init PROVE PoolInv /\ LevelInv
    OBVIOUS
  <2>1. \A j \in Jobs : job[j] = "unborn"
    BY DEF Init
  <2> QED BY <2>1, KindFacts DEF Init, PoolInv, LevelInv
<1>2. TypeOK /\ PoolInv /\ LevelInv => FundedUnlessLost
  <2> SUFFICES ASSUME TypeOK, PoolInv, LevelInv, phase = "running", NEW n \in Nodes
               PROVE  /\ ether[n] >= EtherMin \/ Lost(EtherJob(n))
                      /\ UdcEnabled =>
                            Effective(n) >= BalancePerNode \/ Lost(DepositJob(n))
                      /\ token[n] >= TokenMin
    BY DEF FundedUnlessLost, EtherJob, DepositJob
  <2>1. /\ job[EtherJob(n)] = "ok" \/ Lost(EtherJob(n))
        /\ UdcEnabled => job[DepositJob(n)] = "ok" \/ Lost(DepositJob(n))
    BY KindFacts DEF PoolInv, Ended, Lost
  <2>2. job[TokenJob(n)] = "ok"
    BY KindFacts DEF PoolInv, Ended, TokenJob
  <2> QED BY <2>1, <2>2 DEF LevelInv
<1> QED BY <1>1, <1>2, InitType, TypeStep, PoolStep, LevelStep, PTL DEF Spec

-----------------------------------------------------------------------------
(* No node is topped up beyond max_funding.                                *)

\* Only the node's own greenlet changes its deposit, so what it has read is still so
\* when its transaction is made.
TopUpInv ==
    \A n \in Nodes : job[DepositJob(n)] = "send" =>
        Effective(n) + amount[DepositJob(n)] = MaxFunding

\* A step that leaves the deposit of this node and the greenlet that makes it alone,
\* but for its start and its end.
DepositStays(n) ==
    /\ deposit'[n] = deposit[n]
    /\ job'[DepositJob(n)] = "send" =>
          job[DepositJob(n)] = "send" /\ UNCHANGED amount[DepositJob(n)]

\* A step that makes no deposit and decides on none.
LEMMA TopUpIdle ==
    ASSUME TypeOK, [Next]_vars, ~\E n \in Nodes : DepositRead(n) \/ DepositSend(n)
    PROVE  \A n \in Nodes : DepositStays(n)
<1> USE KindFacts
<1> SUFFICES /\ UNCHANGED deposit
             /\ \A n \in Nodes : job'[DepositJob(n)] = "send" =>
                   /\ job[DepositJob(n)] = "send"
                   /\ amount'[DepositJob(n)] = amount[DepositJob(n)]
  BY DEF DepositStays
<1>1. CASE Main \/ SetupFails
  BY <1>1, MainIdles DEF Idles, chainVars
<1>2. CASE OrchestratorStep
  <2>1. \A j \in Jobs \ {Mint, Approve} : job'[j] = job[j] /\ amount'[j] = amount[j]
    BY <1>2 DEF OrchestratorStep, MintRead, MintSend, AllowanceRead, AllowanceZero,
                AllowanceRaise, Decide, End, TypeOK
  <2>2. UNCHANGED deposit
    BY <1>2 DEF OrchestratorStep, MintRead, MintSend, AllowanceRead, AllowanceZero,
                AllowanceRaise, Decide, chainVars
  <2> QED BY <2>1, <2>2
<1>3. ASSUME NEW n \in Nodes, EtherRead(n) \/ EtherSend(n) \/ TokenRead(n) \/ TokenSend(n)
      PROVE  /\ UNCHANGED deposit
             /\ \A m \in Nodes : UNCHANGED <<job[DepositJob(m)], amount[DepositJob(m)]>>
  BY <1>3 DEF EtherRead, EtherSend, TokenRead, TokenSend, Decide, End, TypeOK, chainVars,
              EtherJob, TokenJob, DepositJob
<1>4. ASSUME NEW j \in Jobs, Discard(j) \/ Reject(j)
      PROVE  /\ UNCHANGED <<deposit, amount>>
             /\ \A i \in Jobs : job'[i] = "send" => job[i] = "send"
  BY <1>4 DEF Discard, Reject, End, TypeOK, chainVars
<1>5. CASE UNCHANGED vars
  BY <1>5 DEF vars, chainVars
<1> QED BY <1>1, <1>2, <1>3, <1>4, <1>5 DEF Next, NodeStep, Terminated

LEMMA TopUpStep ==
    ASSUME TypeOK, TopUpInv, [Next]_vars
    PROVE  /\ TopUpInv'
           /\ \A n \in Nodes : deposit'[n] # deposit[n] => Effective(n)' <= MaxFunding
<1> USE KindFacts, FundingAssumption
<1>1. CASE ~\E n \in Nodes : DepositRead(n) \/ DepositSend(n)
  BY <1>1, TopUpIdle DEF TopUpInv, DepositStays, Effective
<1>2. ASSUME NEW n \in Nodes, DepositRead(n) \/ DepositSend(n)
      PROVE  /\ TopUpInv'
             /\ \A m \in Nodes : deposit'[m] # deposit[m] => Effective(m)' <= MaxFunding
  <2> DEFINE k == DepositJob(n)
  <2>1. \A m \in Nodes \ {n} : DepositStays(m)
    BY <1>2 DEF DepositRead, DepositSend, Transfer, Decide, End, TypeOK, chainVars,
                DepositStays, DepositJob
  <2>2. CASE DepositRead(n)
    <3>1. /\ job'[k] = "send" => amount'[k] = MaxFunding - Effective(n)
          /\ UNCHANGED deposit
      BY <2>2 DEF DepositRead, Decide, End, TypeOK, chainVars, DepositJob
    <3>2. Effective(n) \in Int
      BY DEF Effective, TypeOK
    <3>3. job'[k] = "send" => Effective(n)' + amount'[k] = MaxFunding
      BY <3>1, <3>2 DEF Effective
    <3> QED BY <2>1, <3>1, <3>3 DEF TopUpInv, DepositStays, Effective
  <2>3. CASE DepositSend(n)
    <3>1. /\ job[k] = "send" /\ job'[k] # "send"
          /\ deposit'[n] \in {deposit[n], deposit[n] + amount[k]}
      BY <2>3 DEF DepositSend, Transfer, End, TypeOK, DepositJob
    <3>2. /\ deposit[n] \in Nat /\ Spent[n] \in Nat /\ amount[k] \in Nat
          /\ Effective(n) + amount[k] = MaxFunding
      BY <3>1 DEF TypeOK, TopUpInv
    <3>3. deposit'[n] # deposit[n] => Effective(n)' <= MaxFunding
      BY <3>1, <3>2 DEF Effective
    <3> QED BY <2>1, <3>1, <3>3 DEF TopUpInv, DepositStays, Effective
  <2> QED BY <1>2, <2>2, <2>3
<1> QED BY <1>1, <1>2

\* No deposit takes a node beyond max_funding, whatever the chain rejects and however
\* much time passes between the look at the deposit and the transaction.
THEOREM NotOverfunded == Spec => NoOverfunding
<1>1. Init => TopUpInv
  BY KindFacts DEF Init, TopUpInv
<1> QED BY <1>1, TopUpStep, TypeCorrect, PTL DEF Spec, NoOverfunding
=============================================================================
