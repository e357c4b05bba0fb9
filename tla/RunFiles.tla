------------------------------ MODULE RunFiles ------------------------------
(***************************************************************************)
(* The files that give a run its identity, as successive and concurrent    *)
(* runs of the scenario player leave them: seed.txt (one per               *)
(* installation), run_number.txt and token.info (one per scenario), and    *)
(* the key store of each node's data directory (runner.py, node_support.py,*)
(* utils/token.py, utils/configuration/token.py).                          *)
(*                                                                         *)
(* Each run is an operating system process that may be killed anywhere.    *)
(* Path.write_text truncates the file, then writes it: a file is Missing,  *)
(* Empty, or holds what was written.                                       *)
(***************************************************************************)
EXTENDS Integers, FiniteSets, TransferIdentifier

CONSTANTS
    Runs,           \* the runs, numbered in the order they are started
    Scenarios,
    Scenario,       \* the scenario of each run
    ReuseAccounts,  \* the scenarios with nodes.reuse_accounts
    ReuseToken,     \* the scenarios with token.reuse
    Count,          \* nodes.count
    Hash,           \* the hash of the name of each scenario
    Transfers,      \* bound on the transfers of a run
    Overlapping,    \* may two runs of one scenario overlap?
    MaxCrashes,     \* bound on the runs that are killed
    Missing,        \* the content of a file that does not exist
    Empty           \* the content of a file that was truncated and not written

ASSUME RunAssumption ==
    /\ Runs \subseteq Nat /\ IsFiniteSet(Runs)
    /\ Scenario \in [Runs -> Scenarios]
    /\ ReuseAccounts \subseteq Scenarios /\ ReuseToken \subseteq Scenarios
    \* The sixteen bits of the hash tell the scenarios of an installation apart.
    /\ Hash \in [Scenarios -> Hashes]
    /\ \A s, t \in Scenarios : Hash[s] = Hash[t] => s = t
    /\ Transfers \in Nat
    /\ Count \in Nat /\ Overlapping \in BOOLEAN /\ MaxCrashes \in Nat
    /\ Missing # Empty /\ Missing \notin Nat /\ Empty \notin Nat

VARIABLES
    pc,            \* where each run stands, also after it has ended
    fate,          \* live, crashed (killed) or failed (an exception)
    seed,          \* seed.txt: who wrote it
    run_number,    \* run_number.txt of each scenario
    token_info,    \* token.info of each scenario: the run that deployed the token
    keystore,      \* the key of each data directory
    number,        \* the run number of each run
    index,         \* the node its start-up is at
    privkey,       \* the key it is about to store
    token          \* the token it uses

files  == <<seed, run_number, token_info, keystore>>
locals == <<number, index, privkey, token>>
vars   == <<pc, fate, files, locals>>

Indices == 0..(Count - 1)
Numbers == 0..Cardinality(Runs)

\* NodeRunner.datadir
Dir(s, n, i) == IF s \in ReuseAccounts THEN <<s, i>> ELSE <<s, n, i>>
Dirs == {Dir(s, n, i) : s \in Scenarios, n \in Numbers, i \in Indices}

\* What a key is derived from: the seed, the scenario, the run and the node.
Keys == (Runs \cup {Empty}) \X Scenarios \X Numbers \X Indices
Lost == {Missing, Empty}

ASSUME ContentAssumption == Keys \cap Lost = {}

\* TransferTask.__init__: what the transfers of a run are identified by.
Identifiers == [s \in Scenarios |-> [n \in Numbers |-> [i \in 1..Transfers |->
                  Identifier(Hash[s], n, i)]]]

Init ==
    /\ pc = [p \in Runs |-> "new"]
    /\ fate = [p \in Runs |-> "live"]
    /\ seed = Missing
    /\ run_number = [s \in Scenarios |-> Missing]
    /\ token_info = [s \in Scenarios |-> Missing]
    /\ keystore = [d \in Dirs |-> Missing]
    /\ number = [p \in Runs |-> 0]
    /\ index = [p \in Runs |-> 0]
    /\ privkey = [p \in Runs |-> Missing]
    /\ token = [p \in Runs |-> Missing]

Ended(p) == fate[p] # "live" \/ pc[p] = "end"
At(p, place) == pc[p] = place /\ fate[p] = "live"
Goto(p, place) == pc' = [pc EXCEPT ![p] = place] /\ UNCHANGED fate
Raise(p) == fate' = [fate EXCEPT ![p] = "failed"] /\ UNCHANGED pc

-----------------------------------------------------------------------------
(* TokenConfig.validate: the scenario definition is loaded first.          *)

Load(p) ==
    /\ At(p, "new")
    /\ ~Overlapping => \A q \in Runs :
          q < p /\ Scenario[q] = Scenario[p] => Ended(q)
    /\ IF token_info[Scenario[p]] = Empty THEN Raise(p) ELSE Goto(p, "seed")
    /\ UNCHANGED <<files, locals>>

(* ScenarioRunner.local_seed, called in __init__; a seed that exists is    *)
(* only logged.                                                            *)

\* Mutant: no seed is made.
SeedCheckSkip(p) ==
    /\ At(p, "seed") /\ Goto(p, "number")
    /\ UNCHANGED <<files, locals>>

SeedCheck(p) ==
    /\ At(p, "seed")
    /\ Goto(p, IF seed = Missing THEN "seed_open" ELSE "number")
    /\ UNCHANGED <<files, locals>>

SeedOpen(p) ==
    /\ At(p, "seed_open") /\ Goto(p, "seed_write")
    /\ seed' = Empty
    /\ UNCHANGED <<run_number, token_info, keystore, locals>>

SeedWrite(p) ==
    /\ At(p, "seed_write") /\ Goto(p, "number")
    /\ seed' = p
    /\ UNCHANGED <<run_number, token_info, keystore, locals>>

(* determine_run_number                                                    *)

\* Mutant: an empty file is read as no run yet.
NumberReadLenient(p) ==
    LET content == run_number[Scenario[p]] IN
    /\ At(p, "number") /\ Goto(p, "number_open")
    /\ number' = [number EXCEPT ![p] =
                    IF content \in {Missing, Empty} THEN 0 ELSE content + 1]
    /\ UNCHANGED <<files, index, privkey, token>>

\* Mutant: the first run of a scenario is forgotten.
NumberReadStrict(p) ==
    LET content == run_number[Scenario[p]] IN
    /\ At(p, "number")
    /\ IF content \in {Missing, Empty}
       THEN Raise(p) /\ UNCHANGED number
       ELSE Goto(p, "number_open") /\ number' = [number EXCEPT ![p] = content + 1]
    /\ UNCHANGED <<files, index, privkey, token>>

NumberRead(p) ==
    LET content == run_number[Scenario[p]] IN
    /\ At(p, "number")
    /\ IF content = Empty
       THEN Raise(p) /\ UNCHANGED number
       ELSE /\ Goto(p, "number_open")
            /\ number' = [number EXCEPT ![p] =
                            IF content = Missing THEN 0 ELSE content + 1]
    /\ UNCHANGED <<files, index, privkey, token>>

NumberOpen(p) ==
    /\ At(p, "number_open") /\ Goto(p, "number_write")
    /\ run_number' = [run_number EXCEPT ![Scenario[p]] = Empty]
    /\ UNCHANGED <<seed, token_info, keystore, locals>>

NumberWrite(p) ==
    /\ At(p, "number_write") /\ Goto(p, "keys")
    /\ run_number' = [run_number EXCEPT ![Scenario[p]] = number[p]]
    /\ UNCHANGED <<seed, token_info, keystore, locals>>

-----------------------------------------------------------------------------
(* NodeRunner._keystore_file, of one node after the other.                 *)

MyDir(p) == Dir(Scenario[p], number[p], index[p])

\* Mutant: a key store that exists is replaced.
KeyCheckAlways(p) ==
    /\ At(p, "keys") /\ index[p] \in Indices
    /\ Goto(p, "key_seed")
    /\ UNCHANGED <<files, locals>>

KeyCheck(p) ==
    /\ At(p, "keys") /\ index[p] \in Indices
    /\ IF keystore[MyDir(p)] = Missing
       THEN Goto(p, "key_seed") /\ UNCHANGED index
       ELSE index' = [index EXCEPT ![p] = @ + 1] /\ UNCHANGED <<pc, fate>>
    /\ UNCHANGED <<files, number, privkey, token>>

KeySeed(p) ==
    /\ At(p, "key_seed") /\ Goto(p, "key_open")
    /\ privkey' = [privkey EXCEPT ![p] = <<seed, Scenario[p], number[p], index[p]>>]
    /\ UNCHANGED <<files, number, index, token>>

KeyOpen(p) ==
    /\ At(p, "key_open") /\ Goto(p, "key_write")
    /\ keystore' = [keystore EXCEPT ![MyDir(p)] = Empty]
    /\ UNCHANGED <<seed, run_number, token_info, locals>>

KeyWrite(p) ==
    /\ At(p, "key_write") /\ Goto(p, "keys")
    /\ keystore' = [keystore EXCEPT ![MyDir(p)] = privkey[p]]
    /\ index' = [index EXCEPT ![p] = @ + 1]
    /\ UNCHANGED <<seed, run_number, token_info, number, privkey, token>>

MyKeys(p) == {keystore[Dir(Scenario[p], number[p], i)] : i \in Indices}

\* Starting the nodes reads their addresses from the key stores.
StartNodes(p) ==
    /\ At(p, "keys") /\ index[p] \notin Indices
    /\ IF Empty \in MyKeys(p) THEN Raise(p) ELSE Goto(p, "token")
    /\ UNCHANGED <<files, locals>>

-----------------------------------------------------------------------------
(* setup_token_contract_for_token_network                                  *)

\* Mutant: the saved token is not looked for.
TokenCheckDeploy(p) ==
    /\ At(p, "token") /\ Goto(p, "deploy")
    /\ UNCHANGED <<files, locals>>

TokenCheck(p) ==
    LET s == Scenario[p] IN
    /\ At(p, "token")
    /\ IF s \in ReuseToken /\ token_info[s] # Missing
       THEN IF token_info[s] = Empty
            THEN Raise(p) /\ UNCHANGED token
            ELSE Goto(p, "running") /\ token' = [token EXCEPT ![p] = token_info[s]]
       ELSE Goto(p, "deploy") /\ UNCHANGED token
    /\ UNCHANGED <<files, number, index, privkey>>

Deploy(p) ==
    /\ At(p, "deploy")
    /\ Goto(p, IF Scenario[p] \in ReuseToken THEN "token_open" ELSE "running")
    /\ token' = [token EXCEPT ![p] = p]
    /\ UNCHANGED <<files, number, index, privkey>>

TokenOpen(p) ==
    /\ At(p, "token_open") /\ Goto(p, "token_write")
    /\ token_info' = [token_info EXCEPT ![Scenario[p]] = Empty]
    /\ UNCHANGED <<seed, run_number, keystore, locals>>

TokenWrite(p) ==
    /\ At(p, "token_write") /\ Goto(p, "running")
    /\ token_info' = [token_info EXCEPT ![Scenario[p]] = token[p]]
    /\ UNCHANGED <<seed, run_number, keystore, locals>>

End(p) ==
    /\ At(p, "running") /\ Goto(p, "end")
    /\ UNCHANGED <<files, locals>>

\* The process is killed: what it wrote stays.
Crash(p) ==
    /\ ~Ended(p) /\ pc[p] # "new"
    /\ Cardinality({q \in Runs : fate[q] = "crashed"}) < MaxCrashes
    /\ fate' = [fate EXCEPT ![p] = "crashed"]
    /\ UNCHANGED <<pc, files, locals>>

-----------------------------------------------------------------------------

Step(p) ==
    \/ Load(p)
    \/ SeedCheck(p) \/ SeedOpen(p) \/ SeedWrite(p)
    \/ NumberRead(p) \/ NumberOpen(p) \/ NumberWrite(p)
    \/ KeyCheck(p) \/ KeySeed(p) \/ KeyOpen(p) \/ KeyWrite(p) \/ StartNodes(p)
    \/ TokenCheck(p) \/ Deploy(p) \/ TokenOpen(p) \/ TokenWrite(p)
    \/ End(p) \/ Crash(p)

Terminated == (\A p \in Runs : Ended(p)) /\ UNCHANGED vars

Next == (\E p \in Runs : Step(p)) \/ Terminated

Spec == Init /\ [][Next]_vars

-----------------------------------------------------------------------------
(* Properties                                                              *)

HasNumber(p) == pc[p] \in {"keys", "key_seed", "key_open", "key_write", "token",
                           "deploy", "token_open", "token_write", "running", "end"}
Places == {"new", "seed", "seed_open", "seed_write", "number", "number_open",
           "number_write", "keys", "key_seed", "key_open", "key_write", "token",
           "deploy", "token_open", "token_write", "running", "end"}

\* The files and the variables of the runs have the values the code gives them;
\* no run number is higher than the number of runs.
TypeOK ==
    /\ pc \in [Runs -> Places]
    /\ fate \in [Runs -> {"live", "crashed", "failed"}]
    /\ seed \in Runs \cup Lost
    /\ run_number \in [Scenarios -> Numbers \cup Lost]
    /\ token_info \in [Scenarios -> Runs \cup Lost]
    /\ keystore \in [Dirs -> Keys \cup Lost]
    /\ number \in [Runs -> Numbers]
    /\ index \in [Runs -> 0..Count]
    /\ privkey \in [Runs -> Keys \cup {Missing}]
    /\ token \in [Runs -> Runs \cup {Missing}]

\* The runs of a scenario that get as far as the nodes have increasing numbers,
\* wherever earlier ones were killed: without reuse_accounts no run meets the
\* data directories, and so the accounts, of another.
NumbersFresh ==
    \A p, q \in Runs :
        /\ q < p /\ Scenario[q] = Scenario[p]
        /\ HasNumber(p) /\ HasNumber(q)
        => number[q] < number[p]

\* No two transfers have the same identifier, in one run or in two: a node that
\* keeps its data directory takes none of them for a payment it has made before.
IdentifiersUnique ==
    \A p, q \in Runs : \A i, j \in 1..Transfers :
        /\ HasNumber(p) /\ HasNumber(q)
        /\ Identifiers[Scenario[p]][number[p]][i] = Identifiers[Scenario[q]][number[q]][j]
        => p = q /\ i = j

\* Every run that reuses the token of its scenario uses the same one.
TokenAgreed ==
    \A p, q \in Runs :
        /\ Scenario[p] = Scenario[q] /\ Scenario[p] \in ReuseToken
        /\ pc[p] \in {"running", "end"} /\ pc[q] \in {"running", "end"}
        => token[p] = token[q]

\* A run is refused by the files it finds only after an earlier run of the same
\* scenario was killed.
FailuresNeedCrash ==
    \A p \in Runs : fate[p] = "failed" =>
        \E q \in Runs : q < p /\ Scenario[q] = Scenario[p] /\ fate[q] = "crashed"

\* The account of a data directory never changes, so the tokens and the ether it
\* was given stay within reach of later runs and of reclaim-eth.
AccountsKept ==
    [][\A d \in Dirs : keystore[d] \notin Lost => keystore'[d] = keystore[d]]_vars
=============================================================================
