----------------------------- MODULE CallProofs -----------------------------
(***************************************************************************)
(* Theorems about the calls of TaskExecution for every tree of tasks and   *)
(* every set of timers, those of composite tasks included: who is called   *)
(* while whom, and what follows for the counter, the pools, the frames a   *)
(* timer can hit, the recorded assertions and the tasks after a timer.     *)
(*                                                                         *)
(* A timer that hits a parallel task, or a task above it on its greenlet,  *)
(* ends its call while the greenlets of its pool run on.  The invariant    *)
(* has a set of such torn tasks and shows that none of them is called      *)
(* again: the error is on its way up through all the loops above it.       *)
(***************************************************************************)
EXTENDS TaskExecutionProofs

-----------------------------------------------------------------------------
(* The tree of tasks                                                       *)

LEMMA ParentFacts ==
    /\ \A t \in Tasks \ {Root} : Parent(t) \in Tasks /\ t \in Offspring(Parent(t))
    /\ \A p \in Tasks : \A t \in Offspring(p) :
          t \in Tasks \ {Root, p} /\ Parent(t) = p
<1>1. ASSUME NEW t \in Tasks \ {Root}
      PROVE  Parent(t) \in Tasks /\ t \in Offspring(Parent(t))
  <2>1. \E p \in Tasks : t \in Offspring(p)
    BY TreeAssumption DEF Offspring
  <2> QED BY <2>1 DEF Parent
<1>2. ASSUME NEW p \in Tasks, NEW t \in Offspring(p)
      PROVE  t \in Tasks \ {Root, p} /\ Parent(t) = p
  <2>1. t \in Tasks \ {Root, p}
    BY ChildFacts, TreeAssumption DEF Offspring
  <2>2. \A q \in Tasks : t \in Offspring(q) => q = p
    BY TreeAssumption DEF Offspring
  <2> QED BY <1>1, <2>1, <2>2
<1> QED BY <1>1, <1>2

\* A set of tasks closed under "is a child of".
Closed(S) == \A q \in S : Offspring(q) \subseteq S

\* The tasks in every closed set that has the children of p.
LEMMA AncestorsEquation ==
    \A t \in Tasks : Ancestors[t] = IF t = Root THEN {}
                                    ELSE {Parent(t)} \cup Ancestors[Parent(t)]
<1> DEFINE Above(t) == {p \in Tasks : \A S \in SUBSET Tasks :
                           Offspring(p) \subseteq S /\ Closed(S) => t \in S}
           above == [t \in Tasks |-> Above(t)]
<1>1. Above(Root) = {}
  <2> SUFFICES ASSUME NEW p \in Tasks
               PROVE  \E S \in SUBSET Tasks : Offspring(p) \subseteq S /\ Closed(S) /\ Root \notin S
    OBVIOUS
  <2> WITNESS Tasks \ {Root} \in SUBSET Tasks
  <2> QED BY ParentFacts DEF Closed
<1>2. ASSUME NEW t \in Tasks \ {Root}
      PROVE  Above(t) = {Parent(t)} \cup Above(Parent(t))
  <2> DEFINE q == Parent(t)
  <2>0. q \in Tasks /\ t \in Offspring(q)
    BY ParentFacts
  <2>1. q \in Above(t)
    BY <2>0
  <2>2. Above(q) \subseteq Above(t)
    BY <2>0 DEF Closed
  <2>3. ASSUME NEW p \in Above(t), p # q
        PROVE  p \in Above(q)
    <3> SUFFICES ASSUME NEW S \in SUBSET Tasks, Offspring(p) \subseteq S, Closed(S), q \notin S
                 PROVE  FALSE
      BY DEF Above
    <3>1. Offspring(p) \subseteq S \ {t}
      BY <2>3, ParentFacts
    <3>2. Closed(S \ {t})
      BY ParentFacts DEF Closed
    <3> QED BY <3>1, <3>2
  <2> QED BY <2>1, <2>2, <2>3
<1> HIDE DEF Above
<1>3. above = [t \in Tasks |-> IF t = Root THEN {} ELSE {Parent(t)} \cup above[Parent(t)]]
  <2>1. \A t \in Tasks \ {Root} : above[Parent(t)] = Above(Parent(t))
    BY ParentFacts
  <2> QED BY <1>1, <1>2, <2>1
<1> HIDE DEF above
<1>4. Ancestors = [t \in Tasks |-> IF t = Root THEN {}
                                   ELSE {Parent(t)} \cup Ancestors[Parent(t)]]
  BY <1>3 DEF Ancestors
<1> QED BY <1>4, Zenon

\* The tasks at which a greenlet begins.
IsHead(t) == t = Root \/ Kind[Parent(t)] = "parallel"

\* A set closed under "is a child of, on the same greenlet".
Joined(S) == \A q \in S : Kind[q] # "parallel" => Offspring(q) \subseteq S

LEMMA GreenletEquation ==
    \A t \in Tasks : GreenletOf[t] = IF IsHead(t) THEN t ELSE GreenletOf[Parent(t)]
<1> DEFINE First(t) == {h \in Tasks : IsHead(h) /\ \A S \in SUBSET Tasks :
                           h \in S /\ Joined(S) => t \in S}
           first == [t \in Tasks |-> CHOOSE h : h \in First(t)]
<1>1. ASSUME NEW t \in Tasks, IsHead(t) PROVE First(t) = {t}
  <2>1. t \in First(t)
    BY <1>1
  <2>2. ASSUME NEW h \in First(t), h # t PROVE FALSE
    <3>1. Joined(Tasks \ {t})
      BY <1>1, ParentFacts DEF Joined, IsHead
    <3> QED BY <2>2, <3>1
  <2> QED BY <2>1, <2>2
<1>2. ASSUME NEW t \in Tasks, ~IsHead(t) PROVE First(t) = First(Parent(t))
  <2> DEFINE q == Parent(t)
  <2>0. q \in Tasks /\ t \in Offspring(q) /\ Kind[q] # "parallel" /\ t # Root
    BY <1>2, ParentFacts DEF IsHead
  <2>1. First(q) \subseteq First(t)
    BY <2>0 DEF Joined
  <2>2. ASSUME NEW h \in First(t)
        PROVE  h \in First(q)
    <3> SUFFICES ASSUME NEW S \in SUBSET Tasks, h \in S, Joined(S), q \notin S
                 PROVE  FALSE
      BY DEF First
    <3>1. h \in S \ {t}
      BY <1>2
    <3>2. Joined(S \ {t})
      BY ParentFacts DEF Joined
    <3> QED BY <3>1, <3>2
  <2> QED BY <2>1, <2>2
<1> HIDE DEF First
<1>3. first = [t \in Tasks |-> IF t = Root THEN t
                               ELSE IF Kind[Parent(t)] = "parallel" THEN t
                               ELSE first[Parent(t)]]
  <2>1. \A t \in Tasks : IsHead(t) => first[t] = t
    BY <1>1
  <2>2. \A t \in Tasks : ~IsHead(t) => Parent(t) \in Tasks /\ first[t] = first[Parent(t)]
    BY <1>2, ParentFacts DEF IsHead
  <2> QED BY <2>1, <2>2 DEF IsHead
<1> HIDE DEF first
<1>4. GreenletOf = [t \in Tasks |-> IF t = Root THEN t
                                    ELSE IF Kind[Parent(t)] = "parallel" THEN t
                                    ELSE GreenletOf[Parent(t)]]
  BY <1>3 DEF GreenletOf
<1>5. \A t \in Tasks : GreenletOf[t] = IF t = Root THEN t
                                       ELSE IF Kind[Parent(t)] = "parallel" THEN t
                                       ELSE GreenletOf[Parent(t)]
  BY <1>4, Zenon
<1> QED BY <1>5 DEF IsHead

\* What holds of the root and passes from parent to child holds of every task.
LEMMA TreeInduction ==
    ASSUME NEW S \in SUBSET Tasks, Root \in S,
           \A t \in Tasks \ {Root} : Parent(t) \in S => t \in S
    PROVE  S = Tasks
<1>1. Tasks \ S \in SUBSET (Tasks \ {Root})
  OBVIOUS
<1>2. CASE Tasks \ S # {}
  <2>1. PICK t \in Tasks \ S : Parent(t) \notin Tasks \ S
    BY <1>1, <1>2, RootAssumption
  <2> QED BY <1>1, <2>1, ParentFacts
<1> QED BY <1>2

\* The ancestors of a task are tasks, with their own ancestors among them.
LEMMA AncestorFacts ==
    \A t \in Tasks : /\ Ancestors[t] \subseteq Tasks
                     /\ \A u \in Ancestors[t] : Ancestors[u] \subseteq Ancestors[t]
                     /\ t \notin Ancestors[t]
                     /\ \A u \in Ancestors[t] : t \notin Ancestors[u]
<1> DEFINE P(t) == /\ Ancestors[t] \subseteq Tasks
                   /\ \A u \in Ancestors[t] : Ancestors[u] \subseteq Ancestors[t]
                   /\ t \notin Ancestors[t]
           S == {t \in Tasks : P(t)}
<1>1. Root \in S
  BY ShapeAssumption, AncestorsEquation
<1>2. ASSUME NEW t \in Tasks \ {Root}, Parent(t) \in S PROVE t \in S
  <2>1. Parent(t) \in Tasks /\ Parent(t) # t
    BY ParentFacts
  <2>2. Ancestors[t] = {Parent(t)} \cup Ancestors[Parent(t)]
    BY AncestorsEquation
  <2>3. P(Parent(t))
    BY <1>2
  <2>4. t \notin Ancestors[t]
    BY <2>1, <2>2, <2>3
  <2> QED BY <2>1, <2>2, <2>3, <2>4
<1>3. S = Tasks
  <2> HIDE DEF S
  <2>1. S \in SUBSET Tasks
    BY DEF S
  <2> QED BY <1>1, <1>2, <2>1, TreeInduction
<1> QED BY <1>3

\* The ancestors on the same greenlet are those up to its first task.
LEMMA GreenletFacts ==
    \A t \in Tasks : /\ GreenletOf[t] \in {t} \cup Ancestors[t]
                     /\ \A u \in Ancestors[t] : GreenletOf[t] \in {u} \cup Ancestors[u]
                                                   => GreenletOf[u] = GreenletOf[t]
<1> DEFINE P(t) == /\ GreenletOf[t] \in {t} \cup Ancestors[t]
                   /\ \A u \in Ancestors[t] : GreenletOf[t] \in {u} \cup Ancestors[u]
                                                 => GreenletOf[u] = GreenletOf[t]
           S == {t \in Tasks : P(t)}
<1>1. Root \in S
  BY ShapeAssumption, AncestorsEquation, GreenletEquation DEF IsHead
<1>2. ASSUME NEW t \in Tasks \ {Root}, Parent(t) \in S PROVE t \in S
  <2>1. Parent(t) \in Tasks /\ P(Parent(t))
    BY <1>2, ParentFacts
  <2>2. Ancestors[t] = {Parent(t)} \cup Ancestors[Parent(t)]
    BY AncestorsEquation
  <2>3. CASE IsHead(t)
    <3>1. GreenletOf[t] = t
      BY <2>3, GreenletEquation
    <3>2. \A u \in Ancestors[t] : t \notin {u} \cup Ancestors[u]
      BY AncestorFacts
    <3> QED BY <3>1, <3>2
  <2>4. CASE ~IsHead(t)
    <3>1. GreenletOf[t] = GreenletOf[Parent(t)]
      BY <2>4, GreenletEquation
    <3> QED BY <2>1, <2>2, <3>1
  <2> QED BY <2>3, <2>4
<1>3. S = Tasks
  <2> HIDE DEF S
  <2>1. S \in SUBSET Tasks
    BY DEF S
  <2> QED BY <1>1, <1>2, <2>1, TreeInduction
<1> QED BY <1>3

\* A task with an ancestor on its greenlet has its parent on it, a serial task.
LEMMA SameGreenlet ==
    ASSUME NEW t \in Tasks, NEW u \in Ancestors[t], GreenletOf[u] = GreenletOf[t]
    PROVE  /\ t # Root /\ Kind[Parent(t)] = "serial"
           /\ GreenletOf[Parent(t)] = GreenletOf[t]
           /\ u = Parent(t) \/ u \in Ancestors[Parent(t)]
<1>1. t # Root /\ u \in Tasks /\ Ancestors[t] = {Parent(t)} \cup Ancestors[Parent(t)]
  BY AncestorsEquation, AncestorFacts
<1>2. ~IsHead(t)
  <2>1. GreenletOf[u] \in {u} \cup Ancestors[u] /\ t \notin {u} \cup Ancestors[u]
    BY <1>1, GreenletFacts, AncestorFacts
  <2> QED BY <2>1, GreenletEquation
<1>3. Kind[Parent(t)] \in {"serial", "parallel"}
  BY <1>1, ParentFacts, ChildFacts DEF IsLeaf, Composites
<1> QED BY <1>1, <1>2, <1>3, GreenletEquation DEF IsHead

LEMMA RootAbove == \A t \in Tasks : Root \in {t} \cup Ancestors[t]
<1> DEFINE S == {t \in Tasks : Root \in {t} \cup Ancestors[t]}
<1>1. Root \in S /\ S \in SUBSET Tasks
  BY ShapeAssumption
<1>2. \A t \in Tasks \ {Root} : Parent(t) \in S => t \in S
  BY AncestorsEquation, ParentFacts
<1>3. S = Tasks
  <2> HIDE DEF S
  <2> QED BY <1>1, <1>2, TreeInduction
<1> QED BY <1>3

\* Everything above a task on the greenlet of the root is on it too.
LEMMA RootGreenlet ==
    ASSUME NEW t \in Tasks, GreenletOf[t] = Root, NEW u \in Ancestors[t]
    PROVE  GreenletOf[u] = Root
BY RootAbove, AncestorFacts, GreenletFacts

\* On the way from a task down to one below it there is a child of the former.
LEMMA ChildBetween ==
    ASSUME NEW t \in Tasks, NEW u \in Ancestors[t]
    PROVE  \E c \in Offspring(u) : c = t \/ c \in Ancestors[t]
<1> DEFINE P(v) == \A w \in Ancestors[v] : \E c \in Offspring(w) : c \in {v} \cup Ancestors[v]
           S == {v \in Tasks : P(v)}
<1>1. Root \in S
  BY ShapeAssumption, AncestorsEquation
<1>2. ASSUME NEW v \in Tasks \ {Root}, Parent(v) \in S PROVE v \in S
  <2> DEFINE q == Parent(v)
  <2>1. q \in Tasks /\ v \in Offspring(q) /\ Ancestors[v] = {q} \cup Ancestors[q] /\ P(q)
    BY <1>2, AncestorsEquation, ParentFacts
  <2>2. ASSUME NEW w \in Ancestors[v]
        PROVE  \E c \in Offspring(w) : c \in {v} \cup Ancestors[v]
    <3>1. CASE w = q
      BY <2>1, <3>1
    <3>2. CASE w \in Ancestors[q]
      <4>1. PICK c \in Offspring(w) : c \in {q} \cup Ancestors[q]
        BY <2>1, <3>2
      <4> QED BY <2>1, <4>1
    <3> QED BY <2>1, <3>1, <3>2
  <2> QED BY <2>2
<1>3. S = Tasks
  <2> HIDE DEF S
  <2>1. S \in SUBSET Tasks
    BY DEF S
  <2> QED BY <1>1, <1>2, <2>1, TreeInduction
<1> QED BY <1>3

-----------------------------------------------------------------------------
(* The invariant of the calls                                              *)

\* A task below a composite task with a timeout may be called again and again.
InLoop(t)   == \E u \in Timed \cap Ancestors[t] : ~IsLeaf(u)
LoopHere(t) == \E u \in Timed \cap Ancestors[t] :
                  ~IsLeaf(u) /\ GreenletOf[u] = GreenletOf[t]

\* A task that is being called, or whose greenlet is about to.
Engaged(t) == IsActive(t) \/ pc[t] = "scheduled"

CallLife(t) ==
    /\ IsActive(t) <=> state[t] = "RUNNING"
    /\ Done(t) => state[t] \in {"FINISHED", "ERRORED"}
    /\ pc[t] = "request" => IsLeaf(t)
    /\ pc[t] = "sleep" => t \in Timed
    /\ pc[t] \in {"loop", "slot", "join", "call"} => ~IsLeaf(t)
    /\ pc[t] = "call" => Kind[t] = "serial"
    /\ pc[t] \in {"slot", "join"} => Kind[t] = "parallel"
    /\ pc[t] = "loop" /\ Kind[t] = "parallel" => next[t] = 1
    /\ pc[t] = "slot" => next[t] <= Len(Children[t])
    /\ pc[t] \in {"idle", "scheduled"} /\ ~InLoop(t) => next[t] = 1

\* Where the i-th child of a serial task stands.
SerialPlace(p, i) ==
    LET c == Children[p][i] IN
    Kind[p] = "serial" =>
      /\ i < next[p] => Done(c) /\ state[c] = "FINISHED"
      /\ Engaged(c) => pc[p] = "call" /\ i = next[p]
      /\ pc[p] = "call" /\ i = next[p] => IsActive(c) \/ Done(c)
      /\ ~InLoop(c) /\ i > next[p] => pc[c] = "idle"
      /\ ~InLoop(c) /\ i = next[p] /\ pc[p] \in {"idle", "scheduled", "loop"}
            => pc[c] = "idle"

\* Where the i-th child of a parallel task stands, `torn` being the parallel
\* tasks that a timer or a crash has ended while greenlets of theirs were at work.
ParallelPlace(torn, p, i) ==
    LET c == Children[p][i] IN
    Kind[p] = "parallel" =>
      /\ Engaged(c) => /\ c \in pool[p] /\ i < next[p]
                       /\ pc[p] \in {"slot", "join"} \/ p \in torn
      /\ ~InLoop(c) /\ i >= next[p] => pc[c] = "idle"

TaskPlace(torn, p) ==
    /\ CallLife(p)
    /\ \A i \in DOMAIN Children[p] : SerialPlace(p, i) /\ ParallelPlace(torn, p, i)

\* Those tasks, and the callers that have failed because of them.  The error is
\* on its way up the greenlet, past every loop: none of them is called again.
Torn(torn, p) ==
    /\ Done(p)
    /\ InLoop(p) =>
         /\ state[p] = "ERRORED" /\ outcome[p] # "assertion" /\ LoopHere(p)
         /\ \/ Parent(p) \in torn
            \/ pc[Parent(p)] = "call" /\ Children[Parent(p)][next[Parent(p)]] = p

CallInv(torn) ==
    /\ TypeOK
    /\ \A p \in Tasks : TaskPlace(torn, p)
    /\ \A p \in torn : Torn(torn, p)

\* A task is in a loop if its parent is, or is one; composite ones are no loops then.
LEMMA LoopFacts ==
    /\ ~InLoop(Root)
    /\ \A t \in Tasks : InLoop(t) /\ ~IsLeaf(t) => t \notin Timed
    /\ \A p \in Tasks : \A c \in Offspring(p) :
          InLoop(c) <=> (p \in Timed \/ InLoop(p))
<1>1. ~InLoop(Root)
  BY ShapeAssumption, AncestorsEquation DEF InLoop
<1>2. \A t \in Tasks : InLoop(t) /\ ~IsLeaf(t) => t \notin Timed
  BY NestingAssumption DEF InLoop
<1>3. ASSUME NEW p \in Tasks, NEW c \in Offspring(p)
      PROVE  InLoop(c) <=> (p \in Timed \/ InLoop(p))
  <2>1. c \in Tasks \ {Root} /\ Parent(c) = p /\ ~IsLeaf(p)
    BY ParentFacts, ChildFacts
  <2>2. Ancestors[c] = {p} \cup Ancestors[p]
    BY <2>1, AncestorsEquation
  <2> QED BY <2>1, <2>2 DEF InLoop
<1> QED BY <1>1, <1>2, <1>3

\* What a place of the tree is.
LEMMA ChildAt ==
    ASSUME NEW p \in Tasks, NEW i \in DOMAIN Children[p]
    PROVE  /\ Children[p][i] \in Tasks \ {p, Root} /\ Children[p][i] \in Offspring(p)
           /\ Parent(Children[p][i]) = p
           /\ i \in Nat \ {0} /\ i <= Len(Children[p])
           /\ Kind[p] \in {"serial", "parallel"} /\ ~IsLeaf(p)
           /\ \A q \in Tasks : \A j \in DOMAIN Children[q] :
                Children[p][i] = Children[q][j] => p = q /\ i = j
<1>1. Children[p][i] \in Offspring(p)
  BY DEF Offspring
<1>2. i \in 1..Len(Children[p]) /\ Len(Children[p]) \in Nat
  BY ChildFacts
<1> QED BY <1>1, <1>2, ParentFacts, PlaceFacts, ChildFacts DEF IsLeaf, Composites

\* A task keeps its invariant if neither it nor a child of it moves.
LEMMA StillPlace ==
    ASSUME NEW X \in SUBSET Tasks, NEW Y \in SUBSET Tasks, X \subseteq Y, NEW p \in Tasks,
           TaskPlace(X, p),
           pc'[p] = pc[p], state'[p] = state[p], next'[p] = next[p], pool'[p] = pool[p],
           \A i \in DOMAIN Children[p] : /\ pc'[Children[p][i]] = pc[Children[p][i]]
                                         /\ state'[Children[p][i]] = state[Children[p][i]]
    PROVE  TaskPlace(Y, p)'
<1>1. CallLife(p)'
  BY DEF TaskPlace, CallLife, IsActive, Done
<1>2. ASSUME NEW i \in DOMAIN Children[p] PROVE SerialPlace(p, i)' /\ ParallelPlace(Y, p, i)'
  <2>1. SerialPlace(p, i)'
    BY DEF TaskPlace, SerialPlace, Engaged, IsActive, Done
  <2>2. ParallelPlace(Y, p, i)'
    BY DEF TaskPlace, ParallelPlace, Engaged, IsActive, Done
  <2> QED BY <2>1, <2>2
<1> QED BY <1>1, <1>2 DEF TaskPlace

\* The call of t ends, or goes to sleep, without a child at work: unless t is a
\* parallel task torn off its greenlets.
LEMMA StopStep ==
    ASSUME NEW X \in SUBSET Tasks, NEW Y \in SUBSET Tasks, CallInv(X), TypeOK',
           NEW t \in Tasks, IsActive(t), UNCHANGED <<next, pool>>,
           NEW x, NEW s, Moves(t, x, s),
           \/ x = "done" /\ s \in {"FINISHED", "ERRORED"}
           \/ x = "sleep" /\ s = "RUNNING" /\ t \in Timed,
           \A u \in Tasks \ {t} : outcome'[u] = outcome[u],
           \/ Y = X
           \/ /\ Y = X \cup {t} /\ x = "done"
              /\ InLoop(t) => s = "ERRORED" /\ outcome'[t] # "assertion" /\ LoopHere(t),
           \A i \in DOMAIN Children[t] :
              Engaged(Children[t][i]) => Kind[t] = "parallel" /\ t \in Y,
           \A p \in X : InLoop(p) /\ Parent(p) = t => t \in Y
    PROVE  CallInv(Y)'
<1>1. /\ pc'[t] = x /\ state'[t] = s
      /\ \A u \in Tasks \ {t} : pc'[u] = pc[u] /\ state'[u] = state[u]
  BY DEF Moves, CallInv, TypeOK
<1>2. TaskPlace(Y, t)'
  <2>1. CallLife(t)'
    BY <1>1 DEF CallInv, TaskPlace, CallLife, IsActive, Done, Active, Blocked
  <2>2. ASSUME NEW i \in DOMAIN Children[t] PROVE SerialPlace(t, i)' /\ ParallelPlace(Y, t, i)'
    <3> DEFINE c == Children[t][i]
    <3>1. /\ c \in Tasks \ {t} /\ SerialPlace(t, i) /\ ParallelPlace(X, t, i)
          /\ pc'[c] = pc[c] /\ state'[c] = state[c]
          /\ Engaged(c) => Kind[t] = "parallel" /\ t \in Y
      BY <1>1, ChildAt DEF CallInv, TaskPlace
    <3>2. SerialPlace(t, i)'
      BY <1>1, <3>1 DEF SerialPlace, Engaged, IsActive, Done
    <3>3. ParallelPlace(Y, t, i)'
      BY <1>1, <3>1 DEF ParallelPlace, Engaged, IsActive, Done
    <3> QED BY <3>2, <3>3
  <2> QED BY <2>1, <2>2 DEF TaskPlace
<1>3. ASSUME NEW p \in Tasks \ {t} PROVE TaskPlace(Y, p)'
  <2>1. CallLife(p)'
    BY <1>1 DEF CallInv, TaskPlace, CallLife, IsActive, Done
  <2>2. ASSUME NEW i \in DOMAIN Children[p] PROVE SerialPlace(p, i)' /\ ParallelPlace(Y, p, i)'
    <3> DEFINE c == Children[p][i]
    <3>1. /\ c \in Tasks /\ SerialPlace(p, i) /\ ParallelPlace(X, p, i)
          /\ pc'[p] = pc[p] /\ next'[p] = next[p] /\ pool'[p] = pool[p] /\ X \subseteq Y
      BY <1>1, ChildAt DEF CallInv, TaskPlace
    <3>2. CASE c # t
      <4>1. pc'[c] = pc[c] /\ state'[c] = state[c]
        BY <1>1, <3>1, <3>2
      <4> HIDE DEF c
      <4>2. SerialPlace(p, i)'
        BY <3>1, <4>1 DEF SerialPlace, Engaged, IsActive, Done, c
      <4>3. ParallelPlace(Y, p, i)'
        BY <3>1, <4>1 DEF ParallelPlace, Engaged, IsActive, Done, c
      <4> QED BY <4>2, <4>3
    <3>3. CASE c = t
      <4>1. /\ Engaged(c) /\ pc[c] # "idle" /\ ~Done(c)
            /\ pc'[c] # "idle" /\ (IsActive(c) \/ Done(c))'
        BY <1>1, <3>3 DEF Engaged, IsActive, Done, Active, Blocked
      <4> HIDE DEF c
      <4>2. SerialPlace(p, i)'
        BY <3>1, <4>1 DEF SerialPlace, Done, c
      <4>3. ParallelPlace(Y, p, i)'
        BY <3>1, <4>1 DEF ParallelPlace, Done, c
      <4> QED BY <4>2, <4>3
    <3> QED BY <3>2, <3>3
  <2> QED BY <2>1, <2>2 DEF TaskPlace
<1>4. ASSUME NEW p \in Y PROVE Torn(Y, p)'
  <2>1. CASE p = t
    <3>1. p \notin X
      BY <2>1 DEF CallInv, Torn, IsActive, Done, Active, Blocked
    <3>2. /\ Done(p)'
          /\ InLoop(p) => s = "ERRORED" /\ outcome'[t] # "assertion" /\ LoopHere(t)
      BY <1>1, <2>1, <3>1 DEF Done
    <3>3. ASSUME InLoop(p)
          PROVE  pc'[Parent(p)] = "call" /\ Children[Parent(p)][next'[Parent(p)]] = p
      <4>1. p # Root /\ Kind[Parent(p)] = "serial"
        BY <2>1, <3>2, <3>3, SameGreenlet DEF LoopHere
      <4>2. Parent(p) \in Tasks \ {t} /\ p \in Offspring(Parent(p))
        BY <2>1, <4>1, ParentFacts
      <4>3. PICK i \in DOMAIN Children[Parent(p)] : p = Children[Parent(p)][i]
        BY <4>2 DEF Offspring
      <4>4. pc[Parent(p)] = "call" /\ i = next[Parent(p)]
        BY <2>1, <4>1, <4>2, <4>3 DEF CallInv, TaskPlace, SerialPlace, Engaged
      <4> QED BY <1>1, <4>2, <4>3, <4>4
    <3> QED BY <1>1, <2>1, <3>2, <3>3 DEF Torn
  <2>2. CASE p # t
    <3>1. p \in X /\ Torn(X, p) /\ p \in Tasks
      BY <2>2 DEF CallInv
    <3>2. /\ pc'[p] = pc[p] /\ state'[p] = state[p] /\ outcome'[p] = outcome[p]
      BY <1>1, <2>2, <3>1
    <3>3. ASSUME InLoop(p)
          PROVE  \/ Parent(p) \in Y
                 \/ pc'[Parent(p)] = "call" /\ Children[Parent(p)][next'[Parent(p)]] = p
      <4>1. CASE Parent(p) = t
        BY <3>1, <3>3, <4>1
      <4>2. CASE Parent(p) # t
        <5>1. Parent(p) \in Tasks
          BY <3>1, <3>3, ParentFacts, LoopFacts
        <5> QED BY <1>1, <3>1, <3>3, <4>2, <5>1 DEF Torn
      <4> QED BY <4>1, <4>2
    <3> QED BY <3>1, <3>2, <3>3 DEF Torn, Done
  <2> QED BY <2>1, <2>2
<1> QED BY <1>2, <1>3, <1>4 DEF CallInv

\* A parallel task is in no loop above it, nor torn, when it starts children; nor is
\* a task that its parent is about to call.
LEMMA NotTorn ==
    ASSUME NEW X \in SUBSET Tasks, CallInv(X), NEW p \in Tasks, NEW i \in DOMAIN Children[p],
           \/ i = next[p] /\ pc[p] = "loop" /\ Kind[p] = "serial"
           \/ i >= next[p] /\ ~Done(p) /\ Kind[p] = "parallel"
    PROVE  /\ Children[p][i] \notin X /\ ~Engaged(Children[p][i])
           /\ ~InLoop(Children[p][i]) => pc[Children[p][i]] = "idle"
<1> DEFINE c == Children[p][i]
<1>1. /\ c \in Tasks \ {p, Root} /\ Parent(c) = p /\ i \in Nat /\ next[p] \in Nat
      /\ SerialPlace(p, i) /\ ParallelPlace(X, p, i)
  BY ChildAt DEF CallInv, TaskPlace, TypeOK
<1> HIDE DEF c
<1>2. ~Engaged(c)
  BY <1>1 DEF SerialPlace, ParallelPlace, c
<1>3. ~InLoop(c) => pc[c] = "idle"
  BY <1>1 DEF SerialPlace, ParallelPlace, c
<1>4. ASSUME c \in X PROVE FALSE
  <2>1. Torn(X, c) /\ pc[c] # "idle"
    BY <1>4 DEF CallInv, Torn, Done
  <2>2. InLoop(c) /\ LoopHere(c)
    BY <1>3, <2>1 DEF Torn
  <2>3. Kind[p] = "serial"
    BY <1>1, <2>2, SameGreenlet DEF LoopHere
  <2>4. p \in X
    BY <1>1, <2>1, <2>2, <2>3 DEF Torn
  <2>5. Done(p)
    BY <2>4 DEF CallInv, Torn
  <2> QED BY <2>3, <2>5 DEF Done
<1> QED BY <1>2, <1>3, <1>4 DEF c

\* A task that is neither called nor torn has no child at work.
LEMMA NoneAtWork ==
    ASSUME NEW X \in SUBSET Tasks, CallInv(X), NEW p \in Tasks, p \notin X,
           pc[p] \notin {"call", "slot", "join"}, NEW i \in DOMAIN Children[p]
    PROVE  ~Engaged(Children[p][i])
BY ChildAt DEF CallInv, TaskPlace, SerialPlace, ParallelPlace

\* What a task does whose attempt ends.
LEMMA AttemptEnds ==
    ASSUME TypeOK, NEW t \in Tasks, state[t] = "RUNNING", NEW v, Return(t, v) \/ Raise(t, v)
    PROVE  /\ \A u \in Tasks \ {t} : outcome'[u] = outcome[u]
           /\ \/ Moves(t, "done", "FINISHED")
              \/ Moves(t, "done", "ERRORED")
              \/ Moves(t, "sleep", "RUNNING") /\ t \in Timed
BY DEF TypeOK, Return, Raise, HandleTimeout, GoToSleep, Finish, Fail, Moves

\* Without a child at work this keeps the invariant.
LEMMA AttemptEndsCall ==
    ASSUME NEW X \in SUBSET Tasks, CallInv(X), TypeOK', NEW t \in Tasks, IsActive(t),
           UNCHANGED <<next, pool>>, NEW v, Return(t, v) \/ Raise(t, v),
           \A i \in DOMAIN Children[t] : ~Engaged(Children[t][i]),
           \A p \in X : ~(InLoop(p) /\ Parent(p) = t)
    PROVE  CallInv(X)'
<1>1. TypeOK /\ state[t] = "RUNNING"
  BY DEF CallInv, TaskPlace, CallLife
<1> QED BY <1>1, AttemptEnds, StopStep

LEMMA LeafAnswersCall ==
    ASSUME NEW X \in SUBSET Tasks, CallInv(X), TypeOK', NEW t \in Tasks, LeafAnswers(t)
    PROVE  CallInv(X)'
<1>1. /\ IsLeaf(t) /\ IsActive(t) /\ UNCHANGED <<next, pool>>
      /\ DOMAIN Children[t] = {}
  BY ChildFacts DEF LeafAnswers, poolVars, CallInv, TaskPlace, CallLife, IsActive, Active, Blocked
<1>2. PICK v : Return(t, v) \/ Raise(t, v)
  BY DEF LeafAnswers
<1>3. \A p \in X : ~(InLoop(p) /\ Parent(p) = t)
  <2>1. \A p \in Tasks \ {Root} : ~IsLeaf(Parent(p))
    BY ParentFacts, ChildFacts
  <2> QED BY <1>1, <2>1, LoopFacts
<1> QED BY <1>1, <1>2, <1>3, AttemptEndsCall

LEMMA SerialReturnCall ==
    ASSUME NEW X \in SUBSET Tasks, CallInv(X), TypeOK', NEW t \in Tasks, SerialReturn(t)
    PROVE  CallInv(X)'
<1>1. /\ IsActive(t) /\ UNCHANGED <<next, pool>> /\ pc[t] = "loop" /\ Return(t, "falsy")
      /\ t \notin X
  BY DEF SerialReturn, poolVars, CallInv, Torn, Done, IsActive, Active
<1>2. \A i \in DOMAIN Children[t] : ~Engaged(Children[t][i])
  BY <1>1, NoneAtWork
<1>3. \A p \in X : ~(InLoop(p) /\ Parent(p) = t)
  BY <1>1 DEF CallInv, Torn
<1> QED BY <1>1, <1>2, <1>3, AttemptEndsCall

LEMMA JoinReturnCall ==
    ASSUME NEW X \in SUBSET Tasks, CallInv(X), TypeOK', NEW t \in Tasks, JoinReturn(t)
    PROVE  CallInv(X)'
<1>1. /\ IsActive(t) /\ UNCHANGED <<next, pool>> /\ pc[t] = "join" /\ pool[t] = {}
      /\ t \notin X /\ Kind[t] = "parallel"
  BY DEF JoinReturn, poolVars, CallInv, TaskPlace, CallLife, Torn, Done, IsActive, Active, Blocked
<1>2. PICK v : Return(t, v) \/ Raise(t, v)
  BY DEF JoinReturn
<1>3. \A i \in DOMAIN Children[t] : ~Engaged(Children[t][i])
  BY <1>1 DEF CallInv, TaskPlace, ParallelPlace
<1>4. \A p \in X : ~(InLoop(p) /\ Parent(p) = t)
  BY <1>1 DEF CallInv, Torn
<1> QED BY <1>1, <1>2, <1>3, <1>4, AttemptEndsCall

\* The error of a torn child reaches its caller, which is torn with it.
LEMMA SerialResumeCall ==
    ASSUME NEW X \in SUBSET Tasks, CallInv(X), TypeOK', NEW t \in Tasks, SerialResume(t)
    PROVE  \E Y \in SUBSET Tasks : CallInv(Y)'
<1> DEFINE c == Children[t][next[t]]
<1>1. /\ Kind[t] = "serial" /\ pc[t] = "call" /\ Done(c) /\ IsActive(t) /\ t \notin X
      /\ state[t] = "RUNNING" /\ TypeOK /\ next[t] \in Nat /\ ~IsLeaf(t)
  BY DEF SerialResume, CallInv, TaskPlace, CallLife, Torn, Done, IsActive, Active, TypeOK
<1>2. next[t] \in DOMAIN Children[t]
  BY <1>1, ChildFacts DEF TypeOK
<1>3. /\ c \in Tasks \ {t, Root} /\ c \in Offspring(t) /\ Parent(c) = t
      /\ UNCHANGED pool
  BY <1>2, ChildAt DEF SerialResume, poolVars
<1>4. \A i \in DOMAIN Children[t] : ~Engaged(Children[t][i])
  <2> SUFFICES ASSUME NEW i \in DOMAIN Children[t], Engaged(Children[t][i]) PROVE FALSE
    OBVIOUS
  <2>1. i = next[t]
    BY <1>1 DEF CallInv, TaskPlace, SerialPlace
  <2> QED BY <1>1, <2>1 DEF Engaged, IsActive, Done, Active, Blocked
<1>5. \A p \in X : InLoop(p) /\ Parent(p) = t => p = c
  BY <1>1 DEF CallInv, Torn
<1> HIDE DEF c
<1>6. CASE /\ state[c] = "FINISHED"
           /\ pc' = [pc EXCEPT ![t] = "loop"]
           /\ next' = [next EXCEPT ![t] = @ + 1]
           /\ UNCHANGED <<state, exception, outcome, running_task_count>>
  <2>1. /\ pc'[t] = "loop" /\ next'[t] = next[t] + 1 /\ UNCHANGED <<state, outcome, pool>>
        /\ \A u \in Tasks \ {t} : pc'[u] = pc[u] /\ next'[u] = next[u]
    BY <1>1, <1>3, <1>6 DEF TypeOK
  <2>2. TaskPlace(X, t)'
    <3>1. CallLife(t)'
      BY <1>1, <2>1 DEF CallInv, TaskPlace, CallLife, IsActive, Done, Active
    <3>2. ASSUME NEW i \in DOMAIN Children[t] PROVE SerialPlace(t, i)' /\ ParallelPlace(X, t, i)'
      <4> DEFINE d == Children[t][i]
      <4>1. /\ d \in Tasks \ {t} /\ SerialPlace(t, i) /\ ~Engaged(d) /\ i \in Nat
            /\ i = next[t] => d = c
        BY <1>4, ChildAt DEF CallInv, TaskPlace, c
      <4>2. pc'[d] = pc[d] /\ state'[d] = state[d]
        BY <2>1, <4>1
      <4> HIDE DEF d
      <4> QED BY <1>1, <1>6, <2>1, <4>1, <4>2
              DEF SerialPlace, ParallelPlace, Engaged, IsActive, Done, d
    <3> QED BY <3>1, <3>2 DEF TaskPlace
  <2>3. ASSUME NEW p \in Tasks \ {t} PROVE TaskPlace(X, p)'
    <3>1. CallLife(p)'
      BY <2>1 DEF CallInv, TaskPlace, CallLife, IsActive, Done
    <3>2. ASSUME NEW i \in DOMAIN Children[p] PROVE SerialPlace(p, i)' /\ ParallelPlace(X, p, i)'
      <4> DEFINE d == Children[p][i]
      <4>1. /\ d \in Tasks /\ SerialPlace(p, i) /\ ParallelPlace(X, p, i)
            /\ pc'[p] = pc[p] /\ next'[p] = next[p] /\ pool'[p] = pool[p]
        BY <2>1, ChildAt DEF CallInv, TaskPlace
      <4>2. /\ pc'[d] = pc[d] \/ (d = t /\ pc[d] = "call" /\ pc'[d] = "loop")
            /\ state'[d] = state[d]
        BY <1>1, <2>1, <4>1
      <4>3. /\ (Engaged(d) <=> Engaged(d)') /\ (IsActive(d) <=> IsActive(d)')
            /\ (Done(d) <=> Done(d)') /\ (pc[d] = "idle" <=> pc'[d] = "idle")
        BY <4>2 DEF Engaged, IsActive, Done, Active, Blocked
      <4> HIDE DEF d
      <4> QED BY <4>1, <4>2, <4>3 DEF SerialPlace, ParallelPlace, d
    <3> QED BY <3>1, <3>2 DEF TaskPlace
  <2>4. ASSUME NEW p \in X PROVE Torn(X, p)'
    <3>1. Torn(X, p) /\ p \in Tasks \ {t}
      BY <1>1 DEF CallInv
    <3>2. InLoop(p) => Parent(p) # t /\ Parent(p) \in Tasks
      BY <1>5, <1>6, <3>1, ParentFacts, LoopFacts DEF Torn
    <3> QED BY <2>1, <3>1, <3>2 DEF Torn, Done
  <2>5. CallInv(X)'
    BY <2>2, <2>3, <2>4 DEF CallInv
  <2> QED BY <2>5
<1>7. CASE state[c] = "ERRORED" /\ Raise(t, outcome[c]) /\ UNCHANGED next
  <2>1. CASE ~(c \in X /\ InLoop(c))
    <3>1. \A p \in X : ~(InLoop(p) /\ Parent(p) = t)
      BY <1>5, <2>1
    <3>2. CallInv(X)'
      BY <1>1, <1>3, <1>4, <1>7, <3>1, AttemptEndsCall
    <3> QED BY <3>2
  <2>2. CASE c \in X /\ InLoop(c)
    <3> DEFINE Y == X \cup {t}
    <3>1. LoopHere(c) /\ outcome[c] # "assertion"
      BY <2>2 DEF CallInv, Torn
    <3>2. ASSUME InLoop(t)
          PROVE  /\ Fail(t, outcome[c]) /\ LoopHere(t)
      <4>1. t \notin Timed
        BY <1>1, <3>2, LoopFacts
      <4>2. PICK u \in Timed \cap Ancestors[c] : ~IsLeaf(u) /\ GreenletOf[u] = GreenletOf[c]
        BY <3>1 DEF LoopHere
      <4>3. GreenletOf[t] = GreenletOf[c] /\ (u = t \/ u \in Ancestors[t])
        BY <1>3, <4>2, SameGreenlet
      <4> QED BY <1>7, <4>1, <4>2, <4>3 DEF Raise, LoopHere
    <3>3. \A u \in Tasks \ {t} : outcome'[u] = outcome[u]
      BY <1>1, <1>7, AttemptEnds
    <3>4. PICK s \in {"FINISHED", "ERRORED"} : Moves(t, "done", s)
      BY <1>7, <3>1 DEF Raise, HandleTimeout, Finish, Fail, Moves
    <3>5. InLoop(t) => s = "ERRORED" /\ outcome'[t] # "assertion" /\ LoopHere(t)
      <4> SUFFICES ASSUME InLoop(t)
                   PROVE  s = "ERRORED" /\ outcome'[t] # "assertion" /\ LoopHere(t)
        OBVIOUS
      <4>1. state'[t] = "ERRORED" /\ outcome'[t] = outcome[c] /\ state'[t] = s
        BY <1>1, <3>2, <3>4 DEF Fail, Moves, TypeOK
      <4> QED BY <3>1, <3>2, <4>1
    <3>6. Y \in SUBSET Tasks
      OBVIOUS
    <3>7. CallInv(Y)'
      BY <1>1, <1>3, <1>4, <1>7, <3>3, <3>4, <3>5, <3>6, StopStep
    <3> QED BY <3>6, <3>7
  <2> QED BY <2>1, <2>2
<1> QED BY <1>6, <1>7 DEF SerialResume, c

\* A timer, or the crash of a node, hits a blocked frame.
LEMMA ThrowCall ==
    ASSUME NEW X \in SUBSET Tasks, CallInv(X), TypeOK', NEW b \in Tasks, pc[b] \in Blocked,
           UNCHANGED <<next, pool>>, NEW error \in {"timeout", "error"}, Raise(b, error),
           ~IsLeaf(b) /\ InLoop(b) => LoopHere(b)
    PROVE  \E Y \in SUBSET Tasks : CallInv(Y)'
<1>1. IsActive(b) /\ TypeOK /\ state[b] = "RUNNING" /\ b \notin X
  BY DEF CallInv, TaskPlace, CallLife, Torn, IsActive, Done, Active, Blocked
<1>2. \A p \in X : ~(InLoop(p) /\ Parent(p) = b)
  BY <1>1 DEF CallInv, Torn, Blocked
<1>3. CASE \A i \in DOMAIN Children[b] : ~Engaged(Children[b][i])
  <2>1. CallInv(X)'
    BY <1>1, <1>2, <1>3, AttemptEndsCall
  <2> QED BY <2>1
<1>4. ASSUME NEW i \in DOMAIN Children[b], Engaged(Children[b][i])
      PROVE  \E Y \in SUBSET Tasks : CallInv(Y)'
  <2> DEFINE Y == X \cup {b}
  <2>1. ~IsLeaf(b) /\ Kind[b] = "parallel"
    BY <1>4, ChildAt DEF CallInv, TaskPlace, SerialPlace, Blocked
  <2>2. PICK s \in {"FINISHED", "ERRORED"} : Moves(b, "done", s)
    BY DEF Raise, HandleTimeout, Finish, Fail, Moves
  <2>3. InLoop(b) => s = "ERRORED" /\ outcome'[b] # "assertion" /\ LoopHere(b)
    <3> SUFFICES ASSUME InLoop(b)
                 PROVE  s = "ERRORED" /\ outcome'[b] # "assertion" /\ LoopHere(b)
      OBVIOUS
    <3>1. b \notin Timed
      BY <2>1, LoopFacts
    <3>2. Fail(b, error)
      BY <3>1 DEF Raise
    <3>3. state'[b] = "ERRORED" /\ outcome'[b] = error /\ state'[b] = s
      BY <1>1, <2>2, <3>2 DEF Fail, Moves, TypeOK
    <3> QED BY <2>1, <3>3
  <2>4. \A u \in Tasks \ {b} : outcome'[u] = outcome[u]
    BY <1>1, AttemptEnds
  <2>5. Y \in SUBSET Tasks
    OBVIOUS
  <2>6. CallInv(Y)'
    BY <1>1, <1>2, <2>1, <2>2, <2>3, <2>4, <2>5, StopStep
  <2> QED BY <2>5, <2>6
<1> QED BY <1>3, <1>4

LEMMA TimerFiresCall ==
    ASSUME NEW X \in SUBSET Tasks, CallInv(X), TypeOK', NEW t \in Tasks, TimerFires(t)
    PROVE  \E Y \in SUBSET Tasks : CallInv(Y)'
<1>1. PICK b \in Tasks :
          /\ pc[b] \in Blocked /\ Raise(b, "timeout")
          /\ b = t \/ (~IsLeaf(t) /\ t \in Ancestors[b] /\ GreenletOf[b] = GreenletOf[t])
  BY DEF TimerFires
<1>2. UNCHANGED <<next, pool>> /\ t \in Timed
  BY DEF TimerFires, poolVars
<1>3. ~IsLeaf(b) /\ InLoop(b) => LoopHere(b)
  BY <1>1, <1>2, LoopFacts DEF LoopHere
<1> QED BY <1>1, <1>2, <1>3, ThrowCall

\* A task none of whose children is at work begins, or begins again.
LEMMA BeginPlace ==
    ASSUME NEW X \in SUBSET Tasks, CallInv(X), NEW t \in Tasks,
           pc'[t] = Entry(t), state'[t] = "RUNNING", next'[t] = 1,
           \A i \in DOMAIN Children[t] :
              /\ ~Engaged(Children[t][i])
              /\ pc'[Children[t][i]] = pc[Children[t][i]]
              /\ state'[Children[t][i]] = state[Children[t][i]]
              /\ ~InLoop(Children[t][i]) => next[t] = 1 /\ pc[t] \in {"idle", "scheduled"}
    PROVE  TaskPlace(X, t)'
<1>1. CallLife(t)'
  BY DEF CallLife, Entry, IsActive, Done, Active, Blocked
<1>2. ASSUME NEW i \in DOMAIN Children[t] PROVE SerialPlace(t, i)' /\ ParallelPlace(X, t, i)'
  <2> DEFINE c == Children[t][i]
  <2>1. /\ i \in Nat \ {0} /\ ~IsLeaf(t) /\ SerialPlace(t, i) /\ ParallelPlace(X, t, i)
        /\ ~Engaged(c) /\ pc'[c] = pc[c] /\ state'[c] = state[c]
        /\ ~InLoop(c) => next[t] = 1 /\ pc[t] \in {"idle", "scheduled"}
    BY ChildAt DEF CallInv, TaskPlace
  <2>2. pc'[t] = "loop" /\ ~Engaged(c)'
    BY <2>1 DEF Entry, Engaged, IsActive
  <2>3. ~InLoop(c) => pc'[c] = "idle"
    <3>1. CASE Kind[t] = "serial"
      BY <2>1, <3>1 DEF SerialPlace
    <3>2. CASE Kind[t] = "parallel"
      BY <2>1, <3>2 DEF ParallelPlace
    <3> QED BY <3>1, <3>2, ChildAt
  <2> HIDE DEF c
  <2>4. SerialPlace(t, i)'
    BY <2>1, <2>2, <2>3 DEF SerialPlace, c
  <2>5. ParallelPlace(X, t, i)'
    BY <2>1, <2>2, <2>3 DEF ParallelPlace, c
  <2> QED BY <2>4, <2>5
<1> QED BY <1>1, <1>2 DEF TaskPlace

\* A torn task stays as it is while its caller is not resumed.
LEMMA StillTorn ==
    ASSUME NEW X \in SUBSET Tasks, CallInv(X), NEW p \in X,
           pc'[p] = pc[p], state'[p] = state[p], outcome'[p] = outcome[p],
           InLoop(p) => /\ pc[Parent(p)] = "call" =>
                              pc'[Parent(p)] = "call" /\ next'[Parent(p)] = next[Parent(p)]
    PROVE  Torn(X, p)'
BY DEF CallInv, Torn, Done

\* Only the task t has moved, from one standing to another of the same meaning to
\* its parent.
LEMMA OtherPlace ==
    ASSUME NEW X \in SUBSET Tasks, CallInv(X), NEW t \in Tasks, NEW p \in Tasks \ {t},
           pc'[p] = pc[p], state'[p] = state[p], next'[p] = next[p], pool'[p] = pool[p],
           \A u \in Tasks \ {t, p} : pc'[u] = pc[u] /\ state'[u] = state[u],
           Engaged(t), (IsActive(t) \/ Done(t))', IsActive(t) \/ Kind[Parent(t)] # "serial"
    PROVE  TaskPlace(X, p)'
<1>1. CallLife(p)'
  BY DEF CallInv, TaskPlace, CallLife, IsActive, Done
<1>2. ASSUME NEW i \in DOMAIN Children[p] PROVE SerialPlace(p, i)' /\ ParallelPlace(X, p, i)'
  <2> DEFINE c == Children[p][i]
  <2>1. /\ c \in Tasks \ {p} /\ SerialPlace(p, i) /\ ParallelPlace(X, p, i) /\ Parent(c) = p
    BY ChildAt DEF CallInv, TaskPlace
  <2>2. CASE c # t
    <3>1. pc'[c] = pc[c] /\ state'[c] = state[c]
      BY <2>1, <2>2
    <3> HIDE DEF c
    <3> QED BY <2>1, <3>1 DEF SerialPlace, ParallelPlace, Engaged, IsActive, Done, c
  <2>3. CASE c = t
    <3>1. /\ Engaged(c) /\ pc[c] # "idle" /\ pc'[c] # "idle" /\ ~Done(c)
          /\ (IsActive(c) \/ Done(c))'
      BY <2>3 DEF Engaged, IsActive, Done, Active, Blocked
    <3> HIDE DEF c
    <3> QED BY <2>1, <3>1 DEF SerialPlace, ParallelPlace, Done, c
  <2> QED BY <2>2, <2>3
<1> QED BY <1>1, <1>2 DEF TaskPlace

LEMMA RetryCall ==
    ASSUME NEW X \in SUBSET Tasks, CallInv(X), TypeOK', NEW t \in Tasks, Retry(t)
    PROVE  CallInv(X)'
<1>1. /\ pc[t] = "sleep" /\ t \in Timed /\ state[t] = "RUNNING" /\ t \notin X
      /\ Engaged(t) /\ IsActive(t) /\ TypeOK
  BY DEF Retry, CallInv, TaskPlace, CallLife, Torn, Engaged, IsActive, Done, Active, Blocked
<1>2. /\ pc'[t] = Entry(t) /\ next'[t] = 1 /\ UNCHANGED <<state, outcome, pool>>
      /\ \A u \in Tasks \ {t} : pc'[u] = pc[u] /\ next'[u] = next[u]
      /\ IsActive(t)'
  BY <1>1 DEF Retry, TypeOK, poolVars, Entry, IsActive, Active, Blocked
<1>3. TaskPlace(X, t)'
  <2>1. \A i \in DOMAIN Children[t] : /\ Children[t][i] \in Tasks \ {t}
                                      /\ ~Engaged(Children[t][i]) /\ InLoop(Children[t][i])
    BY <1>1, NoneAtWork, ChildAt, LoopFacts
  <2> QED BY <1>1, <1>2, <2>1, BeginPlace
<1>4. \A p \in Tasks \ {t} : TaskPlace(X, p)'
  BY <1>1, <1>2, OtherPlace
<1>5. ASSUME NEW p \in X PROVE Torn(X, p)'
  <2>1. p \in Tasks \ {t} /\ (InLoop(p) => Parent(p) \in Tasks)
    BY <1>1, ParentFacts, LoopFacts
  <2> QED BY <1>1, <1>2, <2>1, StillTorn
<1> QED BY <1>3, <1>4, <1>5 DEF CallInv

\* What the children of a task are that is about to be called.
LEMMA FirstPlace ==
    ASSUME NEW X \in SUBSET Tasks, CallInv(X), NEW t \in Tasks, t \notin X, ~IsActive(t),
           ~InLoop(t) => pc[t] \in {"idle", "scheduled"},
           NEW i \in DOMAIN Children[t]
    PROVE  /\ ~Engaged(Children[t][i])
           /\ ~InLoop(Children[t][i]) => next[t] = 1 /\ pc[t] \in {"idle", "scheduled"}
<1>1. ~Engaged(Children[t][i])
  BY NoneAtWork DEF IsActive, Active, Blocked
<1>2. ASSUME ~InLoop(Children[t][i])
      PROVE  next[t] = 1 /\ pc[t] \in {"idle", "scheduled"}
  <2>1. ~InLoop(t)
    BY <1>2, ChildAt, LoopFacts
  <2> QED BY <2>1 DEF CallInv, TaskPlace, CallLife
<1> QED BY <1>1, <1>2

LEMMA GreenletRunCall ==
    ASSUME NEW X \in SUBSET Tasks, CallInv(X), TypeOK', NEW t \in Tasks, GreenletRun(t)
    PROVE  CallInv(X)'
<1>1. pc[t] = "scheduled" /\ Engaged(t) /\ ~IsActive(t) /\ t \notin X /\ TypeOK
  BY DEF GreenletRun, CallInv, Torn, Engaged, IsActive, Done, Active, Blocked
<1>2. /\ pc'[t] = Entry(t) /\ next'[t] = 1 /\ state'[t] = "RUNNING"
      /\ UNCHANGED <<outcome, pool>> /\ IsActive(t)'
      /\ \A u \in Tasks \ {t} : pc'[u] = pc[u] /\ next'[u] = next[u] /\ state'[u] = state[u]
  BY <1>1 DEF GreenletRun, Enter, TypeOK, poolVars, Entry, IsActive, Active, Blocked
<1>3. TaskPlace(X, t)'
  <2>1. \A i \in DOMAIN Children[t] : Children[t][i] \in Tasks \ {t}
    BY ChildAt
  <2>2. ~InLoop(t) => pc[t] \in {"idle", "scheduled"}
    BY <1>1
  <2> QED BY <1>1, <1>2, <2>1, <2>2, FirstPlace, BeginPlace
<1>4. t = Root \/ Kind[Parent(t)] # "serial"
  <2> SUFFICES ASSUME t # Root, Kind[Parent(t)] = "serial" PROVE FALSE
    OBVIOUS
  <2>1. Parent(t) \in Tasks /\ t \in Offspring(Parent(t))
    BY ParentFacts
  <2>2. PICK i \in DOMAIN Children[Parent(t)] : t = Children[Parent(t)][i]
    BY <2>1 DEF Offspring
  <2>3. SerialPlace(Parent(t), i)
    BY <2>1, <2>2 DEF CallInv, TaskPlace
  <2> QED BY <1>1, <2>2, <2>3 DEF SerialPlace, Done
<1>5. ASSUME NEW p \in Tasks \ {t} PROVE TaskPlace(X, p)'
  <2>1. CASE t # Root
    BY <1>1, <1>2, <1>4, <2>1, OtherPlace
  <2>2. CASE t = Root
    <3>1. \A i \in DOMAIN Children[p] : Children[p][i] \in Tasks \ {t}
      BY <2>2, ChildAt
    <3> QED BY <1>2, <3>1, StillPlace DEF CallInv
  <2> QED BY <2>1, <2>2
<1>6. ASSUME NEW p \in X PROVE Torn(X, p)'
  <2>1. p \in Tasks \ {t} /\ (InLoop(p) => Parent(p) \in Tasks)
    BY <1>1, ParentFacts, LoopFacts
  <2> QED BY <1>1, <1>2, <2>1, StillTorn
<1> QED BY <1>3, <1>5, <1>6 DEF CallInv

LEMMA SerialCallCall ==
    ASSUME NEW X \in SUBSET Tasks, CallInv(X), TypeOK', NEW t \in Tasks, SerialCall(t)
    PROVE  CallInv(X)'
<1>1. /\ Kind[t] = "serial" /\ pc[t] = "loop" /\ next[t] \in DOMAIN Children[t] /\ TypeOK
      /\ ~IsLeaf(t) /\ state[t] = "RUNNING" /\ t \notin X
      /\ Enter(Children[t][next[t]], [pc EXCEPT ![t] = "call"]) /\ UNCHANGED pool
  BY ChildFacts DEF SerialCall, poolVars, CallInv, TaskPlace, CallLife, Torn, Done, TypeOK,
                    IsActive, Active
<1>2. PICK c \in Tasks \ {t, Root} : /\ c = Children[t][next[t]] /\ Parent(c) = t
                                     /\ c \in Offspring(t)
  BY <1>1, ChildAt
<1>3. c \notin X /\ ~Engaged(c) /\ (~InLoop(c) => pc[c] = "idle")
  <2>1. PICK i \in DOMAIN Children[t] : i = next[t]
    BY <1>1
  <2>2. i = next[t] /\ pc[t] = "loop" /\ Kind[t] = "serial"
    BY <1>1, <2>1
  <2>3. /\ Children[t][i] \notin X /\ ~Engaged(Children[t][i])
        /\ ~InLoop(Children[t][i]) => pc[Children[t][i]] = "idle"
    BY <2>2, NotTorn, Zenon
  <2> QED BY <1>2, <2>1, <2>3
<1>4. /\ pc'[c] = Entry(c) /\ next'[c] = 1 /\ state'[c] = "RUNNING" /\ IsActive(c)'
      /\ pc'[t] = "call" /\ next'[t] = next[t] /\ state'[t] = state[t]
      /\ UNCHANGED <<outcome, pool>>
      /\ \A u \in Tasks \ {t, c} : pc'[u] = pc[u] /\ next'[u] = next[u] /\ state'[u] = state[u]
  BY <1>1, <1>2 DEF Enter, TypeOK, Entry, IsActive, Active, Blocked
<1>5. TaskPlace(X, c)'
  <2>1. ASSUME NEW i \in DOMAIN Children[c]
        PROVE  Children[c][i] \in Tasks \ {c, t}
    <3>1. Children[c][i] \in Tasks \ {c} /\ Parent(Children[c][i]) = c
      BY ChildAt
    <3>2. t # Root => Parent(t) # c
      <4>1. c \in Tasks \ {Root} /\ Ancestors[c] = {t} \cup Ancestors[t]
        BY <1>2, AncestorsEquation
      <4>2. t # Root => Parent(t) \in Ancestors[t]
        BY AncestorsEquation
      <4>3. c \notin Ancestors[t]
        BY <4>1, AncestorFacts
      <4> QED BY <4>2, <4>3
    <3> QED BY <3>1, <3>2, ChildAt
  <2>2. ~IsActive(c) /\ (~InLoop(c) => pc[c] \in {"idle", "scheduled"})
    BY <1>3 DEF Engaged
  <2> QED BY <1>3, <1>4, <2>1, <2>2, FirstPlace, BeginPlace
<1>6. TaskPlace(X, t)'
  <2>1. CallLife(t)'
    BY <1>1, <1>4 DEF CallLife, IsActive, Done, Active
  <2>2. ASSUME NEW i \in DOMAIN Children[t] PROVE SerialPlace(t, i)' /\ ParallelPlace(X, t, i)'
    <3> DEFINE d == Children[t][i]
    <3>1. /\ d \in Tasks \ {t} /\ SerialPlace(t, i) /\ i \in Nat /\ next[t] \in Nat
          /\ d = c <=> i = next[t]
      BY <1>1, <1>2, ChildAt DEF CallInv, TaskPlace, TypeOK
    <3>2. d # c => pc'[d] = pc[d] /\ state'[d] = state[d] /\ ~Engaged(d)
      BY <1>1, <1>4, <3>1 DEF SerialPlace
    <3> HIDE DEF d
    <3>3. CASE d = c
      BY <1>1, <1>4, <3>1, <3>3 DEF SerialPlace, ParallelPlace, d
    <3>4. CASE d # c
      BY <1>1, <1>4, <3>1, <3>2, <3>4 DEF SerialPlace, ParallelPlace, Engaged, IsActive, Done, d
    <3> QED BY <3>3, <3>4
  <2> QED BY <2>1, <2>2 DEF TaskPlace
<1>7. ASSUME NEW p \in Tasks \ {t, c} PROVE TaskPlace(X, p)'
  <2>1. ASSUME NEW i \in DOMAIN Children[p] PROVE Children[p][i] \in Tasks \ {c}
    BY <1>2, ChildAt
  <2>2. CallLife(p)'
    BY <1>4 DEF CallInv, TaskPlace, CallLife, IsActive, Done
  <2>3. ASSUME NEW i \in DOMAIN Children[p] PROVE SerialPlace(p, i)' /\ ParallelPlace(X, p, i)'
    <3> DEFINE d == Children[p][i]
    <3>1. /\ d \in Tasks \ {c} /\ SerialPlace(p, i) /\ ParallelPlace(X, p, i)
          /\ pc'[p] = pc[p] /\ next'[p] = next[p] /\ pool'[p] = pool[p]
      BY <1>4, <2>1, ChildAt DEF CallInv, TaskPlace
    <3>2. /\ (Engaged(d) <=> Engaged(d)') /\ (IsActive(d) <=> IsActive(d)')
          /\ (Done(d) <=> Done(d)') /\ (pc[d] = "idle" <=> pc'[d] = "idle")
          /\ state'[d] = state[d]
      <4>1. pc'[d] = pc[d] \/ (pc[d] = "loop" /\ pc'[d] = "call")
        BY <1>1, <1>4, <3>1
      <4>2. state'[d] = state[d]
        BY <1>4, <3>1
      <4> QED BY <4>1, <4>2 DEF Engaged, IsActive, Done, Active, Blocked
    <3> HIDE DEF d
    <3> QED BY <3>1, <3>2 DEF SerialPlace, ParallelPlace, d
  <2> QED BY <2>2, <2>3 DEF TaskPlace
<1>8. ASSUME NEW p \in X PROVE Torn(X, p)'
  <2>1. p \in Tasks \ {t, c} /\ (InLoop(p) => Parent(p) \in Tasks)
    BY <1>1, <1>3, ParentFacts, LoopFacts
  <2>2. pc[Parent(p)] = "call" => Parent(p) # t /\ Parent(p) # c
    BY <1>1, <1>3 DEF Engaged, IsActive, Active
  <2> QED BY <1>4, <2>1, <2>2, StillTorn
<1> QED BY <1>5, <1>6, <1>7, <1>8 DEF CallInv

LEMMA DiscardCall ==
    ASSUME NEW X \in SUBSET Tasks, CallInv(X), TypeOK', NEW t \in Tasks, Discard(t)
    PROVE  CallInv(X)'
<1>1. UNCHANGED <<state, pc, next, outcome>> /\ Done(t)
  BY DEF Discard, callVars
<1>2. \A p \in Tasks : pool[p] \subseteq pool'[p] \cup {t}
  BY DEF Discard, CallInv, TypeOK
<1>3. ASSUME NEW p \in Tasks PROVE TaskPlace(X, p)'
  <2>1. CallLife(p)'
    BY <1>1 DEF CallInv, TaskPlace, CallLife, IsActive, Done
  <2>2. ASSUME NEW i \in DOMAIN Children[p] PROVE SerialPlace(p, i)' /\ ParallelPlace(X, p, i)'
    <3> DEFINE d == Children[p][i]
    <3>1. SerialPlace(p, i) /\ ParallelPlace(X, p, i)
      BY DEF CallInv, TaskPlace
    <3>2. (Engaged(d) <=> Engaged(d)') /\ (Engaged(d) => d # t)
      BY <1>1 DEF Engaged, IsActive, Done, Active, Blocked
    <3> HIDE DEF d
    <3>3. SerialPlace(p, i)'
      BY <1>1, <3>1, <3>2 DEF SerialPlace, IsActive, Done, d
    <3>4. ParallelPlace(X, p, i)'
      BY <1>1, <1>2, <3>1, <3>2 DEF ParallelPlace, d
    <3> QED BY <3>3, <3>4
  <2> QED BY <2>1, <2>2 DEF TaskPlace
<1>4. \A p \in X : Torn(X, p)'
  BY <1>1 DEF CallInv, Torn, Done
<1> QED BY <1>3, <1>4 DEF CallInv

\* Starting children: those between `next` and the last one the pool admits.
LEMMA SpawnCall ==
    ASSUME NEW X \in SUBSET Tasks, CallInv(X), TypeOK', NEW t \in Tasks, Spawn(t)
    PROVE  CallInv(X)'
<1> DEFINE old  == IF pc[t] = "loop" THEN {} ELSE pool[t]
           room == next[t] + Slots(t) - Cardinality(old) - 1
           last == IF room < Len(Children[t]) THEN room ELSE Len(Children[t])
           new  == {Children[t][i] : i \in next[t]..last}
<1>1. /\ Kind[t] = "parallel" /\ pc[t] \in {"loop", "slot"} /\ state[t] = "RUNNING"
      /\ next[t] \in Nat \ {0} /\ ~IsLeaf(t) /\ t \notin X /\ TypeOK /\ CallLife(t)
  BY DEF Spawn, CallInv, TypeOK, TaskPlace, CallLife, Torn, Done, IsActive, Active, Blocked
<1>2. old \in SUBSET Tasks /\ Cardinality(old) \in Nat /\ Cardinality(old) <= Slots(t)
  BY Counting, FS_EmptySet, ChildFacts DEF CallInv, TypeOK, Spawn
<1>3. last \in Nat /\ last <= Len(Children[t]) /\ next[t] <= last + 1
  BY <1>1, <1>2, ChildFacts DEF CallLife
<1> HIDE DEF old, last, new
<1>4. /\ next' = [next EXCEPT ![t] = last + 1]
      /\ pool' = [pool EXCEPT ![t] = old \cup new]
      /\ pc' = [c \in Tasks |->
                  IF c = t THEN IF last = Len(Children[t]) THEN "join" ELSE "slot"
                  ELSE IF c \in new THEN "scheduled" ELSE pc[c]]
      /\ UNCHANGED <<state, outcome>>
  BY DEF Spawn, old, last, new
<1>5. /\ next'[t] = last + 1 /\ pool'[t] = old \cup new
      /\ pc'[t] = IF last = Len(Children[t]) THEN "join" ELSE "slot"
      /\ pc'[t] \in {"slot", "join"}
      /\ \A u \in Tasks \ {t} : /\ next'[u] = next[u] /\ pool'[u] = pool[u]
                                /\ pc'[u] = IF u \in new THEN "scheduled" ELSE pc[u]
  BY <1>1, <1>4 DEF TypeOK
<1>6. \A i \in DOMAIN Children[t] : Children[t][i] \in new <=> i \in next[t]..last
  <2>1. next[t]..last \subseteq DOMAIN Children[t]
    BY <1>1, <1>3, ChildFacts
  <2> QED BY <2>1, PlaceFacts DEF new
<1>7. \A u \in new : /\ u \in Tasks \ {t} /\ u \notin X /\ ~Engaged(u) /\ Parent(u) = t
                     /\ u \in Offspring(t) /\ (~InLoop(u) => pc[u] = "idle")
  <2> SUFFICES ASSUME NEW i \in next[t]..last, NEW u, u = Children[t][i]
               PROVE  /\ u \in Tasks \ {t} /\ u \notin X /\ ~Engaged(u) /\ Parent(u) = t
                      /\ u \in Offspring(t) /\ (~InLoop(u) => pc[u] = "idle")
    BY DEF new
  <2>1. i \in DOMAIN Children[t] /\ i >= next[t] /\ ~Done(t)
    BY <1>1, <1>3, ChildFacts DEF Done
  <2> QED BY <1>1, <2>1, ChildAt, NotTorn
<1>8. TaskPlace(X, t)'
  <2>1. CallLife(t)'
    BY <1>1, <1>3, <1>4, <1>5, ChildFacts DEF CallLife, IsActive, Done, Active, Blocked
  <2>2. ASSUME NEW i \in DOMAIN Children[t] PROVE SerialPlace(t, i)' /\ ParallelPlace(X, t, i)'
    <3> DEFINE d == Children[t][i]
    <3>1. /\ d \in Tasks \ {t} /\ i \in Nat /\ ParallelPlace(X, t, i)
          /\ d \in new <=> i \in next[t]..last
      BY <1>6, ChildAt DEF CallInv, TaskPlace
    <3>2. pc'[d] = IF i \in next[t]..last THEN "scheduled" ELSE pc[d]
      BY <1>5, <3>1
    <3> HIDE DEF d
    <3>3. CASE i \in next[t]..last
      <4>1. d \in pool'[t] /\ i < next'[t] /\ next'[t] \in Nat
        BY <1>3, <1>5, <3>1, <3>3
      <4> QED BY <1>1, <1>5, <3>1, <4>1 DEF SerialPlace, ParallelPlace, d
    <3>4. CASE i \notin next[t]..last
      <4>1. pc'[d] = pc[d] /\ next[t] \in Nat /\ next[t] <= next'[t] /\ last \in Nat
        BY <1>1, <1>3, <1>5, <3>2, <3>4
      <4>2. Engaged(d)' => d \in pool'[t] /\ i < next'[t]
        <5> SUFFICES ASSUME Engaged(d)' PROVE d \in pool'[t] /\ i < next'[t]
          OBVIOUS
        <5>1. Engaged(d)
          BY <4>1 DEF Engaged, IsActive
        <5>2. d \in pool[t] /\ i < next[t] /\ pc[t] \in {"slot", "join"}
          BY <1>1, <3>1, <5>1 DEF ParallelPlace, d
        <5>3. old = pool[t]
          BY <5>2 DEF old
        <5> QED BY <1>5, <3>1, <4>1, <5>2, <5>3
      <4>3. ~InLoop(d) /\ i >= next'[t] => pc'[d] = "idle"
        <5> SUFFICES ASSUME ~InLoop(d), i >= next'[t] PROVE pc'[d] = "idle"
          OBVIOUS
        <5>1. i >= next[t]
          BY <1>3, <1>5, <3>1, <4>1
        <5> QED BY <1>1, <3>1, <4>1, <5>1 DEF ParallelPlace, d
      <4> QED BY <1>1, <1>5, <4>2, <4>3 DEF SerialPlace, ParallelPlace, d
    <3> QED BY <3>3, <3>4
  <2> QED BY <2>1, <2>2 DEF TaskPlace
<1>9. ASSUME NEW p \in Tasks \ {t} PROVE TaskPlace(X, p)'
  <2>1. ASSUME NEW i \in DOMAIN Children[p]
        PROVE  /\ Children[p][i] \in Tasks /\ Children[p][i] \notin new
               /\ pc'[Children[p][i]] = pc[Children[p][i]]
                    \/ Children[p][i] = t
    BY <1>5, <1>7, ChildAt
  <2>2. CallLife(p)'
    <3>1. CASE p \in new
      <4>1. pc'[p] = "scheduled" /\ ~IsActive(p) /\ state'[p] = state[p] /\ next'[p] = next[p]
        BY <1>4, <1>5, <1>7, <3>1 DEF Engaged
      <4>2. ~InLoop(p) => pc[p] = "idle"
        BY <1>7, <3>1
      <4> QED BY <4>1, <4>2 DEF CallInv, TaskPlace, CallLife, IsActive, Done, Active, Blocked
    <3>2. CASE p \notin new
      BY <1>4, <1>5, <3>2 DEF CallInv, TaskPlace, CallLife, IsActive, Done
    <3> QED BY <3>1, <3>2
  <2>3. ASSUME NEW i \in DOMAIN Children[p] PROVE SerialPlace(p, i)' /\ ParallelPlace(X, p, i)'
    <3> DEFINE d == Children[p][i]
    <3>1. /\ d \in Tasks /\ SerialPlace(p, i) /\ ParallelPlace(X, p, i)
          /\ next'[p] = next[p] /\ pool'[p] = pool[p] /\ state'[d] = state[d]
      BY <1>4, <1>5, ChildAt DEF CallInv, TaskPlace
    <3>2. /\ (Engaged(d) <=> Engaged(d)') /\ (IsActive(d) <=> IsActive(d)')
          /\ (Done(d) <=> Done(d)') /\ (pc[d] = "idle" <=> pc'[d] = "idle")
      <4>1. pc'[d] = pc[d] \/ (pc[d] \in {"loop", "slot"} /\ pc'[d] \in {"slot", "join"})
        BY <1>1, <1>5, <2>1
      <4> HIDE DEF d
      <4> QED BY <4>1 DEF Engaged, IsActive, Done, Active, Blocked
    <3> HIDE DEF d
    <3>3. CASE p \notin new
      <4>1. pc'[p] = pc[p]
        BY <1>5, <3>3
      <4> QED BY <3>1, <3>2, <4>1 DEF SerialPlace, ParallelPlace, d
    <3>4. CASE p \in new
      <4>1. pc'[p] = "scheduled" /\ ~Engaged(p) /\ p \notin X /\ (~InLoop(p) => pc[p] = "idle")
        BY <1>5, <1>7, <3>4
      <4>2. /\ ~Engaged(d)
            /\ ~InLoop(d) => pc[p] = "idle"
        <5>1. pc[p] \notin {"call", "slot", "join"}
          BY <4>1 DEF Engaged, IsActive, Active, Blocked
        <5>2. ~Engaged(d)
          BY <4>1, <5>1, NoneAtWork DEF d
        <5>3. ~InLoop(d) => ~InLoop(p)
          BY ChildAt, LoopFacts DEF d
        <5> QED BY <4>1, <5>2, <5>3
      <4> QED BY <3>1, <3>2, <4>1, <4>2 DEF SerialPlace, ParallelPlace, d
    <3> QED BY <3>3, <3>4
  <2> QED BY <2>2, <2>3 DEF TaskPlace
<1>10. ASSUME NEW p \in X PROVE Torn(X, p)'
  <2>1. p \in Tasks \ {t} /\ p \notin new /\ (InLoop(p) => Parent(p) \in Tasks)
    BY <1>1, <1>7, ParentFacts, LoopFacts
  <2>2. Parent(p) \in Tasks /\ pc[Parent(p)] = "call"
           => /\ pc'[Parent(p)] = "call" /\ next'[Parent(p)] = next[Parent(p)]
    <3>1. Parent(p) \in Tasks /\ pc[Parent(p)] = "call" => Parent(p) # t /\ Parent(p) \notin new
      BY <1>1, <1>7 DEF Engaged, IsActive, Active
    <3> QED BY <1>5, <3>1
  <2> QED BY <1>4, <1>5, <2>1, <2>2, StillTorn
<1> QED BY <1>8, <1>9, <1>10 DEF CallInv

-----------------------------------------------------------------------------
(* The theorem                                                             *)

CallInvariant == \E X \in SUBSET Tasks : CallInv(X)

LEMMA CallInvariantInit == Init => CallInvariant
<1> SUFFICES ASSUME Init PROVE CallInv({})
  BY DEF CallInvariant
<1>1. TypeOK
  BY ShapeAssumption DEF Init, TypeOK, States, Pcs, Active, Blocked, Errors
<1>2. ASSUME NEW p \in Tasks PROVE TaskPlace({}, p)
  <2>1. CallLife(p)
    BY DEF Init, CallLife, IsActive, Done, Active, Blocked
  <2>2. ASSUME NEW i \in DOMAIN Children[p] PROVE SerialPlace(p, i) /\ ParallelPlace({}, p, i)
    <3>1. pc[Children[p][i]] = "idle" /\ i \in Nat \ {0} /\ next[p] = 1
      BY ChildAt DEF Init
    <3>2. ~Engaged(Children[p][i]) /\ pc[p] # "call"
      BY <3>1 DEF Init, Engaged, IsActive, Active, Blocked
    <3> QED BY <3>1, <3>2 DEF SerialPlace, ParallelPlace
  <2> QED BY <2>1, <2>2 DEF TaskPlace
<1> QED BY <1>1, <1>2 DEF CallInv

LEMMA CallInvariantKept ==
    ASSUME CallInvariant, TypeOK', UNCHANGED <<pc, state, next, pool, outcome>>
    PROVE  CallInvariant'
<1> SUFFICES ASSUME NEW X \in SUBSET Tasks, CallInv(X) PROVE CallInv(X)'
  BY DEF CallInvariant
<1>1. ASSUME NEW p \in Tasks PROVE TaskPlace(X, p)'
  BY StillPlace DEF CallInv
<1>2. ASSUME NEW p \in X PROVE Torn(X, p)'
  BY DEF CallInv, Torn, Done
<1> QED BY <1>1, <1>2 DEF CallInv

LEMMA CallInvariantStep ==
    ASSUME CallInvariant, NEW t \in Tasks, Step(t) \/ TimerFires(t)
    PROVE  CallInvariant'
<1>1. PICK X \in SUBSET Tasks : CallInv(X)
  BY DEF CallInvariant
<1> USE <1>1
<1>2. TypeOK'
  <2>1. Next
    BY DEF Next
  <2> QED BY <2>1, TypeStep DEF CallInv
<1> USE <1>2
<1>3. CASE SerialCall(t)
  <2>1. CallInv(X)'
    BY <1>3, SerialCallCall
  <2> QED BY <2>1 DEF CallInvariant
<1>4. CASE SerialResume(t)
  BY <1>4, SerialResumeCall DEF CallInvariant
<1>5. CASE SerialReturn(t)
  <2>1. CallInv(X)'
    BY <1>5, SerialReturnCall
  <2> QED BY <2>1 DEF CallInvariant
<1>6. CASE Spawn(t)
  <2>1. CallInv(X)'
    BY <1>6, SpawnCall
  <2> QED BY <2>1 DEF CallInvariant
<1>7. CASE GreenletRun(t)
  <2>1. CallInv(X)'
    BY <1>7, GreenletRunCall
  <2> QED BY <2>1 DEF CallInvariant
<1>8. CASE Discard(t)
  <2>1. CallInv(X)'
    BY <1>8, DiscardCall
  <2> QED BY <2>1 DEF CallInvariant
<1>9. CASE JoinReturn(t)
  <2>1. CallInv(X)'
    BY <1>9, JoinReturnCall
  <2> QED BY <2>1 DEF CallInvariant
<1>10. CASE LeafAnswers(t)
  <2>1. CallInv(X)'
    BY <1>10, LeafAnswersCall
  <2> QED BY <2>1 DEF CallInvariant
<1>11. CASE Retry(t)
  <2>1. CallInv(X)'
    BY <1>11, RetryCall
  <2> QED BY <2>1 DEF CallInvariant
<1>12. CASE TimerFires(t)
  BY <1>12, TimerFiresCall DEF CallInvariant
<1> QED BY <1>3, <1>4, <1>5, <1>6, <1>7, <1>8, <1>9, <1>10, <1>11, <1>12 DEF Step

LEMMA CallInvariantNext == CallInvariant /\ [Next]_vars => CallInvariant'
<1>1. CallInvariant /\ UNCHANGED vars => CallInvariant'
  <2>1. CallInvariant /\ UNCHANGED vars => TypeOK'
    BY TypeStep DEF CallInvariant, CallInv
  <2> QED BY <2>1, CallInvariantKept DEF vars, callVars, poolVars
<1> QED BY <1>1, CallInvariantStep DEF Next, Terminated

\* Whatever timeouts a scenario sets, every task is called by its parent alone and
\* one call at a time, except that the greenlets of a torn parallel task run on.
THEOREM CallsInvariant == Spec => []CallInvariant
BY CallInvariantInit, CallInvariantNext, PTL DEF Spec

-----------------------------------------------------------------------------
(* The counter                                                             *)

LEMMA CallFacts == CallInvariant => TypeOK /\ \A t \in Tasks : CallLife(t)
BY DEF CallInvariant, CallInv, TaskPlace

RunningTasks == {t \in Tasks : state[t] = "RUNNING"}

LEMMA RunningFinite == IsFiniteSet(RunningTasks) /\ Cardinality(RunningTasks) \in Nat
BY FS_Subset, FS_CardinalityType, ShapeAssumption DEF RunningTasks

\* A call that is entered is counted once.
LEMMA CountEnter ==
    ASSUME TypeOK, NEW t \in Tasks, CallLife(t), ~IsActive(t),
           RunningCountExact, NEW pcs, Enter(t, pcs)
    PROVE  RunningCountExact'
<1>1. RunningTasks' = RunningTasks \cup {t} /\ t \notin RunningTasks
  BY DEF RunningTasks, Enter, TypeOK, CallLife
<1>2. Cardinality(RunningTasks') = Cardinality(RunningTasks) + 1
  BY <1>1, RunningFinite, FS_AddElement
<1> QED  BY <1>2 DEF RunningCountExact, RunningTasks, Enter

\* A call that ends is taken off the counter.
LEMMA CountEnd ==
    ASSUME TypeOK, NEW t \in Tasks, CallLife(t), IsActive(t), RunningCountExact,
           Finish(t) \/ \E error \in Errors : Fail(t, error)
    PROVE  RunningCountExact'
<1>1. RunningTasks' = RunningTasks \ {t} /\ t \in RunningTasks
  BY DEF RunningTasks, Finish, Fail, TypeOK, CallLife
<1>2. Cardinality(RunningTasks') = Cardinality(RunningTasks) - 1
  BY <1>1, RunningFinite, FS_RemoveElement
<1>3. running_task_count' = running_task_count - 1
  BY DEF Finish, Fail
<1> QED  BY <1>2, <1>3 DEF RunningCountExact, RunningTasks

LEMMA CountKept ==
    ASSUME RunningCountExact, UNCHANGED <<state, running_task_count>>
    PROVE  RunningCountExact'
BY DEF RunningCountExact

LEMMA CountRaise ==
    ASSUME TypeOK, NEW t \in Tasks, CallLife(t), IsActive(t), RunningCountExact,
           NEW error \in Errors, Raise(t, error)
    PROVE  RunningCountExact'
<1>1. {"assertion", "oserror"} \subseteq Errors  BY DEF Errors
<1> QED  BY <1>1, CountEnd, CountKept DEF Raise, HandleTimeout, GoToSleep

LEMMA CountReturn ==
    ASSUME TypeOK, NEW t \in Tasks, CallLife(t), IsActive(t), RunningCountExact,
           NEW value, Return(t, value)
    PROVE  RunningCountExact'
BY CountEnd, CountKept DEF Return, GoToSleep

LEMMA CountStep ==
    ASSUME CallInvariant, RunningCountExact, NEW t \in Tasks, Step(t) \/ TimerFires(t)
    PROVE  RunningCountExact'
<1>0. TypeOK /\ \A u \in Tasks : CallLife(u)
  BY CallFacts
<1> USE <1>0 DEF IsActive, Active, Blocked
<1>1. CASE SerialCall(t)
  <2>1. PICK X \in SUBSET Tasks : CallInv(X)
    BY DEF CallInvariant
  <2>2. PICK i \in DOMAIN Children[t] : i = next[t] /\ pc[t] = "loop" /\ Kind[t] = "serial"
    BY <1>1, ChildFacts DEF SerialCall, TypeOK
  <2>3. Children[t][i] \in Tasks /\ ~IsActive(Children[t][i])
    BY <2>1, <2>2, NotTorn, ChildAt DEF Engaged
  <2>4. Enter(Children[t][i], [pc EXCEPT ![t] = "call"])
    BY <1>1, <2>2 DEF SerialCall
  <2> QED BY <2>3, <2>4, CountEnter
<1>2. CASE SerialResume(t)
  <2>1. pc[t] = "call" /\ Children[t][next[t]] \in Tasks
    BY <1>2, ChildFacts DEF SerialResume, TypeOK
  <2> QED  BY <1>2, <2>1, CountRaise, CountKept DEF SerialResume, TypeOK
<1>3. CASE SerialReturn(t)  BY <1>3, CountReturn DEF SerialReturn
<1>4. CASE Spawn(t)  BY <1>4, CountKept DEF Spawn
<1>5. CASE GreenletRun(t)  BY <1>5, CountEnter DEF GreenletRun
<1>6. CASE Discard(t)  BY <1>6, CountKept DEF Discard, callVars
<1>7. CASE JoinReturn(t)
  <2>1. CASE Return(t, "falsy")  BY <1>7, <2>1, CountReturn DEF JoinReturn
  <2>2. ASSUME NEW c \in watched[t], state[c] = "ERRORED", Raise(t, outcome[c])
        PROVE  RunningCountExact'
    <3>1. outcome[c] \in Errors  BY <2>2 DEF TypeOK
    <3> QED  BY <1>7, <2>2, <3>1, CountRaise DEF JoinReturn
  <2> QED  BY <1>7, <2>1, <2>2 DEF JoinReturn
<1>8. CASE LeafAnswers(t)
  <2>1. PICK answer \in Answers(t) :
          IF answer \in Errors THEN Raise(t, answer) ELSE Return(t, answer)
    BY <1>8 DEF LeafAnswers
  <2> QED  BY <1>8, <2>1, CountRaise, CountReturn DEF LeafAnswers
<1>9. CASE Retry(t)  BY <1>9, CountKept DEF Retry
<1>10. CASE TimerFires(t)
  <2>1. PICK b \in Tasks : pc[b] \in Blocked /\ Raise(b, "timeout")
    BY <1>10 DEF TimerFires
  <2>2. "timeout" \in Errors  BY DEF Errors
  <2> QED  BY <2>1, <2>2, CountRaise
<1> QED  BY <1>1, <1>2, <1>3, <1>4, <1>5, <1>6, <1>7, <1>8, <1>9, <1>10 DEF Step

LEMMA CountInit == Init => RunningCountExact
<1>1. Init => {t \in Tasks : state[t] = "RUNNING"} = {}
  BY DEF Init
<1> QED BY <1>1, FS_EmptySet DEF Init, RunningCountExact

\* The counter the console UI shows is exact: every __call__ that has added one to
\* running_task_count takes it off again, by whichever way it is left.
THEOREM CountExact == Spec => []RunningCountExact
<1>1. CallInvariant /\ RunningCountExact /\ [Next]_vars => RunningCountExact'
  BY CountStep, CountKept DEF Next, Terminated, vars, callVars
<1> QED BY <1>1, CountInit, CallsInvariant, PTL DEF Spec

-----------------------------------------------------------------------------
(* The pools                                                               *)

PoolBound ==
    \A p \in Tasks : Kind[p] = "parallel" => Cardinality(pool[p]) <= Slots(p)

\* So many children are started as there are free slots.
LEMMA SpawnBound ==
    ASSUME TypeOK, PoolBound, NEW t \in Tasks, Spawn(t)
    PROVE  PoolBound'
<1> DEFINE old  == IF pc[t] = "loop" THEN {} ELSE pool[t]
            room == next[t] + Slots(t) - Cardinality(old) - 1
            last == IF room < Len(Children[t]) THEN room ELSE Len(Children[t])
            new  == {Children[t][i] : i \in next[t]..last}
            child == [i \in next[t]..last |-> Children[t][i]]
<1>1. old \in SUBSET Tasks /\ Cardinality(old) \in Nat /\ Cardinality(old) <= Slots(t)
  BY Counting, FS_EmptySet, ChildFacts DEF TypeOK, Spawn
<1>2. /\ next[t] \in Nat /\ last \in Int
      /\ last <= next[t] + Slots(t) - Cardinality(old) - 1
  BY <1>1, ChildFacts DEF TypeOK
<1>3. /\ IsFiniteSet(next[t]..last)
      /\ Cardinality(next[t]..last) <= Slots(t) - Cardinality(old)
  <2> HIDE DEF old, last
  <2>1. Slots(t) \in Nat  BY ChildFacts
  <2>2. /\ IsFiniteSet(next[t]..last)
        /\ Cardinality(next[t]..last) = IF next[t] > last THEN 0 ELSE last - next[t] + 1
    <3>1. next[t] \in Int /\ last \in Int  BY <1>2
    <3> QED  BY ONLY <3>1, FS_Interval
  <2> QED  BY <1>1, <1>2, <2>1, <2>2
<1>4. child \in Surjection(next[t]..last, new)
  BY DEF Surjection
<1>5. IsFiniteSet(new) /\ Cardinality(new) <= Cardinality(next[t]..last)
  BY <1>3, <1>4, FS_Surjection
<1>6. IsFiniteSet(old)  BY <1>1, ShapeAssumption, FS_Subset
<1>7. /\ pool' = [pool EXCEPT ![t] = old \cup new]
  BY DEF Spawn
<1> HIDE DEF old, room, last, new, child
<1>8. Cardinality(old \cup new) <= Slots(t)
  <2>1. Cardinality(old \cup new)
           = Cardinality(old) + Cardinality(new) - Cardinality(old \cap new)
    BY <1>5, <1>6, FS_Union
  <2>2. IsFiniteSet(old \cap new)  BY <1>6, FS_Subset
  <2>3. /\ Cardinality(old \cap new) \in Nat /\ Cardinality(new) \in Nat
        /\ Cardinality(next[t]..last) \in Nat
    BY <1>3, <1>5, <2>2, FS_CardinalityType
  <2> QED  BY <1>1, <1>3, <1>5, <2>1, <2>3, ChildFacts
<1>9. ASSUME NEW p \in Tasks, Kind[p] = "parallel"
      PROVE  Cardinality(pool'[p]) <= Slots(p)
  <2>1. CASE p = t  BY <1>7, <1>8, <2>1 DEF TypeOK
  <2>2. CASE p # t  BY <1>7, <1>9, <2>2 DEF TypeOK, PoolBound
  <2> QED  BY <2>1, <2>2
<1> QED  BY <1>9 DEF PoolBound, Slots

LEMMA DiscardBound ==
    ASSUME TypeOK, PoolBound, NEW t \in Tasks, Discard(t)
    PROVE  PoolBound'
<1>1. ASSUME NEW p \in Tasks, Kind[p] = "parallel"
      PROVE  Cardinality(pool'[p]) <= Slots(p)
  <2>1. pool'[p] \subseteq pool[p] /\ pool[p] \subseteq Tasks
    BY DEF Discard, TypeOK
  <2>2. IsFiniteSet(pool[p])  BY <2>1, ShapeAssumption, FS_Subset
  <2>3. Cardinality(pool'[p]) <= Cardinality(pool[p])  BY <2>1, <2>2, FS_Subset
  <2>4. Cardinality(pool'[p]) \in Nat /\ Cardinality(pool[p]) \in Nat
    BY <2>1, Counting
  <2> QED  BY <1>1, <2>3, <2>4, ChildFacts DEF PoolBound
<1> QED  BY <1>1 DEF PoolBound, Slots

LEMMA PoolBoundStep == TypeOK /\ PoolBound /\ [Next]_vars => PoolBound'
<1> SUFFICES ASSUME TypeOK, PoolBound, [Next]_vars PROVE PoolBound'
  OBVIOUS
<1>1. ASSUME NEW t \in Tasks, Spawn(t) PROVE PoolBound'  BY <1>1, SpawnBound
<1>2. ASSUME NEW t \in Tasks, Discard(t) PROVE PoolBound'  BY <1>2, DiscardBound
<1>3. CASE UNCHANGED pool  BY <1>3 DEF PoolBound, Slots
<1> QED
  BY <1>1, <1>2, <1>3 DEF Next, Step, SerialCall, SerialResume, SerialReturn,
     GreenletRun, JoinReturn, LeafAnswers, Retry, TimerFires, Terminated, vars, poolVars

LEMMA PoolBoundInit == Init => PoolBound
BY FS_EmptySet, ChildFacts DEF Init, PoolBound

\* The children at work are in the pool, those of a torn task included.
LEMMA PoolsHold == CallInvariant /\ PoolBound => ConcurrencyBound
<1> SUFFICES ASSUME NEW X \in SUBSET Tasks, CallInv(X), PoolBound,
                    NEW p \in Tasks, Kind[p] = "parallel", Concurrency[p] # NoLimit
             PROVE  Cardinality({c \in Offspring(p) : IsActive(c)}) <= Concurrency[p]
  BY DEF CallInvariant, ConcurrencyBound
<1> DEFINE active == {c \in Offspring(p) : IsActive(c)}
<1>1. active \subseteq pool[p]
  BY DEF Offspring, Engaged, CallInv, TaskPlace, ParallelPlace
<1>2. IsFiniteSet(pool[p]) /\ pool[p] \subseteq Tasks
  BY ShapeAssumption, FS_Subset DEF CallInv, TypeOK
<1>3. Cardinality(active) <= Cardinality(pool[p])
  BY <1>1, <1>2, FS_Subset
<1>4. Cardinality(pool[p]) <= Slots(p) /\ Slots(p) = Concurrency[p]
  BY DEF PoolBound, Slots
<1>5. Cardinality(active) \in Nat /\ Cardinality(pool[p]) \in Nat /\ Slots(p) \in Nat
  BY <1>1, <1>2, Counting, ChildFacts
<1> QED BY <1>3, <1>4, <1>5

\* `concurrency` bounds the children of a parallel task that are at work at a time,
\* as the size of its Pool bounds the greenlets.
THEOREM ConcurrencyKept == Spec => []ConcurrencyBound
<1>1. CallInvariant => TypeOK
  BY CallFacts
<1> QED BY <1>1, PoolBoundInit, PoolBoundStep, PoolsHold, CallsInvariant, PTL DEF Spec

-----------------------------------------------------------------------------
(* The order of the serial tasks                                           *)

LEMMA InTurn == CallInvariant => SerialIsolation
<1> SUFFICES ASSUME NEW X \in SUBSET Tasks, CallInv(X), NEW p \in Tasks,
                    NEW i \in DOMAIN Children[p], NEW j \in DOMAIN Children[p],
                    Kind[p] = "serial", i < j, IsActive(Children[p][j])
             PROVE  state[Children[p][i]] = "FINISHED"
  BY DEF CallInvariant, SerialIsolation
<1>1. j = next[p]
  BY DEF CallInv, TaskPlace, SerialPlace, Engaged
<1> QED BY <1>1 DEF CallInv, TaskPlace, SerialPlace

\* The children of a serial task run one at a time, each after the success of
\* the earlier ones.
THEOREM SerialOrder == Spec => []SerialIsolation
BY CallsInvariant, InTurn, PTL

-----------------------------------------------------------------------------
(* One frame to throw in                                                   *)

\* The callers of a task on its greenlet stand in the call that leads to it.
LEMMA CallersOnPath ==
    ASSUME NEW X \in SUBSET Tasks, CallInv(X)
    PROVE  \A y \in Tasks : Engaged(y) =>
              \A t \in Ancestors[y] : GreenletOf[t] = GreenletOf[y] =>
                 pc[t] = "call" /\ Children[t][next[t]] \in {y} \cup Ancestors[y]
<1> DEFINE P(y) == Engaged(y) =>
                      \A t \in Ancestors[y] : GreenletOf[t] = GreenletOf[y] =>
                         pc[t] = "call" /\ Children[t][next[t]] \in {y} \cup Ancestors[y]
           S == {y \in Tasks : P(y)}
<1>1. Root \in S
  BY ShapeAssumption, AncestorsEquation
<1>2. ASSUME NEW y \in Tasks \ {Root}, Parent(y) \in S PROVE y \in S
  <2> DEFINE q == Parent(y)
  <2> SUFFICES ASSUME Engaged(y), NEW t \in Ancestors[y], GreenletOf[t] = GreenletOf[y]
               PROVE  pc[t] = "call" /\ Children[t][next[t]] \in {y} \cup Ancestors[y]
    OBVIOUS
  <2>1. /\ q \in Tasks /\ y \in Offspring(q) /\ Ancestors[y] = {q} \cup Ancestors[q] /\ P(q)
    BY <1>2, ParentFacts, AncestorsEquation
  <2>2. /\ Kind[q] = "serial" /\ GreenletOf[q] = GreenletOf[y]
        /\ t = q \/ t \in Ancestors[q]
    BY SameGreenlet
  <2>3. PICK i \in DOMAIN Children[q] : y = Children[q][i]
    BY <2>1 DEF Offspring
  <2>4. pc[q] = "call" /\ i = next[q]
    BY <2>1, <2>2, <2>3 DEF CallInv, TaskPlace, SerialPlace
  <2>5. CASE t = q
    BY <2>3, <2>4, <2>5
  <2>6. CASE t \in Ancestors[q]
    <3>1. Engaged(q)
      BY <2>4 DEF Engaged, IsActive, Active
    <3> QED BY <2>1, <2>2, <2>6, <3>1
  <2> QED BY <2>2, <2>5, <2>6
<1>3. S = Tasks
  <2> HIDE DEF S
  <2>1. S \in SUBSET Tasks
    BY DEF S
  <2> QED BY <1>1, <1>2, <2>1, TreeInduction
<1> QED BY <1>3

\* Of two tasks at work on one greenlet one is above the other: where their paths to
\* the root part there would be one caller with two children at work.
LEMMA OnePath ==
    ASSUME NEW X \in SUBSET Tasks, CallInv(X), NEW a \in Tasks, NEW b \in Tasks,
           Engaged(a), Engaged(b), GreenletOf[a] = GreenletOf[b]
    PROVE  a = b \/ a \in Ancestors[b] \/ b \in Ancestors[a]
<1> SUFFICES ASSUME a # b, a \notin Ancestors[b], b \notin Ancestors[a] PROVE FALSE
  OBVIOUS
<1> DEFINE Path(y) == {y} \cup Ancestors[y]
           D == {t \in Path(a) : GreenletOf[t] = GreenletOf[a] /\ t \notin Path(b)}
<1>1. D \in SUBSET (Tasks \ {Root}) /\ a \in D
  BY AncestorFacts, RootAbove
<1>2. PICK t \in D : Parent(t) \notin D
  BY <1>1, RootAssumption
<1> DEFINE q == Parent(t)
<1>3. t \in Tasks /\ q \in Tasks /\ t \in Offspring(q) /\ q \in Ancestors[a]
  <2>1. t \in Tasks \ {Root}
    BY <1>1, <1>2
  <2>2. Ancestors[t] = {q} \cup Ancestors[q]
    BY <2>1, AncestorsEquation
  <2>3. q \in Ancestors[t]
    BY <2>2
  <2> QED BY <1>2, <2>1, <2>3, ParentFacts, AncestorFacts
<1>4. ~IsHead(t)
  <2>1. GreenletOf[b] \in Path(b)
    BY GreenletFacts
  <2> QED BY <1>2, <1>3, <2>1, GreenletEquation
<1>5. GreenletOf[q] = GreenletOf[a] /\ Kind[q] = "serial"
  <2>1. t # Root /\ Kind[q] # "parallel"
    BY <1>4 DEF IsHead
  <2>2. GreenletOf[q] = GreenletOf[t]
    BY <1>3, <1>4, GreenletEquation
  <2> QED BY <1>2, <1>3, <2>1, <2>2, ChildFacts DEF IsLeaf, Composites
<1>6. q \in Ancestors[b]
  BY <1>2, <1>3, <1>5
<1>7. pc[q] = "call" /\ Children[q][next[q]] \in Path(b)
  BY <1>5, <1>6, CallersOnPath
<1>8. Engaged(t)
  <2>1. t \in Ancestors[a] => pc[t] = "call"
    BY <1>2, CallersOnPath
  <2> QED BY <1>2, <2>1 DEF Engaged, IsActive, Active
<1>9. PICK i \in DOMAIN Children[q] : t = Children[q][i]
  BY <1>3 DEF Offspring
<1>10. i = next[q]
  BY <1>3, <1>5, <1>8, <1>9 DEF CallInv, TaskPlace, SerialPlace
<1> QED BY <1>2, <1>7, <1>9, <1>10

LEMMA OneFrame == CallInvariant => OneBlockedFrame
<1> SUFFICES ASSUME NEW X \in SUBSET Tasks, CallInv(X), NEW a \in Tasks, NEW b \in Tasks,
                    pc[a] \in Blocked, pc[b] \in Blocked, GreenletOf[a] = GreenletOf[b]
             PROVE  a = b
  BY DEF CallInvariant, OneBlockedFrame
<1>1. Engaged(a) /\ Engaged(b) /\ pc[a] # "call" /\ pc[b] # "call"
  BY DEF Engaged, IsActive, Active, Blocked
<1> QED BY <1>1, OnePath, CallersOnPath

\* A greenlet is blocked in one frame at a time: a timer has one frame to be thrown
\* in, and what it interrupts is what its task is waiting for.
THEOREM OneFrameBlocked == Spec => []OneBlockedFrame
BY CallsInvariant, OneFrame, PTL

-----------------------------------------------------------------------------
(* The recorded assertion                                                  *)

\* The timer of a leaf ends it.
FiredInv == \A t \in fired : IsLeaf(t) => ~IsActive(t)

ReportInv == AssertionReported /\ FiredInv

LEMMA ReportEnter ==
    ASSUME TypeOK, ReportInv, NEW t \in Tasks, NEW pcs, Enter(t, pcs),
           \A u \in Tasks : pcs[u] \in Active => pc[u] \in Active, pcs \in [Tasks -> Pcs]
    PROVE  ReportInv'
<1>1. AssertionReported'
  BY OptionAssumption DEF ReportInv, AssertionReported, TypeOK, Enter
<1>2. FiredInv'
  BY OptionAssumption DEF ReportInv, FiredInv, IsActive, TypeOK, Enter
<1> QED BY <1>1, <1>2 DEF ReportInv

\* What an attempt leaves of the record when its task ends as a success.
LEMMA ReportEnds ==
    ASSUME TypeOK, ReportInv, NEW t \in Tasks, CallLife(t), IsActive(t),
           \/ \E error : Raise(t, error)
           \/ \E value : Return(t, value) /\ (value = "falsy" \/ IsLeaf(t)),
           NEW f \in SUBSET Timed, fired' = fired \cup f,
           \A u \in f : IsActive(u) /\ (u = t \/ ~IsLeaf(u)) /\ CallLife(u),
           f # {} => Raise(t, "timeout")
    PROVE  ReportInv'
<1>1. /\ state[t] = "RUNNING" /\ fired' \in SUBSET Tasks
      /\ \A u \in Tasks \ {t} : /\ pc'[u] = pc[u] /\ state'[u] = state[u]
                               /\ exception'[u] = exception[u]
  <2>1. state[t] = "RUNNING" /\ fired' \in SUBSET Tasks
    BY OptionAssumption DEF TypeOK, CallLife
  <2>2. \A u \in Tasks \ {t} : pc'[u] = pc[u] /\ state'[u] = state[u]
    <3>1. PICK v : Return(t, v) \/ Raise(t, v)
      OBVIOUS
    <3> QED BY <2>1, <3>1, AttemptEnds DEF Moves, TypeOK
  <2>3. \A u \in Tasks \ {t} : exception'[u] = exception[u]
    BY DEF TypeOK, Raise, Return, HandleTimeout, Finish, Fail
  <2> QED BY <2>1, <2>2, <2>3
<1>2. ASSUME t \in fired', state'[t] = "FINISHED" PROVE exception'[t] = "none"
  BY <1>1, <1>2 DEF ReportInv, FiredInv, TypeOK, Raise, Return, HandleTimeout, GoToSleep,
                    Finish, Fail
<1>3. ASSUME t \in fired', IsLeaf(t) PROVE ~IsActive(t)'
  BY <1>1, <1>3 DEF ReportInv, FiredInv, TypeOK, Raise, Return, HandleTimeout, GoToSleep,
                    Finish, Fail, IsActive, Active, Blocked
<1>4. AssertionReported'
  BY <1>1, <1>2 DEF ReportInv, AssertionReported, CallLife, TypeOK
<1>5. FiredInv'
  BY <1>1, <1>3 DEF ReportInv, FiredInv, IsActive, TypeOK
<1> QED BY <1>4, <1>5 DEF ReportInv

LEMMA ReportEndsUntimed ==
    ASSUME TypeOK, ReportInv, NEW t \in Tasks, CallLife(t), IsActive(t), UNCHANGED fired,
           \/ \E error : Raise(t, error)
           \/ \E value : Return(t, value) /\ (value = "falsy" \/ IsLeaf(t))
    PROVE  ReportInv'
<1>1. {} \in SUBSET Timed /\ fired' = fired \cup {}
  OBVIOUS
<1> QED BY <1>1, ReportEnds, Zenon

LEMMA ReportKept ==
    ASSUME TypeOK, ReportInv, UNCHANGED <<state, exception, fired>>,
           \A u \in Tasks : IsActive(u)' => IsActive(u)
    PROVE  ReportInv'
BY OptionAssumption DEF ReportInv, AssertionReported, FiredInv, TypeOK

LEMMA ReportStep ==
    ASSUME CallInvariant, ReportInv, NEW t \in Tasks, Step(t) \/ TimerFires(t)
    PROVE  ReportInv'
<1>1. TypeOK /\ \A u \in Tasks : CallLife(u)
  BY CallFacts
<1> USE <1>1
<1>2. CASE SerialCall(t)
  <2>1. PICK i \in DOMAIN Children[t] : i = next[t] /\ pc[t] = "loop"
    BY <1>2, ChildFacts DEF SerialCall, TypeOK
  <2>2. Children[t][i] \in Tasks /\ Enter(Children[t][i], [pc EXCEPT ![t] = "call"])
    BY <1>2, <2>1, ChildAt DEF SerialCall
  <2>3. /\ [pc EXCEPT ![t] = "call"] \in [Tasks -> Pcs]
        /\ \A u \in Tasks : [pc EXCEPT ![t] = "call"][u] \in Active => pc[u] \in Active
    BY <2>1 DEF TypeOK, Pcs, Active
  <2> QED BY <2>2, <2>3, ReportEnter
<1>3. CASE SerialResume(t)
  <2>1. IsActive(t) /\ UNCHANGED fired
    BY <1>3 DEF SerialResume, IsActive, Active
  <2>2. CASE \E error : Raise(t, error)
    BY <2>1, <2>2, ReportEndsUntimed
  <2>3. CASE pc' = [pc EXCEPT ![t] = "loop"] /\ UNCHANGED <<state, exception>>
    BY <2>1, <2>3, ReportKept DEF TypeOK, IsActive
  <2> QED BY <1>3, <2>2, <2>3 DEF SerialResume
<1>4. CASE SerialReturn(t)
  <2>1. IsActive(t) /\ UNCHANGED fired /\ Return(t, "falsy")
    BY <1>4 DEF SerialReturn, IsActive, Active
  <2> QED BY <2>1, ReportEndsUntimed
<1>5. CASE Spawn(t)
  <2>1. UNCHANGED <<state, exception, fired>> /\ IsActive(t)
    BY <1>5 DEF Spawn, IsActive, Active, Blocked
  <2>2. \A u \in Tasks : IsActive(u)' => IsActive(u)
    BY <1>5, <2>1 DEF Spawn, IsActive, Active, Blocked
  <2> QED BY <2>1, <2>2, ReportKept
<1>6. CASE GreenletRun(t)
  BY <1>6, ReportEnter DEF GreenletRun, TypeOK
<1>7. CASE Discard(t)
  BY <1>7, ReportKept DEF Discard, callVars, IsActive
<1>8. CASE JoinReturn(t)
  <2>1. IsActive(t) /\ UNCHANGED fired
    BY <1>8 DEF JoinReturn, IsActive, Active, Blocked
  <2>2. CASE \E error : Raise(t, error)
    BY <2>1, <2>2, ReportEndsUntimed
  <2>3. CASE Return(t, "falsy")
    BY <2>1, <2>3, ReportEndsUntimed
  <2> QED BY <1>8, <2>2, <2>3 DEF JoinReturn
<1>9. CASE LeafAnswers(t)
  <2>1. IsActive(t) /\ IsLeaf(t) /\ UNCHANGED fired
    BY <1>9 DEF LeafAnswers, CallLife, IsActive, Active, Blocked
  <2>2. CASE \E error : Raise(t, error)
    BY <2>1, <2>2, ReportEndsUntimed
  <2>3. CASE \E value : Return(t, value)
    BY <2>1, <2>3, ReportEndsUntimed
  <2> QED BY <1>9, <2>2, <2>3 DEF LeafAnswers
<1>10. CASE Retry(t)
  BY <1>10, ReportKept DEF Retry, TypeOK, IsActive, Active, Blocked
<1>11. CASE TimerFires(t)
  <2>1. PICK b \in Tasks : /\ pc[b] \in Blocked /\ Raise(b, "timeout")
                           /\ b = t \/ ~IsLeaf(t)
    BY <1>11 DEF TimerFires
  <2>2. IsActive(b) /\ IsActive(t) /\ {t} \in SUBSET Timed /\ fired' = fired \cup {t}
    BY <1>11, <2>1 DEF TimerFires, IsActive, Active
  <2> QED BY <2>1, <2>2, ReportEnds
<1> QED BY <1>2, <1>3, <1>4, <1>5, <1>6, <1>7, <1>8, <1>9, <1>10, <1>11 DEF Step

\* A task that its timer ends as a success had no failed assertion on record: what
\* the last attempt has found wrong is what the scenario reports.
THEOREM AssertionNotLost == Spec => []AssertionReported
<1>1. Init => ReportInv
  BY DEF Init, ReportInv, AssertionReported, FiredInv
<1>2. CallInvariant /\ ReportInv /\ UNCHANGED vars => ReportInv'
  BY CallFacts, ReportKept DEF vars, callVars, IsActive
<1>3. CallInvariant /\ ReportInv /\ [Next]_vars => ReportInv'
  BY <1>2, ReportStep DEF Next, Terminated
<1>4. ReportInv => AssertionReported
  BY DEF ReportInv
<1> QED BY <1>1, <1>3, <1>4, CallsInvariant, PTL DEF Spec

-----------------------------------------------------------------------------
(* An error on its way up a greenlet                                       *)

\* The tasks on the greenlet of t at or below it.
Segment(t) == {u \in Tasks : GreenletOf[u] = GreenletOf[t] /\ (u = t \/ t \in Ancestors[u])}

\* Everything called there waits for a callee; one that is over has raised `error`.
Unwinding(t, error) ==
    \A u \in Segment(t) : IsActive(u) =>
       /\ pc[u] = "call"
       /\ Done(Children[u][next[u]]) => /\ state[Children[u][next[u]]] = "ERRORED"
                                        /\ outcome[Children[u][next[u]]] = error

Still(u) == pc'[u] = pc[u] /\ state'[u] = state[u] /\ outcome'[u] = outcome[u]
            /\ next'[u] = next[u]

\* The children that a step calls, or puts on greenlets.
LEMMA NewCalls ==
    ASSUME NEW X \in SUBSET Tasks, CallInv(X), NEW s \in Tasks, SerialCall(s) \/ Spawn(s)
    PROVE  /\ pc[s] \in {"loop", "slot"}
           /\ \A u \in Tasks \ {s} : Still(u) \/ (~Engaged(u) /\ u # Root /\ Parent(u) = s)
<1>1. TypeOK /\ pc[s] \in {"loop", "slot"} /\ CallLife(s)
  BY DEF CallInv, TaskPlace, SerialCall, Spawn
<1>2. CASE SerialCall(s)
  <2>1. PICK i \in DOMAIN Children[s] : i = next[s] /\ pc[s] = "loop" /\ Kind[s] = "serial"
    BY <1>1, <1>2, ChildFacts DEF SerialCall, TypeOK
  <2>2. ~Engaged(Children[s][i])
    BY <2>1, NotTorn
  <2>3. \A u \in Tasks \ {s, Children[s][i]} : Still(u)
    BY <1>1, <1>2, <2>1 DEF SerialCall, Enter, TypeOK, Still
  <2> QED BY <1>1, <2>2, <2>3, ChildAt
<1>3. CASE Spawn(s)
  <2> DEFINE old  == IF pc[s] = "loop" THEN {} ELSE pool[s]
             room == next[s] + Slots(s) - Cardinality(old) - 1
             last == IF room < Len(Children[s]) THEN room ELSE Len(Children[s])
             new  == {Children[s][i] : i \in next[s]..last}
  <2>1. Cardinality(old) \in Nat /\ last \in Int /\ last <= Len(Children[s])
    BY <1>1, Counting, FS_EmptySet, ChildFacts DEF TypeOK
  <2> HIDE DEF old, last, new
  <2>2. /\ next' = [next EXCEPT ![s] = last + 1]
        /\ pc' = [c \in Tasks |->
                    IF c = s THEN IF last = Len(Children[s]) THEN "join" ELSE "slot"
                    ELSE IF c \in new THEN "scheduled" ELSE pc[c]]
        /\ UNCHANGED <<state, outcome>>
    BY <1>3 DEF Spawn, old, last, new
  <2>3. \A u \in Tasks \ {s} : u \in new \/ Still(u)
    BY <1>1, <2>2 DEF TypeOK, Still
  <2>4. ASSUME NEW u \in new PROVE ~Engaged(u) /\ u # Root /\ Parent(u) = s
    <3>1. PICK i \in next[s]..last : u = Children[s][i]
      BY DEF new
    <3>2. i \in DOMAIN Children[s] /\ i >= next[s]
      BY <1>1, <2>1, ChildFacts DEF TypeOK
    <3>3. Kind[s] = "parallel" /\ ~Done(s)
      BY <1>1, <1>3 DEF Spawn, Done
    <3> QED BY <3>1, <3>2, <3>3, NotTorn, ChildAt
  <2> QED BY <1>1, <2>3, <2>4
<1> QED BY <1>2, <1>3

\* What a step may move: its own task, and the children it calls.
LEMMA StepMoves ==
    ASSUME NEW X \in SUBSET Tasks, CallInv(X), NEW s \in Tasks, Step(s),
           NEW u \in Tasks, ~Still(u)
    PROVE  \/ u = s /\ \/ IsActive(s) /\ (pc[s] = "call" => SerialResume(s))
                       \/ GreenletRun(s)
           \/ ~Engaged(u) /\ u # Root /\ Parent(u) = s /\ pc[s] \in {"loop", "slot"}
<1>1. TypeOK /\ CallLife(s)
  BY DEF CallInv, TaskPlace
<1>2. CASE SerialCall(s) \/ Spawn(s)
  BY <1>2, NewCalls DEF IsActive, Active, Blocked
<1>3. CASE SerialResume(s)
  <2>1. u = s
    <3>1. CASE UNCHANGED <<state, outcome>> /\ pc' = [pc EXCEPT ![s] = "loop"]
               /\ next' = [next EXCEPT ![s] = @ + 1]
      <4>1. \A w \in Tasks \ {s} : Still(w)
        BY <1>1, <3>1 DEF TypeOK, Still
      <4> QED BY <4>1
    <3>2. ASSUME NEW v, Raise(s, v), UNCHANGED next PROVE u = s
      <4>1. state[s] = "RUNNING"
        BY <1>1, <1>3 DEF SerialResume, CallLife, IsActive, Active
      <4> QED BY <1>1, <3>2, <4>1, AttemptEnds DEF Moves, TypeOK, Still
    <3> QED BY <1>3, <3>1, <3>2 DEF SerialResume
  <2> QED BY <1>3, <2>1 DEF SerialResume, IsActive, Active
<1>4. CASE SerialReturn(s) \/ JoinReturn(s) \/ LeafAnswers(s)
  <2>1. /\ pc[s] \in {"loop", "join", "request"} /\ UNCHANGED next
        /\ \E v : Return(s, v) \/ Raise(s, v)
    BY <1>4 DEF SerialReturn, JoinReturn, LeafAnswers
  <2>2. IsActive(s) /\ state[s] = "RUNNING"
    BY <1>1, <2>1 DEF CallLife, IsActive, Active, Blocked
  <2>3. PICK v : Return(s, v) \/ Raise(s, v)
    BY <2>1
  <2>4. ASSUME NEW w \in Tasks \ {s} PROVE Still(w)
    <3>1. PICK x, y : Moves(s, x, y) /\ outcome'[w] = outcome[w]
      BY <1>1, <2>2, <2>3, AttemptEnds
    <3> QED BY <1>1, <2>1, <3>1 DEF Moves, TypeOK, Still
  <2> QED BY <2>1, <2>2, <2>4
<1>5. CASE GreenletRun(s)
  <2>1. u = s
    BY <1>1, <1>5 DEF GreenletRun, Enter, TypeOK, Still
  <2> QED BY <1>5, <2>1
<1>6. CASE Discard(s)
  BY <1>6 DEF Discard, callVars, Still
<1>7. CASE Retry(s)
  BY <1>1, <1>7 DEF Retry, TypeOK, Still, IsActive, Active, Blocked
<1> QED BY <1>2, <1>3, <1>4, <1>5, <1>6, <1>7 DEF Step

\* An attempt goes on, or the call is over.
LEMMA StepStays ==
    ASSUME TypeOK, NEW s \in Tasks, CallLife(s), Step(s), IsActive(s)
    PROVE  (IsActive(s) \/ Done(s))'
<1>1. CASE SerialCall(s)
  BY <1>1, ShapeAssumption, ChildFacts, PlaceFacts
     DEF SerialCall, Enter, TypeOK, IsActive, Active, Entry, Blocked
<1>2. CASE SerialResume(s) \/ SerialReturn(s) \/ JoinReturn(s) \/ LeafAnswers(s)
  <2>1. state[s] = "RUNNING"
    BY DEF CallLife
  <2>2. CASE pc' = [pc EXCEPT ![s] = "loop"]
    BY <2>2 DEF TypeOK, IsActive, Active
  <2>3. CASE \E v : Return(s, v) \/ Raise(s, v)
    BY <2>1, <2>3, AttemptEnds DEF Moves, TypeOK, IsActive, Active, Blocked, Done
  <2> QED BY <1>2, <2>2, <2>3 DEF SerialResume, SerialReturn, JoinReturn, LeafAnswers
<1>3. CASE Spawn(s)
  BY <1>3 DEF Spawn, IsActive, Active, Blocked
<1>4. CASE GreenletRun(s) \/ Retry(s)
  BY <1>4 DEF GreenletRun, Retry, Enter, TypeOK, Entry, IsActive, Active, Blocked
<1>5. CASE Discard(s)
  BY <1>5 DEF Discard, callVars, IsActive
<1> QED BY <1>1, <1>2, <1>3, <1>4, <1>5 DEF Step

\* Without a call the timers stay as they are, and every task but one where it is.
LEMMA OthersKeep ==
    ASSUME TypeOK, NEW s \in Tasks, Step(s), ~SerialCall(s), ~GreenletRun(s), ~Spawn(s)
    PROVE  UNCHANGED fired /\ \A t \in Tasks \ {s} : pc'[t] = pc[t]
<1>1. UNCHANGED fired
  BY DEF Step, SerialResume, SerialReturn, Discard, JoinReturn, LeafAnswers, Retry
<1>2. CASE SerialResume(s) \/ Discard(s) \/ Retry(s)
  BY <1>1, <1>2 DEF SerialResume, Raise, HandleTimeout, GoToSleep, Finish, Fail, Discard,
                    Retry, TypeOK, callVars
<1>3. CASE SerialReturn(s) \/ JoinReturn(s) \/ LeafAnswers(s)
  <2>1. \E v : Return(s, v) \/ Raise(s, v)
    BY <1>3 DEF SerialReturn, JoinReturn, LeafAnswers
  <2> QED BY <1>1, <2>1 DEF Return, Raise, HandleTimeout, GoToSleep, Finish, Fail, TypeOK
<1> QED BY <1>2, <1>3 DEF Step

\* A greenlet runs from its first task.
LEMMA Scheduled ==
    ASSUME NEW X \in SUBSET Tasks, CallInv(X), NEW t \in Tasks, pc[t] = "scheduled"
    PROVE  IsHead(t)
<1> SUFFICES ASSUME ~IsHead(t) PROVE FALSE
  OBVIOUS
<1>1. t # Root /\ Parent(t) \in Tasks /\ t \in Offspring(Parent(t)) /\ Kind[Parent(t)] = "serial"
  BY ParentFacts, ChildFacts DEF IsHead, IsLeaf, Composites
<1>2. PICK i \in DOMAIN Children[Parent(t)] : t = Children[Parent(t)][i]
  BY <1>1 DEF Offspring
<1>3. SerialPlace(Parent(t), i) /\ Engaged(t) /\ ~IsActive(t) /\ ~Done(t)
  BY <1>1, <1>2 DEF CallInv, TaskPlace, Engaged, IsActive, Done, Active, Blocked
<1> QED BY <1>1, <1>2, <1>3 DEF SerialPlace

\* While an error is on its way up to t, the greenlet does nothing else below t.
LEMMA UnwindMoves ==
    ASSUME NEW X \in SUBSET Tasks, CallInv(X), NEW t \in Tasks, IsActive(t), NEW error,
           Unwinding(t, error), NEW s \in Tasks, Step(s), NEW u \in Segment(t), ~Still(u)
    PROVE  u = s /\ IsActive(s) /\ SerialResume(s)
<1>1. CASE u = s /\ IsActive(s) /\ (pc[s] = "call" => SerialResume(s))
  BY <1>1 DEF Unwinding
<1>2. CASE u = s /\ GreenletRun(s)
  <2>1. pc[s] = "scheduled" /\ s # t
    BY <1>2 DEF GreenletRun, IsActive, Active, Blocked
  <2>2. s # Root /\ Kind[Parent(s)] = "serial"
    BY <1>2, <2>1, SameGreenlet DEF Segment
  <2> QED BY <2>1, <2>2, Scheduled DEF IsHead
<1>3. CASE ~Engaged(u) /\ u # Root /\ Parent(u) = s /\ pc[s] \in {"loop", "slot"}
  <2>1. u # t
    BY <1>3 DEF Engaged
  <2>2. GreenletOf[s] = GreenletOf[t] /\ (s = t \/ t \in Ancestors[s])
    BY <1>3, <2>1, SameGreenlet DEF Segment
  <2>3. IsActive(s)
    BY <1>3 DEF IsActive, Active, Blocked
  <2> QED BY <1>3, <2>2, <2>3 DEF Unwinding, Segment
<1> QED BY <1>1, <1>2, <1>3, StepMoves DEF Segment

\* What a serial task of the segment calls is in the segment.
LEMMA Callee ==
    ASSUME NEW X \in SUBSET Tasks, CallInv(X), NEW t \in Tasks, NEW u \in Segment(t),
           pc[u] = "call"
    PROVE  /\ Children[u][next[u]] \in Segment(t) \ {t, u}
           /\ Parent(Children[u][next[u]]) = u /\ Children[u][next[u]] # Root
<1>1. u \in Tasks /\ Kind[u] = "serial" /\ next[u] \in DOMAIN Children[u]
  BY ChildFacts DEF Segment, CallInv, TypeOK, TaskPlace, CallLife
<1>2. PICK c \in Tasks \ {u, Root} : c = Children[u][next[u]] /\ Parent(c) = u
  BY <1>1, ChildAt
<1>3. GreenletOf[c] = GreenletOf[u]
  BY <1>1, <1>2, GreenletEquation DEF IsHead
<1>4. Ancestors[c] = {u} \cup Ancestors[u] /\ c \notin Ancestors[c]
  BY <1>2, AncestorsEquation, AncestorFacts
<1>5. c \in Segment(t) \ {t, u}
  BY <1>2, <1>3, <1>4 DEF Segment
<1> QED BY <1>2, <1>5

LEMMA UnwindStill ==
    ASSUME NEW X \in SUBSET Tasks, CallInv(X), NEW t \in Tasks, NEW error,
           Unwinding(t, error), \A u \in Segment(t) : Still(u)
    PROVE  Unwinding(t, error)'
<1> SUFFICES ASSUME NEW u \in Segment(t), IsActive(u)'
             PROVE  /\ pc'[u] = "call"
                    /\ Done(Children[u][next[u]])' =>
                          /\ state'[Children[u][next'[u]]] = "ERRORED"
                          /\ outcome'[Children[u][next'[u]]] = error
  BY DEF Unwinding, Segment
<1>1. IsActive(u) /\ pc[u] = "call" /\ Still(u)
  BY DEF IsActive, Still, Unwinding
<1>2. Still(Children[u][next[u]])
  BY <1>1, Callee
<1> QED BY <1>1, <1>2 DEF Unwinding, Still, Done

\* A callee of the segment has raised, and so does its caller.
LEMMA UnwindResume ==
    ASSUME NEW X \in SUBSET Tasks, CallInv(X), NEW t \in Tasks, NEW error,
           Unwinding(t, error), NEW s \in Segment(t), IsActive(s), SerialResume(s),
           s \notin Timed \/ error \notin {"assertion", "timeout"} \/ (s = t /\ error = "timeout")
    PROVE  /\ Done(s)' /\ Unwinding(t, error)'
           /\ s \notin Timed \/ error # "timeout" =>
                 state'[s] = "ERRORED" /\ outcome'[s] = error
           /\ \A u \in Tasks \ {s} : Still(u)
<1> DEFINE c == Children[s][next[s]]
<1>1. /\ s \in Tasks /\ TypeOK /\ state[s] = "RUNNING" /\ pc[s] = "call" /\ Done(c)
      /\ state[c] = "ERRORED" /\ outcome[c] = error
  BY DEF Segment, CallInv, TaskPlace, CallLife, Unwinding, SerialResume
<1>2. Raise(s, error) /\ UNCHANGED next
  BY <1>1 DEF SerialResume
<1>3. \A u \in Tasks \ {s} : Still(u)
  BY <1>1, <1>2, AttemptEnds DEF Moves, TypeOK, Still
<1>4. Done(s)' /\ (s \notin Timed \/ error # "timeout" =>
                      state'[s] = "ERRORED" /\ outcome'[s] = error)
  BY <1>1, <1>2 DEF Raise, HandleTimeout, Finish, Fail, TypeOK, Done
<1>5. Unwinding(t, error)'
  <2> SUFFICES ASSUME NEW u \in Segment(t), IsActive(u)'
               PROVE  /\ pc'[u] = "call"
                      /\ Done(Children[u][next[u]])' =>
                            /\ state'[Children[u][next'[u]]] = "ERRORED"
                            /\ outcome'[Children[u][next'[u]]] = error
    BY DEF Unwinding, Segment
  <2>1. u # s /\ u \in Tasks
    BY <1>4 DEF Done, IsActive, Active, Blocked, Segment
  <2>2. Still(u) /\ IsActive(u) /\ pc[u] = "call"
    BY <1>3, <2>1 DEF Still, IsActive, Unwinding
  <2>3. CASE Children[u][next[u]] # s
    <3>1. Still(Children[u][next[u]])
      BY <1>3, <2>2, <2>3, Callee DEF Segment
    <3> QED BY <2>2, <3>1 DEF Unwinding, Still, Done
  <2>4. CASE Children[u][next[u]] = s
    <3>1. s # t
      BY <2>2, <2>4, Callee
    <3> QED BY <1>4, <2>2, <2>4, <3>1 DEF Still
  <2> QED BY <2>3, <2>4
<1> QED BY <1>3, <1>4, <1>5

LEMMA UnwindStep ==
    ASSUME NEW X \in SUBSET Tasks, CallInv(X), NEW t \in Tasks, IsActive(t), NEW error,
           Unwinding(t, error), NEW s \in Tasks, Step(s),
           \/ error = "error"
           \/ error = "timeout" /\ \A u \in Segment(t) \ {t} : u \notin Timed
    PROVE  /\ Unwinding(t, error)'
           /\ \/ IsActive(t)'
              \/ Done(t)' /\ (error = "error" => state'[t] = "ERRORED" /\ outcome'[t] = error)
<1>1. CASE \A u \in Segment(t) : Still(u)
  <2>1. Still(t)
    BY <1>1 DEF Segment
  <2> QED BY <1>1, <2>1, UnwindStill DEF Still, IsActive
<1>2. ASSUME NEW u \in Segment(t), ~Still(u)
      PROVE  /\ Unwinding(t, error)'
             /\ \/ IsActive(t)'
                \/ /\ Done(t)'
                   /\ error = "error" => state'[t] = "ERRORED" /\ outcome'[t] = error
  <2>1. s \in Segment(t) /\ IsActive(s) /\ SerialResume(s)
    BY <1>2, UnwindMoves
  <2>2. s \notin Timed \/ error \notin {"assertion", "timeout"} \/ (s = t /\ error = "timeout")
    BY <2>1
  <2>3. /\ Done(s)' /\ Unwinding(t, error)'
        /\ s \notin Timed \/ error # "timeout" => state'[s] = "ERRORED" /\ outcome'[s] = error
        /\ \A w \in Tasks \ {s} : Still(w)
    BY <2>1, <2>2, UnwindResume
  <2> QED BY <2>3 DEF Still, IsActive
<1> QED BY <1>1, <1>2

\* A blocked frame is not on the way of an error.
LEMMA ThrowSpares ==
    ASSUME NEW X \in SUBSET Tasks, CallInv(X), NEW t \in Tasks, NEW error,
           Unwinding(t, error), NEW b \in Tasks, pc[b] \in Blocked, NEW v, Raise(b, v),
           UNCHANGED next
    PROVE  (\A u \in Segment(t) : Still(u)) /\ Unwinding(t, error)'
<1>1. IsActive(b) /\ pc[b] # "call" /\ TypeOK /\ state[b] = "RUNNING"
  BY DEF IsActive, Active, Blocked, CallInv, TaskPlace, CallLife
<1>2. b \notin Segment(t)
  BY <1>1 DEF Unwinding
<1>3. \A u \in Tasks \ {b} : Still(u)
  BY <1>1, AttemptEnds DEF Moves, TypeOK, Still
<1>4. \A u \in Segment(t) : Still(u)
  BY <1>2, <1>3 DEF Segment
<1> QED BY <1>4, UnwindStill

\* It begins its way where the one blocked frame of the greenlet is.
LEMMA UnwindStart ==
    ASSUME NEW X \in SUBSET Tasks, CallInv(X), NEW t \in Tasks, NEW b \in Segment(t) \ {t},
           pc[b] \in Blocked, NEW error, Fail(b, error), UNCHANGED next
    PROVE  Unwinding(t, error)'
<1> SUFFICES ASSUME NEW u \in Segment(t), IsActive(u)'
             PROVE  /\ pc'[u] = "call"
                    /\ Done(Children[u][next[u]])' =>
                          /\ state'[Children[u][next'[u]]] = "ERRORED"
                          /\ outcome'[Children[u][next'[u]]] = error
  BY DEF Unwinding, Segment
<1>1. /\ b \in Tasks /\ u \in Tasks /\ TypeOK /\ Engaged(b) /\ pc[b] # "call"
      /\ GreenletOf[u] = GreenletOf[b]
  BY DEF Segment, CallInv, Engaged, IsActive, Active, Blocked
<1>2. /\ Done(b)' /\ state'[b] = "ERRORED" /\ outcome'[b] = error
      /\ \A w \in Tasks \ {b} : Still(w)
  BY <1>1 DEF Fail, TypeOK, Still, Done
<1>3. u # b /\ Still(u) /\ Engaged(u)
  BY <1>1, <1>2 DEF Done, IsActive, Active, Blocked, Still, Engaged
<1>4. u \in Ancestors[b]
  BY <1>1, <1>3, OnePath, CallersOnPath
<1> DEFINE c == Children[u][next[u]]
<1>5. pc[u] = "call" /\ c \in {b} \cup Ancestors[b]
  BY <1>1, <1>4, CallersOnPath
<1>6. c \in Tasks /\ GreenletOf[c] = GreenletOf[b]
  BY <1>1, <1>5, Callee DEF Segment
<1>7. CASE c = b
  BY <1>2, <1>3, <1>5, <1>7 DEF Still
<1>8. CASE c # b
  <2>1. pc[c] = "call" /\ Still(c)
    BY <1>1, <1>2, <1>5, <1>6, <1>8, CallersOnPath
  <2> QED BY <1>3, <1>5, <2>1 DEF Still, Done
<1> QED BY <1>7, <1>8

-----------------------------------------------------------------------------
(* After a timeout                                                         *)

\* No timer is set inside the `with Timeout` of another on the same greenlet: its
\* `except Timeout` would catch what the outer one has thrown.
OneTimer == \A t \in Timed : \A u \in Segment(t) \ {t} : u \notin Timed

\* The Timeout of a composite task is on its way until the task is over.
TimeoutUnwinds == \A t \in fired : ~IsLeaf(t) /\ IsActive(t) => Unwinding(t, "timeout")

\* A call that begins has a timer that has not gone off.
LEMMA StepFired ==
    ASSUME NEW X \in SUBSET Tasks, CallInv(X), NEW s \in Tasks, Step(s)
    PROVE  fired' \subseteq fired /\ \A t \in fired' : IsActive(t)' => IsActive(t)
<1>1. TypeOK /\ CallLife(s) /\ fired \subseteq Tasks
  BY OptionAssumption DEF CallInv, TaskPlace, TypeOK
<1>2. CASE SerialCall(s)
  BY <1>1, <1>2 DEF SerialCall, Enter, TypeOK, IsActive, Active
<1>3. CASE GreenletRun(s)
  BY <1>1, <1>3 DEF GreenletRun, Enter, TypeOK, IsActive
<1>4. CASE Spawn(s)
  BY <1>1, <1>4 DEF Spawn, TypeOK, IsActive, Active, Blocked
<1>5. CASE ~SerialCall(s) /\ ~GreenletRun(s) /\ ~Spawn(s)
  <2>1. UNCHANGED fired /\ \A t \in Tasks \ {s} : pc'[t] = pc[t]
    BY <1>1, <1>5, OthersKeep
  <2>2. IsActive(s)' => IsActive(s)
    <3>1. CASE IsActive(s)
      BY <3>1
    <3>2. CASE ~IsActive(s)
      <4>1. Still(s)
        BY <1>5, <3>2, StepMoves DEF Engaged, IsActive, Active, Blocked
      <4> QED BY <4>1 DEF Still, IsActive
    <3> QED BY <3>1, <3>2
  <2> QED BY <1>1, <2>1, <2>2 DEF IsActive
<1> QED BY <1>2, <1>3, <1>4, <1>5

LEMMA TimeoutUnwindsStep ==
    ASSUME OneTimer, CallInvariant, TimeoutUnwinds, NEW s \in Tasks, Step(s) \/ TimerFires(s)
    PROVE  TimeoutUnwinds'
<1>1. PICK X \in SUBSET Tasks : CallInv(X)
  BY DEF CallInvariant
<1>2. fired \subseteq Timed /\ Timed \subseteq Tasks /\ TypeOK
  BY <1>1, OptionAssumption DEF CallInv, TypeOK
<1>3. ASSUME Step(s), NEW t \in fired', ~IsLeaf(t), IsActive(t)' PROVE Unwinding(t, "timeout")'
  <2>1. t \in fired /\ IsActive(t) /\ Unwinding(t, "timeout")
    BY <1>1, <1>3, StepFired DEF TimeoutUnwinds
  <2> QED BY <1>1, <1>2, <1>3, <2>1, UnwindStep DEF OneTimer
<1>4. ASSUME TimerFires(s), NEW t \in fired', ~IsLeaf(t), IsActive(t)'
      PROVE  Unwinding(t, "timeout")'
  <2>1. PICK b \in Tasks :
           /\ pc[b] \in Blocked /\ Raise(b, "timeout")
           /\ b = s \/ (~IsLeaf(s) /\ s \in Ancestors[b] /\ GreenletOf[b] = GreenletOf[s])
    BY <1>4 DEF TimerFires
  <2>2. UNCHANGED next /\ fired' = fired \cup {s} /\ s \in Timed \ fired
    BY <1>4 DEF TimerFires
  <2>3. IsActive(b) /\ state[b] = "RUNNING" /\ \A u \in Tasks \ {b} : pc'[u] = pc[u]
    <3>1. IsActive(b) /\ state[b] = "RUNNING"
      BY <1>1, <2>1 DEF CallInv, TaskPlace, CallLife, IsActive, Active, Blocked
    <3> QED BY <1>2, <2>1, <3>1, AttemptEnds DEF Moves, TypeOK
  <2>4. CASE t = s
    <3>1. b # s
      <4> SUFFICES ASSUME b = s PROVE FALSE
        OBVIOUS
      <4>1. HandleTimeout(s)
        BY <2>1, <2>2 DEF Raise
      <4>2. pc'[s] = "done"
        BY <1>2, <4>1 DEF HandleTimeout, Finish, Fail, TypeOK
      <4> QED BY <1>4, <2>4, <4>2 DEF IsActive, Active, Blocked
    <3>2. b \in Segment(s) \ {s}
      BY <2>1, <3>1 DEF Segment
    <3>3. Fail(b, "timeout")
      BY <2>1, <2>2, <3>2 DEF OneTimer, Raise
    <3> QED BY <1>1, <2>1, <2>2, <2>4, <3>2, <3>3, UnwindStart
  <2>5. CASE t # s
    <3>1. t \in fired /\ t \in Tasks /\ IsActive(t)
      BY <1>2, <1>4, <2>2, <2>3, <2>5 DEF IsActive
    <3>2. Unwinding(t, "timeout")
      BY <1>4, <3>1 DEF TimeoutUnwinds
    <3> QED BY <1>1, <2>1, <2>2, <3>1, <3>2, ThrowSpares
  <2> QED BY <2>4, <2>5
<1> QED BY <1>3, <1>4 DEF TimeoutUnwinds

\* What NoWorkAfterTimeout says of a step.
SpareTheTimedOut ==
    \A t \in fired, c \in Tasks :
       /\ IsActive(t) /\ t \in Ancestors[c] /\ GreenletOf[c] = GreenletOf[t]
       /\ ~IsActive(c)
       => ~IsActive(c)'

LEMMA SpareStep ==
    ASSUME CallInvariant, TimeoutUnwinds, NEW s \in Tasks, Step(s) \/ TimerFires(s)
    PROVE  SpareTheTimedOut
<1>1. PICK X \in SUBSET Tasks : CallInv(X)
  BY DEF CallInvariant
<1> SUFFICES ASSUME NEW t \in fired, NEW c \in Tasks, IsActive(t), t \in Ancestors[c],
                    GreenletOf[c] = GreenletOf[t], ~IsActive(c)
             PROVE  ~IsActive(c)'
  BY DEF SpareTheTimedOut
<1>2. t \in Tasks /\ ~IsLeaf(t) /\ c \in Segment(t)
  <2>1. t \in Tasks
    BY AncestorFacts
  <2>2. Offspring(t) # {}
    BY <2>1, ChildBetween
  <2> QED BY <2>1, <2>2, ChildFacts DEF Segment, Offspring
<1>3. Unwinding(t, "timeout")
  BY <1>2 DEF TimeoutUnwinds
<1>4. Still(c)
  <2>1. CASE Step(s)
    BY <1>1, <1>2, <1>3, <2>1, UnwindMoves
  <2>2. CASE TimerFires(s)
    <3>1. PICK b \in Tasks : pc[b] \in Blocked /\ Raise(b, "timeout")
      BY <2>2 DEF TimerFires
    <3> QED BY <1>1, <1>2, <1>3, <2>2, <3>1, ThrowSpares DEF TimerFires
  <2> QED BY <2>1, <2>2
<1> QED BY <1>4 DEF Still, IsActive

\* Nor does another error that is thrown into a blocked frame.
LEMMA TimeoutUnwindsThrow ==
    ASSUME CallInvariant, TimeoutUnwinds, NEW b \in Tasks, pc[b] \in Blocked, NEW v,
           Raise(b, v), UNCHANGED <<next, fired>>
    PROVE  TimeoutUnwinds' /\ SpareTheTimedOut
<1>1. PICK X \in SUBSET Tasks : CallInv(X)
  BY DEF CallInvariant
<1>2. /\ IsActive(b) /\ state[b] = "RUNNING" /\ TypeOK /\ fired \subseteq Tasks
      /\ \A u \in Tasks \ {b} : pc'[u] = pc[u]
  <2>1. IsActive(b) /\ state[b] = "RUNNING" /\ TypeOK /\ fired \subseteq Tasks
    BY <1>1, OptionAssumption DEF CallInv, TypeOK, TaskPlace, CallLife, IsActive, Active, Blocked
  <2> QED BY <2>1, AttemptEnds DEF Moves, TypeOK
<1>3. \A u \in Tasks : IsActive(u)' => IsActive(u)
  BY <1>2 DEF IsActive
<1>4. TimeoutUnwinds'
  BY <1>1, <1>2, <1>3, ThrowSpares DEF TimeoutUnwinds
<1> QED BY <1>2, <1>3, <1>4, AncestorFacts DEF SpareTheTimedOut

LEMMA TimeoutUnwindsKept ==
    ASSUME TimeoutUnwinds, UNCHANGED <<pc, state, next, outcome, fired>>
    PROVE  TimeoutUnwinds'
BY DEF TimeoutUnwinds, Unwinding, Segment, IsActive, Done

\* Once the timer of a composite task has gone off, nothing below it is called on its
\* greenlet before the task is over, if no other timer is there to catch it.
THEOREM NothingAfterTimeout ==
    ASSUME OneTimer
    PROVE  Spec => NoWorkAfterTimeout
<1>1. Init => TimeoutUnwinds
  BY DEF Init, TimeoutUnwinds
<1>2. CallInvariant /\ TimeoutUnwinds /\ [Next]_vars => TimeoutUnwinds'
  BY TimeoutUnwindsStep, TimeoutUnwindsKept DEF Next, Terminated, vars, callVars
<1>3. CallInvariant /\ TimeoutUnwinds /\ [Next]_vars => [SpareTheTimedOut]_vars
  BY SpareStep DEF Next, Terminated
<1> QED BY <1>1, <1>2, <1>3, CallsInvariant, PTL DEF Spec, NoWorkAfterTimeout, SpareTheTimedOut

-----------------------------------------------------------------------------
(* What may outlive a parallel task                                        *)

\* The timer of a composite task has gone off in the one call there is of it.
FiredCalled == \A t \in fired : ~IsLeaf(t) => IsActive(t) \/ Done(t)

\* The call of p is over, and a greenlet of it is at work or about to be.
LeftBehind(p) ==
    /\ Kind[p] = "parallel" /\ ~IsActive(p)
    /\ \E c \in Offspring(p) : Engaged(c)

\* Outside of the loops a task is called once, so its timer stays fired.
LEMMA FiredKept ==
    ASSUME NEW X \in SUBSET Tasks, CallInv(X), FiredCalled, NEW s \in Tasks, Step(s),
           NEW t \in fired, ~IsLeaf(t)
    PROVE  t \in fired' /\ (IsActive(t) \/ Done(t))'
<1>1. /\ TypeOK /\ CallLife(s) /\ t \in Tasks /\ (IsActive(t) \/ Done(t))
      /\ ~InLoop(t) /\ pc[t] \notin {"idle", "scheduled"}
  BY OptionAssumption, LoopFacts DEF CallInv, TaskPlace, TypeOK, FiredCalled, IsActive, Done,
                                     Active, Blocked
<1>2. CASE SerialCall(s)
  <2>1. PICK i \in DOMAIN Children[s] : i = next[s] /\ pc[s] = "loop" /\ Kind[s] = "serial"
    BY <1>1, <1>2, ChildFacts DEF SerialCall, TypeOK
  <2>2. t # Children[s][i]
    BY <1>1, <2>1, NotTorn
  <2>3. fired' = fired \ {Children[s][i]} /\ pc'[s] = "call"
        /\ \A u \in Tasks \ {s, Children[s][i]} : pc'[u] = pc[u]
    BY <1>1, <1>2, <2>1, ChildAt DEF SerialCall, Enter, TypeOK
  <2> QED BY <1>1, <2>2, <2>3 DEF IsActive, Done, Active
<1>3. CASE GreenletRun(s)
  BY <1>1, <1>3 DEF GreenletRun, Enter, TypeOK, IsActive, Done
<1>4. CASE Spawn(s)
  <2> DEFINE old  == IF pc[s] = "loop" THEN {} ELSE pool[s]
             room == next[s] + Slots(s) - Cardinality(old) - 1
             last == IF room < Len(Children[s]) THEN room ELSE Len(Children[s])
             new  == {Children[s][i] : i \in next[s]..last}
  <2>1. Cardinality(old) \in Nat /\ last \in Int /\ last <= Len(Children[s])
    BY <1>1, Counting, FS_EmptySet, ChildFacts DEF TypeOK
  <2> HIDE DEF old, last, new
  <2>2. /\ pc' = [c \in Tasks |->
                    IF c = s THEN IF last = Len(Children[s]) THEN "join" ELSE "slot"
                    ELSE IF c \in new THEN "scheduled" ELSE pc[c]]
        /\ UNCHANGED fired
    BY <1>4 DEF Spawn, old, last, new
  <2>3. ~Done(s) /\ Kind[s] = "parallel"
    BY <1>4 DEF Spawn, Done
  <2>4. t \notin new
    <3> SUFFICES ASSUME NEW i \in next[s]..last, t = Children[s][i] PROVE FALSE
      BY DEF new
    <3>1. i \in DOMAIN Children[s] /\ i >= next[s]
      BY <1>1, <2>1, ChildFacts DEF TypeOK
    <3> QED BY <1>1, <2>3, <3>1, NotTorn
  <2> QED BY <1>1, <2>2, <2>4 DEF IsActive, Done, Active, Blocked
<1>5. CASE ~SerialCall(s) /\ ~GreenletRun(s) /\ ~Spawn(s)
  <2>1. UNCHANGED fired /\ \A u \in Tasks \ {s} : pc'[u] = pc[u]
    BY <1>1, <1>5, OthersKeep
  <2>2. CASE t = s /\ IsActive(s)
    BY <1>1, <2>1, <2>2, StepStays
  <2>3. CASE t = s /\ ~IsActive(s)
    <3>1. Still(s)
      BY <1>5, <2>3, StepMoves DEF Engaged, IsActive, Active, Blocked
    <3> QED BY <1>1, <2>1, <2>3, <3>1 DEF Still, IsActive, Done
  <2> QED BY <1>1, <2>1, <2>2, <2>3 DEF IsActive, Done
<1> QED BY <1>2, <1>3, <1>4, <1>5

\* What a step leaves behind was left behind before, with the same timers.
LEMMA LeftBehindStep ==
    ASSUME CallInvariant, FiredCalled, NEW s \in Tasks, Step(s), NEW p \in Tasks
    PROVE  /\ LeftBehind(p)' => LeftBehind(p)
           /\ TimedOut(p) /\ Kind[p] = "parallel" => TimedOut(p)'
<1>1. PICK X \in SUBSET Tasks : CallInv(X)
  BY DEF CallInvariant
<1>2. ASSUME LeftBehind(p)' PROVE LeftBehind(p)
  <2>1. PICK c \in Offspring(p) : Engaged(c)'
    BY <1>2 DEF LeftBehind, Offspring
  <2>2. c \in Tasks \ {p, Root} /\ Parent(c) = p /\ Kind[p] = "parallel" /\ ~IsActive(p)'
    BY <1>2, ChildAt DEF LeftBehind, Offspring
  <2>3. ~IsActive(p)
    <3> SUFFICES ASSUME IsActive(p) PROVE FALSE
      OBVIOUS
    <3>1. p = s /\ ~Still(p)
      BY <1>1, <2>2, StepMoves DEF Still, IsActive, Engaged
    <3>2. JoinReturn(s)
      <4>1. ~SerialCall(s) /\ ~SerialResume(s) /\ ~SerialReturn(s)
        BY <2>2, <3>1 DEF SerialCall, SerialResume, SerialReturn
      <4>2. ~Discard(s) /\ ~GreenletRun(s) /\ ~LeafAnswers(s)
        BY <1>1, <2>2, <3>1 DEF Discard, GreenletRun, LeafAnswers, CallInv, TaskPlace, CallLife,
              IsLeaf, Composites, Done, IsActive, Active, Blocked
      <4>3. ~Spawn(s) /\ ~Retry(s)
        BY <1>1, <2>2, <3>1 DEF Spawn, Retry, Entry, CallInv, TypeOK, IsActive, Active, Blocked
      <4> QED BY <4>1, <4>2, <4>3 DEF Step
    <3>3. ~Engaged(c)
      BY <1>1, <2>1, <2>2, <3>1, <3>2 DEF JoinReturn, CallInv, TaskPlace, ParallelPlace, Offspring
    <3>4. ~Still(c)
      BY <2>1, <3>3 DEF Still, Engaged, IsActive
    <3> QED BY <1>1, <2>2, <3>1, <3>2, <3>4, StepMoves DEF JoinReturn
  <2>4. Engaged(c)
    <3> SUFFICES ASSUME ~Engaged(c) PROVE FALSE
      OBVIOUS
    <3>1. ~Still(c)
      BY <2>1 DEF Still, Engaged, IsActive
    <3> QED BY <1>1, <2>2, <2>3, <3>1, StepMoves
            DEF Engaged, GreenletRun, IsActive, Active, Blocked
  <2> QED BY <2>2, <2>3, <2>4 DEF LeftBehind
<1>3. ASSUME TimedOut(p), Kind[p] = "parallel" PROVE TimedOut(p)'
  <2>1. PICK t \in fired \cap ({p} \cup Ancestors[p]) : GreenletOf[t] = GreenletOf[p]
    BY <1>3 DEF TimedOut
  <2>2. ~IsLeaf(t)
    BY <1>3, <2>1, AncestorFacts, ChildBetween, ChildFacts DEF IsLeaf, Composites, Offspring
  <2> QED BY <1>1, <2>1, <2>2, FiredKept DEF TimedOut
<1> QED BY <1>2, <1>3

LEMMA FiredCalledStep ==
    ASSUME CallInvariant, FiredCalled, NEW s \in Tasks, Step(s)
    PROVE  FiredCalled'
<1>1. PICK X \in SUBSET Tasks : CallInv(X)
  BY DEF CallInvariant
<1>2. fired' \subseteq fired
  BY <1>1, StepFired
<1> QED BY <1>1, <1>2, FiredKept DEF FiredCalled

\* An error thrown into a blocked frame can leave greenlets of that frame behind only.
LEMMA LeftBehindThrow ==
    ASSUME CallInvariant, FiredCalled, NEW b \in Tasks, pc[b] \in Blocked, NEW v, Raise(b, v),
           UNCHANGED next, fired \subseteq fired',
           \A t \in fired' : t \in fired \/ (t \in Tasks /\ IsActive(t))
    PROVE  /\ FiredCalled'
           /\ \A p \in Tasks : LeftBehind(p)' => LeftBehind(p) \/ p = b
           /\ \A p \in Tasks : TimedOut(p) => TimedOut(p)'
<1>1. /\ IsActive(b) /\ TypeOK /\ state[b] = "RUNNING" /\ fired \subseteq Tasks
      /\ \A t \in Tasks : CallLife(t)
  BY CallFacts, OptionAssumption DEF IsActive, Active, CallLife, TypeOK
<1>2. (IsActive(b) \/ Done(b))' /\ \A u \in Tasks \ {b} : Still(u)
  BY <1>1, AttemptEnds DEF Moves, TypeOK, Still, IsActive, Done, Active, Blocked
<1>3. FiredCalled'
  BY <1>1, <1>2 DEF FiredCalled, Still, IsActive, Done
<1>4. ASSUME NEW p \in Tasks, LeftBehind(p)' PROVE LeftBehind(p) \/ p = b
  <2>1. PICK c \in Offspring(p) : Engaged(c)'
    BY <1>4 DEF LeftBehind, Offspring
  <2>2. c \in Tasks /\ Engaged(c)
    BY <1>1, <1>2, <2>1, ChildFacts DEF Engaged, Still, IsActive
  <2> QED BY <1>2, <1>4, <2>2 DEF LeftBehind, Still, IsActive
<1>5. \A p \in Tasks : TimedOut(p) => TimedOut(p)'
  BY DEF TimedOut
<1> QED BY <1>3, <1>4, <1>5

\* What a timer leaves behind is below it on its greenlet.
LEMMA LeftBehindTimer ==
    ASSUME CallInvariant, FiredCalled, NEW s \in Tasks, TimerFires(s)
    PROVE  /\ FiredCalled'
           /\ \A p \in Tasks : LeftBehind(p)' => LeftBehind(p) \/ TimedOut(p)'
           /\ \A p \in Tasks : TimedOut(p) => TimedOut(p)'
<1>1. PICK b \in Tasks :
         /\ pc[b] \in Blocked /\ Raise(b, "timeout")
         /\ b = s \/ (s \in Ancestors[b] /\ GreenletOf[b] = GreenletOf[s])
  BY DEF TimerFires
<1>2. UNCHANGED next /\ fired' = fired \cup {s} /\ IsActive(s)
  BY DEF TimerFires
<1>3. TimedOut(b)'
  BY <1>1, <1>2 DEF TimedOut
<1> QED BY <1>1, <1>2, <1>3, LeftBehindThrow

\* A task that runs on after its parent is a greenlet left behind.
LEMMA OrphanIsLeft ==
    ASSUME CallInvariant, NEW p \in Tasks, NEW c \in Offspring(p),
           state[c] = "RUNNING", state[p] # "RUNNING"
    PROVE  LeftBehind(p)
<1>1. PICK X \in SUBSET Tasks : CallInv(X)
  BY DEF CallInvariant
<1>2. PICK i \in DOMAIN Children[p] : c = Children[p][i]
  BY DEF Offspring
<1>3. c \in Tasks /\ Kind[p] \in {"serial", "parallel"}
  BY <1>2, ChildAt
<1>4. Engaged(c) /\ ~IsActive(p)
  BY <1>1, <1>3 DEF CallInv, TaskPlace, CallLife, Engaged
<1>5. Kind[p] # "serial"
  BY <1>1, <1>2, <1>4 DEF CallInv, TaskPlace, SerialPlace, IsActive, Active
<1> QED BY <1>3, <1>4, <1>5 DEF LeftBehind

LeftByTimer == FiredCalled /\ \A p \in Tasks : LeftBehind(p) => TimedOut(p)

\* The greenlets that outlive a task are those of a parallel task whose own Timeout, or
\* one around it on its greenlet, has gone off: no answer, error or retry leaves any.
THEOREM OrphansOfTimers ==
    Spec => [](\A p \in Tasks : \A c \in Offspring(p) :
                  state[c] = "RUNNING" /\ state[p] # "RUNNING" =>
                     Kind[p] = "parallel" /\ TimedOut(p))
<1> DEFINE Orphans == \A p \in Tasks : \A c \in Offspring(p) :
                         state[c] = "RUNNING" /\ state[p] # "RUNNING" =>
                            Kind[p] = "parallel" /\ TimedOut(p)
<1>1. Init => LeftByTimer
  BY ParentFacts DEF Init, LeftByTimer, FiredCalled, LeftBehind, Engaged, IsActive, Active,
                     Blocked
<1>2. CallInvariant /\ LeftByTimer /\ [Next]_vars => LeftByTimer'
  <2> SUFFICES ASSUME CallInvariant, LeftByTimer, [Next]_vars PROVE LeftByTimer'
    OBVIOUS
  <2>1. ASSUME NEW s \in Tasks, Step(s) PROVE LeftByTimer'
    BY <2>1, FiredCalledStep, LeftBehindStep DEF LeftByTimer, LeftBehind
  <2>2. ASSUME NEW s \in Tasks, TimerFires(s) PROVE LeftByTimer'
    BY <2>2, LeftBehindTimer DEF LeftByTimer
  <2>3. CASE UNCHANGED vars
    BY <2>3 DEF vars, callVars, LeftByTimer, FiredCalled, LeftBehind, TimedOut, Engaged,
                IsActive, Done
  <2> QED BY <2>1, <2>2, <2>3 DEF Next, Terminated
<1>3. CallInvariant /\ LeftByTimer => Orphans
  BY OrphanIsLeft DEF LeftByTimer, LeftBehind
<1> QED BY <1>1, <1>2, <1>3, CallsInvariant, PTL DEF Spec

=============================================================================
