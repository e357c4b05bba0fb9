--------------------------- MODULE SnapshotsProofs ---------------------------
(***************************************************************************)
(* Proofs about Snapshots, for any number of nodes, runs and crashes and   *)
(* whichever nodes other branches of the scenario start: the types, that   *)
(* nothing is copied while a node runs, that a snapshot stays as it is and *)
(* comes from one run, what may be incomplete when it is restored, and     *)
(* that it is refused only after a crash.                                  *)
(***************************************************************************)
EXTENDS Snapshots, FiniteSetTheorems, TLAPS

\* The places before the nodes are started: no process runs there.
Still == Copying \cup {"idle", "refused", "delete", "deleting", "restore",
                          "start"}

\* The places from the moment all nodes have done the subtasks of this run.
Taking == {"stop", "copy", "copying"}

PlaceInv ==
    /\ pc \notin Copying \cup {"deleting"} => at = 1
    /\ pc # "idle" => run # 0

ProcessInv == pc \in Still => running = {}

\* What is copied into the snapshot is the work of this run.
TakeInv ==
    /\ pc \in Taking => \A n \in Nodes : data[n] # Missing /\ data[n].prepared = run
    /\ pc = "copy" => \A n \in Nodes :
          IF n < at THEN snap[n] # Missing /\ snap[n].prepared = run
          ELSE snap[n] = Missing
    /\ pc = "copying" => \A n \in Nodes :
          IF n <= at THEN snap[n] # Missing /\ snap[n].prepared = run
          ELSE snap[n] = Missing
    /\ pc = "copying" => ~snap[at].whole

\* The copies of a snapshot, whole or not, are of one run.
SnapInv ==
    \A n, m \in Nodes :
        snap[n] # Missing /\ snap[m] # Missing =>
            snap[n].prepared # 0 /\ snap[n].prepared = snap[m].prepared

\* What is restored is a snapshot of all nodes.
RestoreInv ==
    /\ pc \in {"remove", "removing", "copy_back", "copying_back"} =>
          /\ Existing = Nodes
          /\ \A n \in Nodes : n < at => data[n] # Missing
                                        /\ data[n].prepared = snap[n].prepared
    /\ pc = "copy_back" => \A n \in Nodes \ {at} : data[n] # Missing
    /\ restored => pc \notin {"delete", "deleting", "restore", "remove", "removing", "copy_back",
                              "copying_back", "stop", "copy", "copying"}
    /\ restored => \A n, m \in Nodes :
          data[n] # Missing /\ data[n].prepared # 0 /\ data[n].prepared = data[m].prepared

\* A part of a snapshot is what a crash leaves.
PartInv ==
    /\ crashes = 0 => /\ pc \notin {"delete", "deleting", "copy", "copying"} =>
                            Existing \in {{}, Nodes}
                      /\ pc # "refused"
    /\ pc = "deleting" => snap[at] # Missing /\ ~snap[at].whole

\* Apart from the nodes in B, no directory is incomplete but the one that is being
\* copied or removed.  A crash adds its node to B.
WholeBut(B) ==
    \A n \in Nodes \ B :
        /\ data[n] # Missing /\ ~data[n].whole =>
              n = at /\ pc \in {"removing", "copying_back"}
        /\ snap[n] # Missing /\ ~snap[n].whole =>
              n = at /\ pc \in {"copying", "deleting"}

WholeInv == \E B \in SUBSET Nodes : Cardinality(B) <= crashes /\ WholeBut(B)

SnapshotInv ==
    /\ TypeOK /\ PlaceInv /\ ProcessInv /\ TakeInv /\ SnapInv /\ RestoreInv /\ PartInv

LEMMA NodeFacts ==
    /\ Nodes \subseteq Nat /\ 1 \in Nodes /\ Count \in Nodes
    /\ \A n \in Nodes : 1 <= n /\ n <= Count
    /\ \A n \in Nodes : n < Count => n + 1 \in Nodes
BY SnapshotAssumption DEF Nodes

\* A directory keeps the run it was prepared by when it is a part.
LEMMA PartFacts ==
    /\ \A c \in Content : /\ Part(c) \in Content /\ Part(c) # Missing /\ ~Part(c).whole
                          /\ Part(c).prepared = c.prepared
    /\ Fresh \in Content
    /\ \A c \in Content : c # Missing /\ c.prepared \in 0..MaxRuns
<1>1. ASSUME NEW c \in Content
      PROVE  /\ Part(c) \in Content /\ ~Part(c).whole
             /\ Part(c).prepared = c.prepared /\ c.prepared \in 0..MaxRuns
  BY DEF Part, Content
<1>2. Fresh \in Content  BY SnapshotAssumption DEF Content, Fresh
<1>. QED  BY <1>1, <1>2, ContentAssumption

LEMMA SnapshotInit == Init => SnapshotInv
<1>. SUFFICES ASSUME Init PROVE SnapshotInv
  OBVIOUS
<1>. USE DEF Init
<1>1. TypeOK
  <2>1. run \in 0..MaxRuns /\ at \in Nodes /\ crashes \in 0..MaxCrashes
    BY SnapshotAssumption, NodeFacts
  <2>2. /\ data \in [Nodes -> Content \cup {Missing}]
        /\ snap \in [Nodes -> Content \cup {Missing}]
    OBVIOUS
  <2>. QED  BY <2>1, <2>2 DEF TypeOK
<1>2. PlaceInv /\ ProcessInv  BY DEF PlaceInv, ProcessInv
<1>3. TakeInv /\ SnapInv  BY DEF TakeInv, Taking, SnapInv
<1>4. RestoreInv /\ PartInv  BY DEF RestoreInv, PartInv, Existing
<1>. QED  BY <1>1, <1>2, <1>3, <1>4 DEF SnapshotInv

-----------------------------------------------------------------------------
(* One lemma per action, or per group of actions that leave the            *)
(* directories alone.                                                      *)

LEMMA BeginStep ==
    ASSUME SnapshotInv, NEW delete \in BOOLEAN, NEW restore \in BOOLEAN, Begin(delete, restore)
    PROVE  SnapshotInv'
<1>. USE NodeFacts, PartFacts, SnapshotAssumption DEF Begin, SnapshotInv, Goto, Stop, procVars
<1>1. TypeOK'
  <2>1. run' \in 0..MaxRuns  BY DEF TypeOK
  <2>2. data' \in [Nodes -> Content]  BY DEF TypeOK
  <2>. QED  BY <2>1, <2>2 DEF TypeOK
<1>2. PlaceInv'  BY DEF PlaceInv, Copying, TypeOK
<1>3. ProcessInv'  BY DEF ProcessInv, Still, Copying
<1>4. TakeInv'  BY DEF TakeInv, Taking, TypeOK, PlaceInv
<1>5. SnapInv'  BY DEF SnapInv, TypeOK
<1>6. RestoreInv'  BY DEF RestoreInv, Existing, TypeOK, PlaceInv
<1>7. PartInv'  BY DEF PartInv, Existing, TypeOK
<1>. QED  BY <1>1, <1>2, <1>3, <1>4, <1>5, <1>6, <1>7

LEMMA DeleteBeginStep ==
    ASSUME SnapshotInv, NEW n \in Nodes, DeleteBegin(n)
    PROVE  SnapshotInv'
<1>. USE NodeFacts, PartFacts, SnapshotAssumption DEF DeleteBegin, SnapshotInv, Goto, Stop, procVars
<1>1. TypeOK'  BY DEF TypeOK, Copying
<1>2. PlaceInv'  BY DEF PlaceInv, Copying, TypeOK
<1>3. ProcessInv'  BY DEF ProcessInv, Still, Copying
<1>4. TakeInv'  BY DEF TakeInv, Taking, TypeOK, PlaceInv
<1>5. SnapInv'  BY DEF SnapInv, TypeOK
<1>6. RestoreInv'  BY DEF RestoreInv, Existing, TypeOK, PlaceInv
<1>7. PartInv'  BY DEF PartInv, Existing, TypeOK
<1>. QED  BY <1>1, <1>2, <1>3, <1>4, <1>5, <1>6, <1>7

LEMMA DeleteEndStep ==
    ASSUME SnapshotInv, DeleteEnd
    PROVE  SnapshotInv'
<1>. USE NodeFacts, PartFacts, SnapshotAssumption DEF DeleteEnd, SnapshotInv, Goto, Stop, procVars
<1>1. TypeOK'  BY DEF TypeOK, Copying
<1>2. PlaceInv'  BY DEF PlaceInv, Copying, TypeOK
<1>3. ProcessInv'  BY DEF ProcessInv, Still, Copying
<1>4. TakeInv'  BY DEF TakeInv, Taking, TypeOK, PlaceInv
<1>5. SnapInv'  BY DEF SnapInv, TypeOK
<1>6. RestoreInv'  BY DEF RestoreInv, Existing, TypeOK, PlaceInv
<1>7. PartInv'  BY DEF PartInv, Existing, TypeOK
<1>. QED  BY <1>1, <1>2, <1>3, <1>4, <1>5, <1>6, <1>7

LEMMA DeletedStep ==
    ASSUME SnapshotInv, Deleted
    PROVE  SnapshotInv'
<1>. USE NodeFacts, PartFacts, SnapshotAssumption DEF Deleted, SnapshotInv, Goto, Stop, procVars
<1>1. TypeOK'  BY DEF TypeOK, Copying
<1>2. PlaceInv'  BY DEF PlaceInv, Copying, TypeOK
<1>3. ProcessInv'  BY DEF ProcessInv, Still, Copying
<1>4. TakeInv'  BY DEF TakeInv, Taking, TypeOK, PlaceInv
<1>5. SnapInv'  BY DEF SnapInv, TypeOK
<1>6. RestoreInv'  BY DEF RestoreInv, Existing, TypeOK, PlaceInv
<1>7. PartInv'  BY DEF PartInv, Existing, TypeOK
<1>. QED  BY <1>1, <1>2, <1>3, <1>4, <1>5, <1>6, <1>7

LEMMA RestoreStep ==
    ASSUME SnapshotInv, Restore
    PROVE  SnapshotInv'
<1>. USE NodeFacts, PartFacts, SnapshotAssumption DEF Restore, SnapshotInv, Goto, Stop, procVars
<1>1. TypeOK'  BY DEF TypeOK, Copying
<1>2. PlaceInv'  BY DEF PlaceInv, Copying, TypeOK
<1>3. ProcessInv'  BY DEF ProcessInv, Still, Copying
<1>4. TakeInv'  BY DEF TakeInv, Taking, TypeOK, PlaceInv
<1>5. SnapInv'  BY DEF SnapInv, TypeOK
<1>6. RestoreInv'
  <2>1. ~restored /\ at = 1 /\ UNCHANGED <<restored, at, data, snap>>
    BY DEF RestoreInv, PlaceInv, Copying
  <2>2. (pc' = "remove" /\ Existing = Nodes) \/ pc' \in {"start", "refused"}
    OBVIOUS
  <2>. QED  BY <2>1, <2>2 DEF RestoreInv, Existing
<1>7. PartInv'  BY DEF PartInv, Existing, TypeOK
<1>. QED  BY <1>1, <1>2, <1>3, <1>4, <1>5, <1>6, <1>7

LEMMA RemoveBeginStep ==
    ASSUME SnapshotInv, RemoveBegin
    PROVE  SnapshotInv'
<1>. USE NodeFacts, PartFacts, SnapshotAssumption DEF RemoveBegin, SnapshotInv, Goto, Stop, procVars
<1>1. TypeOK'  BY DEF TypeOK, Copying
<1>2. PlaceInv'  BY DEF PlaceInv, Copying, TypeOK
<1>3. ProcessInv'  BY DEF ProcessInv, Still, Copying
<1>4. TakeInv'  BY DEF TakeInv, Taking, TypeOK, PlaceInv
<1>5. SnapInv'  BY DEF SnapInv, TypeOK
<1>6. RestoreInv'  BY DEF RestoreInv, Existing, TypeOK, PlaceInv
<1>7. PartInv'  BY DEF PartInv, Existing, TypeOK
<1>. QED  BY <1>1, <1>2, <1>3, <1>4, <1>5, <1>6, <1>7

LEMMA RemoveEndStep ==
    ASSUME SnapshotInv, RemoveEnd
    PROVE  SnapshotInv'
<1>. USE NodeFacts, PartFacts, SnapshotAssumption DEF RemoveEnd, SnapshotInv, Goto, Stop, procVars
<1>1. TypeOK'  BY DEF TypeOK, Copying
<1>2. PlaceInv'  BY DEF PlaceInv, Copying, TypeOK
<1>3. ProcessInv'  BY DEF ProcessInv, Still, Copying
<1>4. TakeInv'  BY DEF TakeInv, Taking, TypeOK, PlaceInv
<1>5. SnapInv'  BY DEF SnapInv, TypeOK
<1>6. RestoreInv'  BY DEF RestoreInv, Existing, TypeOK, PlaceInv
<1>7. PartInv'  BY DEF PartInv, Existing, TypeOK
<1>. QED  BY <1>1, <1>2, <1>3, <1>4, <1>5, <1>6, <1>7

LEMMA CopyBackBeginStep ==
    ASSUME SnapshotInv, CopyBackBegin
    PROVE  SnapshotInv'
<1>. USE NodeFacts, PartFacts, SnapshotAssumption DEF CopyBackBegin, SnapshotInv, Goto, Stop, procVars
<1>1. TypeOK'
  <2>1. snap[at] \in Content  BY DEF RestoreInv, Existing, TypeOK
  <2>2. /\ data' \in [Nodes -> Content \cup {Missing}]
        /\ \A n \in Nodes : data'[n] # Missing
    BY <2>1 DEF TypeOK, RestoreInv
  <2>. QED  BY <2>1, <2>2 DEF TypeOK, Copying
<1>2. PlaceInv'  BY DEF PlaceInv, Copying, TypeOK
<1>3. ProcessInv'  BY DEF ProcessInv, Still, Copying
<1>4. TakeInv'  BY DEF TakeInv, Taking, TypeOK, PlaceInv
<1>5. SnapInv'  BY DEF SnapInv, TypeOK
<1>6. RestoreInv'  BY DEF RestoreInv, Existing, TypeOK, PlaceInv
<1>7. PartInv'  BY DEF PartInv, Existing, TypeOK
<1>. QED  BY <1>1, <1>2, <1>3, <1>4, <1>5, <1>6, <1>7

LEMMA CopyBackEndStep ==
    ASSUME SnapshotInv, CopyBackEnd
    PROVE  SnapshotInv'
<1>. USE NodeFacts, PartFacts, SnapshotAssumption DEF CopyBackEnd, SnapshotInv, Goto, Stop, procVars
<1>0. /\ snap[at] \in Content /\ data'[at] = snap[at]
      /\ \A n \in Nodes \ {at} : data'[n] = data[n]
      /\ at \in Nat /\ Count \in Nat
  BY DEF RestoreInv, Existing, TypeOK
<1>1. TypeOK'
  <2>1. data' \in [Nodes -> Content \cup {Missing}] /\ data'[at] # Missing
    BY <1>0 DEF TypeOK
  <2>2. at' \in Nodes /\ restored' \in BOOLEAN /\ pc' \in {"remove", "start"}
    BY DEF TypeOK
  <2>. QED  BY <2>1, <2>2, <1>0 DEF TypeOK, Copying
<1>2. PlaceInv'  BY DEF PlaceInv, Copying, TypeOK
<1>3. ProcessInv'  BY DEF ProcessInv, Still, Copying
<1>4. TakeInv'  BY DEF TakeInv, Taking, TypeOK, PlaceInv
<1>5. SnapInv'  BY DEF SnapInv, TypeOK
<1>6. RestoreInv'
  <2>1. \A n \in Nodes : snap[n] # Missing /\ n \in Nat  BY DEF RestoreInv, Existing
  <2>2. \A n \in Nodes : n <= at => data'[n] # Missing
                                     /\ data'[n].prepared = snap[n].prepared
    BY <1>0, <2>1 DEF RestoreInv
  <2>3. ~restored  BY DEF RestoreInv
  <2>4. CASE at < Count /\ pc' = "remove" /\ at' = at + 1 /\ UNCHANGED restored
    BY <1>0, <2>1, <2>2, <2>3, <2>4 DEF RestoreInv, Existing
  <2>5. CASE at = Count /\ pc' = "start" /\ restored'
    <3>1. \A n, m \in Nodes : /\ data'[n] # Missing /\ data'[n].prepared # 0
                              /\ data'[n].prepared = data'[m].prepared
      BY <2>1, <2>2, <2>5 DEF SnapInv
    <3>. QED  BY <2>5, <3>1 DEF RestoreInv
  <2>. QED  BY <2>4, <2>5
<1>7. PartInv'  BY DEF PartInv, Existing, TypeOK
<1>. QED  BY <1>1, <1>2, <1>3, <1>4, <1>5, <1>6, <1>7

LEMMA StartNodesStep ==
    ASSUME SnapshotInv, StartNodes
    PROVE  SnapshotInv'
<1>. USE NodeFacts, PartFacts, SnapshotAssumption DEF StartNodes, SnapshotInv, Goto, Stop, procVars
<1>1. TypeOK'  BY DEF TypeOK, Copying
<1>2. PlaceInv'  BY DEF PlaceInv, Copying, TypeOK
<1>3. ProcessInv'  BY DEF ProcessInv, Still, Copying
<1>4. TakeInv'  BY DEF TakeInv, Taking, TypeOK, PlaceInv
<1>5. SnapInv'  BY DEF SnapInv, TypeOK
<1>6. RestoreInv'  BY DEF RestoreInv, Existing, TypeOK, PlaceInv
<1>7. PartInv'  BY DEF PartInv, Existing, TypeOK
<1>. QED  BY <1>1, <1>2, <1>3, <1>4, <1>5, <1>6, <1>7

LEMMA SkipStep ==
    ASSUME SnapshotInv, Skip
    PROVE  SnapshotInv'
<1>. USE NodeFacts, PartFacts, SnapshotAssumption DEF Skip, SnapshotInv, Goto, Stop, procVars
<1>1. TypeOK'  BY DEF TypeOK, Copying
<1>2. PlaceInv'  BY DEF PlaceInv, Copying, TypeOK
<1>3. ProcessInv'  BY DEF ProcessInv, Still, Copying
<1>4. TakeInv'  BY DEF TakeInv, Taking, TypeOK, PlaceInv
<1>5. SnapInv'  BY DEF SnapInv, TypeOK
<1>6. RestoreInv'  BY DEF RestoreInv, Existing, TypeOK, PlaceInv
<1>7. PartInv'  BY DEF PartInv, Existing, TypeOK
<1>. QED  BY <1>1, <1>2, <1>3, <1>4, <1>5, <1>6, <1>7

LEMMA WorkStep ==
    ASSUME SnapshotInv, NEW n \in Nodes, Work(n)
    PROVE  SnapshotInv'
<1>. USE NodeFacts, PartFacts, SnapshotAssumption DEF Work, SnapshotInv, Goto, Stop, procVars
<1>1. TypeOK'
  <2>1. data[n] \in Content /\ run \in 0..MaxRuns  BY DEF TypeOK
  <2>2. [data[n] EXCEPT !.prepared = run] \in Content  BY <2>1 DEF Content
  <2>3. data' \in [Nodes -> Content \cup {Missing}] /\ data'[n] # Missing
    BY <2>2 DEF TypeOK
  <2>. QED  BY <2>3 DEF TypeOK
<1>2. PlaceInv'  BY DEF PlaceInv, Copying, TypeOK
<1>3. ProcessInv'  BY DEF ProcessInv, Still, Copying
<1>4. TakeInv'  BY DEF TakeInv, Taking, TypeOK, PlaceInv
<1>5. SnapInv'  BY DEF SnapInv, TypeOK
<1>6. RestoreInv'  BY DEF RestoreInv, Existing, TypeOK, PlaceInv
<1>7. PartInv'  BY DEF PartInv, Existing, TypeOK
<1>. QED  BY <1>1, <1>2, <1>3, <1>4, <1>5, <1>6, <1>7

LEMMA StopNodesStep ==
    ASSUME SnapshotInv, StopNodes
    PROVE  SnapshotInv'
<1>. USE NodeFacts, PartFacts, SnapshotAssumption DEF StopNodes, SnapshotInv, Goto, Stop, procVars
<1>1. TypeOK'  BY DEF TypeOK, Copying
<1>2. PlaceInv'  BY DEF PlaceInv, Copying, TypeOK
<1>3. ProcessInv'  BY DEF ProcessInv, Still, Copying
<1>4. TakeInv'  BY DEF TakeInv, Taking, TypeOK, PlaceInv
<1>5. SnapInv'  BY DEF SnapInv, TypeOK
<1>6. RestoreInv'  BY DEF RestoreInv, Existing, TypeOK, PlaceInv
<1>7. PartInv'  BY DEF PartInv, Existing, TypeOK
<1>. QED  BY <1>1, <1>2, <1>3, <1>4, <1>5, <1>6, <1>7

LEMMA StopNodeStep ==
    ASSUME SnapshotInv, NEW n \in Nodes, StopNode(n)
    PROVE  SnapshotInv'
<1>. USE NodeFacts, PartFacts, SnapshotAssumption DEF StopNode, SnapshotInv, Goto, Stop, procVars
<1>1. TypeOK'  BY DEF TypeOK, Copying
<1>2. PlaceInv'  BY DEF PlaceInv, Copying, TypeOK
<1>3. ProcessInv'  BY DEF ProcessInv, Still, Copying
<1>4. TakeInv'  BY DEF TakeInv, Taking, TypeOK, PlaceInv
<1>5. SnapInv'  BY DEF SnapInv, TypeOK
<1>6. RestoreInv'  BY DEF RestoreInv, Existing, TypeOK, PlaceInv
<1>7. PartInv'  BY DEF PartInv, Existing, TypeOK
<1>. QED  BY <1>1, <1>2, <1>3, <1>4, <1>5, <1>6, <1>7

LEMMA StartNodeStep ==
    ASSUME SnapshotInv, NEW n \in Nodes, StartNode(n)
    PROVE  SnapshotInv'
<1>. USE NodeFacts, PartFacts, SnapshotAssumption DEF StartNode, SnapshotInv, Goto, Stop, procVars
<1>1. TypeOK'  BY DEF TypeOK, Copying
<1>2. PlaceInv'  BY DEF PlaceInv, Copying, TypeOK
<1>3. ProcessInv'  BY DEF ProcessInv, Still, Copying
<1>4. TakeInv'  BY DEF TakeInv, Taking, TypeOK, PlaceInv
<1>5. SnapInv'  BY DEF SnapInv, TypeOK
<1>6. RestoreInv'  BY DEF RestoreInv, Existing, TypeOK, PlaceInv
<1>7. PartInv'  BY DEF PartInv, Existing, TypeOK
<1>. QED  BY <1>1, <1>2, <1>3, <1>4, <1>5, <1>6, <1>7

LEMMA TakeStep ==
    ASSUME SnapshotInv, Take
    PROVE  SnapshotInv'
<1>. USE NodeFacts, PartFacts, SnapshotAssumption DEF Take, SnapshotInv, Goto, Stop, procVars
<1>1. TypeOK'  BY DEF TypeOK, Copying
<1>2. PlaceInv'  BY DEF PlaceInv, Copying, TypeOK
<1>3. ProcessInv'  BY DEF ProcessInv, Still, Copying
<1>4. TakeInv'  BY DEF TakeInv, Taking, TypeOK, PlaceInv, Existing, Copying
<1>5. SnapInv'  BY DEF SnapInv, TypeOK
<1>6. RestoreInv'  BY DEF RestoreInv, Existing, TypeOK, PlaceInv
<1>7. PartInv'  BY DEF PartInv, Existing, TypeOK
<1>. QED  BY <1>1, <1>2, <1>3, <1>4, <1>5, <1>6, <1>7

LEMMA CopyBeginStep ==
    ASSUME SnapshotInv, CopyBegin
    PROVE  SnapshotInv'
<1>. USE NodeFacts, PartFacts, SnapshotAssumption DEF CopyBegin, SnapshotInv, Goto, Stop, procVars
<1>1. TypeOK'  BY DEF TypeOK, Copying
<1>2. PlaceInv'  BY DEF PlaceInv, Copying, TypeOK
<1>3. ProcessInv'  BY DEF ProcessInv, Still, Copying
<1>4. TakeInv'  BY DEF TakeInv, Taking, TypeOK, PlaceInv
<1>5. SnapInv'
  <2>1. run # 0  BY DEF PlaceInv
  <2>2. \A m \in Nodes : snap'[m] # Missing => snap'[m].prepared = run
    BY DEF TakeInv, Taking, TypeOK
  <2>. QED  BY <2>1, <2>2 DEF SnapInv
<1>6. RestoreInv'  BY DEF RestoreInv, Existing, TypeOK, PlaceInv
<1>7. PartInv'  BY DEF PartInv, Existing, TypeOK
<1>. QED  BY <1>1, <1>2, <1>3, <1>4, <1>5, <1>6, <1>7

LEMMA CopyEndStep ==
    ASSUME SnapshotInv, CopyEnd
    PROVE  SnapshotInv'
<1>. USE NodeFacts, PartFacts, SnapshotAssumption DEF CopyEnd, SnapshotInv, Goto, Stop, procVars
<1>1. TypeOK'  BY DEF TypeOK, Copying
<1>2. PlaceInv'  BY DEF PlaceInv, Copying, TypeOK
<1>3. ProcessInv'  BY DEF ProcessInv, Still, Copying
<1>4. TakeInv'  BY DEF TakeInv, Taking, TypeOK, PlaceInv
<1>5. SnapInv'
  <2>1. run # 0  BY DEF PlaceInv
  <2>2. \A m \in Nodes : snap'[m] # Missing => snap'[m].prepared = run
    BY DEF TakeInv, Taking, TypeOK
  <2>. QED  BY <2>1, <2>2 DEF SnapInv
<1>6. RestoreInv'  BY DEF RestoreInv, Existing, TypeOK, PlaceInv
<1>7. PartInv'
  <2>1. CASE at < Count /\ pc' = "copy"  BY <2>1 DEF PartInv
  <2>2. CASE at = Count /\ pc' = "restart"
    <3>1. data[at] # Missing /\ \A m \in Nodes : snap[m] # Missing
      BY <2>2 DEF TakeInv, Taking
    <3>2. \A m \in Nodes : snap'[m] # Missing  BY <3>1 DEF TypeOK
    <3>. QED  BY <2>2, <3>2 DEF PartInv, Existing
  <2>. QED  BY <2>1, <2>2
<1>. QED  BY <1>1, <1>2, <1>3, <1>4, <1>5, <1>6, <1>7

LEMMA RestartStep ==
    ASSUME SnapshotInv, Restart
    PROVE  SnapshotInv'
<1>. USE NodeFacts, PartFacts, SnapshotAssumption DEF Restart, SnapshotInv, Goto, Stop, procVars
<1>1. TypeOK'  BY DEF TypeOK, Copying
<1>2. PlaceInv'  BY DEF PlaceInv, Copying, TypeOK
<1>3. ProcessInv'  BY DEF ProcessInv, Still, Copying
<1>4. TakeInv'  BY DEF TakeInv, Taking, TypeOK, PlaceInv
<1>5. SnapInv'  BY DEF SnapInv, TypeOK
<1>6. RestoreInv'  BY DEF RestoreInv, Existing, TypeOK, PlaceInv
<1>7. PartInv'  BY DEF PartInv, Existing, TypeOK
<1>. QED  BY <1>1, <1>2, <1>3, <1>4, <1>5, <1>6, <1>7

LEMMA EndStep ==
    ASSUME SnapshotInv, End
    PROVE  SnapshotInv'
<1>. USE NodeFacts, PartFacts, SnapshotAssumption DEF End, SnapshotInv, Goto, Stop, procVars
<1>1. TypeOK'  BY DEF TypeOK, Copying
<1>2. PlaceInv'  BY DEF PlaceInv, Copying, TypeOK
<1>3. ProcessInv'  BY DEF ProcessInv, Still, Copying
<1>4. TakeInv'  BY DEF TakeInv, Taking, TypeOK, PlaceInv
<1>5. SnapInv'  BY DEF SnapInv, TypeOK
<1>6. RestoreInv'  BY DEF RestoreInv, Existing, TypeOK, PlaceInv
<1>7. PartInv'  BY DEF PartInv, Existing, TypeOK
<1>. QED  BY <1>1, <1>2, <1>3, <1>4, <1>5, <1>6, <1>7

LEMMA CrashStep ==
    ASSUME SnapshotInv, Crash
    PROVE  SnapshotInv'
<1>. USE NodeFacts, PartFacts, SnapshotAssumption DEF Crash, SnapshotInv, Goto, Stop, procVars
<1>1. TypeOK'  BY DEF TypeOK, Copying
<1>2. PlaceInv'  BY DEF PlaceInv, Copying, TypeOK
<1>3. ProcessInv'  BY DEF ProcessInv, Still, Copying
<1>4. TakeInv'  BY DEF TakeInv, Taking, TypeOK, PlaceInv
<1>5. SnapInv'  BY DEF SnapInv, TypeOK
<1>6. RestoreInv'  BY DEF RestoreInv, Existing, TypeOK, PlaceInv
<1>7. PartInv'  BY DEF PartInv, Existing, TypeOK
<1>. QED  BY <1>1, <1>2, <1>3, <1>4, <1>5, <1>6, <1>7

-----------------------------------------------------------------------------
(* The theorems                                                            *)

LEMMA SnapshotNext == SnapshotInv /\ [Next]_vars => SnapshotInv'
<1>. SUFFICES ASSUME SnapshotInv, [Next]_vars PROVE SnapshotInv'
  OBVIOUS
<1>1. CASE UNCHANGED vars
  <2>. USE <1>1 DEF vars, procVars, SnapshotInv
  <2>1. TypeOK' /\ PlaceInv' /\ ProcessInv' /\ TakeInv'
    BY DEF TypeOK, PlaceInv, ProcessInv, TakeInv
  <2>2. SnapInv' /\ RestoreInv' /\ PartInv'
    BY DEF SnapInv, RestoreInv, PartInv, Existing
  <2>. QED  BY <2>1, <2>2
<1>2. CASE Next
  BY <1>1, <1>2, BeginStep, DeleteBeginStep, DeleteEndStep, DeletedStep, RestoreStep,
     RemoveBeginStep, RemoveEndStep, CopyBackBeginStep, CopyBackEndStep, StartNodesStep,
     SkipStep, WorkStep, StopNodesStep, StopNodeStep, StartNodeStep, TakeStep,
     CopyBeginStep, CopyEndStep, RestartStep, EndStep, CrashStep
     DEF Next, Terminated
<1>. QED  BY <1>1, <1>2

LEMMA SnapshotSafe == Spec => []SnapshotInv
BY SnapshotInit, SnapshotNext, PTL DEF Spec

LEMMA WholeInit == Init => WholeInv
<1>. SUFFICES ASSUME Init PROVE WholeInv
  OBVIOUS
<1>1. Cardinality({}) <= crashes  BY FS_EmptySet DEF Init
<1>2. WholeBut({})  BY DEF Init, WholeBut
<1>. QED  BY <1>1, <1>2 DEF WholeInv

\* A step other than Crash leaves nothing incomplete that was not.
LEMMA WholeStep ==
    ASSUME SnapshotInv, NEW B \in SUBSET Nodes, WholeBut(B), [Next]_vars, ~Crash
    PROVE  WholeBut(B)'
<1>. USE DEF WholeBut
<1>1. TypeOK /\ PlaceInv  BY DEF SnapshotInv
<1>2. CASE \E delete, restore \in BOOLEAN : Begin(delete, restore)
  BY <1>2, <1>1 DEF Begin, TypeOK, Fresh
<1>3. CASE \E n \in Nodes : DeleteBegin(n)
  BY <1>3, <1>1 DEF DeleteBegin, Goto, procVars, TypeOK
<1>4. CASE DeleteEnd
  BY <1>4, <1>1 DEF DeleteEnd, Goto, procVars, TypeOK
<1>5. CASE RemoveBegin
  BY <1>5, <1>1 DEF RemoveBegin, Goto, procVars, TypeOK
<1>6. CASE RemoveEnd
  BY <1>6, <1>1 DEF RemoveEnd, Goto, procVars, TypeOK
<1>7. CASE CopyBackBegin
  BY <1>7, <1>1 DEF CopyBackBegin, Goto, procVars, TypeOK
<1>8. CASE CopyBackEnd
  <2>1. snap[at] # Missing  BY <1>8, <1>1 DEF CopyBackEnd, SnapshotInv, RestoreInv, Existing, TypeOK
  <2>. QED  BY <1>8, <1>1, <2>1 DEF CopyBackEnd, procVars, TypeOK
<1>9. CASE \E n \in Nodes : Work(n)
  <2>1. PICK n \in Nodes : Work(n)  BY <1>9
  <2>2. data[n] \in Content
    BY <1>1, <2>1 DEF Work, TypeOK
  <2>3. [data[n] EXCEPT !.prepared = run].whole = data[n].whole
    BY <2>2 DEF Content
  <2>4. data[n] # Missing  BY <2>2, ContentAssumption
  <2>. QED  BY <1>1, <2>1, <2>3, <2>4 DEF Work, procVars, TypeOK
<1>10. CASE CopyBegin
  BY <1>10, <1>1 DEF CopyBegin, Goto, procVars, TypeOK
<1>11. CASE CopyEnd
  <2>1. data[at] # Missing
    BY <1>11, <1>1 DEF CopyEnd, SnapshotInv, TakeInv, Taking, TypeOK
  <2>. QED  BY <1>11, <1>1, <2>1 DEF CopyEnd, Goto, procVars, TypeOK
<1>12. CASE /\ UNCHANGED <<data, snap>>
            /\ pc \notin {"removing", "copying_back", "copying", "deleting"}
  BY <1>12
<1>13. CASE UNCHANGED <<data, snap, at, pc>>
  BY <1>13
<1>14. CASE End  BY <1>14 DEF End, Stop
<1>. QED
  BY <1>2, <1>3, <1>4, <1>5, <1>6, <1>7, <1>8, <1>9, <1>10, <1>11, <1>12, <1>13, <1>14
     DEF Next, Deleted, Restore, StartNodes, Skip, StopNodes, StopNode, StartNode, Take,
         Restart, Terminated, vars, procVars

LEMMA WholeCrash ==
    ASSUME SnapshotInv, NEW B \in SUBSET Nodes, Cardinality(B) <= crashes, WholeBut(B), Crash
    PROVE  WholeInv'
<1>1. at \in Nodes /\ crashes \in Nat
  BY SnapshotAssumption DEF SnapshotInv, TypeOK
<1>2. IsFiniteSet(Nodes)  BY FS_Interval, SnapshotAssumption DEF Nodes
<1>3. IsFiniteSet(B)  BY <1>2, FS_Subset
<1>4. B \cup {at} \in SUBSET Nodes  BY <1>1
<1>5. Cardinality(B \cup {at}) <= crashes'
  <2>1. Cardinality(B) \in Nat  BY <1>3, FS_CardinalityType
  <2>2. Cardinality(B \cup {at}) = IF at \in B THEN Cardinality(B) ELSE Cardinality(B) + 1
    BY <1>3, FS_AddElement
  <2>. QED  BY <1>1, <2>1, <2>2 DEF Crash
<1>6. \A n \in Nodes \ (B \cup {at}) : /\ data[n] # Missing => data[n].whole
                                      /\ snap[n] # Missing => snap[n].whole
  BY DEF WholeBut
<1>7. UNCHANGED <<data, snap>>  BY DEF Crash, Stop
<1>8. PICK C \in SUBSET Nodes : C = B \cup {at}  BY <1>4
<1>9. WholeBut(C)'  BY <1>6, <1>7, <1>8 DEF WholeBut
<1>. QED  BY <1>5, <1>8, <1>9 DEF WholeInv

LEMMA WholeNext == SnapshotInv /\ WholeInv /\ [Next]_vars => WholeInv'
<1>. SUFFICES ASSUME SnapshotInv, WholeInv, [Next]_vars PROVE WholeInv'
  OBVIOUS
<1>1. PICK B \in SUBSET Nodes : Cardinality(B) <= crashes /\ WholeBut(B)
  BY DEF WholeInv
<1>2. CASE Crash  BY <1>1, <1>2, WholeCrash
<1>3. CASE ~Crash
  <2>1. WholeBut(B)'  BY <1>1, <1>3, WholeStep
  <2>2. UNCHANGED crashes
    BY <1>3 DEF Next, Begin, DeleteBegin, DeleteEnd, Deleted, Restore, RemoveBegin,
       RemoveEnd, CopyBackBegin, CopyBackEnd, StartNodes, Skip, Work, StopNodes,
       StopNode, StartNode, Take, CopyBegin, CopyEnd, Restart, End, Terminated,
       Goto, vars
  <2>. QED  BY <1>1, <2>1, <2>2 DEF WholeInv
<1>. QED  BY <1>2, <1>3

LEMMA WholeSafe == Spec => []WholeInv
BY WholeInit, WholeNext, SnapshotSafe, PTL DEF Spec

\* The directories and the processes are as NodeController and SnapshotManager leave
\* them; a data directory is missing only inside a restore, or after a crash there.
THEOREM TypeCorrect == Spec => []TypeOK
<1>1. SnapshotInv => TypeOK  BY DEF SnapshotInv
<1>. QED  BY <1>1, SnapshotSafe, PTL

\* A run that skips the snapshot task goes on from states that one run has reached,
\* however many runs were killed in NodeController's copies and removals.  The
\* directories it restores may be incomplete, for get_snapshot_info only looks
\* whether they exist, but no more of them than runs were killed.
THEOREM RestoredAsOne == Spec => []RestoredTogether
<1>1. ASSUME SnapshotInv, WholeInv PROVE RestoredTogether
  <2>. SUFFICES ASSUME restored PROVE RestoredTogether
    BY DEF RestoredTogether
  <2>1. \A n, m \in Nodes :
          data[n] # Missing /\ data[n].prepared # 0 /\ data[n].prepared = data[m].prepared
    BY <1>1 DEF SnapshotInv, RestoreInv
  <2>2. PICK B \in SUBSET Nodes : Cardinality(B) <= crashes /\ WholeBut(B)
    BY <1>1 DEF WholeInv
  <2>3. pc \notin {"removing", "copying_back"}
    BY <1>1 DEF SnapshotInv, RestoreInv
  <2>4. {n \in Nodes : ~data[n].whole} \in SUBSET B
    BY <2>1, <2>2, <2>3 DEF WholeBut
  <2>5. IsFiniteSet(Nodes)  BY FS_Interval, SnapshotAssumption DEF Nodes
  <2>6. IsFiniteSet(B)  BY <2>2, <2>5, FS_Subset
  <2>7. /\ Cardinality({n \in Nodes : ~data[n].whole}) \in Nat /\ Cardinality(B) \in Nat
        /\ Cardinality({n \in Nodes : ~data[n].whole}) <= Cardinality(B)
    BY <2>4, <2>6, FS_Subset, FS_CardinalityType
  <2>8. crashes \in Nat  BY <1>1, SnapshotAssumption DEF SnapshotInv, TypeOK
  <2>9. Cardinality({n \in Nodes : ~data[n].whole}) <= crashes
    BY <2>2, <2>7, <2>8
  <2>. QED  BY <2>1, <2>9 DEF RestoredTogether
<1>. QED  BY <1>1, SnapshotSafe, WholeSafe, PTL

\* Directories are copied while no node runs: SnapshotManager.take refuses when a
\* parallel branch has started one.
THEOREM CopiedAtRest == Spec => []CopyWhileStopped
<1>1. SnapshotInv => CopyWhileStopped
  BY DEF SnapshotInv, ProcessInv, Still, CopyWhileStopped
<1>. QED  BY <1>1, SnapshotSafe, PTL

\* An inconsistent snapshot, which get_snapshot_info refuses, is what a killed run or
\* a failed copy has left.
THEOREM RefusalNeedsCrash == Spec => []RefusedNeedsCrash
<1>1. SnapshotInv => RefusedNeedsCrash
  BY DEF SnapshotInv, PartInv, RefusedNeedsCrash, TypeOK
<1>. QED  BY <1>1, SnapshotSafe, PTL

\* A whole copy in the snapshot stays as it is until --delete-snapshots.
THEOREM FrozenSnapshot == Spec => SnapshotFrozen
<1>1. ASSUME SnapshotInv, [Next]_vars
      PROVE  [\A n \in Nodes : snap[n] # Missing /\ snap[n].whole /\ snap'[n] # snap[n]
                                  => pc = "delete"]_vars
  <2>1. CASE CopyBegin
    <3>1. snap[at] = Missing /\ at \in Nodes
      BY <1>1, <2>1, NodeFacts DEF CopyBegin, SnapshotInv, TakeInv, TypeOK
    <3>. QED  BY <1>1, <2>1, <3>1 DEF CopyBegin, SnapshotInv, TypeOK
  <2>2. CASE CopyEnd
    <3>1. ~snap[at].whole
      BY <1>1, <2>2 DEF CopyEnd, SnapshotInv, TakeInv
    <3>. QED  BY <1>1, <2>2, <3>1 DEF CopyEnd, SnapshotInv, TypeOK
  <2>3. CASE UNCHANGED snap  BY <2>3
  <2>4. CASE \E n \in Nodes : DeleteBegin(n)
    BY <2>4 DEF DeleteBegin
  <2>5. CASE DeleteEnd
    <3>1. ~snap[at].whole
      BY <1>1, <2>5 DEF DeleteEnd, SnapshotInv, PartInv
    <3>. QED  BY <1>1, <2>5, <3>1 DEF DeleteEnd, SnapshotInv, TypeOK
  <2>. QED
    BY <1>1, <2>1, <2>2, <2>3, <2>4, <2>5 DEF Next, Begin, Deleted, Restore, RemoveBegin,
       RemoveEnd, CopyBackBegin, CopyBackEnd, StartNodes, Skip, Work, StopNodes,
       StopNode, StartNode, Take, Restart, End, Crash, Stop, Terminated, vars
<1>. QED  BY <1>1, SnapshotSafe, PTL DEF Spec, SnapshotFrozen
=============================================================================
