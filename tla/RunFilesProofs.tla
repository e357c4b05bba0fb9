--------------------------- MODULE RunFilesProofs ---------------------------
(***************************************************************************)
(* Theorems about TransferIdentifier: payment identifiers are different,   *)
(* for every number of digits, as long as run numbers and counts keep to   *)
(* the digits they have; with the digits of the code they fit into the 64  *)
(* bits a payment identifier has.                                          *)
(*                                                                         *)
(* Theorems about RunFiles: type correctness for any runs, and, when the   *)
(* runs of one scenario do not overlap, fresh numbers, unique payment      *)
(* identifiers, accounts that stay, one token for those that share it, and *)
(* refusals only after a crash.                                            *)
(***************************************************************************)
EXTENDS RunFiles, FiniteSetTheorems, TLAPS

-----------------------------------------------------------------------------
(* The payment identifier                                                  *)

\* A number is determined by its quotient and its remainder.
LEMMA Division ==
    ASSUME NEW a \in Int, NEW b \in Int, NEW r \in Nat, NEW s \in Nat,
           NEW base \in Nat \ {0}, r < base, s < base,
           a * base + r = b * base + s
    PROVE  a = b /\ r = s
<1>1. ASSUME NEW x \in Int, NEW y \in Int, x < y
      PROVE  x * base + base <= y * base
  <2>1. PICK d \in Nat : y = x + 1 + d  BY <1>1
  <2>2. y * base = x * base + base + d * base  BY <2>1
  <2>3. d * base >= 0  BY <2>1
  <2>. QED  BY <2>2, <2>3
<1>2. ~(a < b)  BY <1>1
<1>3. ~(b < a)  BY <1>1
<1>. QED  BY <1>2, <1>3

\* The digits kept for a number are enough for a smaller one.
LEMMA ScaleKept ==
    ASSUME NEW base \in Nat \ {0}, NEW x \in Nat, x < base
    PROVE  Scale(x, base) = base
<1>1. base \in Scales(base)  BY DEF Scales
<1>2. \A r \in Scales(base) : r \in Nat /\ base <= r  BY DEF Scales
<1>. QED  BY <1>1, <1>2 DEF Scale

\* A number of an interval.
LEMMA Interval ==
    ASSUME NEW m \in Int, NEW h \in 0..m
    PROVE  h \in Nat /\ h <= m
OBVIOUS

\* A hash has five digits at most.
LEMMA HashBound ==
    ASSUME NEW h \in Hashes
    PROVE  h \in Nat /\ h <= 65535
<1>. DEFINE m == 256 * 256 - 1
<1>1. m \in Int /\ m <= 65535  BY SMT
<1>2. h \in 0..m  BY Zenon DEF Hashes
<1>. HIDE DEF m
<1>3. h \in Nat /\ h <= m  BY ONLY <1>1, <1>2, Interval
<1>. QED  BY SMT, <1>1, <1>3

\* The scale of a hash: a power of ten above it.
LEMMA HashScale ==
    ASSUME NEW h \in Hashes
    PROVE  /\ Scale(h, 10) \in {10, 100, 1000, 10000, 100000}
           /\ h < Scale(h, 10)
           /\ Scale(h, 10) = 10 \/ Scale(h, 10) <= 10 * h
<1>. DEFINE P(s) == s \in Scales(10) /\ h < s /\ \A r \in Scales(10) : h < r => s <= r
<1>1. Scales(10) = {10, 100, 1000, 10000, 100000, 1000000, 10000000}
  BY SMT DEF Scales
<1>0. h \in Nat /\ h < 100000  BY HashBound
<1>2. \E s \in {10, 100, 1000, 10000, 100000} : P(s)
  <2>1. CASE h < 10  BY SMT, <1>0, <1>1, <2>1
  <2>2. CASE 10 <= h /\ h < 100  BY SMT, <1>0, <1>1, <2>2
  <2>3. CASE 100 <= h /\ h < 1000  BY SMT, <1>0, <1>1, <2>3
  <2>4. CASE 1000 <= h /\ h < 10000  BY SMT, <1>0, <1>1, <2>4
  <2>5. CASE 10000 <= h  BY SMT, <1>0, <1>1, <2>5
  <2>. QED  BY SMT, <1>0, <2>1, <2>2, <2>3, <2>4, <2>5
<1>3. \A s, t : P(s) /\ P(t) => s = t  BY SMT, <1>1
<1>4. \E s : P(s)  BY SMT, <1>2
<1>5. P(Scale(h, 10))  BY Zenon, <1>4 DEF Scale
<1>. QED  BY SMT, <1>0, <1>1, <1>2, <1>3, <1>5

\* Two scales are equal or far apart.
LEMMA ScalesApart ==
    ASSUME NEW h \in Hashes, NEW k \in Hashes
    PROVE  /\ Scale(h, 10) \in Nat /\ Scale(k, 10) \in Nat
           /\ Scale(h, 10) < Scale(k, 10) => 2 * Scale(h, 10) <= Scale(k, 10)
<1>1. Scale(h, 10) \in {10, 100, 1000, 10000, 100000}  BY SMT, HashScale
<1>2. Scale(k, 10) \in {10, 100, 1000, 10000, 100000}  BY SMT, HashScale
<1>. QED  BY SMT, <1>1, <1>2

\* A 1 in front of the hash keeps different hashes apart, padded or not.
LEMMA HashesApart ==
    ASSUME NEW h \in Hashes, NEW k \in Hashes,
           Append(1, h, 10) = Append(1, k, 10)
    PROVE  h = k
<1>1. /\ h \in Nat /\ k \in Nat
      /\ Scale(h, 10) \in Nat /\ Scale(k, 10) \in Nat
      /\ Scale(h, 10) < Scale(k, 10) => 2 * Scale(h, 10) <= Scale(k, 10)
      /\ Scale(k, 10) < Scale(h, 10) => 2 * Scale(k, 10) <= Scale(h, 10)
  BY SMT, ScalesApart, HashBound
<1>2. h < Scale(h, 10) /\ k < Scale(k, 10)  BY SMT, HashScale
<1>3. Scale(h, 10) + h = Scale(k, 10) + k  BY SMT, <1>1 DEF Append
<1>. QED  BY SMT, <1>1, <1>2, <1>3

\* What the digits of an identifier add up to.
LEMMA IdentifierValue ==
    ASSUME NEW h \in Hashes, NEW run \in 0..(RunBase - 1),
           NEW count \in 0..(CountBase - 1)
    PROVE  /\ Append(1, h, 10) \in Nat
           /\ Identifier(h, run, count) =
                (((Append(1, h, 10) * 10 + 1) * RunBase + run) * 10 + 1) * CountBase + count
<1>. USE DigitsAssumption
<1>0. Scale(h, 10) \in Nat  BY SMT, HashScale
<1>5. h \in Nat  BY HashBound
<1>1. Append(1, h, 10) \in Nat  BY SMT, <1>0, <1>5 DEF Append
<1>2. \A n : Append(n, 1, 10) = n * 10 + 1  BY ScaleKept DEF Append
<1>3. \A n : Append(n, run, RunBase) = n * RunBase + run  BY ScaleKept DEF Append
<1>4. \A n : Append(n, count, CountBase) = n * CountBase + count  BY ScaleKept DEF Append
<1>. QED  BY <1>1, <1>2, <1>3, <1>4 DEF Identifier

\* The identifier tells the scenario, by the hash of its name, the run and the
\* transfer: f"1{scenario_hash}1{run_number:04d}1{transfer_count:06d}" never gives
\* the same digits twice.
THEOREM Injective ==
    ASSUME NEW h \in Hashes, NEW run \in 0..(RunBase - 1),
           NEW count \in 0..(CountBase - 1),
           NEW k \in Hashes, NEW run2 \in 0..(RunBase - 1),
           NEW count2 \in 0..(CountBase - 1),
           Identifier(h, run, count) = Identifier(k, run2, count2)
    PROVE  h = k /\ run = run2 /\ count = count2
<1>. USE DigitsAssumption
<1>. DEFINE A == Append(1, h, 10) * 10 + 1
            B == Append(1, k, 10) * 10 + 1
            Ar == A * RunBase + run
            Br == B * RunBase + run2
<1>1. A \in Int /\ B \in Int  BY IdentifierValue
<1>2. Ar \in Int /\ Br \in Int  BY <1>1
<1>3. (Ar * 10 + 1) * CountBase + count = (Br * 10 + 1) * CountBase + count2
  BY IdentifierValue
<1>. HIDE DEF A, B, Ar, Br
<1>4. Ar * 10 + 1 = Br * 10 + 1 /\ count = count2
  <2>. DEFINE a == Ar * 10 + 1
              b == Br * 10 + 1
  <2>1. a \in Int /\ b \in Int  BY <1>2
  <2>2. a * CountBase + count = b * CountBase + count2  BY <1>3
  <2>. HIDE DEF a, b
  <2>. QED  BY <2>1, <2>2, Division DEF a, b
<1>5. Ar = Br  BY <1>2, <1>4
<1>6. A = B /\ run = run2  BY <1>1, <1>5, Division DEF Ar, Br
<1>7. Append(1, h, 10) = Append(1, k, 10)
  BY <1>6, IdentifierValue DEF A, B
<1>. QED  BY <1>4, <1>6, <1>7, HashesApart

\* A quotient below a bound bounds the number.
LEMMA Bound ==
    ASSUME NEW a \in Nat, NEW r \in Nat, NEW m \in Nat, NEW base \in Nat \ {0},
           a < m, r < base
    PROVE  a * base + r \in Nat /\ a * base + r < m * base
<1>1. PICK d \in Nat : m = a + 1 + d  BY SMT
<1>2. m * base = a * base + base + d * base  BY SMT, <1>1
<1>3. d * base >= 0 /\ a * base \in Nat /\ d * base \in Nat  BY SMT, <1>1
<1>. QED  BY SMT, <1>2, <1>3

\* The width of an identifier: with four digits for the run and six for the count
\* it stays below 1655360 * 10^4 * 10 * 10^6, and so fits into 64 bits.
THEOREM Width ==
    ASSUME NEW h \in Hashes, NEW run \in 0..(RunBase - 1),
           NEW count \in 0..(CountBase - 1)
    PROVE  Identifier(h, run, count) < 1655360 * RunBase * 10 * CountBase
<1>. USE DigitsAssumption
<1>. DEFINE head == Append(1, h, 10)
            mid  == (head * 10 + 1) * RunBase + run
<1>1. Scale(h, 10) \in Nat /\ Scale(h, 10) <= 100000  BY SMT, HashScale
<1>2. h \in Nat /\ h <= 65535  BY HashBound
<1>3. head \in Nat /\ head < 165536  BY SMT, <1>1, <1>2 DEF Append
<1>4. Identifier(h, run, count) = (mid * 10 + 1) * CountBase + count
  BY IdentifierValue
<1>. HIDE DEF head
<1>5. mid \in Nat /\ mid < 1655360 * RunBase
  <2>. DEFINE a == head * 10 + 1
  <2>1. a \in Nat /\ a < 1655360  BY SMT, <1>3
  <2>2. run \in Nat /\ run < RunBase /\ 1655360 \in Nat  BY SMT
  <2>. HIDE DEF a
  <2>3. a * RunBase + run \in Nat /\ a * RunBase + run < 1655360 * RunBase
    BY SMT, <2>1, <2>2, Bound
  <2>. QED  BY SMT, <2>3 DEF a
<1>. HIDE DEF mid
<1>6. (mid * 10 + 1) * CountBase + count < (1655360 * RunBase * 10) * CountBase
  <2>. DEFINE a == mid * 10 + 1
              m == 1655360 * RunBase * 10
  <2>1. a \in Nat /\ m \in Nat /\ a < m  BY SMT, <1>5
  <2>2. count \in Nat /\ count < CountBase  BY SMT
  <2>. HIDE DEF a, m
  <2>3. a * CountBase + count < m * CountBase  BY SMT, <2>1, <2>2, Bound
  <2>. QED  BY SMT, <2>3 DEF a, m
<1>. QED  BY SMT, <1>4, <1>6

-----------------------------------------------------------------------------
(* Type correctness                                                        *)

Early == {"new", "seed", "seed_open", "seed_write", "number"}

\* The runs of s that have read run_number.txt with success.
Taken(s) == {p \in Runs : Scenario[p] = s /\ pc[p] \notin Early}

SeedInv == \A p \in Runs : pc[p] \notin {"new", "seed", "seed_open"} => seed # Missing

IndexInv == \A p \in Runs : pc[p] \in {"key_seed", "key_open", "key_write"} =>
                index[p] \in Indices

\* Numbers are counted up, so there are fewer of them than runs that have one.
CountInv ==
    /\ \A p \in Runs : pc[p] \notin Early => number[p] < Cardinality(Taken(Scenario[p]))
    /\ \A s \in Scenarios :
          run_number[s] \in Nat => run_number[s] < Cardinality(Taken(s))

TypeInv == TypeOK /\ SeedInv /\ IndexInv /\ CountInv

LEMMA TakenFinite ==
    ASSUME NEW s
    PROVE  /\ IsFiniteSet(Taken(s)) /\ IsFiniteSet(Runs)
           /\ Cardinality(Taken(s)) \in Nat /\ Cardinality(Runs) \in Nat
           /\ Cardinality(Taken(s)) <= Cardinality(Runs)
<1>1. IsFiniteSet(Runs)  BY RunAssumption
<1>2. Taken(s) \subseteq Runs  BY DEF Taken
<1>. QED  BY <1>1, <1>2, FS_Subset, FS_CardinalityType

LEMMA TypeInit == Init => TypeInv
<1>. SUFFICES ASSUME Init PROVE TypeInv
  OBVIOUS
<1>. USE RunAssumption DEF Init
<1>1. 0 \in Numbers /\ 0 \in 0..Count
  BY TakenFinite DEF Numbers
<1>2. TypeOK  BY <1>1 DEF TypeOK, Places, Lost
<1>3. SeedInv /\ IndexInv  BY DEF SeedInv, IndexInv
<1>4. CountInv  BY DEF CountInv, Early
<1>. QED  BY <1>2, <1>3, <1>4 DEF TypeInv

\* The data directory of the node at hand is one of the installation's.
LEMMA DirType ==
    ASSUME NEW p \in Runs, TypeOK, index[p] \in Indices
    PROVE  MyDir(p) \in Dirs
BY RunAssumption DEF MyDir, Dirs, TypeOK

\* A step that moves no run into or out of the late places and changes neither
\* the numbers nor run_number.txt keeps the count.
LEMMA CountKept ==
    ASSUME TypeInv, \A q \in Runs : pc'[q] \in Early <=> pc[q] \in Early,
           UNCHANGED <<number, run_number>>
    PROVE  CountInv'
<1>1. \A s : Taken(s)' = Taken(s)  BY DEF Taken
<1>. QED  BY <1>1 DEF TypeInv, CountInv

LEMMA TypeSeed ==
    ASSUME TypeInv, NEW p \in Runs,
           Load(p) \/ SeedCheck(p) \/ SeedOpen(p) \/ SeedWrite(p)
    PROVE  TypeInv'
<1>. USE RunAssumption DEF TypeInv
<1>1. CASE Load(p)
  <2>. USE <1>1 DEF Load, At, Goto, Raise, files, locals
  <2>1. TypeOK'  BY DEF TypeOK, Places
  <2>2. SeedInv' /\ IndexInv'  BY DEF SeedInv, IndexInv, TypeOK
  <2>3. CountInv'  BY CountKept DEF TypeOK, Early
  <2>. QED  BY <2>1, <2>2, <2>3
<1>2. CASE SeedCheck(p)
  <2>. USE <1>2 DEF SeedCheck, At, Goto, files, locals
  <2>1. TypeOK'  BY DEF TypeOK, Places
  <2>2. SeedInv' /\ IndexInv'  BY DEF SeedInv, IndexInv, TypeOK
  <2>3. CountInv'  BY CountKept DEF TypeOK, Early
  <2>. QED  BY <2>1, <2>2, <2>3
<1>3. CASE SeedOpen(p)
  <2>. USE <1>3 DEF SeedOpen, At, Goto, locals
  <2>1. TypeOK'  BY DEF TypeOK, Places, Lost
  <2>2. SeedInv' /\ IndexInv'  BY DEF SeedInv, IndexInv, TypeOK
  <2>3. CountInv'  BY CountKept DEF TypeOK, Early
  <2>. QED  BY <2>1, <2>2, <2>3
<1>4. CASE SeedWrite(p)
  <2>. USE <1>4 DEF SeedWrite, At, Goto, locals
  <2>1. TypeOK'  BY DEF TypeOK, Places, Lost
  <2>2. SeedInv' /\ IndexInv'  BY DEF SeedInv, IndexInv, TypeOK
  <2>3. CountInv'  BY CountKept DEF TypeOK, Early
  <2>. QED  BY <2>1, <2>2, <2>3
<1>. QED  BY <1>1, <1>2, <1>3, <1>4

LEMMA TypeNumberRead ==
    ASSUME TypeInv, NEW p \in Runs, NumberRead(p)
    PROVE  TypeInv'
<1>. USE RunAssumption DEF TypeInv
<1>. USE DEF NumberRead, At, Goto, Raise, files
<1>. DEFINE s == Scenario[p]
<1>1. SeedInv' /\ IndexInv'  BY DEF SeedInv, IndexInv, TypeOK
<1>2. CASE run_number[s] = Empty
  <2>1. TypeOK'  BY <1>2 DEF TypeOK
  <2>2. CountInv'  BY <1>2, CountKept
  <2>. QED  BY <1>1, <2>1, <2>2
<1>3. CASE run_number[s] # Empty
  <2>0. /\ pc[p] \in Early
        /\ \A q \in Runs : pc'[q] \notin Early <=> q = p \/ pc[q] \notin Early
    BY <1>3 DEF TypeOK, Early
  <2>1. Taken(s)' = Taken(s) \cup {p} /\ p \notin Taken(s)
    BY ONLY <2>0, p \in Runs DEF Taken
  <2>2. \A t : t # s => Taken(t)' = Taken(t)
    BY <2>0 DEF Taken
  <2>3. /\ IsFiniteSet(Taken(s)')
        /\ Cardinality(Taken(s)') = Cardinality(Taken(s)) + 1
        /\ Cardinality(Taken(s)) \in Nat
    <3>1. IsFiniteSet(Taken(s))  BY ONLY TakenFinite
    <3>2. IsFiniteSet(Taken(s) \cup {p}) /\ Cardinality(Taken(s)) \in Nat
      BY ONLY <3>1, FS_AddElement, FS_CardinalityType
    <3>3. Cardinality(Taken(s) \cup {p}) = Cardinality(Taken(s)) + 1
      BY ONLY <3>1, <2>1, FS_AddElement
    <3>. QED  BY ONLY <2>1, <3>2, <3>3
  <2>4. Cardinality(Taken(s)') <= Cardinality(Runs) /\ Cardinality(Runs) \in Nat
    <3>1. Taken(s)' \subseteq Runs  BY DEF Taken
    <3>. QED  BY <3>1, TakenFinite, FS_Subset
  <2>5. number'[p] \in Nat /\ number'[p] < Cardinality(Taken(s)')
    <3>1. CASE run_number[s] = Missing
      <4>1. number'[p] = 0  BY <1>3, <3>1 DEF TypeOK
      <4>. QED  BY <4>1, <2>3
    <3>2. CASE run_number[s] # Missing
      <4>0. s \in Scenarios /\ run_number[s] \in Numbers
        BY ONLY <1>3, <3>2, RunAssumption, TypeOK, p \in Runs DEF TypeOK, Lost
      <4>1. s \in Scenarios /\ run_number[s] \in Nat
        BY ONLY <4>0 DEF Numbers
      <4>2. number'[p] = run_number[s] + 1  BY <1>3, <3>2 DEF TypeOK
      <4>3. run_number[s] < Cardinality(Taken(s))  BY <4>1 DEF CountInv
      <4>. QED  BY <4>1, <4>2, <4>3, <2>3
    <3>. QED  BY <3>1, <3>2
  <2>6. TypeOK'
    <3>1. number'[p] \in Numbers  BY <2>3, <2>4, <2>5 DEF Numbers
    <3>. QED  BY <1>3, <3>1 DEF TypeOK, Places
  <2>7. CountInv'
    <3>1. ASSUME NEW q \in Runs, pc'[q] \notin Early
          PROVE  number'[q] < Cardinality(Taken(Scenario[q])')
      <4>1. CASE q = p  BY <4>1, <2>5
      <4>2. CASE q # p
        <5>1. /\ number'[q] = number[q] /\ number[q] \in Nat
              /\ number[q] < Cardinality(Taken(Scenario[q]))
          BY <1>3, <3>1, <4>2 DEF TypeOK, CountInv, Numbers
        <5>2. CASE Scenario[q] = s  BY <5>1, <5>2, <2>3
        <5>3. CASE Scenario[q] # s  BY <5>1, <5>3, <2>2
        <5>. QED  BY <5>2, <5>3
      <4>. QED  BY <4>1, <4>2
    <3>2. ASSUME NEW t \in Scenarios, run_number'[t] \in Nat
          PROVE  run_number'[t] < Cardinality(Taken(t)')
      <4>1. run_number[t] < Cardinality(Taken(t)) /\ run_number'[t] = run_number[t]
        BY <3>2 DEF CountInv
      <4>2. CASE t = s  BY <4>1, <4>2, <3>2, <2>3
      <4>3. CASE t # s  BY <4>1, <4>3, <2>2
      <4>. QED  BY <4>2, <4>3
    <3>. QED  BY <3>1, <3>2 DEF CountInv
  <2>. QED  BY <1>1, <2>6, <2>7
<1>. QED  BY <1>2, <1>3

LEMMA TypeNumberWrite ==
    ASSUME TypeInv, NEW p \in Runs, NumberOpen(p) \/ NumberWrite(p)
    PROVE  TypeInv'
<1>. USE RunAssumption DEF TypeInv, At, Goto, locals
<1>1. \A s : Taken(s)' = Taken(s)
  BY DEF Taken, TypeOK, Early, NumberOpen, NumberWrite
<1>2. SeedInv' /\ IndexInv'
  BY DEF SeedInv, IndexInv, TypeOK, NumberOpen, NumberWrite
<1>3. CASE NumberOpen(p)
  <2>. USE <1>3 DEF NumberOpen
  <2>1. TypeOK'  BY DEF TypeOK, Places, Lost
  <2>2. CountInv'  BY <1>1 DEF CountInv, TypeOK, Early
  <2>. QED  BY <1>2, <2>1, <2>2
<1>4. CASE NumberWrite(p)
  <2>. USE <1>4 DEF NumberWrite
  <2>1. TypeOK'  BY DEF TypeOK, Places
  <2>2. CountInv'  BY <1>1 DEF CountInv, TypeOK, Early
  <2>. QED  BY <1>2, <2>1, <2>2
<1>. QED  BY <1>3, <1>4

LEMMA TypeKeys ==
    ASSUME TypeInv, NEW p \in Runs,
           KeyCheck(p) \/ KeySeed(p) \/ KeyOpen(p) \/ KeyWrite(p) \/ StartNodes(p)
    PROVE  TypeInv'
<1>. USE RunAssumption DEF TypeInv
<1>1. CASE KeyCheck(p)
  <2>. USE <1>1 DEF KeyCheck, At, Goto, files
  <2>1. TypeOK'  BY DEF TypeOK, Places, Indices
  <2>2. SeedInv' /\ IndexInv'  BY DEF SeedInv, IndexInv, TypeOK
  <2>3. CountInv'  BY CountKept DEF TypeOK, Early
  <2>. QED  BY <2>1, <2>2, <2>3
<1>2. CASE KeySeed(p)
  <2>. USE <1>2 DEF KeySeed, At, Goto, files
  <2>0. index[p] \in Indices /\ seed \in Runs \cup {Empty}
    BY DEF IndexInv, SeedInv, TypeOK, Lost
  <2>1. TypeOK'
    <3>1. <<seed, Scenario[p], number[p], index[p]>> \in Keys
      BY <2>0 DEF Keys, TypeOK
    <3>. QED  BY <3>1 DEF TypeOK, Places
  <2>2. SeedInv' /\ IndexInv'  BY DEF SeedInv, IndexInv, TypeOK
  <2>3. CountInv'  BY CountKept DEF TypeOK, Early
  <2>. QED  BY <2>1, <2>2, <2>3
<1>3. CASE KeyOpen(p)
  <2>. USE <1>3 DEF KeyOpen, At, Goto, locals
  <2>1. TypeOK'  BY DEF TypeOK, Places, Lost
  <2>2. SeedInv' /\ IndexInv'  BY DEF SeedInv, IndexInv, TypeOK
  <2>3. CountInv'  BY CountKept DEF TypeOK, Early
  <2>. QED  BY <2>1, <2>2, <2>3
<1>4. CASE KeyWrite(p)
  <2>. USE <1>4 DEF KeyWrite, At, Goto, locals
  <2>1. TypeOK'
    <3>1. keystore' \in [Dirs -> Keys \cup Lost]  BY DEF TypeOK, Lost
    <3>2. index' \in [Runs -> 0..Count]
      <4>1. index[p] + 1 \in 0..Count  BY DEF IndexInv, Indices
      <4>. QED  BY <4>1 DEF TypeOK
    <3>. QED  BY <3>1, <3>2 DEF TypeOK, Places
  <2>2. SeedInv' /\ IndexInv'  BY DEF SeedInv, IndexInv, TypeOK
  <2>3. CountInv'  BY CountKept DEF TypeOK, Early
  <2>. QED  BY <2>1, <2>2, <2>3
<1>5. CASE StartNodes(p)
  <2>. USE <1>5 DEF StartNodes, At, Goto, Raise, files, locals
  <2>1. TypeOK'  BY DEF TypeOK, Places
  <2>2. SeedInv' /\ IndexInv'  BY DEF SeedInv, IndexInv, TypeOK
  <2>3. CountInv'  BY CountKept DEF TypeOK, Early
  <2>. QED  BY <2>1, <2>2, <2>3
<1>. QED  BY <1>1, <1>2, <1>3, <1>4, <1>5

LEMMA TypeToken ==
    ASSUME TypeInv, NEW p \in Runs,
           TokenCheck(p) \/ Deploy(p) \/ TokenOpen(p) \/ TokenWrite(p) \/ End(p)
    PROVE  TypeInv'
<1>. USE RunAssumption DEF TypeInv
<1>1. CASE TokenCheck(p)
  <2>. USE <1>1 DEF TokenCheck, At, Goto, Raise, files
  <2>1. TypeOK'  BY SMTT(30) DEF TypeOK, Places, Lost
  <2>2. SeedInv' /\ IndexInv'  BY DEF SeedInv, IndexInv, TypeOK
  <2>3. CountInv'  BY CountKept DEF TypeOK, Early
  <2>. QED  BY <2>1, <2>2, <2>3
<1>2. CASE Deploy(p)
  <2>. USE <1>2 DEF Deploy, At, Goto, files
  <2>1. TypeOK'  BY DEF TypeOK, Places
  <2>2. SeedInv' /\ IndexInv'  BY DEF SeedInv, IndexInv, TypeOK
  <2>3. CountInv'  BY CountKept DEF TypeOK, Early
  <2>. QED  BY <2>1, <2>2, <2>3
<1>3. CASE TokenOpen(p)
  <2>. USE <1>3 DEF TokenOpen, At, Goto, locals
  <2>1. TypeOK'  BY DEF TypeOK, Places, Lost
  <2>2. SeedInv' /\ IndexInv'  BY DEF SeedInv, IndexInv, TypeOK
  <2>3. CountInv'  BY CountKept DEF TypeOK, Early
  <2>. QED  BY <2>1, <2>2, <2>3
<1>4. CASE TokenWrite(p)
  <2>. USE <1>4 DEF TokenWrite, At, Goto, locals
  <2>1. TypeOK'  BY DEF TypeOK, Places, Lost
  <2>2. SeedInv' /\ IndexInv'  BY DEF SeedInv, IndexInv, TypeOK
  <2>3. CountInv'  BY CountKept DEF TypeOK, Early
  <2>. QED  BY <2>1, <2>2, <2>3
<1>5. CASE End(p)
  <2>. USE <1>5 DEF End, At, Goto, files, locals
  <2>1. TypeOK'  BY DEF TypeOK, Places
  <2>2. SeedInv' /\ IndexInv'  BY DEF SeedInv, IndexInv, TypeOK
  <2>3. CountInv'  BY CountKept DEF TypeOK, Early
  <2>. QED  BY <2>1, <2>2, <2>3
<1>. QED  BY <1>1, <1>2, <1>3, <1>4, <1>5

LEMMA TypeCrash ==
    ASSUME TypeInv, (\E p \in Runs : Crash(p)) \/ UNCHANGED vars
    PROVE  TypeInv'
<1>. USE DEF TypeInv, Crash, vars, files, locals
<1>1. TypeOK'  BY DEF TypeOK
<1>2. SeedInv' /\ IndexInv'  BY DEF SeedInv, IndexInv
<1>3. CountInv'  BY CountKept
<1>. QED  BY <1>1, <1>2, <1>3

LEMMA TypeNext == TypeInv /\ [Next]_vars => TypeInv'
BY TypeSeed, TypeNumberRead, TypeNumberWrite, TypeKeys, TypeToken, TypeCrash
   DEF Next, Step, Terminated

\* The files hold what the runs can have written, whoever is killed and whatever
\* overlaps; the number of a run is lower than the number of runs so far
\* (determine_run_number counts up by one).
THEOREM TypeCorrect == Spec => []TypeOK
<1>1. Spec => []TypeInv  BY TypeInit, TypeNext, PTL DEF Spec
<1>2. TypeInv => TypeOK  BY DEF TypeInv
<1>. QED  BY <1>1, <1>2, PTL

-----------------------------------------------------------------------------
(* Runs of one scenario that do not overlap                                *)

\* What ~Overlapping gives: of two runs of a scenario the first is over.
OrderInv ==
    \A p, q \in Runs :
        q < p /\ Scenario[q] = Scenario[p] /\ pc[p] # "new" => Ended(q)

\* A step is one of a run that is live; it leaves the other runs alone.
LEMMA StepFrame ==
    ASSUME TypeInv, NEW p \in Runs, Step(p)
    PROVE  /\ ~Ended(p)
           /\ pc' \in [Runs -> Places] /\ fate' \in [Runs -> {"live", "crashed", "failed"}]
           /\ \A q \in Runs \ {p} : pc'[q] = pc[q] /\ fate'[q] = fate[q]
           /\ pc[p] # "new" => pc'[p] # "new"
<1>. USE DEF TypeInv, Ended, At, Goto, Raise
<1>0. pc' \in [Runs -> Places] /\ fate' \in [Runs -> {"live", "crashed", "failed"}]
  <2>1. Next  BY DEF Next
  <2>. QED  BY <2>1, TypeNext DEF TypeOK
<1>. USE DEF TypeOK
<1>1. CASE Load(p)  BY <1>0, <1>1 DEF Load
<1>2. CASE SeedCheck(p)  BY <1>0, <1>2 DEF SeedCheck
<1>3. CASE SeedOpen(p)  BY <1>0, <1>3 DEF SeedOpen
<1>4. CASE SeedWrite(p)  BY <1>0, <1>4 DEF SeedWrite
<1>5. CASE NumberRead(p)  BY <1>0, <1>5 DEF NumberRead
<1>6. CASE NumberOpen(p)  BY <1>0, <1>6 DEF NumberOpen
<1>7. CASE NumberWrite(p)  BY <1>0, <1>7 DEF NumberWrite
<1>8. CASE KeyCheck(p)  BY <1>0, <1>8 DEF KeyCheck
<1>9. CASE KeySeed(p)  BY <1>0, <1>9 DEF KeySeed
<1>10. CASE KeyOpen(p)  BY <1>0, <1>10 DEF KeyOpen
<1>11. CASE KeyWrite(p)  BY <1>0, <1>11 DEF KeyWrite
<1>12. CASE StartNodes(p)  BY <1>0, <1>12 DEF StartNodes
<1>13. CASE TokenCheck(p)  BY <1>0, <1>13 DEF TokenCheck
<1>14. CASE Deploy(p)  BY <1>0, <1>14 DEF Deploy
<1>15. CASE TokenOpen(p)  BY <1>0, <1>15 DEF TokenOpen
<1>16. CASE TokenWrite(p)  BY <1>0, <1>16 DEF TokenWrite
<1>17. CASE End(p)  BY <1>0, <1>17 DEF End
<1>18. CASE Crash(p)  BY <1>0, <1>18 DEF Crash
<1>. QED  BY <1>1, <1>2, <1>3, <1>4, <1>5, <1>6, <1>7, <1>8, <1>9, <1>10, <1>11,
             <1>12, <1>13, <1>14, <1>15, <1>16, <1>17, <1>18 DEF Step

\* Of two runs of a scenario that have begun, one is over.
LEMMA Alone ==
    ASSUME OrderInv, NEW p \in Runs, NEW q \in Runs, p # q,
           Scenario[p] = Scenario[q], pc[p] # "new", pc[q] # "new", ~Ended(p)
    PROVE  Ended(q)
<1>1. p < q \/ q < p  BY RunAssumption
<1>. QED  BY <1>1 DEF OrderInv

LEMMA OrderStep ==
    ASSUME ~Overlapping, TypeInv, OrderInv, NEW r \in Runs, Step(r)
    PROVE  OrderInv'
<1>. SUFFICES ASSUME NEW p \in Runs, NEW q \in Runs, q < p,
                     Scenario[q] = Scenario[p], pc'[p] # "new"
              PROVE  Ended(q)'
  BY DEF OrderInv
<1>1. Ended(q)
  <2>1. CASE pc[p] # "new"  BY <2>1 DEF OrderInv
  <2>2. CASE pc[p] = "new"
    <3>1. r = p  BY <2>2, StepFrame
    <3>2. Load(p)
      BY <2>2, <3>1 DEF Step, At, Ended, Crash, SeedCheck, SeedOpen, SeedWrite,
         NumberRead, NumberOpen, NumberWrite, KeyCheck, KeySeed, KeyOpen, KeyWrite,
         StartNodes, TokenCheck, Deploy, TokenOpen, TokenWrite, End
    <3>. QED  BY <3>2 DEF Load
  <2>. QED  BY <2>1, <2>2
<1>2. r # q  BY <1>1, StepFrame
<1>. QED  BY <1>1, <1>2, StepFrame DEF Ended

-----------------------------------------------------------------------------
(* Numbers                                                                 *)

\* run_number.txt is the highest number in use, or is about to be; a run that is
\* about to write it has a higher one.
NumberInv ==
    /\ \A p \in Runs : HasNumber(p) => run_number[Scenario[p]] # Missing
    /\ \A p \in Runs : HasNumber(p) /\ run_number[Scenario[p]] \in Nat
                          => number[p] <= run_number[Scenario[p]]
    /\ \A p, q \in Runs :
          /\ pc[p] \in {"number_open", "number_write"} /\ ~Ended(p)
          /\ HasNumber(q) /\ Scenario[q] = Scenario[p]
          => number[q] < number[p]

\* Steps that change neither numbers nor who has one.
LEMMA NumberKept ==
    ASSUME TypeInv, NumberInv, NumbersFresh, UNCHANGED <<number, run_number>>,
           \A p \in Runs : HasNumber(p)' => HasNumber(p),
           \A p \in Runs : pc'[p] \in {"number_open", "number_write"} /\ ~Ended(p)'
                => pc[p] \in {"number_open", "number_write"} /\ ~Ended(p)
    PROVE  NumberInv' /\ NumbersFresh'
<1>1. NumberInv'  BY DEF NumberInv
<1>2. NumbersFresh'  BY DEF NumbersFresh
<1>. QED  BY <1>1, <1>2

LEMMA NumberReadStep ==
    ASSUME TypeInv, NumberInv, NumbersFresh, NEW r \in Runs, NumberRead(r)
    PROVE  NumberInv' /\ NumbersFresh'
<1>. USE RunAssumption DEF NumberRead, At, Goto, Raise, files, TypeInv
<1>. DEFINE s == Scenario[r]
<1>1. CASE run_number[s] = Empty
  <2>1. \A p \in Runs : HasNumber(p)' => HasNumber(p)  BY <1>1 DEF HasNumber
  <2>2. \A p \in Runs : ~Ended(p)' => ~Ended(p)  BY <1>1 DEF Ended, TypeOK
  <2>. QED  BY <1>1, <2>1, <2>2, NumberKept
<1>2. CASE run_number[s] # Empty
  <2>1. /\ pc'[r] = "number_open" /\ ~HasNumber(r) /\ ~HasNumber(r)'
        /\ \A p \in Runs \ {r} : /\ pc'[p] = pc[p] /\ fate'[p] = fate[p]
                                 /\ number'[p] = number[p]
                                 /\ HasNumber(p)' <=> HasNumber(p)
    BY <1>2 DEF TypeOK, HasNumber
  <2>2. ASSUME NEW q \in Runs, HasNumber(q), Scenario[q] = s
        PROVE  number[q] < number'[r]
    <3>1. s \in Scenarios /\ run_number[s] \in Numbers
      <4>1. run_number[s] # Missing  BY <2>2 DEF NumberInv
      <4>. QED  BY <1>2, <4>1 DEF TypeOK, Lost
    <3>2. run_number[s] \in Nat /\ number[q] \in Int
      BY ONLY <3>1, TypeOK, q \in Runs DEF TypeOK, Numbers
    <3>3. number[q] <= run_number[s]  BY <2>2, <3>2 DEF NumberInv
    <3>4. number'[r] = run_number[s] + 1
      BY <1>2, <3>2 DEF TypeOK
    <3>. QED  BY ONLY <3>2, <3>3, <3>4
  <2>3. NumberInv'
    <3>1. \A p \in Runs : HasNumber(p)' => run_number'[Scenario[p]] # Missing
      BY <2>1 DEF NumberInv
    <3>2. \A p \in Runs : HasNumber(p)' /\ run_number'[Scenario[p]] \in Nat
              => number'[p] <= run_number'[Scenario[p]]
      BY <2>1 DEF NumberInv
    <3>3. ASSUME NEW p \in Runs, NEW q \in Runs,
                 pc'[p] \in {"number_open", "number_write"}, ~Ended(p)',
                 HasNumber(q)', Scenario[q] = Scenario[p]
          PROVE  number'[q] < number'[p]
      <4>1. q # r /\ HasNumber(q) /\ number'[q] = number[q]  BY <2>1, <3>3
      <4>2. CASE p = r  BY <4>1, <4>2, <2>2, <3>3
      <4>3. CASE p # r  BY <4>1, <4>3, <2>1, <3>3 DEF NumberInv, Ended
      <4>. QED  BY <4>2, <4>3
    <3>. QED  BY <3>1, <3>2, <3>3 DEF NumberInv
  <2>4. NumbersFresh'  BY <2>1 DEF NumbersFresh
  <2>. QED  BY <2>3, <2>4
<1>. QED  BY <1>1, <1>2

LEMMA NumberWriteStep ==
    ASSUME TypeInv, OrderInv, NumberInv, NumbersFresh, NEW r \in Runs,
           NumberOpen(r) \/ NumberWrite(r)
    PROVE  NumberInv' /\ NumbersFresh'
<1>. USE RunAssumption DEF At, Goto, locals, TypeInv
<1>1. CASE NumberOpen(r)
  <2>. USE <1>1 DEF NumberOpen
  <2>1. \A p \in Runs : /\ HasNumber(p)' <=> HasNumber(p)
                        /\ number'[p] = number[p]
    BY DEF TypeOK, HasNumber
  <2>2. \A p \in Runs : pc'[p] \in {"number_open", "number_write"} /\ ~Ended(p)'
           => pc[p] \in {"number_open", "number_write"} /\ ~Ended(p)
    BY DEF TypeOK, Ended
  <2>3. \A s \in Scenarios : run_number'[s] = run_number[s] \/ run_number'[s] = Empty
    BY DEF TypeOK
  <2>4. NumberInv'
    <3>1. \A p \in Runs : HasNumber(p)' => run_number'[Scenario[p]] # Missing
      BY <2>1, <2>3 DEF NumberInv
    <3>2. \A p \in Runs : HasNumber(p)' /\ run_number'[Scenario[p]] \in Nat
              => number'[p] <= run_number'[Scenario[p]]
      BY <2>1, <2>3 DEF NumberInv
    <3>3. \A p, q \in Runs :
             /\ pc'[p] \in {"number_open", "number_write"} /\ ~Ended(p)'
             /\ HasNumber(q)' /\ Scenario[q] = Scenario[p]
             => number'[q] < number'[p]
      BY <2>1, <2>2 DEF NumberInv
    <3>. QED  BY <3>1, <3>2, <3>3 DEF NumberInv
  <2>5. NumbersFresh'  BY <2>1 DEF NumbersFresh
  <2>. QED  BY <2>4, <2>5
<1>2. CASE NumberWrite(r)
  <2>. USE <1>2 DEF NumberWrite
  <2>0. ~Ended(r) /\ pc[r] = "number_write"  BY DEF Ended
  <2>1. /\ HasNumber(r)' /\ pc'[r] = "keys" /\ number' = number
        /\ \A p \in Runs \ {r} : /\ pc'[p] = pc[p] /\ fate'[p] = fate[p]
                                 /\ HasNumber(p)' <=> HasNumber(p)
        /\ \A p \in Runs : number[p] \in Int
    BY DEF TypeOK, HasNumber, Numbers
  <2>2. /\ run_number'[Scenario[r]] = number[r] /\ number[r] \in Nat
        /\ \A s \in Scenarios : s # Scenario[r] => run_number'[s] = run_number[s]
    BY DEF TypeOK, Numbers
  <2>3. \A q \in Runs : HasNumber(q) /\ Scenario[q] = Scenario[r]
                          => number[q] < number[r]
    BY <2>0 DEF NumberInv
  <2>4. ASSUME NEW p \in Runs, p # r, Scenario[p] = Scenario[r], pc[p] # "new"
        PROVE  Ended(p)
    BY <2>0, <2>4, Alone
  <2>5. NumberInv'
    <3>1. \A p \in Runs : HasNumber(p)' => run_number'[Scenario[p]] # Missing
      BY <2>1, <2>2 DEF NumberInv
    <3>2. ASSUME NEW p \in Runs, HasNumber(p)', run_number'[Scenario[p]] \in Nat
          PROVE  number'[p] <= run_number'[Scenario[p]]
      <4>1. CASE p = r  BY <4>1, <2>1, <2>2
      <4>2. CASE p # r /\ Scenario[p] = Scenario[r]
        BY <4>2, <3>2, <2>1, <2>2, <2>3
      <4>3. CASE p # r /\ Scenario[p] # Scenario[r]
        BY <4>3, <3>2, <2>1, <2>2 DEF NumberInv
      <4>. QED  BY <4>1, <4>2, <4>3
    <3>3. ASSUME NEW p \in Runs, NEW q \in Runs,
                 pc'[p] \in {"number_open", "number_write"}, ~Ended(p)',
                 HasNumber(q)', Scenario[q] = Scenario[p]
          PROVE  number'[q] < number'[p]
      <4>1. p # r /\ pc'[p] = pc[p] /\ ~Ended(p)  BY <3>3, <2>1 DEF Ended
      <4>2. Scenario[p] # Scenario[r]  BY <3>3, <4>1, <2>4
      <4>3. q # r /\ HasNumber(q)  BY <3>3, <4>2, <2>1
      <4>. QED  BY <3>3, <4>1, <4>3, <2>1 DEF NumberInv
    <3>. QED  BY <3>1, <3>2, <3>3 DEF NumberInv
  <2>6. NumbersFresh'
    <3>. SUFFICES ASSUME NEW p \in Runs, NEW q \in Runs, q < p,
                         Scenario[q] = Scenario[p], HasNumber(p)', HasNumber(q)'
                  PROVE  number'[q] < number'[p]
      BY DEF NumbersFresh
    <3>1. CASE p = r  BY <3>1, <2>1, <2>3
    <3>2. CASE q = r
      <4>1. p # r /\ HasNumber(p)  BY <3>2, <2>1
      <4>2. Ended(r)  BY <3>2, <4>1 DEF OrderInv, HasNumber
      <4>. QED  BY <4>2, <2>0
    <3>3. CASE p # r /\ q # r  BY <3>3, <2>1 DEF NumbersFresh
    <3>. QED  BY <3>1, <3>2, <3>3
  <2>. QED  BY <2>5, <2>6
<1>. QED  BY <1>1, <1>2

LEMMA NumberStep ==
    ASSUME TypeInv, OrderInv, NumberInv, NumbersFresh, NEW r \in Runs, Step(r)
    PROVE  NumberInv' /\ NumbersFresh'
<1>1. CASE NumberRead(r)  BY <1>1, NumberReadStep
<1>2. CASE NumberOpen(r) \/ NumberWrite(r)  BY <1>2, NumberWriteStep
<1>3. CASE Load(r) \/ SeedCheck(r) \/ SeedOpen(r) \/ SeedWrite(r)
  <2>. USE <1>3 DEF Load, SeedCheck, SeedOpen, SeedWrite, At, Goto, Raise, files,
                    locals, TypeInv, TypeOK
  <2>1. UNCHANGED <<number, run_number>>  OBVIOUS
  <2>2. \A p \in Runs : HasNumber(p)' => HasNumber(p)  BY DEF HasNumber
  <2>3. \A p \in Runs : pc'[p] \in {"number_open", "number_write"} /\ ~Ended(p)'
           => pc[p] \in {"number_open", "number_write"} /\ ~Ended(p)
    BY DEF Ended
  <2>. QED  BY <2>1, <2>2, <2>3, NumberKept
<1>4. CASE KeyCheck(r) \/ KeySeed(r) \/ KeyOpen(r) \/ KeyWrite(r) \/ StartNodes(r)
  <2>. USE <1>4 DEF KeyCheck, KeySeed, KeyOpen, KeyWrite, StartNodes, At, Goto, Raise,
                    files, locals, TypeInv, TypeOK
  <2>1. UNCHANGED <<number, run_number>>  OBVIOUS
  <2>2. \A p \in Runs : HasNumber(p)' => HasNumber(p)  BY DEF HasNumber
  <2>3. \A p \in Runs : pc'[p] \in {"number_open", "number_write"} /\ ~Ended(p)'
           => pc[p] \in {"number_open", "number_write"} /\ ~Ended(p)
    BY DEF Ended
  <2>. QED  BY <2>1, <2>2, <2>3, NumberKept
<1>5. CASE TokenCheck(r) \/ Deploy(r) \/ TokenOpen(r) \/ TokenWrite(r) \/ End(r)
           \/ Crash(r)
  <2>. USE <1>5 DEF TokenCheck, Deploy, TokenOpen, TokenWrite, End, Crash, At, Goto,
                    Raise, files, locals, TypeInv, TypeOK
  <2>1. UNCHANGED <<number, run_number>>  OBVIOUS
  <2>2. \A p \in Runs : HasNumber(p)' => HasNumber(p)  BY DEF HasNumber
  <2>3. \A p \in Runs : pc'[p] \in {"number_open", "number_write"} /\ ~Ended(p)'
           => pc[p] \in {"number_open", "number_write"} /\ ~Ended(p)
    BY DEF Ended
  <2>. QED  BY <2>1, <2>2, <2>3, NumberKept
<1>. QED  BY <1>1, <1>2, <1>3, <1>4, <1>5 DEF Step

-----------------------------------------------------------------------------
(* Accounts                                                                *)

\* A run makes a key only where there is none; whose data directory holds an empty
\* key store is about to write it, or was killed there.
KeyInv ==
    /\ \A p \in Runs : pc[p] \in {"key_open", "key_write"} => privkey[p] \in Keys
    /\ \A p \in Runs : pc[p] \in {"key_seed", "key_open"} /\ ~Ended(p)
                          => keystore[MyDir(p)] = Missing
    /\ \A p \in Runs : pc[p] = "key_write" /\ ~Ended(p) => keystore[MyDir(p)] = Empty
    /\ \A d \in Dirs : keystore[d] = Empty
                          => \E p \in Runs : pc[p] = "key_write" /\ MyDir(p) = d

\* Data directories are told apart by the scenario first.
LEMMA DirScenario ==
    ASSUME NEW s, NEW n, NEW i
    PROVE  Dir(s, n, i)[1] = s
BY DEF Dir

\* What a run does to files other than the key stores is of no account here.
LEMMA KeyKept ==
    ASSUME TypeInv, KeyInv, UNCHANGED <<keystore, number, index, privkey>>,
           \A p \in Runs : pc[p] = "key_write" => pc'[p] = "key_write",
           \A p \in Runs :
              /\ pc'[p] \in {"key_seed", "key_open", "key_write"} => pc'[p] = pc[p]
              /\ ~Ended(p)' => ~Ended(p)
    PROVE  KeyInv'
<1>. USE DEF KeyInv
<1>1. \A p \in Runs : MyDir(p)' = MyDir(p)  BY DEF MyDir, Dir
<1>2. \A p \in Runs : pc'[p] \in {"key_open", "key_write"} => privkey'[p] \in Keys
  OBVIOUS
<1>3. \A p \in Runs : pc'[p] \in {"key_seed", "key_open"} /\ ~Ended(p)'
                        => keystore'[MyDir(p)'] = Missing
  BY <1>1
<1>4. \A p \in Runs : pc'[p] = "key_write" /\ ~Ended(p)' => keystore'[MyDir(p)'] = Empty
  BY <1>1
<1>5. \A d \in Dirs : keystore'[d] = Empty
                        => \E p \in Runs : pc'[p] = "key_write" /\ MyDir(p)' = d
  BY <1>1
<1>. QED  BY <1>2, <1>3, <1>4, <1>5

\* The data directory of a run at its keys is that of no other run at work.
LEMMA DirAlone ==
    ASSUME OrderInv, NEW p \in Runs, NEW r \in Runs, p # r, ~Ended(r), pc[r] # "new",
           pc[p] # "new", MyDir(p) = MyDir(r)
    PROVE  Ended(p)
<1>1. Scenario[p] = Scenario[r]  BY DirScenario DEF MyDir
<1>. QED  BY <1>1, Alone

LEMMA KeyCheckStep ==
    ASSUME TypeInv, KeyInv, NEW r \in Runs, KeyCheck(r)
    PROVE  KeyInv'
<1>. USE DEF KeyCheck, At, Goto, files, TypeInv, TypeOK
<1>1. /\ pc[r] = "keys" /\ pc' \in [Runs -> Places]
      /\ pc'[r] = "keys" \/ (pc'[r] = "key_seed" /\ keystore[MyDir(r)] = Missing
                             /\ index' = index)
      /\ UNCHANGED <<keystore, number, privkey, fate>>
      /\ \A p \in Runs \ {r} : pc'[p] = pc[p] /\ index'[p] = index[p]
  BY DEF Places
<1>2. \A p \in Runs : p # r \/ pc'[p] = "key_seed" => MyDir(p)' = MyDir(p)
  BY <1>1 DEF MyDir, Dir
<1>4. \A p \in Runs : ~Ended(p)' => ~Ended(p) \/ p = r  BY <1>1 DEF Ended
<1>5. \A p \in Runs : pc'[p] \in {"key_open", "key_write"} => p # r  BY <1>1
<1>6. \A p \in Runs : pc[p] = "key_write" => p # r  BY <1>1
<1>. HIDE DEF KeyCheck, TypeInv, TypeOK
<1>7. \A p \in Runs : pc'[p] \in {"key_open", "key_write"} => privkey'[p] \in Keys
  BY <1>1, <1>5 DEF KeyInv
<1>8. \A p \in Runs : pc'[p] \in {"key_seed", "key_open"} /\ ~Ended(p)'
                        => keystore'[MyDir(p)'] = Missing
  BY <1>1, <1>2, <1>4 DEF KeyInv
<1>9. \A p \in Runs : pc'[p] = "key_write" /\ ~Ended(p)' => keystore'[MyDir(p)'] = Empty
  BY <1>1, <1>2, <1>4, <1>5 DEF KeyInv
<1>10. \A d \in Dirs : keystore'[d] = Empty
                        => \E p \in Runs : pc'[p] = "key_write" /\ MyDir(p)' = d
  BY <1>1, <1>2, <1>6 DEF KeyInv
<1>. QED  BY <1>7, <1>8, <1>9, <1>10 DEF KeyInv

LEMMA KeySeedStep ==
    ASSUME TypeInv, KeyInv, NEW r \in Runs, KeySeed(r)
    PROVE  KeyInv'
<1>0. privkey'[r] \in Keys
  <2>1. index[r] \in Indices /\ seed \in Runs \cup {Empty}
    BY DEF KeySeed, At, TypeInv, IndexInv, SeedInv, TypeOK, Lost
  <2>2. <<seed, Scenario[r], number[r], index[r]>> \in Keys
    BY <2>1, RunAssumption DEF Keys, TypeInv, TypeOK
  <2>. QED  BY <2>2 DEF KeySeed, TypeInv, TypeOK
<1>1. /\ pc[r] = "key_seed" /\ pc'[r] = "key_open"
      /\ UNCHANGED <<keystore, number, index, fate>>
      /\ \A p \in Runs \ {r} : pc'[p] = pc[p] /\ privkey'[p] = privkey[p]
  BY DEF KeySeed, At, Goto, files, TypeInv, TypeOK
<1>2. \A p \in Runs : MyDir(p)' = MyDir(p)  BY <1>1 DEF MyDir, Dir
<1>3. \A p \in Runs : ~Ended(p)' => ~Ended(p)  BY <1>1 DEF Ended
<1>7. \A p \in Runs : pc'[p] \in {"key_open", "key_write"} => privkey'[p] \in Keys
  BY <1>0, <1>1 DEF KeyInv
<1>8. \A p \in Runs : pc'[p] \in {"key_seed", "key_open"} /\ ~Ended(p)'
                        => keystore'[MyDir(p)'] = Missing
  BY <1>1, <1>2, <1>3 DEF KeyInv
<1>9. \A p \in Runs : pc'[p] = "key_write" /\ ~Ended(p)' => keystore'[MyDir(p)'] = Empty
  BY <1>1, <1>2, <1>3 DEF KeyInv
<1>10. \A d \in Dirs : keystore'[d] = Empty
                        => \E p \in Runs : pc'[p] = "key_write" /\ MyDir(p)' = d
  BY <1>1, <1>2 DEF KeyInv
<1>. QED  BY <1>7, <1>8, <1>9, <1>10 DEF KeyInv

LEMMA KeyOpenStep ==
    ASSUME TypeInv, OrderInv, KeyInv, NEW r \in Runs, KeyOpen(r)
    PROVE  KeyInv'
<1>0. MyDir(r) \in Dirs  BY DirType DEF KeyOpen, At, TypeInv, IndexInv
<1>1. /\ pc[r] = "key_open" /\ pc'[r] = "key_write" /\ ~Ended(r)
      /\ UNCHANGED <<privkey, number, index, fate>>
      /\ keystore'[MyDir(r)] = Empty
      /\ \A d \in Dirs : d # MyDir(r) => keystore'[d] = keystore[d]
      /\ \A p \in Runs \ {r} : pc'[p] = pc[p]
  BY <1>0 DEF KeyOpen, At, Goto, Ended, locals, TypeInv, TypeOK
<1>2. \A p \in Runs : MyDir(p)' = MyDir(p)  BY <1>1 DEF MyDir, Dir
<1>3. \A p \in Runs : p # r /\ ~Ended(p)' => ~Ended(p)  BY <1>1 DEF Ended
<1>4. \A p \in Runs : /\ p # r /\ ~Ended(p)'
                      /\ pc[p] \in {"key_seed", "key_open", "key_write"}
                      => MyDir(p) # MyDir(r) /\ MyDir(p) \in Dirs
  BY <1>1, <1>3, DirAlone, DirType DEF TypeInv, IndexInv
<1>7. \A p \in Runs : pc'[p] \in {"key_open", "key_write"} => privkey'[p] \in Keys
  BY <1>1 DEF KeyInv
<1>8. \A p \in Runs : pc'[p] \in {"key_seed", "key_open"} /\ ~Ended(p)'
                        => keystore'[MyDir(p)'] = Missing
  BY <1>1, <1>2, <1>3, <1>4 DEF KeyInv
<1>9. \A p \in Runs : pc'[p] = "key_write" /\ ~Ended(p)' => keystore'[MyDir(p)'] = Empty
  BY <1>1, <1>2, <1>3, <1>4 DEF KeyInv
<1>10. \A d \in Dirs : keystore'[d] = Empty
                        => \E p \in Runs : pc'[p] = "key_write" /\ MyDir(p)' = d
  BY <1>1, <1>2 DEF KeyInv
<1>. QED  BY <1>7, <1>8, <1>9, <1>10 DEF KeyInv

LEMMA KeyWriteStep ==
    ASSUME TypeInv, OrderInv, KeyInv, NEW r \in Runs, KeyWrite(r)
    PROVE  KeyInv'
<1>0. MyDir(r) \in Dirs  BY DirType DEF KeyWrite, At, TypeInv, IndexInv
<1>1. /\ pc[r] = "key_write" /\ pc'[r] = "keys" /\ ~Ended(r)
      /\ UNCHANGED <<privkey, number, fate>>
      /\ keystore'[MyDir(r)] = privkey[r]
      /\ \A d \in Dirs : d # MyDir(r) => keystore'[d] = keystore[d]
      /\ \A p \in Runs \ {r} : pc'[p] = pc[p] /\ index'[p] = index[p]
  BY <1>0 DEF KeyWrite, At, Goto, Ended, TypeInv, TypeOK
<1>2. \A p \in Runs \ {r} : MyDir(p)' = MyDir(p)  BY <1>1 DEF MyDir, Dir
<1>3. \A p \in Runs : p # r /\ ~Ended(p)' => ~Ended(p)  BY <1>1 DEF Ended
<1>4. \A p \in Runs : /\ p # r /\ ~Ended(p)'
                      /\ pc[p] \in {"key_seed", "key_open", "key_write"}
                      => MyDir(p) # MyDir(r) /\ MyDir(p) \in Dirs
  BY <1>1, <1>3, DirAlone, DirType DEF TypeInv, IndexInv
<1>5. privkey[r] # Empty  BY <1>1, ContentAssumption DEF KeyInv, Lost
<1>7. \A p \in Runs : pc'[p] \in {"key_open", "key_write"} => privkey'[p] \in Keys
  BY <1>1 DEF KeyInv
<1>8. \A p \in Runs : pc'[p] \in {"key_seed", "key_open"} /\ ~Ended(p)'
                        => keystore'[MyDir(p)'] = Missing
  BY <1>1, <1>2, <1>3, <1>4 DEF KeyInv
<1>9. \A p \in Runs : pc'[p] = "key_write" /\ ~Ended(p)' => keystore'[MyDir(p)'] = Empty
  BY <1>1, <1>2, <1>3, <1>4 DEF KeyInv
<1>10. ASSUME NEW d \in Dirs, keystore'[d] = Empty
       PROVE  \E p \in Runs : pc'[p] = "key_write" /\ MyDir(p)' = d
  <2>1. d # MyDir(r) /\ keystore[d] = Empty  BY <1>1, <1>5, <1>10
  <2>2. PICK p \in Runs : pc[p] = "key_write" /\ MyDir(p) = d
    BY <2>1 DEF KeyInv
  <2>. QED  BY <1>1, <1>2, <2>1, <2>2
<1>. QED  BY <1>7, <1>8, <1>9, <1>10 DEF KeyInv

LEMMA KeyStep ==
    ASSUME TypeInv, OrderInv, KeyInv, NEW r \in Runs, Step(r)
    PROVE  KeyInv'
<1>. USE DEF At, Goto, Raise, files, locals
<1>1. CASE KeyCheck(r) \/ KeySeed(r) \/ KeyOpen(r) \/ KeyWrite(r)
  BY <1>1, KeyCheckStep, KeySeedStep, KeyOpenStep, KeyWriteStep
<1>2. CASE Load(r) \/ SeedCheck(r) \/ SeedOpen(r) \/ SeedWrite(r)
           \/ NumberOpen(r) \/ NumberWrite(r)
  <2>. USE <1>2 DEF Load, SeedCheck, SeedOpen, SeedWrite, NumberOpen, NumberWrite
  <2>1. UNCHANGED <<keystore, number, index, privkey>>  OBVIOUS
  <2>2. /\ \A p \in Runs : pc[p] = "key_write" => pc'[p] = "key_write"
        /\ \A p \in Runs :
              /\ pc'[p] \in {"key_seed", "key_open", "key_write"} => pc'[p] = pc[p]
              /\ ~Ended(p)' => ~Ended(p)
    BY DEF TypeInv, TypeOK, Ended
  <2>. QED  BY <2>1, <2>2, KeyKept
<1>3. CASE StartNodes(r) \/ TokenCheck(r) \/ Deploy(r) \/ TokenOpen(r)
           \/ TokenWrite(r) \/ End(r) \/ Crash(r)
  <2>. USE <1>3 DEF StartNodes, TokenCheck, Deploy, TokenOpen, TokenWrite, End, Crash
  <2>1. UNCHANGED <<keystore, number, index, privkey>>  OBVIOUS
  <2>2. /\ \A p \in Runs : pc[p] = "key_write" => pc'[p] = "key_write"
        /\ \A p \in Runs :
              /\ pc'[p] \in {"key_seed", "key_open", "key_write"} => pc'[p] = pc[p]
              /\ ~Ended(p)' => ~Ended(p)
    BY DEF TypeInv, TypeOK, Ended
  <2>. QED  BY <2>1, <2>2, KeyKept
<1>4. CASE NumberRead(r)
  <2>. USE <1>4 DEF NumberRead
  <2>1. /\ UNCHANGED <<keystore, index, privkey>>
        /\ pc[r] = "number" /\ pc'[r] \in {"number", "number_open"}
        /\ \A p \in Runs \ {r} : pc'[p] = pc[p] /\ number'[p] = number[p]
                                 /\ fate'[p] = fate[p]
    BY DEF TypeInv, TypeOK
  <2>2. \A p \in Runs \ {r} : MyDir(p)' = MyDir(p)  BY <2>1 DEF MyDir, Dir
  <2>3. \A p \in Runs \ {r} : Ended(p)' <=> Ended(p)  BY <2>1 DEF Ended
  <2>. HIDE DEF NumberRead
  <2>4. \A p \in Runs : pc'[p] \in {"key_open", "key_write"} => privkey'[p] \in Keys
    BY <2>1 DEF KeyInv
  <2>5. \A p \in Runs : pc'[p] \in {"key_seed", "key_open"} /\ ~Ended(p)'
                          => keystore'[MyDir(p)'] = Missing
    BY <2>1, <2>2, <2>3 DEF KeyInv
  <2>6. \A p \in Runs : pc'[p] = "key_write" /\ ~Ended(p)'
                          => keystore'[MyDir(p)'] = Empty
    BY <2>1, <2>2, <2>3 DEF KeyInv
  <2>7. \A d \in Dirs : keystore'[d] = Empty
                          => \E p \in Runs : pc'[p] = "key_write" /\ MyDir(p)' = d
    BY <2>1, <2>2 DEF KeyInv
  <2>. QED  BY <2>4, <2>5, <2>6, <2>7 DEF KeyInv
<1>. QED  BY <1>1, <1>2, <1>3, <1>4 DEF Step

-----------------------------------------------------------------------------
(* The token                                                               *)

\* A run that shares its token has the one in token.info; it deploys one only where
\* there is none; who left token.info empty is about to write it or was killed there.
TokenInv ==
    /\ \A p \in Runs : Scenario[p] \in ReuseToken /\ pc[p] \in {"running", "end"}
          => token[p] \in Runs /\ token_info[Scenario[p]] = token[p]
    /\ \A p \in Runs : pc[p] \in {"token_open", "token_write"}
          => token[p] \in Runs /\ Scenario[p] \in ReuseToken
    /\ \A p \in Runs : /\ Scenario[p] \in ReuseToken
                       /\ pc[p] \in {"deploy", "token_open"} /\ ~Ended(p)
          => token_info[Scenario[p]] = Missing
    /\ \A p \in Runs : pc[p] = "token_write" /\ ~Ended(p)
          => token_info[Scenario[p]] = Empty
    /\ \A s \in Scenarios : token_info[s] = Empty
          => \E p \in Runs : pc[p] = "token_write" /\ Scenario[p] = s

\* Steps before or beside the token.
LEMMA TokenKept ==
    ASSUME TypeInv, TokenInv, UNCHANGED <<token, token_info>>,
           \A p \in Runs :
              /\ pc[p] = "token_write" => pc'[p] = "token_write"
              /\ pc'[p] \in {"deploy", "token_open", "token_write"} => pc'[p] = pc[p]
              /\ pc'[p] \in {"running", "end"} => pc[p] \in {"running", "end"}
              /\ ~Ended(p)' => ~Ended(p)
    PROVE  TokenInv'
<1>1. \A p \in Runs : Scenario[p] \in ReuseToken /\ pc'[p] \in {"running", "end"}
          => token'[p] \in Runs /\ token_info'[Scenario[p]] = token'[p]
  BY DEF TokenInv
<1>2. \A p \in Runs : pc'[p] \in {"token_open", "token_write"}
          => token'[p] \in Runs /\ Scenario[p] \in ReuseToken
  BY DEF TokenInv
<1>3. \A p \in Runs : /\ Scenario[p] \in ReuseToken
                      /\ pc'[p] \in {"deploy", "token_open"} /\ ~Ended(p)'
          => token_info'[Scenario[p]] = Missing
  BY DEF TokenInv
<1>4. \A p \in Runs : pc'[p] = "token_write" /\ ~Ended(p)'
          => token_info'[Scenario[p]] = Empty
  BY DEF TokenInv
<1>5. \A s \in Scenarios : token_info'[s] = Empty
          => \E p \in Runs : pc'[p] = "token_write" /\ Scenario[p] = s
  BY DEF TokenInv
<1>. QED  BY <1>1, <1>2, <1>3, <1>4, <1>5 DEF TokenInv

LEMMA TokenChangeStep ==
    ASSUME TypeInv, OrderInv, TokenInv, NEW r \in Runs,
           TokenCheck(r) \/ Deploy(r) \/ TokenOpen(r) \/ TokenWrite(r)
    PROVE  TokenInv'
<1>. DEFINE s == Scenario[r]
<1>. USE RunAssumption DEF At, Goto, Raise, files, locals
<1>0. /\ Scenario \in [Runs -> Scenarios] /\ s \in Scenarios
      /\ Missing \notin Runs /\ Empty \notin Runs /\ Missing # Empty
  OBVIOUS
<1>1. /\ pc[r] \in {"token", "deploy", "token_open", "token_write"} /\ ~Ended(r)
      /\ \A p \in Runs \ {r} : pc'[p] = pc[p] /\ fate'[p] = fate[p] /\ token'[p] = token[p]
      /\ \A t \in Scenarios : t # s => token_info'[t] = token_info[t]
  BY DEF TokenCheck, Deploy, TokenOpen, TokenWrite, Ended, TypeInv, TypeOK
<1>2. \A p \in Runs : p # r /\ Scenario[p] = s /\ pc[p] # "new" => Ended(p)
  BY <1>1, Alone
\* What the step does to the run itself.
<1>3. \/ /\ pc'[r] = "token" /\ Ended(r)' /\ token_info' = token_info
      \/ /\ pc'[r] = "running" /\ (s \in ReuseToken => token'[r] = token_info'[s]
                                                      /\ token'[r] \in Runs)
         /\ token_info' = token_info \/ (pc[r] = "token_write" /\ s \in ReuseToken)
      \/ /\ pc'[r] = "deploy" /\ token_info' = token_info
         /\ s \in ReuseToken => token_info[s] = Missing
      \/ /\ pc'[r] = "token_open" /\ s \in ReuseToken /\ token'[r] \in Runs
         /\ token_info' = token_info /\ token_info[s] = Missing
      \/ /\ pc'[r] = "token_write" /\ s \in ReuseToken /\ token'[r] \in Runs
         /\ token_info[s] = Missing /\ token_info'[s] = Empty
  <2>1. CASE TokenCheck(r)
    BY <1>0, <2>1 DEF TokenCheck, Ended, TypeInv, TypeOK, Lost
  <2>2. CASE Deploy(r)
    BY <1>0, <1>1, <2>2 DEF Deploy, TokenInv, TypeInv, TypeOK
  <2>3. CASE TokenOpen(r)
    BY <1>0, <1>1, <2>3 DEF TokenOpen, TokenInv, TypeInv, TypeOK
  <2>4. CASE TokenWrite(r)
    BY <1>0, <1>1, <2>4 DEF TokenWrite, TokenInv, TypeInv, TypeOK
  <2>. QED  BY <2>1, <2>2, <2>3, <2>4
<1>4. pc[r] = "token_write" => token_info[s] = Empty  BY <1>1 DEF TokenInv
<1>5. \A p \in Runs : ~Ended(p)' /\ p # r => ~Ended(p)  BY <1>1 DEF Ended
<1>6. ASSUME NEW p \in Runs, Scenario[p] \in ReuseToken, pc'[p] \in {"running", "end"}
      PROVE  token'[p] \in Runs /\ token_info'[Scenario[p]] = token'[p]
  <2>1. CASE p = r  BY ONLY <2>1, <1>3, <1>6
  <2>2. CASE p # r
    <3>1. token[p] \in Runs /\ token_info[Scenario[p]] = token[p] /\ token'[p] = token[p]
      BY <1>1, <1>6, <2>2 DEF TokenInv
    <3>2. CASE Scenario[p] = s
      <4>1. token_info[s] # Missing /\ token_info[s] # Empty  BY <1>0, <3>1, <3>2
      <4>2. token_info' = token_info  BY <1>3, <1>4, <4>1
      <4>. QED  BY <3>1, <4>2
    <3>3. CASE Scenario[p] # s  BY <1>0, <1>1, <3>1, <3>3
    <3>. QED  BY <3>2, <3>3
  <2>. QED  BY <2>1, <2>2
<1>7. \A p \in Runs : pc'[p] \in {"token_open", "token_write"}
          => token'[p] \in Runs /\ Scenario[p] \in ReuseToken
  BY <1>1, <1>3 DEF TokenInv
<1>8. ASSUME NEW p \in Runs, Scenario[p] \in ReuseToken,
             pc'[p] \in {"deploy", "token_open"}, ~Ended(p)'
      PROVE  token_info'[Scenario[p]] = Missing
  <2>1. CASE p = r  BY ONLY <2>1, <1>3, <1>8
  <2>2. CASE p # r
    <3>1. pc[p] = pc'[p] /\ ~Ended(p)  BY <1>1, <1>5, <1>8, <2>2
    <3>2. Scenario[p] # s  BY <1>2, <1>8, <2>2, <3>1
    <3>. QED  BY <1>0, <1>1, <1>8, <3>1, <3>2 DEF TokenInv
  <2>. QED  BY <2>1, <2>2
<1>9. ASSUME NEW p \in Runs, pc'[p] = "token_write", ~Ended(p)'
      PROVE  token_info'[Scenario[p]] = Empty
  <2>1. CASE p = r  BY ONLY <2>1, <1>3, <1>9
  <2>2. CASE p # r
    <3>1. pc[p] = pc'[p] /\ ~Ended(p)  BY <1>1, <1>5, <1>9, <2>2
    <3>2. Scenario[p] # s  BY <1>2, <1>9, <2>2, <3>1
    <3>. QED  BY <1>0, <1>1, <1>9, <3>1, <3>2 DEF TokenInv
  <2>. QED  BY <2>1, <2>2
<1>10. ASSUME NEW t \in Scenarios, token_info'[t] = Empty
       PROVE  \E p \in Runs : pc'[p] = "token_write" /\ Scenario[p] = t
  <2>1. CASE t # s
    <3>1. PICK p \in Runs : pc[p] = "token_write" /\ Scenario[p] = t
      BY <1>1, <1>10, <2>1 DEF TokenInv
    <3>. QED  BY <1>1, <2>1, <3>1
  <2>2. CASE t = s /\ pc'[r] = "token_write"  BY <2>2
  <2>3. CASE t = s /\ pc'[r] # "token_write"
    <3>1. pc[r] # "token_write" \/ pc'[r] = "running"
      BY DEF TokenCheck, Deploy, TokenOpen, TokenWrite, TypeInv, TypeOK
    <3>2. pc[r] = "token_write" => s \in ReuseToken
      BY DEF TokenInv
    <3>3. pc[r] # "token_write" /\ token_info' = token_info
      BY <1>0, <1>3, <1>10, <2>3, <3>1, <3>2
    <3>4. PICK p \in Runs : pc[p] = "token_write" /\ Scenario[p] = s
      BY <1>10, <2>3, <3>3 DEF TokenInv
    <3>. QED  BY <1>1, <2>3, <3>3, <3>4
  <2>. QED  BY <2>1, <2>2, <2>3
<1>. QED  BY <1>6, <1>7, <1>8, <1>9, <1>10 DEF TokenInv

LEMMA TokenStep ==
    ASSUME TypeInv, OrderInv, TokenInv, NEW r \in Runs, Step(r)
    PROVE  TokenInv'
<1>. USE DEF At, Goto, Raise, files, locals
<1>1. CASE TokenCheck(r) \/ Deploy(r) \/ TokenOpen(r) \/ TokenWrite(r)
  BY <1>1, TokenChangeStep
<1>2. CASE Load(r) \/ SeedCheck(r) \/ SeedOpen(r) \/ SeedWrite(r)
           \/ NumberRead(r) \/ NumberOpen(r) \/ NumberWrite(r)
  <2>. USE <1>2 DEF Load, SeedCheck, SeedOpen, SeedWrite, NumberRead, NumberOpen,
                    NumberWrite
  <2>1. UNCHANGED <<token, token_info>>  OBVIOUS
  <2>2. \A p \in Runs :
              /\ pc[p] = "token_write" => pc'[p] = "token_write"
              /\ pc'[p] \in {"deploy", "token_open", "token_write"} => pc'[p] = pc[p]
              /\ pc'[p] \in {"running", "end"} => pc[p] \in {"running", "end"}
              /\ ~Ended(p)' => ~Ended(p)
    BY DEF TypeInv, TypeOK, Ended
  <2>. QED  BY <2>1, <2>2, TokenKept
<1>3. CASE KeyCheck(r) \/ KeySeed(r) \/ KeyOpen(r) \/ KeyWrite(r) \/ StartNodes(r)
           \/ End(r) \/ Crash(r)
  <2>. USE <1>3 DEF KeyCheck, KeySeed, KeyOpen, KeyWrite, StartNodes, End, Crash
  <2>1. UNCHANGED <<token, token_info>>  OBVIOUS
  <2>2. \A p \in Runs :
              /\ pc[p] = "token_write" => pc'[p] = "token_write"
              /\ pc'[p] \in {"deploy", "token_open", "token_write"} => pc'[p] = pc[p]
              /\ pc'[p] \in {"running", "end"} => pc[p] \in {"running", "end"}
              /\ ~Ended(p)' => ~Ended(p)
    BY DEF TypeInv, TypeOK, Ended
  <2>. QED  BY <2>1, <2>2, TokenKept
<1>. QED  BY <1>1, <1>2, <1>3 DEF Step

-----------------------------------------------------------------------------
(* Refusals                                                                *)

\* A run fails where it reads a file; who left run_number.txt empty is about to
\* write it, or was killed there.
FailInv ==
    /\ \A p \in Runs : fate[p] = "failed" => pc[p] \in {"new", "number", "keys", "token"}
    /\ \A s \in Scenarios : run_number[s] = Empty
          => \E p \in Runs : pc[p] = "number_write" /\ Scenario[p] = s

LEMMA FailStep ==
    ASSUME TypeInv, FailInv, NEW r \in Runs, Step(r)
    PROVE  FailInv'
<1>. USE DEF At, Goto, Raise, files, locals
<1>1. ASSUME NEW p \in Runs, fate'[p] = "failed"
      PROVE  pc'[p] \in {"new", "number", "keys", "token"}
  <2>1. CASE p # r  BY <1>1, <2>1, StepFrame DEF FailInv
  <2>2. CASE p = r
    <3>1. fate[r] = "live"  BY StepFrame DEF Ended, TypeInv, TypeOK
    <3>2. Load(r) \/ NumberRead(r) \/ StartNodes(r) \/ TokenCheck(r)
      BY <1>1, <2>2, <3>1 DEF Step, SeedCheck, SeedOpen, SeedWrite, NumberOpen,
         NumberWrite, KeyCheck, KeySeed, KeyOpen, KeyWrite, Deploy, TokenOpen,
         TokenWrite, End, Crash, TypeInv, TypeOK
    <3>. QED
      BY <1>1, <2>2, <3>1, <3>2 DEF Load, NumberRead, StartNodes, TokenCheck,
         TypeInv, TypeOK
  <2>. QED  BY <2>1, <2>2
<1>2. ASSUME NEW s \in Scenarios, run_number'[s] = Empty
      PROVE  \E p \in Runs : pc'[p] = "number_write" /\ Scenario[p] = s
  <2>1. CASE NumberOpen(r) /\ s = Scenario[r]
    <3>1. pc'[r] = "number_write"  BY <2>1 DEF NumberOpen, TypeInv, TypeOK
    <3>. QED  BY <2>1, <3>1
  <2>2. CASE NumberWrite(r) /\ s = Scenario[r]
    <3>1. number[r] # Empty  BY RunAssumption DEF TypeInv, TypeOK, Numbers
    <3>. QED  BY <1>2, <2>2, <3>1 DEF NumberWrite, TypeInv, TypeOK
  <2>3. CASE ~(NumberOpen(r) \/ NumberWrite(r)) \/ s # Scenario[r]
    <3>1. run_number'[s] = run_number[s]
      BY <2>3 DEF Step, Load, SeedCheck, SeedOpen, SeedWrite, NumberRead, NumberOpen,
         NumberWrite, KeyCheck, KeySeed, KeyOpen, KeyWrite, StartNodes, TokenCheck,
         Deploy, TokenOpen, TokenWrite, End, Crash, TypeInv, TypeOK
    <3>2. PICK p \in Runs : pc[p] = "number_write" /\ Scenario[p] = s
      BY <1>2, <3>1 DEF FailInv
    <3>3. CASE p # r  BY <3>2, <3>3, StepFrame
    <3>4. CASE p = r
      <4>1. Crash(r)
        BY <2>3, <3>2, <3>4 DEF Step, Load, SeedCheck, SeedOpen, SeedWrite, NumberRead,
           KeyCheck, KeySeed, KeyOpen, KeyWrite, StartNodes, TokenCheck, Deploy,
           TokenOpen, TokenWrite, End, NumberOpen, NumberWrite
      <4>. QED  BY <3>2, <3>4, <4>1 DEF Crash
    <3>. QED  BY <3>3, <3>4
  <2>. QED  BY <2>1, <2>2, <2>3
<1>. QED  BY <1>1, <1>2 DEF FailInv

\* A run at work that meets what another of its scenario has left half done comes
\* after it, and the other was killed.
LEMMA Blame ==
    ASSUME ~Overlapping, TypeInv, OrderInv, FailInv, NEW p \in Runs, NEW q \in Runs,
           Step(p), Load(p) \/ pc[p] # "new", Scenario[q] = Scenario[p], pc[q] # pc[p],
           pc[q] \in {"number_write", "key_write", "token_write"}
    PROVE  q < p /\ fate[q] = "crashed"
<1>1. p # q /\ ~Ended(p)  BY StepFrame
<1>2. ~(p < q)  BY <1>1 DEF OrderInv
<1>3. q < p  BY <1>1, <1>2, RunAssumption
<1>4. Ended(q)  BY <1>3 DEF OrderInv, Load
<1>. QED  BY <1>3, <1>4 DEF Ended, FailInv, TypeInv, TypeOK

LEMMA FailuresStep ==
    ASSUME ~Overlapping, TypeInv, OrderInv, KeyInv, TokenInv, FailInv,
           FailuresNeedCrash, NEW r \in Runs, Step(r)
    PROVE  FailuresNeedCrash'
<1>. USE RunAssumption DEF At, Goto, Raise, files, locals
<1>0. \A q \in Runs : fate[q] = "crashed" => fate'[q] = "crashed"
  BY StepFrame DEF Ended
<1>. SUFFICES ASSUME NEW p \in Runs, fate'[p] = "failed"
              PROVE  \E q \in Runs : q < p /\ Scenario[q] = Scenario[p]
                                     /\ fate'[q] = "crashed"
  BY DEF FailuresNeedCrash
<1>1. CASE p # r
  <2>1. fate[p] = "failed"  BY <1>1, StepFrame
  <2>. QED  BY <2>1, <1>0 DEF FailuresNeedCrash
<1>2. CASE p = r
  <2>1. fate[r] = "live"  BY StepFrame DEF Ended, TypeInv, TypeOK
  <2>2. \/ Load(r) /\ token_info[Scenario[r]] = Empty
        \/ NumberRead(r) /\ run_number[Scenario[r]] = Empty
        \/ StartNodes(r) /\ Empty \in MyKeys(r)
        \/ TokenCheck(r) /\ token_info[Scenario[r]] = Empty
    BY <1>2, <2>1 DEF Step, Load, SeedCheck, SeedOpen, SeedWrite, NumberRead,
       NumberOpen, NumberWrite, KeyCheck, KeySeed, KeyOpen, KeyWrite, StartNodes,
       TokenCheck, Deploy, TokenOpen, TokenWrite, End, Crash, TypeInv, TypeOK
  <2>3. \E q \in Runs : /\ Scenario[q] = Scenario[r] /\ pc[q] # pc[r]
                        /\ pc[q] \in {"number_write", "key_write", "token_write"}
    <3>1. CASE (Load(r) \/ TokenCheck(r)) /\ token_info[Scenario[r]] = Empty
      <4>1. PICK q \in Runs : pc[q] = "token_write" /\ Scenario[q] = Scenario[r]
        BY <3>1 DEF TokenInv
      <4>. QED  BY <3>1, <4>1 DEF Load, TokenCheck
    <3>2. CASE NumberRead(r) /\ run_number[Scenario[r]] = Empty
      <4>1. PICK q \in Runs : pc[q] = "number_write" /\ Scenario[q] = Scenario[r]
        BY <3>2 DEF FailInv
      <4>. QED  BY <3>2, <4>1 DEF NumberRead
    <3>3. CASE StartNodes(r) /\ Empty \in MyKeys(r)
      <4>1. PICK i \in Indices : keystore[Dir(Scenario[r], number[r], i)] = Empty
        BY <3>3 DEF MyKeys
      <4>2. Dir(Scenario[r], number[r], i) \in Dirs  BY DEF Dirs, TypeInv, TypeOK
      <4>3. PICK q \in Runs :
                pc[q] = "key_write" /\ MyDir(q) = Dir(Scenario[r], number[r], i)
        BY <4>1, <4>2 DEF KeyInv
      <4>4. Scenario[q] = Scenario[r]  BY <4>3, DirScenario DEF MyDir
      <4>. QED  BY <3>3, <4>3, <4>4 DEF StartNodes
    <3>. QED  BY <2>2, <3>1, <3>2, <3>3
  <2>4. Load(r) \/ pc[r] # "new"  BY <2>2 DEF NumberRead, StartNodes, TokenCheck
  <2>5. PICK q \in Runs : /\ Scenario[q] = Scenario[r] /\ pc[q] # pc[r]
                          /\ pc[q] \in {"number_write", "key_write", "token_write"}
    BY <2>3
  <2>6. q < r /\ fate[q] = "crashed"  BY <2>4, <2>5, Blame
  <2>. QED  BY <1>0, <1>2, <2>5, <2>6
<1>. QED  BY <1>1, <1>2

-----------------------------------------------------------------------------
(* The theorems                                                            *)

RunInv ==
    /\ TypeInv /\ OrderInv
    /\ NumberInv /\ NumbersFresh
    /\ KeyInv /\ TokenInv
    /\ FailInv /\ FailuresNeedCrash

LEMMA RunInit == Init => RunInv
<1>. SUFFICES ASSUME Init PROVE RunInv
  OBVIOUS
<1>1. TypeInv  BY TypeInit
<1>. USE RunAssumption DEF Init
<1>2. OrderInv  BY DEF OrderInv
<1>3. NumberInv /\ NumbersFresh  BY DEF NumberInv, NumbersFresh, HasNumber
<1>4. KeyInv  BY DEF KeyInv
<1>5. TokenInv  BY DEF TokenInv
<1>6. FailInv /\ FailuresNeedCrash  BY DEF FailInv, FailuresNeedCrash
<1>. QED  BY <1>1, <1>2, <1>3, <1>4, <1>5, <1>6 DEF RunInv

LEMMA RunStutter ==
    ASSUME RunInv, UNCHANGED vars
    PROVE  RunInv'
<1>. USE DEF RunInv, vars, files, locals
<1>1. TypeInv'  BY TypeNext
<1>2. OrderInv'  BY DEF OrderInv, Ended
<1>3. NumberInv' /\ NumbersFresh'  BY DEF NumberInv, NumbersFresh, HasNumber, Ended
<1>4. KeyInv'  BY KeyKept DEF Ended
<1>5. TokenInv'  BY TokenKept DEF Ended
<1>6. FailInv' /\ FailuresNeedCrash'  BY DEF FailInv, FailuresNeedCrash
<1>. QED  BY <1>1, <1>2, <1>3, <1>4, <1>5, <1>6

LEMMA RunNext ==
    ASSUME ~Overlapping, RunInv, [Next]_vars
    PROVE  RunInv'
<1>1. CASE UNCHANGED vars  BY <1>1, RunStutter
<1>2. ASSUME NEW r \in Runs, Step(r)
      PROVE  RunInv'
  <2>. USE <1>2 DEF RunInv
  <2>1. TypeInv'  BY TypeNext DEF Next
  <2>2. OrderInv'  BY OrderStep
  <2>3. NumberInv' /\ NumbersFresh'  BY NumberStep
  <2>4. KeyInv' /\ TokenInv'  BY KeyStep, TokenStep
  <2>5. FailInv' /\ FailuresNeedCrash'  BY FailStep, FailuresStep
  <2>. QED  BY <2>1, <2>2, <2>3, <2>4, <2>5
<1>. QED  BY <1>1, <1>2 DEF Next, Terminated

LEMMA RunSafe ==
    ASSUME ~Overlapping
    PROVE  Spec => []RunInv
<1>1. RunInv /\ [Next]_vars => RunInv'  BY RunNext
<1>. QED  BY <1>1, RunInit, PTL DEF Spec

\* The runs of a scenario have increasing numbers however many of them are killed:
\* determine_run_number never hands out a number that a run with nodes has had.
THEOREM FreshNumbers ==
    ASSUME ~Overlapping
    PROVE  Spec => []NumbersFresh
<1>1. RunInv => NumbersFresh  BY DEF RunInv
<1>. QED  BY <1>1, RunSafe, PTL

\* No payment identifier comes back, in the same run or in another, as long as the
\* run numbers and the counts keep to their digits.
THEOREM UniqueIdentifiers ==
    ASSUME ~Overlapping, Cardinality(Runs) < RunBase, Transfers < CountBase
    PROVE  Spec => []IdentifiersUnique
<1>1. ASSUME TypeInv, NumbersFresh
      PROVE  IdentifiersUnique
  <2>. SUFFICES ASSUME NEW p \in Runs, NEW q \in Runs,
                       NEW i \in 1..Transfers, NEW j \in 1..Transfers,
                       HasNumber(p), HasNumber(q),
                       Identifiers[Scenario[p]][number[p]][i]
                          = Identifiers[Scenario[q]][number[q]][j]
                PROVE  p = q /\ i = j
    BY DEF IdentifiersUnique
  <2>. USE RunAssumption, DigitsAssumption
  <2>1. /\ Scenario[p] \in Scenarios /\ Scenario[q] \in Scenarios
        /\ number[p] \in Numbers /\ number[q] \in Numbers
        /\ Hash[Scenario[p]] \in Hashes /\ Hash[Scenario[q]] \in Hashes
    BY <1>1 DEF TypeInv, TypeOK
  <2>2. Identifier(Hash[Scenario[p]], number[p], i)
          = Identifier(Hash[Scenario[q]], number[q], j)
    BY <2>1 DEF Identifiers
  <2>3. /\ number[p] \in 0..(RunBase - 1) /\ number[q] \in 0..(RunBase - 1)
        /\ i \in 0..(CountBase - 1) /\ j \in 0..(CountBase - 1)
    BY <2>1, TakenFinite DEF Numbers
  <2>4. Hash[Scenario[p]] = Hash[Scenario[q]] /\ number[p] = number[q] /\ i = j
    BY <2>1, <2>2, <2>3, Injective
  <2>5. Scenario[p] = Scenario[q]  BY <2>1, <2>4
  <2>6. number[p] \in Int /\ p \in Nat /\ q \in Nat  BY <2>1 DEF Numbers
  <2>7. ~(p < q) /\ ~(q < p)  BY <1>1, <2>4, <2>5, <2>6 DEF NumbersFresh
  <2>. QED  BY <2>4, <2>6, <2>7
<1>2. RunInv => IdentifiersUnique  BY <1>1 DEF RunInv
<1>. QED  BY <1>2, RunSafe, PTL

\* No run replaces the key of a data directory: _keystore_file makes one only where
\* there is none.
THEOREM KeptAccounts ==
    ASSUME ~Overlapping
    PROVE  Spec => AccountsKept
<1>1. ASSUME RunInv, [Next]_vars
      PROVE  [\A d \in Dirs : keystore[d] \notin Lost => keystore'[d] = keystore[d]]_vars
  <2>1. ASSUME NEW r \in Runs, Step(r), NEW d \in Dirs, keystore[d] \notin Lost
        PROVE  keystore'[d] = keystore[d]
    <3>1. CASE KeyOpen(r) \/ KeyWrite(r)
      <4>1. keystore[MyDir(r)] \in Lost
        BY <1>1, <2>1, <3>1, StepFrame
           DEF RunInv, KeyInv, KeyOpen, KeyWrite, At, Lost
      <4>2. d # MyDir(r)  BY <2>1, <4>1
      <4>. QED
        BY <1>1, <3>1, <4>2 DEF RunInv, TypeInv, TypeOK, KeyOpen, KeyWrite
    <3>2. CASE ~(KeyOpen(r) \/ KeyWrite(r))
      <4>1. UNCHANGED keystore
        BY <2>1, <3>2 DEF Step, Load, SeedCheck, SeedOpen, SeedWrite, NumberRead,
           NumberOpen, NumberWrite, KeyCheck, KeySeed, StartNodes, TokenCheck, Deploy,
           TokenOpen, TokenWrite, End, Crash, files
      <4>. QED  BY <4>1
    <3>. QED  BY <3>1, <3>2
  <2>. QED  BY <1>1, <2>1 DEF Next, Terminated
<1>. QED  BY <1>1, RunSafe, PTL DEF Spec, AccountsKept

\* Runs that share the token of their scenario use one and the same.
THEOREM AgreedToken ==
    ASSUME ~Overlapping
    PROVE  Spec => []TokenAgreed
<1>1. RunInv => TokenAgreed
  <2>. SUFFICES ASSUME TokenInv PROVE TokenAgreed
    BY DEF RunInv
  <2>. QED  BY DEF TokenInv, TokenAgreed
<1>. QED  BY <1>1, RunSafe, PTL

\* What a run refuses to start with is the work of a run that was killed while it
\* wrote run_number.txt, a key store or token.info.
THEOREM RefusalsNeedCrash ==
    ASSUME ~Overlapping
    PROVE  Spec => []FailuresNeedCrash
<1>1. RunInv => FailuresNeedCrash  BY DEF RunInv
<1>. QED  BY <1>1, RunSafe, PTL
=============================================================================
