------------------------- MODULE PartitionPlanProofs -------------------------
(***************************************************************************)
(* Proofs about PartitionPlan, for every card geometry and every image.    *)
(***************************************************************************)
EXTENDS PartitionPlan, FiniteSetTheorems, TLAPS

-----------------------------------------------------------------------------
(* Lemmas about the operators.                                              *)

(* Aligning never moves a sector down, and moves it by less than one        *)
(* alignment unit.                                                          *)
LEMMA AlignUpBounds ==
  ASSUME NEW x \in Int
  PROVE  /\ AlignUp(x) \in Int
         /\ AlignUp(x) >= x
         /\ AlignUp(x) < x + PARTITION_ALIGNMENT
BY GeometryAssumption, Z3 DEF AlignUp

(* Quotients by a positive number.                                          *)
LEMMA DivType ==
  ASSUME NEW b \in Nat \ {0}
  PROVE  /\ \A a \in Int : a \div b \in Int
         /\ \A a \in Nat : a \div b \in Nat
BY Z3

(* A partition that states a size gets more sectors than the gap takes off. *)
LEMMA WantedSectorsBound ==
  ASSUME NEW p \in Partition, extraMB \in Nat
  PROVE  /\ WantedSectors(p) \in Nat
         /\ p.nominalMB > 0 => WantedSectors(p) >= SectorsPerMB
<1>1. \A a, b \in Nat : a * b \in Nat /\ (a > 0 => a * b >= b)
  BY Z3
<1>2. p.nominalMB \in Nat /\ p.maximised \in BOOLEAN
  BY DEF Partition
<1>3. SectorsPerMB \in Nat
  BY GeometryAssumption
<1>4. CASE p.maximised
  <2>1. p.nominalMB + extraMB \in Nat
    BY <1>2
  <2>2. WantedSectors(p) = (p.nominalMB + extraMB) * SectorsPerMB
    BY <1>4 DEF WantedSectors
  <2> QED BY <2>1, <2>2, <1>1, <1>2, <1>3
<1>5. CASE ~p.maximised
  <2>2. WantedSectors(p) = p.nominalMB * SectorsPerMB
    BY <1>5, <1>2 DEF WantedSectors
  <2> QED BY <2>2, <1>1, <1>2, <1>3
<1> QED BY <1>4, <1>5

(* What shrinking and enlarging leave of a stated size is positive.         *)
LEMMA PartitionSizeBound ==
  ASSUME NEW p \in Partition, extraMB \in Nat,
         NEW start \in Int, NEW isLast \in BOOLEAN
  PROVE  /\ PartitionSizeSectors(p, start, isLast) \in Int
         /\ p.nominalMB > 0 => PartitionSizeSectors(p, start, isLast) > 0
<1> DEFINE w == WantedSectors(p)
<1>1. w \in Nat /\ (p.nominalMB > 0 => w >= SectorsPerMB)
  BY WantedSectorsBound
<1> HIDE DEF w
<1>2. p.maximised \in BOOLEAN /\ p.raw \in BOOLEAN /\ p.nominalMB \in Nat
  BY DEF Partition
<1>3. /\ PARTITION_GAP \in Nat /\ SectorsPerMB \in Nat /\ TotalSectors \in Nat
      /\ PARTITION_GAP < SectorsPerMB
  BY GeometryAssumption
<1>4. CASE isLast
  <2>1. PartitionSizeSectors(p, start, isLast)
          = IF p.maximised /\ TotalSectors - start - w > 0
            THEN TotalSectors - start ELSE w
    BY <1>4 DEF PartitionSizeSectors, LastSectors, w
  <2> QED BY <2>1, <1>1, <1>2, <1>3
<1>5. CASE ~isLast
  <2> DEFINE s == Shrink(p, w)
  <2>1. s \in Int /\ s >= w - PARTITION_GAP
    BY <1>1, <1>2, <1>3 DEF Shrink
  <2>2. PartitionSizeSectors(p, start, isLast) = Enlarge(p, s)
    BY <1>5 DEF PartitionSizeSectors, w
  <2> HIDE DEF s
  <2>3. s + PARTITION_GAP \in Int
    BY <2>1, <1>3
  <2>4. /\ AlignUp(s + PARTITION_GAP) \in Int
        /\ AlignUp(s + PARTITION_GAP) >= s + PARTITION_GAP
    BY <2>3, AlignUpBounds
  <2>5. Enlarge(p, s) \in Int /\ Enlarge(p, s) >= s
    BY <2>1, <2>4, <1>2, <1>3 DEF Enlarge
  <2> QED BY <2>1, <2>2, <2>5, <1>1, <1>2, <1>3
<1> QED BY <1>4, <1>5

-----------------------------------------------------------------------------
(* Type correctness.                                                        *)

(* The RISC OS adjustments keep the partition list well typed.              *)
LEMMA RiscosPartitionsType ==
  ASSUME NEW ps \in Seq(Partition)
  PROVE  /\ RiscosPartitions(ps) \in Seq(Partition)
         /\ Len(RiscosPartitions(ps)) = Len(ps)
<1>1. 6 \in 0..MaxNumber /\ 7 \in 0..MaxNumber /\ RISCOS_SECTOR_OFFSET \in Nat
  BY GeometryAssumption
<1>2. ASSUME NEW q \in Partition, NEW r \in 0..MaxNumber, NEW f \in Nat
      PROVE  [q EXCEPT !.req = r, !.fixed = f] \in Partition
  BY DEF Partition
<1>3. ASSUME NEW i \in DOMAIN ps
      PROVE  RiscosPartitions(ps)[i] \in Partition
  <2> DEFINE r == IF i = Len(ps) THEN 7 ELSE IF i = 1 THEN 6 ELSE ps[i].req
             f == IF i = 1 THEN RISCOS_SECTOR_OFFSET ELSE ps[i].fixed
  <2>1. ps[i] \in Partition
    BY <1>3
  <2>2. ps[i].req \in 0..MaxNumber /\ ps[i].fixed \in Nat
    BY <2>1 DEF Partition
  <2>3. r \in 0..MaxNumber /\ f \in Nat
    BY <1>1, <2>2
  <2>4. RiscosPartitions(ps)[i] = [ps[i] EXCEPT !.req = r, !.fixed = f]
    BY <1>3 DEF RiscosPartitions
  <2> HIDE DEF r, f
  <2> QED BY <1>2, <2>1, <2>3, <2>4
<1>4. DOMAIN RiscosPartitions(ps) = 1..Len(ps)
  BY DEF RiscosPartitions
<1>5. RiscosPartitions(ps) \in [1..Len(ps) -> Partition]
  BY <1>3, <1>4 DEF RiscosPartitions
<1> QED BY <1>5

(* The first sector behind the settings partition, or 0.                    *)
LEMMA StartSectorType ==
  ASSUME TypeOK
  PROVE  /\ StartSector \in Nat
         /\ settings => StartSector = StartP5 + SizeP5
<1>1. StartSector = StartP5 + SizeP5 \/ StartSector = 0
  BY DEF StartSector
<1>2. settings => StartSector = StartP5 + SizeP5
  BY DEF StartSector
<1> QED BY <1>1, <1>2, GeometryAssumption

(* An extent consists of integers, whatever the partition asks for.         *)
LEMMA ExtentType ==
  ASSUME TypeOK, NEW n, claimed[n] \in Partition
  PROVE  ExtentOf(n) \in Extent /\ End(ExtentOf(n)) \in Int
<1> DEFINE p == claimed[n]
           w == WantedSectors(p)
           s == Shrink(p, w)
<1>1. /\ p.nominalMB \in Nat /\ p.maximised \in BOOLEAN
      /\ p.raw \in BOOLEAN /\ p.fixed \in Nat
  BY DEF Partition
<1>2. /\ PARTITION_GAP \in Nat /\ SectorsPerMB \in Nat /\ TotalSectors \in Nat
      /\ offset \in Int /\ extraMB \in Int
  BY GeometryAssumption DEF TypeOK
<1>3. w \in Int
  BY <1>1, <1>2 DEF WantedSectors
<1>4. StartOf(p) \in Int
  BY <1>1, <1>2, AlignUpBounds DEF StartOf, NextStart
<1>5. s \in Int
  BY <1>2, <1>3 DEF Shrink
<1> HIDE DEF w, s
<1>6. Enlarge(p, s) \in Int
  <2>1. s + PARTITION_GAP \in Int
    BY <1>2, <1>5
  <2>2. AlignUp(s + PARTITION_GAP) \in Int
    BY <2>1, AlignUpBounds
  <2> QED BY <1>1, <1>2, <1>5, <2>2 DEF Enlarge
<1>7. LastSectors(p, StartOf(p)) \in Int
  BY <1>2, <1>3, <1>4 DEF LastSectors, w
<1>8. PartitionSizeSectors(p, StartOf(p), todo = {n}) \in Int
  BY <1>6, <1>7 DEF PartitionSizeSectors, s, w
<1> QED BY <1>4, <1>8 DEF ExtentOf, Extent, End

(* The rows handed to sfdisk, before the extended partition is added.       *)
LEMMA RowsType ==
  ASSUME TypeOK
  PROVE  /\ Rows \in [DOMAIN Rows -> Extent]
         /\ DOMAIN Rows = DOMAIN placed \cup {1, 5}
<1>1. P1 \in Extent /\ P5 \in Extent
  BY GeometryAssumption DEF P1, P5, Extent
<1> DEFINE r1 == Insert(placed, 1, P1)
<1>2. r1 \in [DOMAIN r1 -> Extent] /\ DOMAIN r1 = DOMAIN placed \cup {1}
  BY <1>1 DEF TypeOK, Insert
<1> HIDE DEF r1
<1>3. Rows = Insert(r1, 5, P5)
  BY DEF Rows, r1
<1> QED BY <1>1, <1>2, <1>3 DEF Insert

(* A number that passes the tests of checkPartition.                        *)
LEMMA NumberRange ==
  ASSUME NEW n \in 0..MaxNumber, n \notin {0, 1, 5}
  PROVE  n \in (2..MaxNumber) \ {5}
BY GeometryAssumption

(* Every step keeps the type invariant.                                     *)
LEMMA TypeStep ==
  ASSUME TypeOK, [Next]_vars
  PROVE  TypeOK'
<1>0. /\ parts \in Seq(Partition) /\ k \in 0..Len(parts)
      /\ totalMB \in Nat /\ numexpand \in Nat /\ extraMB \in Int /\ offset \in Int
  BY DEF TypeOK
<1>1. CASE RejectImage
  BY <1>1 DEF RejectImage, TypeOK
<1>2. CASE AcceptImage
  <2>1. /\ parts' \in Seq(Partition)
        /\ Len(parts') = Len(parts)
    BY <1>0, <1>2, RiscosPartitionsType DEF AcceptImage
  <2>2. totalMB' \in Nat
    <3>1. CASE ~image.risc
      BY <1>0, <1>2, <3>1 DEF AcceptImage
    <3>2. CASE image.risc
      <4>1. totalMB' = totalMB + (RISCOS_SECTOR_OFFSET - StartSector) \div SectorsPerMB
        BY <1>2, <3>2 DEF AcceptImage
      <4>2. StartSector <= RISCOS_SECTOR_OFFSET - SectorsPerMB
        <5>1. ~RiscosDoesNotFit
          BY <1>2, <3>2 DEF AcceptImage
        <5> QED BY <5>1, StartSectorType, GeometryAssumption DEF RiscosDoesNotFit
      <4>3. RISCOS_SECTOR_OFFSET - StartSector \in Nat
        BY <4>2, GeometryAssumption, StartSectorType
      <4>4. (RISCOS_SECTOR_OFFSET - StartSector) \div SectorsPerMB \in Nat
        BY <4>3, DivType, GeometryAssumption
      <4> QED BY <1>0, <4>1, <4>4
    <3> QED BY <3>1, <3>2
  <2> QED BY <1>2, <2>1, <2>2 DEF AcceptImage, TypeOK
<1>3. CASE CheckPartition
  <2> DEFINE p == parts[k + 1]
  <2>1. PICK n \in 0..MaxNumber : CheckOne(n, p)
    BY <1>3 DEF CheckPartition
  <2>2. p \in Partition
    BY <1>0, <1>3 DEF CheckPartition
  <2>3. p.nominalMB \in Nat /\ p.req \in Nat
    BY <2>2 DEF Partition
  <2>4. AlignmentOverheadMB(p) \in Nat
    BY GeometryAssumption, DivType DEF AlignmentOverheadMB
  <2>6. numexpand' \in Nat
    BY <1>0, <2>1 DEF CheckOne
  <2> HIDE DEF p
  <2>5. n # 0
    <3>1. IsNumberOf(n, p)
      BY <2>1 DEF CheckOne
    <3>2. CASE p.req = 0
      <4>1. \A m \in DOMAIN claimed \cup {5} : m < n
        BY <3>1, <3>2 DEF IsNumberOf
      <4> QED BY <4>1
    <3>3. CASE p.req # 0
      BY <3>1, <3>3 DEF IsNumberOf
    <3> QED BY <3>2, <3>3
  <2>7. CASE Conflict(n)
    <3>1. /\ totalMB' = totalMB + p.nominalMB
          /\ pc' = "failed"
          /\ UNCHANGED <<k, claimed>>
      BY <2>1, <2>7 DEF CheckOne
    <3>2. totalMB' \in Nat
      BY <1>0, <2>3, <3>1
    <3> QED BY <3>1, <3>2, <2>6, <1>3 DEF CheckPartition, TypeOK
  <2>8. CASE ~Conflict(n)
    <3>1. n \in (2..MaxNumber) \ {5}
      BY <2>5, <2>8, NumberRange DEF Conflict
    <3>2. /\ claimed' = Insert(claimed, n, p)
          /\ k' = k + 1
          /\ totalMB' = totalMB + p.nominalMB + AlignmentOverheadMB(p)
          /\ pc' \in {"check", "space"}
      BY <2>1, <2>8 DEF CheckOne
    <3>3. DOMAIN claimed' = DOMAIN claimed \cup {n}
      BY <3>2 DEF Insert
    <3>4. claimed' \in [DOMAIN claimed' -> Partition]
      BY <3>2, <2>2 DEF Insert, TypeOK
    <3>5. k' \in 0..Len(parts')
      BY <1>0, <3>2, <1>3 DEF CheckPartition
    <3>6. totalMB' \in Nat
      BY <1>0, <2>3, <2>4, <3>2
    <3>7. DOMAIN claimed' \subseteq (2..MaxNumber) \ {5}
      BY <3>1, <3>3 DEF TypeOK
    <3> QED BY <3>2, <3>3, <3>4, <3>5, <3>6, <3>7, <2>6, <1>3
            DEF CheckPartition, TypeOK
  <2> QED BY <2>7, <2>8
<1>4. CASE CheckSpace
  <2>1. AvailableMB \in Int /\ StartSector \in Int
    BY GeometryAssumption, StartSectorType, DivType DEF AvailableMB
  <2>2. extraMB' \in Int
    <3>1. CASE numexpand > 0
      BY <1>0, <1>4, <2>1, <3>1, DivType DEF CheckSpace
    <3>2. CASE ~(numexpand > 0)
      BY <1>0, <1>4, <3>2 DEF CheckSpace
    <3> QED BY <3>1, <3>2
  <2>3. offset' \in Int /\ pc' \in {"failed", "place"} /\ todo' \subseteq DOMAIN claimed
    BY <1>0, <1>4, <2>1 DEF CheckSpace, TypeOK
  <2> QED BY <1>4, <2>2, <2>3 DEF CheckSpace, TypeOK
<1>5. CASE PlacePartition
  <2>1. PICK n \in todo : PlaceOne(n)
    BY <1>5 DEF PlacePartition
  <2>2. CASE FixedOffsetTooLow(claimed[n])
    BY <1>5, <2>1, <2>2 DEF PlacePartition, PlaceOne, TypeOK
  <2>3. CASE ~FixedOffsetTooLow(claimed[n])
    <3>1. claimed[n] \in Partition /\ n \in DOMAIN claimed
      BY <2>1 DEF TypeOK
    <3>2. ExtentOf(n) \in Extent /\ End(ExtentOf(n)) \in Int
      BY <3>1, ExtentType
    <3>3. DOMAIN placed' = DOMAIN placed \cup {n}
      BY <2>1, <2>3 DEF PlaceOne, Insert
    <3>4. placed' \in [DOMAIN placed' -> Extent]
      BY <2>1, <2>3, <3>2 DEF PlaceOne, Insert, TypeOK
    <3>5. /\ offset' \in Int
          /\ pc' \in {"table", "place"}
          /\ todo' \subseteq DOMAIN claimed
      BY <2>1, <2>3, <3>2 DEF PlaceOne, TypeOK
    <3> QED BY <3>1, <3>3, <3>4, <3>5, <1>5 DEF PlacePartition, TypeOK
  <2> QED BY <2>2, <2>3
<1>6. CASE RefuseTable
  BY <1>6 DEF RefuseTable, TypeOK
<1>7. CASE WriteTable
  <2>1. PICK last \in DOMAIN Rows :
          table' = Insert(Rows, ExtendedNumber, ExtendedUpTo(last))
    BY <1>7 DEF WriteTable
  <2>2. Rows \in [DOMAIN Rows -> Extent] /\ DOMAIN Rows = DOMAIN placed \cup {1, 5}
    BY RowsType
  <2>3. ExtendedUpTo(last) \in Extent
    <3>1. Rows[last] \in Extent
      BY <2>1, <2>2
    <3>2. End(Rows[last]) \in Int
      BY <3>1 DEF End, Extent
    <3>3. StartExtended \in Int
      BY GeometryAssumption DEF StartExtended
    <3> QED BY <3>2, <3>3 DEF ExtendedUpTo, Extent
  <2>4. table' \in [DOMAIN table' -> Extent]
    BY <2>1, <2>2, <2>3 DEF Insert
  <2>5. DOMAIN table' = DOMAIN placed \cup {1, 5} \cup {ExtendedNumber}
    BY <2>1, <2>2 DEF Insert
  <2>6. DOMAIN table' \subseteq 1..MaxNumber
    <3>1. ExtendedNumber \in {2, 4}
      BY DEF ExtendedNumber
    <3>2. DOMAIN placed \subseteq 2..MaxNumber
      BY DEF TypeOK
    <3>3. {1, 2, 4, 5} \cup (2..MaxNumber) \subseteq 1..MaxNumber
      BY GeometryAssumption
    <3> QED BY <2>5, <3>1, <3>2, <3>3
  <2> QED BY <1>7, <2>4, <2>6 DEF WriteTable, TypeOK
<1>8. CASE UNCHANGED vars
  BY <1>8 DEF vars, TypeOK
<1> QED BY <1>1, <1>2, <1>3, <1>4, <1>5, <1>6, <1>7, <1>8 DEF Next, Finished

(* The initial states are well typed.                                       *)
LEMMA TypeInit == Init => TypeOK
BY ImagesAssumption DEF Init, TypeOK, Empty

(* The state of PartitionPlan is well typed: no image ever claims the       *)
(* numbers of the recovery and of the settings partition.                   *)
THEOREM TypeCorrect == Spec => []TypeOK
BY TypeInit, TypeStep, PTL DEF Spec

-----------------------------------------------------------------------------
(* The layout.  RoomForEBR is not inductive: the step that places a         *)
(* partition must know that everything placed so far ends at or before the  *)
(* cursor, that sizes are positive (so the cursor never moves back), and    *)
(* that what is still to come follows in the order of the list.             *)

FromImage ==
  \A n \in DOMAIN claimed : \E i \in DOMAIN parts : claimed[n] = parts[i]

Phases ==
  /\ pc = "image" => DOMAIN claimed = {}
  /\ pc \in {"image", "check", "space"} => DOMAIN placed = {} /\ extraMB = 0
  /\ pc = "place" => extraMB \in Nat
  /\ pc = "done" => settings

OneOf2And4 == ~(2 \in DOMAIN claimed /\ 4 \in DOMAIN claimed)

InOrder ==
  /\ \A m \in DOMAIN placed : \A t \in todo : Precedes(m, t)
  /\ Sized => \A m, n \in DOMAIN placed :
                Precedes(m, n) => End(placed[m]) < placed[n].start

BehindCursor ==
  Sized =>
    /\ pc = "place" => offset >= StartSector
    /\ \A n \in DOMAIN placed : /\ placed[n].size > 0
                                /\ placed[n].start > StartSector
                                /\ End(placed[n]) <= offset

Inv == TypeOK /\ FromImage /\ Phases /\ OneOf2And4 /\ InOrder /\ BehindCursor

(* Precedes is antisymmetric and total: the list has one next partition.    *)
LEMMA PrecedesOrder ==
  ASSUME NEW m \in Nat, NEW n \in Nat
  PROVE  /\ ~(Precedes(m, n) /\ Precedes(n, m))
         /\ m # n => Precedes(m, n) \/ Precedes(n, m)
BY DEF Precedes, IsLogical

(* The next partition starts behind the cursor and has sectors.             *)
LEMMA NextExtent ==
  ASSUME TypeOK, FromImage, Sized, extraMB \in Nat,
         NEW n \in DOMAIN claimed, ~FixedOffsetTooLow(claimed[n])
  PROVE  /\ ExtentOf(n).start > offset
         /\ ExtentOf(n).size > 0
<1> DEFINE p == claimed[n]
<1>1. p \in Partition /\ p.nominalMB > 0
  BY DEF TypeOK, FromImage, Sized
<1>2. p.fixed \in Nat /\ offset \in Int /\ PARTITION_GAP \in Nat \ {0}
  <2>1. p.fixed \in Nat
    BY <1>1 DEF Partition
  <2>2. offset \in Int
    BY DEF TypeOK
  <2> QED BY <2>1, <2>2, GeometryAssumption
<1>3. ~(p.fixed # 0 /\ p.fixed <= offset)
  BY DEF FixedOffsetTooLow
<1> HIDE DEF p
<1>4. StartOf(p) \in Int /\ StartOf(p) > offset
  <2>1. CASE p.fixed # 0
    BY <1>2, <1>3, <2>1 DEF StartOf
  <2>2. CASE p.fixed = 0
    <3>1. offset + PARTITION_GAP \in Int
      BY <1>2
    <3>2. NextStart \in Int /\ NextStart >= offset + PARTITION_GAP
      BY <3>1, AlignUpBounds DEF NextStart
    <3> QED BY <1>2, <2>2, <3>2 DEF StartOf
  <2> QED BY <2>1, <2>2
<1>5. PartitionSizeSectors(p, StartOf(p), todo = {n}) > 0
  BY <1>1, <1>4, PartitionSizeBound
<1> QED BY <1>4, <1>5 DEF ExtentOf, p

(* The inductive invariant holds initially.                                 *)
LEMMA InvInit == Init => Inv
<1> SUFFICES ASSUME Init PROVE Inv
  OBVIOUS
<1>1. DOMAIN claimed = {} /\ DOMAIN placed = {}
  BY DEF Init, Empty
<1> QED BY <1>1, TypeInit
        DEF Init, Inv, FromImage, Phases, OneOf2And4, InOrder, BehindCursor

(* Every step keeps the inductive invariant.                                *)
LEMMA InvStep ==
  ASSUME Inv, [Next]_vars
  PROVE  Inv'
<1>1. TypeOK /\ TypeOK'
  BY TypeStep DEF Inv
<1>2. CASE RejectImage
  <2>1. Sized' = Sized /\ StartSector' = StartSector
    BY <1>2 DEF RejectImage, Sized, StartSector
  <2> QED BY <1>1, <1>2, <2>1
          DEF RejectImage, Inv, FromImage, Phases, OneOf2And4, InOrder,
              BehindCursor, End, Precedes
<1>3. CASE AcceptImage
  <2>1. DOMAIN claimed' = {} /\ DOMAIN placed' = {} /\ pc' = "check" /\ extraMB' = 0
    BY <1>3 DEF AcceptImage, Inv, Phases
  <2> QED BY <1>1, <2>1
          DEF Inv, FromImage, Phases, OneOf2And4, InOrder, BehindCursor
<1>4. CASE CheckPartition
  <2> DEFINE p == parts[k + 1]
  <2>1. PICK n \in 0..MaxNumber : CheckOne(n, p)
    BY <1>4 DEF CheckPartition
  <2>2. k + 1 \in DOMAIN parts
    BY <1>1, <1>4 DEF CheckPartition, TypeOK
  <2>3. /\ DOMAIN placed' = {} /\ extraMB' = 0 /\ parts' = parts
        /\ pc' \in {"failed", "check", "space"}
    BY <1>4, <2>1 DEF CheckPartition, CheckOne, Inv, Phases
  <2>4. FromImage' /\ OneOf2And4'
    <3>1. CASE Conflict(n)
      BY <2>1, <2>3, <3>1 DEF CheckOne, Inv, FromImage, OneOf2And4
    <3>2. CASE ~Conflict(n)
      <4>1. claimed' = Insert(claimed, n, p)
        BY <2>1, <3>2 DEF CheckOne
      <4>2. FromImage'
        BY <2>2, <2>3, <4>1 DEF Insert, Inv, FromImage
      <4>3. OneOf2And4'
        BY <3>2, <4>1 DEF Insert, Inv, OneOf2And4, Conflict
      <4> QED BY <4>2, <4>3
    <3> QED BY <3>1, <3>2
  <2> QED BY <1>1, <2>3, <2>4 DEF Inv, Phases, InOrder, BehindCursor
<1>5. CASE CheckSpace
  <2>1. /\ DOMAIN placed' = {} /\ parts' = parts /\ claimed' = claimed
        /\ settings' = settings /\ pc' \in {"failed", "place"}
    BY <1>5 DEF CheckSpace, Inv, Phases
  <2>2. StartSector' = StartSector
    BY <2>1 DEF StartSector
  <2>3. pc' = "place" => extraMB' \in Nat /\ offset' = StartSector
    <3> SUFFICES ASSUME pc' = "place"
                 PROVE  extraMB' \in Nat /\ offset' = StartSector
      OBVIOUS
    <3>1. ~NotEnoughSpace /\ offset' = StartSector
      BY <1>5 DEF CheckSpace
    <3>2. AvailableMB \in Int /\ totalMB \in Nat /\ numexpand \in Nat
      <4>1. AvailableMB \in Int
        BY <1>1, GeometryAssumption, StartSectorType, DivType DEF AvailableMB
      <4> QED BY <1>1, <4>1 DEF TypeOK
    <3>3. AvailableMB - totalMB \in Nat
      BY <3>1, <3>2 DEF NotEnoughSpace
    <3>4. CASE numexpand > 0
      BY <1>5, <3>1, <3>2, <3>3, <3>4, DivType DEF CheckSpace
    <3>5. CASE ~(numexpand > 0)
      BY <1>5, <3>1, <3>5 DEF CheckSpace, Inv, Phases
    <3> QED BY <3>4, <3>5, <3>2
  <2>4. StartSector \in Nat
    BY <1>1, StartSectorType
  <2> QED BY <1>1, <2>1, <2>2, <2>3, <2>4
          DEF Inv, FromImage, Phases, OneOf2And4, InOrder, BehindCursor
<1>6. CASE PlacePartition
  <2>1. PICK n \in todo : PlaceOne(n) /\ \A m \in todo \ {n} : Precedes(n, m)
    BY <1>6 DEF PlacePartition
  <2>2. /\ parts' = parts /\ claimed' = claimed /\ settings' = settings
        /\ extraMB' = extraMB /\ pc = "place"
    BY <1>6 DEF PlacePartition
  <2>3. Sized' = Sized /\ StartSector' = StartSector
    BY <2>2 DEF Sized, StartSector
  <2>4. FromImage' /\ OneOf2And4'
    BY <2>2 DEF Inv, FromImage, OneOf2And4
  <2>5. CASE FixedOffsetTooLow(claimed[n])
    BY <1>1, <2>1, <2>2, <2>3, <2>4, <2>5
       DEF PlaceOne, Inv, Phases, InOrder, BehindCursor, End, Precedes
  <2>6. CASE ~FixedOffsetTooLow(claimed[n])
    <3> DEFINE e == ExtentOf(n)
    <3>1. /\ placed' = Insert(placed, n, e) /\ offset' = End(e)
          /\ todo' = todo \ {n} /\ pc' \in {"table", "place"}
      BY <2>1, <2>6 DEF PlaceOne
    <3>2. /\ n \in DOMAIN claimed /\ DOMAIN claimed \subseteq Nat
          /\ DOMAIN placed \subseteq DOMAIN claimed
          /\ placed \in [DOMAIN placed -> Extent]
      <4>1. (2..MaxNumber) \ {5} \subseteq Nat
        BY GeometryAssumption
      <4> QED BY <1>1, <2>1, <4>1 DEF TypeOK
    <3>3. e \in Extent /\ e.start \in Int /\ e.size \in Int /\ offset \in Int
      <4>1. claimed[n] \in Partition
        BY <1>1, <3>2 DEF TypeOK
      <4>2. e \in Extent
        BY <1>1, <4>1, ExtentType
      <4> QED BY <4>2, <1>1 DEF Extent, TypeOK
    <3>4. Sized => e.start > offset /\ e.size > 0
      BY <1>1, <2>2, <2>6, <3>2, NextExtent DEF Inv, Phases
    <3> HIDE DEF e
    <3>5. \A m \in DOMAIN placed : Precedes(m, n)
      BY DEF Inv, InOrder
    <3>6. n \notin DOMAIN placed
      <4>1. ~Precedes(n, n)
        BY <3>2, PrecedesOrder
      <4> QED BY <3>5, <4>1
    <3>7. /\ DOMAIN placed' = DOMAIN placed \cup {n}
          /\ placed'[n] = e
          /\ \A m \in DOMAIN placed : placed'[m] = placed[m]
      BY <3>1, <3>6 DEF Insert
    <3>8. InOrder'
      <4>1. ASSUME NEW m \in DOMAIN placed', NEW t \in todo'
            PROVE  Precedes(m, t)
        BY <2>1, <3>1, <3>7 DEF Inv, InOrder
      <4>2. ASSUME Sized, NEW a \in DOMAIN placed', NEW b \in DOMAIN placed',
                   Precedes(a, b)
            PROVE  End(placed'[a]) < placed'[b].start
        <5>1. CASE a \in DOMAIN placed /\ b \in DOMAIN placed
          BY <3>7, <4>2, <5>1 DEF Inv, InOrder
        <5>2. CASE a \in DOMAIN placed /\ b = n
          <6>1. End(placed[a]) <= offset
            BY <4>2, <5>2 DEF Inv, BehindCursor
          <6>2. End(placed[a]) \in Int
            BY <3>2, <5>2 DEF End, Extent
          <6> QED BY <3>3, <3>4, <3>7, <4>2, <5>2, <6>1, <6>2
        <5>3. CASE a = n
          <6>1. ~Precedes(n, b)
            BY <3>2, <3>5, <3>7, PrecedesOrder
          <6> QED BY <4>2, <5>3, <6>1
        <5> QED BY <3>7, <5>1, <5>2, <5>3
      <4>3. \A m \in DOMAIN placed' : \A t \in todo' : Precedes(m, t)
        BY <4>1
      <4>4. Sized' => \A a, b \in DOMAIN placed' :
                        Precedes(a, b) => End(placed'[a]) < placed'[b].start
        BY <2>3, <4>2
      <4> QED BY <4>3, <4>4 DEF InOrder, Precedes, End, IsLogical
    <3>9. BehindCursor'
      <4> SUFFICES ASSUME Sized
                   PROVE  /\ offset' >= StartSector
                          /\ \A m \in DOMAIN placed' :
                               /\ placed'[m].size > 0
                               /\ placed'[m].start > StartSector
                               /\ End(placed'[m]) <= offset'
        BY <2>3 DEF BehindCursor, End
      <4>1. StartSector \in Nat /\ offset >= StartSector
        BY <1>1, <2>2, StartSectorType DEF Inv, BehindCursor
      <4>2. End(e) \in Int /\ End(e) > e.start /\ e.start > offset
        BY <3>3, <3>4 DEF End
      <4>3. ASSUME NEW m \in DOMAIN placed
            PROVE  /\ placed[m].size > 0 /\ placed[m].start > StartSector
                   /\ End(placed[m]) <= offset /\ End(placed[m]) \in Int
        BY <3>2 DEF Inv, BehindCursor, End, Extent
      <4>4. ASSUME NEW m \in DOMAIN placed
            PROVE  /\ placed'[m].size > 0 /\ placed'[m].start > StartSector
                   /\ End(placed'[m]) <= offset'
        BY <3>1, <3>3, <3>7, <4>2, <4>3, <4>4
      <4>5. /\ placed'[n].size > 0 /\ placed'[n].start > StartSector
            /\ End(placed'[n]) <= offset'
        BY <3>1, <3>3, <3>4, <3>7, <4>1, <4>2
      <4>6. offset' >= StartSector
        BY <3>1, <3>3, <4>1, <4>2
      <4> QED BY <3>7, <4>4, <4>5, <4>6
    <3>10. Phases'
      BY <2>2, <3>1 DEF Inv, Phases
    <3> QED BY <1>1, <2>4, <3>8, <3>9, <3>10 DEF Inv
  <2> QED BY <2>5, <2>6
<1>7. CASE RefuseTable
  <2>1. Sized' = Sized /\ StartSector' = StartSector
    BY <1>7 DEF RefuseTable, Sized, StartSector
  <2> QED BY <1>1, <1>7, <2>1
          DEF RefuseTable, Inv, FromImage, Phases, OneOf2And4, InOrder,
              BehindCursor, End, Precedes
<1>8. CASE WriteTable
  <2>1. Sized' = Sized /\ StartSector' = StartSector
    BY <1>8 DEF WriteTable, Sized, StartSector
  <2>2. settings' /\ pc' = "done"
    BY <1>8 DEF WriteTable, SystemTableUnreadable
  <2> QED BY <1>1, <1>8, <2>1, <2>2
          DEF WriteTable, Inv, FromImage, Phases, OneOf2And4, InOrder,
              BehindCursor, End, Precedes
<1>9. CASE UNCHANGED vars
  <2>1. Sized' = Sized /\ StartSector' = StartSector
    BY <1>9 DEF vars, Sized, StartSector
  <2> QED BY <1>1, <1>9, <2>1
          DEF vars, Inv, FromImage, Phases, OneOf2And4, InOrder,
              BehindCursor, End, Precedes
<1> QED BY <1>2, <1>3, <1>4, <1>5, <1>6, <1>7, <1>8, <1>9 DEF Next, Finished

(* The inductive invariant holds throughout.                                *)
THEOREM InvHolds == Spec => []Inv
BY InvInit, InvStep, PTL DEF Spec

-----------------------------------------------------------------------------
(* Order and positive sizes give disjointness.                              *)
LEMMA InvImpliesRoomForEBR == Inv => RoomForEBR
<1> SUFFICES ASSUME Inv, Sized,
                    NEW m \in DOMAIN placed
             PROVE  /\ placed[m].start > StartSector
                    /\ \A n \in DOMAIN placed :
                         m # n => \/ End(placed[m]) < placed[n].start
                                  \/ End(placed[n]) < placed[m].start
  BY DEF RoomForEBR
<1>1. placed[m].start > StartSector
  BY DEF Inv, BehindCursor
<1>2. ASSUME NEW n \in DOMAIN placed, m # n
      PROVE  \/ End(placed[m]) < placed[n].start
             \/ End(placed[n]) < placed[m].start
  <2>1. m \in Nat /\ n \in Nat
    <3>1. (2..MaxNumber) \ {5} \subseteq Nat
      BY GeometryAssumption
    <3> QED BY <3>1 DEF Inv, TypeOK
  <2>2. Precedes(m, n) \/ Precedes(n, m)
    BY <1>2, <2>1, PrecedesOrder
  <2> QED BY <2>2 DEF Inv, InOrder
<1> QED BY <1>1, <1>2

(* For every card and every image whose partitions state a size, the        *)
(* layout computed by calculateSpaceRequirements keeps the partitions apart *)
(* with room for an EBR in front of each.                                   *)
THEOREM LayoutIsDisjoint == Spec => []RoomForEBR
BY InvHolds, InvImpliesRoomForEBR, PTL

(* With a settings partition the cursor starts behind it.                   *)
LEMMA InvImpliesSystemPartitionsKept == Inv => SystemPartitionsKept
<1> SUFFICES ASSUME Inv, pc = "done", Sized, NEW n \in DOMAIN placed
             PROVE  placed[n].start > StartP5 + SizeP5
  BY DEF SystemPartitionsKept
<1>1. settings /\ TypeOK
  BY DEF Inv, Phases
<1>2. StartSector = StartP5 + SizeP5
  BY <1>1, StartSectorType
<1> QED BY <1>2 DEF Inv, BehindCursor

(* A table that reaches sfdisk leaves the recovery and settings partitions  *)
(* alone.                                                                   *)
THEOREM SystemPartitionsAreKept == Spec => []SystemPartitionsKept
BY InvHolds, InvImpliesSystemPartitionsKept, PTL

-----------------------------------------------------------------------------
(* The extended partition.                                                  *)

(* What the table holds once writePartitionTable has built it.              *)
LEMMA TableStep ==
  ASSUME Inv, WriteTable, Sized
  PROVE  ExtendedHoldsLogicals'
<1>1. PICK last \in DOMAIN Rows :
        /\ \A m \in DOMAIN Rows : m <= last
        /\ table' = Insert(Rows, ExtendedNumber, ExtendedUpTo(last))
  BY DEF WriteTable
<1> DEFINE x == ExtendedUpTo(last)
           num == ExtendedNumber
<1>2. /\ DOMAIN Rows = DOMAIN placed \cup {1, 5}
      /\ DOMAIN placed \subseteq (2..MaxNumber) \ {5}
      /\ (2..MaxNumber) \ {5} \subseteq Nat
      /\ placed \in [DOMAIN placed -> Extent]
  <2>1. (2..MaxNumber) \ {5} \subseteq Nat
    BY GeometryAssumption
  <2>2. TypeOK
    BY DEF Inv
  <2> QED BY <2>1, <2>2, RowsType DEF TypeOK
<1>3. 1 \notin DOMAIN placed /\ 5 \notin DOMAIN placed
  BY <1>2
<1>4. /\ Rows[1] = P1 /\ Rows[5] = P5
      /\ \A n \in DOMAIN placed : Rows[n] = placed[n]
  BY <1>3 DEF Rows, Insert
<1>5. num \in {2, 4} /\ num \notin DOMAIN placed
  BY DEF ExtendedNumber, Inv, OneOf2And4, TypeOK
<1>6. /\ DOMAIN table' = DOMAIN placed \cup {1, 5, num}
      /\ table'[num] = x
      /\ \A n \in DOMAIN placed \cup {1, 5} : table'[n] = Rows[n]
  BY <1>1, <1>2, <1>5 DEF Insert
<1>7. StartSector = StartP5 + SizeP5
  BY StartSectorType DEF Inv, WriteTable, SystemTableUnreadable
<1>8. ASSUME NEW n \in DOMAIN placed
      PROVE  /\ n \in Nat /\ n # 5 /\ n # 1 /\ n >= 2
             /\ placed[n].start \in Int /\ End(placed[n]) \in Int
             /\ placed[n].start > StartP5 + SizeP5
             /\ End(placed[n]) > placed[n].start
  <2>1. n \in (2..MaxNumber) \ {5}
    BY <1>2
  <2>2. placed[n].start \in Int /\ placed[n].size \in Int
    BY <1>2 DEF Extent
  <2>3. placed[n].size > 0 /\ placed[n].start > StartP5 + SizeP5
    BY <1>7 DEF Inv, BehindCursor
  <2> QED BY <2>1, <2>2, <2>3, GeometryAssumption DEF End
<1>9. last \in Nat /\ last >= 5 /\ (last # 5 => last \in DOMAIN placed)
  BY <1>1, <1>2, <1>8
<1>10. /\ End(P5) = StartP5 + SizeP5 /\ P5.start = StartP5
       /\ End(P1) = StartExtended /\ StartExtended < StartP5
       /\ StartExtended \in Nat /\ StartP5 \in Nat /\ SizeP5 \in Nat
  BY GeometryAssumption DEF End, P1, P5, StartExtended
<1>11. x.start = StartExtended /\ End(x) = End(Rows[last]) /\ End(Rows[last]) \in Int
  <2>1. End(Rows[last]) \in Int
    <3>1. CASE last = 5
      BY <1>4, <1>10, <3>1
    <3>2. CASE last # 5
      BY <1>4, <1>8, <1>9, <3>2
    <3> QED BY <3>1, <3>2
  <2> QED BY <1>10, <2>1 DEF ExtendedUpTo, End
<1> HIDE DEF x, num
<1>12. End(x) >= StartP5 + SizeP5
  <2>1. CASE last = 5
    BY <1>4, <1>10, <1>11, <2>1
  <2>2. CASE last # 5
    <3>1. last \in DOMAIN placed
      BY <1>9, <2>2
    <3> QED BY <1>4, <1>8, <1>10, <1>11, <3>1
  <2> QED BY <2>1, <2>2
<1>13. ASSUME NEW n \in DOMAIN placed, IsLogical(n)
       PROVE  placed[n].start > x.start /\ End(placed[n]) <= End(x)
  <2>1. n <= last /\ n > 5
    BY <1>1, <1>2, <1>8, <1>13 DEF IsLogical
  <2>2. last \in DOMAIN placed /\ last > 5
    BY <1>8, <1>9, <2>1
  <2>3. n # last => Precedes(n, last)
    BY <1>8, <1>9, <2>1, <2>2 DEF Precedes, IsLogical
  <2>4. n # last => End(placed[n]) < placed[last].start
    BY <2>2, <2>3 DEF Inv, InOrder
  <2>5. End(x) = End(placed[last])
    BY <1>4, <1>11, <2>2
  <2> QED BY <1>8, <1>10, <1>11, <2>2, <2>4, <2>5
<1>14. ASSUME NEW n \in DOMAIN placed, ~IsLogical(n)
       PROVE  End(x) <= placed[n].start
  <2>1. CASE last = 5
    BY <1>4, <1>8, <1>10, <1>11, <2>1
  <2>2. CASE last # 5
    <3>1. last \in DOMAIN placed /\ IsLogical(last)
      BY <1>8, <1>9, <2>2 DEF IsLogical
    <3>2. End(placed[last]) < placed[n].start
      BY <1>14, <3>1 DEF Inv, InOrder, Precedes
    <3> QED BY <1>4, <1>8, <1>11, <3>1, <3>2
  <2> QED BY <2>1, <2>2
<1>15. ASSUME NEW n \in DOMAIN table' \ {num}
       PROVE  IF IsLogical(n)
              THEN table'[n].start > x.start /\ End(table'[n]) <= End(x)
              ELSE End(table'[n]) <= x.start \/ End(x) <= table'[n].start
  <2>1. CASE n = 1
    BY <1>4, <1>6, <1>10, <1>11, <2>1 DEF IsLogical
  <2>2. CASE n = 5
    BY <1>4, <1>6, <1>10, <1>11, <1>12, <2>2 DEF IsLogical
  <2>3. CASE n \in DOMAIN placed
    BY <1>4, <1>6, <1>13, <1>14, <2>3
  <2> QED BY <1>6, <2>1, <2>2, <2>3
<1>16. placed' = placed /\ ExtendedNumber' = num
  BY DEF WriteTable, ExtendedNumber, num
<1> QED BY <1>5, <1>6, <1>15, <1>16 DEF ExtendedHoldsLogicals, End, IsLogical

(* For every card and every sized image, the table handed to sfdisk has its *)
(* logical partitions inside the extended one and everything else outside.  *)
THEOREM ExtendedIsSound == Spec => []ExtendedHoldsLogicals
<1>1. Init => ExtendedHoldsLogicals
  BY DEF Init, ExtendedHoldsLogicals
<1>2. ASSUME Inv, ExtendedHoldsLogicals, [Next]_vars
      PROVE  ExtendedHoldsLogicals'
  <2>1. CASE WriteTable
    <3>1. Sized' = Sized
      BY <2>1 DEF WriteTable, Sized
    <3>2. CASE Sized
      BY <1>2, <2>1, <3>2, TableStep
    <3>3. CASE ~Sized
      BY <3>1, <3>3 DEF ExtendedHoldsLogicals
    <3> QED BY <3>2, <3>3
  <2>2. CASE UNCHANGED vars
    <3>1. Sized' = Sized /\ ExtendedNumber' = ExtendedNumber
      BY <2>2 DEF vars, Sized, ExtendedNumber
    <3> QED BY <1>2, <2>2, <3>1 DEF vars, ExtendedHoldsLogicals, End, IsLogical
  <2>3. CASE ~WriteTable /\ ~UNCHANGED vars
    <3>1. pc' # "done"
      BY <1>2, <2>3
         DEF Next, RejectImage, AcceptImage, CheckPartition, CheckOne, CheckSpace,
             PlacePartition, PlaceOne, RefuseTable, Finished
    <3> QED BY <3>1 DEF ExtendedHoldsLogicals
  <2> QED BY <2>1, <2>2, <2>3
<1> QED BY <1>1, <1>2, InvHolds, PTL DEF Spec

-----------------------------------------------------------------------------
(* Arithmetic of the alignment.                                             *)

(* Quotient and remainder.                                                  *)
LEMMA DivMod ==
  ASSUME NEW a \in Int, NEW b \in Nat \ {0}
  PROVE  /\ a \div b \in Int /\ a % b \in Int /\ a % b >= 0 /\ a % b < b
         /\ a = b * (a \div b) + (a % b)
<1>1. a = b * (a \div b) + (a % b)
  BY Z3T(30)
<1>2. a \div b \in Int
  BY Z3
<1>3. a % b \in Int /\ a % b >= 0 /\ a % b < b
  BY Z3
<1> QED BY <1>1, <1>2, <1>3

(* Quotient and remainder are determined by what they stand for.            *)
LEMMA RemainderUnique ==
  ASSUME NEW q \in Int, NEW b \in Nat \ {0}, NEW r \in 0..(b - 1)
  PROVE  (b * q + r) % b = r /\ (b * q) % b = 0
<1>1. (b * q + r) % b = r
  BY Z3
<1>2. (b * q) % b = 0
  BY Z3
<1> QED BY <1>1, <1>2

(* Multiples.                                                               *)
LEMMA MultipleOf ==
  ASSUME NEW b \in Nat \ {0}, NEW a \in Int, a % b = 0
  PROVE  \E q \in Int : a = b * q
BY Z3

(* Products distribute over sums.                                           *)
LEMMA Distribute ==
  ASSUME NEW a \in Int, NEW b \in Int, NEW c \in Int
  PROVE  a * (b + c) = a * b + a * c /\ a * b \in Int
BY Z3

(* The sum of two multiples is one.                                         *)
LEMMA SumMultiple ==
  ASSUME NEW b \in Nat \ {0}, NEW a \in Int, NEW c \in Int, a % b = 0, c % b = 0
  PROVE  (a + c) % b = 0
<1>1. PICK q \in Int : a = b * q
  BY MultipleOf
<1>2. PICK r \in Int : c = b * r
  BY MultipleOf
<1>3. a + c = b * (q + r) /\ q + r \in Int
  BY <1>1, <1>2, Distribute
<1>4. (b * (q + r)) % b = 0
  BY <1>3, RemainderUnique
<1> QED BY <1>3, <1>4

(* What is aligned is a multiple, and aligning it again changes nothing.    *)
LEMMA AlignUpMultiple ==
  ASSUME NEW x \in Int
  PROVE  /\ AlignUp(x) % PARTITION_ALIGNMENT = 0
         /\ x % PARTITION_ALIGNMENT = 0 => AlignUp(x) = x
<1> DEFINE A == PARTITION_ALIGNMENT
           q == x \div A
           r == x % A
<1>1. A \in Nat \ {0}
  BY GeometryAssumption
<1>2. q \in Int /\ r \in Int /\ r >= 0 /\ r < A /\ x = A * q + r
  BY <1>1, DivMod
<1>3. AlignUp(x) = IF r = 0 THEN x ELSE x + (A - r)
  BY DEF AlignUp
<1> HIDE DEF A, q, r
<1>4. A * (q + 1) = A * q + A /\ (A * (q + 1)) % A = 0 /\ A * q \in Int
  <2>1. q + 1 \in Int /\ 0 \in 0..(A - 1) /\ A * 1 = A
    BY <1>1, <1>2
  <2> QED BY <1>1, <1>2, <2>1, Distribute, RemainderUnique
<1>5. CASE r = 0
  BY <1>3, <1>5 DEF r, A
<1>6. CASE r # 0
  <2>1. x + (A - r) = A * (q + 1)
    BY <1>1, <1>2, <1>4
  <2> QED BY <1>3, <1>4, <1>6, <2>1 DEF r, A
<1> QED BY <1>5, <1>6

-----------------------------------------------------------------------------
(* The gaps. NoAlignmentGap needs to know how the partitions follow each    *)
(* other: the cursor stands behind the one placed last, each one without a  *)
(* place of its own starts where the cursor stood, and none but the last    *)
(* one takes what is left of the card.                                      *)

Follows(m, n) == /\ Precedes(m, n)
                 /\ \A o \in DOMAIN placed : ~(Precedes(m, o) /\ Precedes(o, n))

ShrunkOrEnlarged(p) == Enlarge(p, Shrink(p, WantedSectors(p)))

ChainInv ==
  /\ \A m \in DOMAIN placed :
       (\A o \in DOMAIN placed : ~Precedes(m, o)) => offset = End(placed[m])
  /\ \A m, n \in DOMAIN placed : Follows(m, n) /\ claimed[n].fixed = 0 =>
       placed[n].start = AlignUp(End(placed[m]) + PARTITION_GAP)
  /\ \A m \in DOMAIN placed :
       todo # {} \/ (\E n \in DOMAIN placed : Precedes(m, n)) =>
         placed[m].size = ShrunkOrEnlarged(claimed[m])

(* One partition gets its place.                                            *)
LEMMA PlaceEffect ==
  ASSUME Inv, PlacePartition
  PROVE  /\ UNCHANGED <<settings, image, parts, k, claimed, totalMB, numexpand, extraMB>>
         /\ pc = "place"
         /\ \/ pc' = "failed" /\ UNCHANGED <<offset, todo, placed>>
            \/ \E n \in todo :
                 /\ pc' \in {"table", "place"} /\ ~FixedOffsetTooLow(claimed[n])
                 /\ \A m \in todo \ {n} : Precedes(n, m)
                 /\ n \notin DOMAIN placed
                 /\ \A m \in DOMAIN placed : Precedes(m, n) /\ ~Precedes(n, m)
                 /\ ~Precedes(n, n)
                 /\ claimed[n] \in Partition /\ ExtentOf(n) \in Extent
                 /\ DOMAIN placed' = DOMAIN placed \cup {n}
                 /\ placed'[n] = ExtentOf(n)
                 /\ \A m \in DOMAIN placed : placed'[m] = placed[m]
                 /\ offset' = End(ExtentOf(n)) /\ todo' = todo \ {n}
                 /\ pc' = "place" <=> todo' # {}
<1>1. PICK n \in todo : PlaceOne(n) /\ \A m \in todo \ {n} : Precedes(n, m)
  BY DEF PlacePartition
<1>2. /\ UNCHANGED <<settings, image, parts, k, claimed, totalMB, numexpand, extraMB>>
      /\ pc = "place"
  BY DEF PlacePartition
<1>3. CASE FixedOffsetTooLow(claimed[n])
  BY <1>1, <1>2, <1>3 DEF PlaceOne
<1>4. CASE ~FixedOffsetTooLow(claimed[n])
  <2>1. /\ placed' = Insert(placed, n, ExtentOf(n)) /\ offset' = End(ExtentOf(n))
        /\ todo' = todo \ {n} /\ pc' = IF todo' = {} THEN "table" ELSE "place"
    BY <1>1, <1>4 DEF PlaceOne
  <2>2. /\ TypeOK /\ n \in Nat /\ DOMAIN placed \subseteq Nat /\ claimed[n] \in Partition
    <3>1. (2..MaxNumber) \ {5} \subseteq Nat
      BY GeometryAssumption
    <3> QED BY <1>1, <3>1 DEF Inv, TypeOK
  <2>3. ~Precedes(n, n) /\ \A m \in DOMAIN placed : Precedes(m, n) /\ ~Precedes(n, m)
    BY <1>1, <2>2, PrecedesOrder DEF Inv, InOrder
  <2>4. n \notin DOMAIN placed
    BY <2>3
  <2>5. ExtentOf(n) \in Extent
    BY <2>2, ExtentType
  <2> HIDE DEF Extent
  <2>6. /\ DOMAIN placed' = DOMAIN placed \cup {n} /\ placed'[n] = ExtentOf(n)
        /\ \A m \in DOMAIN placed : placed'[m] = placed[m]
    BY <2>1, <2>4 DEF Insert
  <2> QED BY <1>1, <1>2, <1>4, <2>1, <2>2, <2>3, <2>4, <2>5, <2>6
<1> QED BY <1>3, <1>4

(* Only PlacePartition changes what is placed.                              *)
LEMMA PlacedSteps ==
  ASSUME Inv, [Next]_vars
  PROVE  \/ PlacePartition
         \/ DOMAIN placed' = {}
         \/ UNCHANGED <<image, parts, claimed, extraMB, offset, todo, placed, settings>>
BY DEF Inv, Phases, Next, vars, RejectImage, AcceptImage, CheckPartition, CheckSpace,
       RefuseTable, WriteTable, Finished

(* Every step keeps the chain.                                              *)
LEMMA ChainStep ==
  ASSUME Inv, ChainInv, [Next]_vars
  PROVE  ChainInv'
<1> USE DEF ChainInv
<1>1. CASE DOMAIN placed' = {}
  BY <1>1
<1>2. CASE UNCHANGED <<claimed, extraMB, offset, todo, placed>>
  BY <1>2 DEF Follows, Precedes, IsLogical, End, AlignUp, ShrunkOrEnlarged, Enlarge,
              Shrink, WantedSectors
<1>3. CASE PlacePartition /\ pc' # "failed"
  <2>1. PICK n \in todo :
          /\ \A m \in DOMAIN placed : Precedes(m, n) /\ ~Precedes(n, m)
          /\ ~Precedes(n, n)
          /\ DOMAIN placed' = DOMAIN placed \cup {n}
          /\ placed'[n] = ExtentOf(n)
          /\ \A m \in DOMAIN placed : placed'[m] = placed[m]
          /\ offset' = End(ExtentOf(n)) /\ todo' = todo \ {n}
          /\ claimed' = claimed /\ extraMB' = extraMB
    BY <1>3, PlaceEffect
  <2>2. ASSUME NEW m \in DOMAIN placed', \A o \in DOMAIN placed' : ~Precedes(m, o)
        PROVE  offset' = End(placed'[m])
    BY <2>1, <2>2
  <2>3. ASSUME NEW a \in DOMAIN placed', NEW b \in DOMAIN placed',
               Precedes(a, b), claimed[b].fixed = 0,
               \A o \in DOMAIN placed' : ~(Precedes(a, o) /\ Precedes(o, b))
        PROVE  placed'[b].start = AlignUp(End(placed'[a]) + PARTITION_GAP)
    <3>1. CASE b \in DOMAIN placed
      <4>1. a \in DOMAIN placed
        BY <2>1, <2>3, <3>1
      <4>2. Follows(a, b)
        BY <2>1, <2>3, <3>1, <4>1 DEF Follows
      <4> QED BY <2>1, <2>3, <3>1, <4>1, <4>2
    <3>2. CASE b = n
      <4>1. a \in DOMAIN placed /\ \A o \in DOMAIN placed : ~Precedes(a, o)
        BY <2>1, <2>3, <3>2
      <4>2. offset = End(placed[a]) /\ placed'[a] = placed[a]
        BY <2>1, <4>1
      <4>3. placed'[b].start = AlignUp(offset + PARTITION_GAP)
        BY <2>1, <2>3, <3>2 DEF ExtentOf, StartOf, NextStart
      <4> QED BY <4>2, <4>3
    <3> QED BY <2>1, <3>1, <3>2
  <2>4. ASSUME NEW m \in DOMAIN placed',
               todo' # {} \/ (\E b \in DOMAIN placed' : Precedes(m, b))
        PROVE  placed'[m].size = ShrunkOrEnlarged(claimed[m])
    <3>1. CASE m \in DOMAIN placed
      BY <2>1, <3>1
    <3>2. CASE m = n
      <4>1. todo # {n}
        BY <2>1, <2>4, <3>2
      <4> QED BY <2>1, <3>2, <4>1 DEF ExtentOf, PartitionSizeSectors, ShrunkOrEnlarged
    <3> QED BY <2>1, <3>1, <3>2
  <2>5. \A p : ShrunkOrEnlarged(p)' = ShrunkOrEnlarged(p)
    BY <2>1 DEF ShrunkOrEnlarged, Enlarge, Shrink, WantedSectors, AlignUp
  <2> QED BY <2>1, <2>2, <2>3, <2>4, <2>5
          DEF Follows, Precedes, IsLogical, End, AlignUp
<1>4. CASE PlacePartition /\ pc' = "failed"
  BY <1>2, <1>4, PlaceEffect
<1> QED BY <1>1, <1>2, <1>3, <1>4, PlacedSteps

(* A partition that is shrunk or enlarged ends one gap in front of an       *)
(* alignment boundary, counted from its start.                              *)
LEMMA EndsAtGap ==
  ASSUME NEW p \in Partition, extraMB \in Int,
         p.maximised \/ (~p.raw /\ WantedSectors(p) % PARTITION_ALIGNMENT = 0)
  PROVE  /\ ShrunkOrEnlarged(p) \in Int
         /\ (ShrunkOrEnlarged(p) + PARTITION_GAP) % PARTITION_ALIGNMENT = 0
<1> DEFINE w == WantedSectors(p)
           s == Shrink(p, w)
<1>1. /\ PARTITION_GAP \in Int /\ SectorsPerMB \in Int /\ p.nominalMB \in Int
      /\ p.maximised \in BOOLEAN /\ p.raw \in BOOLEAN
  BY GeometryAssumption DEF Partition
<1>2. w \in Int
  BY <1>1 DEF WantedSectors
<1>3. s = IF w % PARTITION_ALIGNMENT = 0 /\ ~p.raw THEN w - PARTITION_GAP ELSE w
  BY DEF Shrink
<1>4. ShrunkOrEnlarged(p) = Enlarge(p, s)
  BY DEF ShrunkOrEnlarged
<1>5. p.maximised \/ (~p.raw /\ w % PARTITION_ALIGNMENT = 0)
  OBVIOUS
<1> HIDE DEF w, s
<1>6. s \in Int /\ s + PARTITION_GAP \in Int
  BY <1>1, <1>2, <1>3
<1>7. CASE p.maximised
  <2>1. ShrunkOrEnlarged(p) = AlignUp(s + PARTITION_GAP) - PARTITION_GAP
    BY <1>4, <1>7 DEF Enlarge
  <2>2. /\ AlignUp(s + PARTITION_GAP) \in Int
        /\ AlignUp(s + PARTITION_GAP) % PARTITION_ALIGNMENT = 0
    BY <1>6, AlignUpBounds, AlignUpMultiple
  <2>3. ShrunkOrEnlarged(p) \in Int
        /\ ShrunkOrEnlarged(p) + PARTITION_GAP = AlignUp(s + PARTITION_GAP)
    BY <1>1, <2>1, <2>2
  <2> QED BY <2>2, <2>3
<1>8. CASE ~p.maximised
  <2>1. ShrunkOrEnlarged(p) = w - PARTITION_GAP /\ w % PARTITION_ALIGNMENT = 0
    BY <1>3, <1>4, <1>5, <1>8 DEF Enlarge
  <2>2. ShrunkOrEnlarged(p) \in Int /\ ShrunkOrEnlarged(p) + PARTITION_GAP = w
    BY <1>1, <1>2, <2>1
  <2> QED BY <2>1, <2>2
<1> QED BY <1>1, <1>7, <1>8

(* A partition behind an aligned one starts one gap behind its end.         *)
LEMMA ChainImpliesNoGap == Inv /\ ChainInv => NoAlignmentGap
<1> SUFFICES ASSUME Inv, ChainInv, Sized,
                    NEW m \in DOMAIN placed, NEW n \in DOMAIN placed,
                    End(placed[m]) < placed[n].start,
                    \A o \in DOMAIN placed \ {m} :
                      placed[o].start > placed[m].start => placed[o].start >= placed[n].start,
                    claimed[n].fixed = 0,
                    placed[m].start % PARTITION_ALIGNMENT = 0,
                    claimed[m].maximised
                      \/ (~claimed[m].raw
                          /\ WantedSectors(claimed[m]) % PARTITION_ALIGNMENT = 0)
             PROVE  placed[n].start = End(placed[m]) + PARTITION_GAP
  BY DEF NoAlignmentGap
<1>1. /\ DOMAIN placed \subseteq Nat /\ DOMAIN placed \subseteq DOMAIN claimed
      /\ claimed[m] \in Partition /\ extraMB \in Int
  <2>1. (2..MaxNumber) \ {5} \subseteq Nat
    BY GeometryAssumption
  <2> QED BY <2>1 DEF Inv, TypeOK
<1>2. \A o \in DOMAIN placed :
        /\ placed[o].start \in Int /\ placed[o].size \in Int
        /\ End(placed[o]) = placed[o].start + placed[o].size /\ placed[o].size > 0
  BY DEF Inv, TypeOK, Extent, End, BehindCursor
<1>3. \A a, b \in DOMAIN placed : Precedes(a, b) => End(placed[a]) < placed[b].start
  BY DEF Inv, InOrder
<1>4. Precedes(m, n)
  <2>1. m # n
    BY <1>2
  <2>2. ~Precedes(n, m)
    BY <1>2, <1>3
  <2> QED BY <1>1, <2>1, <2>2, PrecedesOrder
<1>5. ASSUME NEW o \in DOMAIN placed, Precedes(m, o), Precedes(o, n) PROVE FALSE
  <2>1. End(placed[m]) < placed[o].start /\ End(placed[o]) < placed[n].start
    BY <1>3, <1>5
  <2>2. o # m
    BY <1>1, <1>5, PrecedesOrder
  <2> QED BY <1>2, <2>1, <2>2
<1>6. Follows(m, n)
  BY <1>4, <1>5 DEF Follows
<1>7. /\ placed[n].start = AlignUp(End(placed[m]) + PARTITION_GAP)
      /\ placed[m].size = ShrunkOrEnlarged(claimed[m])
  BY <1>4, <1>6 DEF ChainInv
<1> DEFINE start == placed[m].start
           size == placed[m].size
<1>8. (size + PARTITION_GAP) % PARTITION_ALIGNMENT = 0
  BY <1>1, <1>7, EndsAtGap
<1>9. /\ start \in Int /\ size + PARTITION_GAP \in Int /\ start % PARTITION_ALIGNMENT = 0
      /\ End(placed[m]) + PARTITION_GAP = start + (size + PARTITION_GAP)
      /\ PARTITION_ALIGNMENT \in Nat \ {0}
  BY <1>2, GeometryAssumption
<1> HIDE DEF start, size
<1>10. (start + (size + PARTITION_GAP)) % PARTITION_ALIGNMENT = 0
  BY <1>8, <1>9, SumMultiple
<1>11. AlignUp(start + (size + PARTITION_GAP)) = start + (size + PARTITION_GAP)
  BY <1>9, <1>10, AlignUpMultiple
<1> QED BY <1>7, <1>9, <1>11

(* For every card and every sized image, nothing is lost to the alignment   *)
(* behind a partition that was shrunk or enlarged: the next one starts      *)
(* exactly PARTITION_GAP sectors behind it (calculateSpaceRequirements).    *)
THEOREM AlignsWithoutGap == Spec => []NoAlignmentGap
<1>1. Init => ChainInv
  <2>1. Init => DOMAIN placed = {}
    BY DEF Init, Empty
  <2> QED BY <2>1 DEF ChainInv
<1>2. Inv /\ ChainInv /\ [Next]_vars => ChainInv'
  BY ChainStep
<1> QED BY <1>1, <1>2, InvHolds, ChainImpliesNoGap, PTL DEF Spec

-----------------------------------------------------------------------------
(* The budget. What the partitions take of the card is a sum over a set of  *)
(* partitions; a sum is any function that is additive, so that one more     *)
(* partition gives another sum and no induction over the set is needed.     *)

Sums(g, D, v) ==
  /\ g \in [SUBSET D -> Nat]
  /\ g[{}] = 0
  /\ \A S \in SUBSET D : \A n \in D \ S : g[S \cup {n}] = g[S] + v[n]

(* The sums with one more summand.                                          *)
SumsWith(g, D, n, c) ==
  [S \in SUBSET (D \cup {n}) |-> IF n \in S THEN g[S \ {n}] + c ELSE g[S]]

(* w has the summands of v, and c for n.                                    *)
OneMore(v, w, D, n, c) ==
  /\ n \notin D /\ c \in Nat /\ w[n] = c
  /\ \A m \in D : w[m] = v[m] /\ v[m] \in Nat

(* There are sums that include n.                                           *)
MoreSums(g, w, D, n, c) ==
  \E h : Sums(h, D \cup {n}, w) /\ h[D \cup {n}] = g[D] + c

(* Sums stay sums when a summand is added.                                  *)
LEMMA SumsInsert ==
  ASSUME NEW D, NEW v, NEW g, NEW n, NEW c, NEW w, Sums(g, D, v), OneMore(v, w, D, n, c)
  PROVE  MoreSums(g, w, D, n, c)
<1> DEFINE E == D \cup {n}
           h == SumsWith(g, D, n, c)
<1> USE DEF OneMore
<1>1. /\ g \in [SUBSET D -> Nat] /\ g[{}] = 0
      /\ \A S \in SUBSET D : g[S] \in Nat
      /\ \A S \in SUBSET D : \A m \in D \ S : g[S \cup {m}] = g[S] + v[m]
  BY DEF Sums
<1>2. \A S \in SUBSET E : S \ {n} \in SUBSET D /\ (n \notin S => S \in SUBSET D)
  OBVIOUS
<1>3. \A S \in SUBSET E : h[S] = IF n \in S THEN g[S \ {n}] + c ELSE g[S]
  BY DEF SumsWith
<1>4. ASSUME NEW S \in SUBSET E PROVE h[S] \in Nat
  <2>1. CASE n \in S
    <3>1. g[S \ {n}] \in Nat /\ h[S] = g[S \ {n}] + c
      BY <1>1, <1>2, <1>3, <2>1
    <3> HIDE DEF h, E
    <3> QED BY <3>1
  <2>2. CASE n \notin S
    BY <1>1, <1>2, <1>3, <2>2
  <2> QED BY <2>1, <2>2
<1>5. h \in [SUBSET E -> Nat]
  <2>1. h = [S \in SUBSET E |-> h[S]]
    BY DEF SumsWith
  <2> HIDE DEF h, E
  <2> QED BY <1>4, <2>1
<1>6. h[{}] = 0
  BY <1>1, <1>3
<1>7. ASSUME NEW S \in SUBSET E, NEW m \in E \ S
      PROVE  h[S \cup {m}] = h[S] + w[m]
  <2>1. S \cup {m} \in SUBSET E
    OBVIOUS
  <2>2. CASE m = n
    <3>1. n \notin S /\ (S \cup {m}) \ {n} = S /\ n \in S \cup {m}
      BY <2>2
    <3>2. h[S \cup {m}] = g[S] + c /\ h[S] = g[S]
      BY <1>3, <2>1, <3>1
    <3> QED BY <2>2, <3>2
  <2>3. CASE m # n /\ n \in S
    <3>1. /\ m \in D \ (S \ {n}) /\ S \ {n} \in SUBSET D /\ n \in S \cup {m}
          /\ (S \cup {m}) \ {n} = (S \ {n}) \cup {m}
      BY <2>3
    <3>2. h[S \cup {m}] = g[(S \ {n}) \cup {m}] + c /\ h[S] = g[S \ {n}] + c
      BY <1>3, <2>1, <2>3, <3>1
    <3>3. g[(S \ {n}) \cup {m}] = g[S \ {n}] + v[m]
      BY <1>1, <3>1
    <3>4. g[S \ {n}] \in Nat /\ v[m] \in Nat /\ w[m] = v[m]
      BY <1>1, <2>3, <3>1
    <3> HIDE DEF h
    <3> QED BY <3>2, <3>3, <3>4
  <2>4. CASE m # n /\ n \notin S
    <3>1. m \in D \ S /\ S \in SUBSET D /\ n \notin S \cup {m}
      BY <2>4
    <3>2. h[S \cup {m}] = g[S \cup {m}] /\ h[S] = g[S]
      BY <1>3, <2>1, <3>1
    <3>3. g[S \cup {m}] = g[S] + v[m] /\ w[m] = v[m]
      BY <1>1, <3>1
    <3> HIDE DEF h
    <3> QED BY <3>2, <3>3
  <2> QED BY <2>2, <2>3, <2>4
<1>8. h[E] = g[D] + c
  <2>1. E \in SUBSET E /\ n \in E /\ E \ {n} = D
    OBVIOUS
  <2> HIDE DEF h, E
  <2> QED BY <1>3, <2>1
<1> HIDE DEF h, E
<1>9. Sums(h, E, w)
  BY <1>5, <1>6, <1>7 DEF Sums
<1> QED BY <1>8, <1>9 DEF E, MoreSums

(* A product is a multiple.                                                 *)
LEMMA ProductMultiple ==
  ASSUME NEW q \in Int, NEW b \in Nat \ {0}
  PROVE  b * q \in Int /\ (b * q) % b = 0
<1>1. (b * q) % b = 0
  BY Z3
<1>2. b * q \in Int
  BY Z3
<1> QED BY <1>1, <1>2

(* The alignment is a number of MBs.                                        *)
LEMMA MBsAligned == \E u \in Int : PARTITION_ALIGNMENT = SectorsPerMB * u
<1>1. /\ PARTITION_ALIGNMENT \in Int /\ SectorsPerMB \in Nat \ {0}
      /\ PARTITION_ALIGNMENT % SectorsPerMB = 0
  BY GeometryAssumption, AlignedAssumption
<1> QED BY <1>1, MultipleOf

(* A multiple of the alignment is a multiple of a MB.                       *)
LEMMA AlignedIsMB ==
  ASSUME NEW x \in Int, x % PARTITION_ALIGNMENT = 0
  PROVE  x % SectorsPerMB = 0
<1>1. PARTITION_ALIGNMENT \in Nat \ {0} /\ SectorsPerMB \in Nat \ {0}
  BY GeometryAssumption
<1>2. PICK q \in Int : x = PARTITION_ALIGNMENT * q
  BY <1>1, MultipleOf
<1>3. PICK u \in Int : PARTITION_ALIGNMENT = SectorsPerMB * u
  BY MBsAligned
<1>4. x = SectorsPerMB * (u * q) /\ u * q \in Int
  <2>1. \A a, b, c \in Int : (a * b) * c = a * (b * c) /\ b * c \in Int
    BY Z3
  <2> QED BY <1>1, <1>2, <1>3, <2>1
<1>5. (SectorsPerMB * (u * q)) % SectorsPerMB = 0
  BY <1>1, <1>4, ProductMultiple
<1> QED BY <1>4, <1>5

(* The gap fits in front of the boundary behind a sector that is on a MB    *)
(* but not on a boundary.                                                   *)
LEMMA GapFits ==
  ASSUME NEW x \in Int, x % SectorsPerMB = 0, x % PARTITION_ALIGNMENT # 0
  PROVE  AlignUp(x + PARTITION_GAP) <= x + PARTITION_ALIGNMENT
<1> DEFINE A == PARTITION_ALIGNMENT
           M == SectorsPerMB
           G == PARTITION_GAP
           q == x \div A
           r == x % A
<1>1. A \in Nat \ {0} /\ M \in Nat \ {0} /\ G \in Int /\ G >= 1 /\ G < M
  BY GeometryAssumption
<1>2. q \in Int /\ r \in Int /\ r >= 0 /\ r < A /\ x = A * q + r /\ r # 0
  BY <1>1, DivMod
<1>3. x % M = 0 /\ A % M = 0
  BY AlignedAssumption
<1>4. AlignUp(x + G) = IF (x + G) % A = 0 THEN x + G ELSE x + G + (A - ((x + G) % A))
  BY DEF AlignUp
<1>5. (A * q) % M = 0 /\ A * q \in Int
  <2>1. A * q \in Int /\ (A * q) % A = 0
    BY <1>1, <1>2, ProductMultiple
  <2> QED BY <2>1, AlignedIsMB
<1>u. PICK u \in Int : A = M * u
  BY MBsAligned
<1> HIDE DEF A, M, G, q, r
<1>6. r <= A - M
  <2>1. PICK a \in Int : A * q = M * a
    BY <1>1, <1>5, MultipleOf
  <2>2. PICK b \in Int : x = M * b
    BY <1>1, <1>3, MultipleOf
  <2> DEFINE t == b - a
  <2>4. t \in Int /\ r = M * t
    <3>1. b = a + t /\ t \in Int
      OBVIOUS
    <3>2. M * (a + t) = M * a + M * t /\ M * a \in Int /\ M * t \in Int
      BY <1>1, <3>1, Distribute
    <3> QED BY <1>2, <1>5, <2>1, <2>2, <3>1, <3>2
  <2> HIDE DEF t
  <2>5. t < u
    <3>1. t >= u => M * t >= M * u
      BY <1>1, <1>u, <2>4, Z3
    <3> QED BY <1>1, <1>2, <1>u, <2>4, <3>1
  <2>6. M * t <= M * (u - 1)
    BY <1>1, <1>u, <2>4, <2>5, Z3
  <2>7. M * (u - 1) = M * u - M
    BY <1>1, <1>u, Z3
  <2> QED BY <1>1, <1>u, <2>4, <2>6, <2>7
<1>7. r + G \in 0..(A - 1) /\ x + G = A * q + (r + G) /\ r + G # 0
  BY <1>1, <1>2, <1>5, <1>6
<1>8. (x + G) % A = r + G
  <2> DEFINE e == r + G
  <2>1. e \in 0..(A - 1) /\ x + G = A * q + e
    BY <1>7
  <2> HIDE DEF e
  <2>2. (A * q + e) % A = e
    BY <1>1, <1>2, <2>1, RemainderUnique
  <2> QED BY <2>1, <2>2 DEF e
<1>9. AlignUp(x + G) = x + G + (A - (r + G))
  BY <1>4, <1>7, <1>8
<1> QED BY <1>1, <1>2, <1>9 DEF A, G

(* What checkPartition adds to _totalnominalsize for a partition, and       *)
(* whether it counts in _numexpandparts.                                    *)
Cost(p) == p.nominalMB + AlignmentOverheadMB(p)
Expands(p) == IF p.maximised THEN 1 ELSE 0
CostOf == [n \in DOMAIN claimed |-> Cost(claimed[n])]
ExpandsOf == [n \in DOMAIN claimed |-> Expands(claimed[n])]

(* The sectors the budget grants a partition.                               *)
Granted(p) == SectorsPerMB * (Cost(p) + extraMB * Expands(p))

(* The types of what is granted.                                            *)
LEMMA CostType ==
  ASSUME NEW p \in Partition
  PROVE  /\ Cost(p) \in Nat /\ Expands(p) \in Nat
         /\ AlignmentOverheadMB(p) \in Nat
<1>1. p.nominalMB \in Nat
  BY DEF Partition
<1>2. AlignmentOverheadMB(p) \in Nat
  BY GeometryAssumption, DivType DEF AlignmentOverheadMB
<1>3. Expands(p) \in Nat
  BY DEF Expands
<1> QED BY <1>1, <1>2, <1>3 DEF Cost

(* The grant is the wanted size, and an alignment unit for a partition that *)
(* may need it.                                                             *)
LEMMA GrantedIs ==
  ASSUME NEW p \in Partition, extraMB \in Nat
  PROVE  /\ WantedSectors(p) \in Nat
         /\ WantedSectors(p) % SectorsPerMB = 0
         /\ Granted(p) = WantedSectors(p)
              + (IF p.maximised \/ WantedSectors(p) % PARTITION_ALIGNMENT # 0
                 THEN PARTITION_ALIGNMENT ELSE 0)
<1> DEFINE M == SectorsPerMB
           A == PARTITION_ALIGNMENT
           o == AlignmentOverheadMB(p)
           c == p.nominalMB + extraMB * Expands(p)
           w == WantedSectors(p)
<1>1. /\ M \in Nat \ {0} /\ A \in Nat \ {0} /\ A % M = 0
      /\ p.nominalMB \in Nat /\ p.maximised \in BOOLEAN /\ o \in Nat
  BY GeometryAssumption, AlignedAssumption, CostType DEF Partition
<1>2. c \in Nat /\ w = M * c
  <2>1. \A a, b \in Nat : a * b = b * a
    BY Z3
  <2>2. CASE p.maximised
    <3>1. c = p.nominalMB + extraMB /\ w = (p.nominalMB + extraMB) * M
      BY <1>1, <2>2 DEF Expands, WantedSectors
    <3>2. p.nominalMB + extraMB \in Nat
      BY <1>1
    <3> HIDE DEF c, w, M
    <3> QED BY <1>1, <2>1, <3>1, <3>2
  <2>3. CASE ~p.maximised
    <3>1. c = p.nominalMB /\ w = p.nominalMB * M
      BY <1>1, <2>3 DEF Expands, WantedSectors
    <3> HIDE DEF c, w, M
    <3> QED BY <1>1, <2>1, <3>1
  <2> QED BY <2>2, <2>3
<1>3. ~p.maximised => w = p.nominalMB * M
  BY <1>1 DEF WantedSectors
<1>4. o = IF p.maximised \/ (p.nominalMB * M) % A # 0 THEN A \div M ELSE 0
  BY DEF AlignmentOverheadMB
<1>5. Granted(p) = M * (p.nominalMB + o + extraMB * Expands(p))
  BY DEF Granted, Cost
<1>6. p.nominalMB + o + extraMB * Expands(p) = c + o
  <2>1. extraMB * Expands(p) \in Nat
    BY CostType DEF Expands
  <2> HIDE DEF o
  <2> QED BY <1>1, <2>1
<1>7. WantedSectors(p) = w
  OBVIOUS
<1> HIDE DEF o, c, w, M, A
<1>8. M * (A \div M) = A
  <2>1. A = M * (A \div M) + (A % M) /\ A \div M \in Int
    BY <1>1, DivMod
  <2>2. M * (A \div M) \in Int
    BY <1>1, <2>1, ProductMultiple
  <2> QED BY <1>1, <2>1, <2>2
<1>9. w \in Nat /\ w % M = 0
  <2>1. M * c \in Nat
    BY <1>1, <1>2, Z3
  <2> QED BY <1>1, <1>2, <2>1, ProductMultiple
<1>10. Granted(p) = w + M * o
  BY <1>1, <1>2, <1>5, <1>6, Distribute
<1>11. M * o = IF p.maximised \/ w % A # 0 THEN A ELSE 0
  <2>1. o = IF p.maximised \/ w % A # 0 THEN A \div M ELSE 0
    BY <1>3, <1>4
  <2>2. M * 0 = 0
    BY <1>1
  <2> QED BY <1>8, <2>1, <2>2
<1> QED BY <1>7, <1>9, <1>10, <1>11 DEF A, M

(* A partition on a boundary, with the gap behind it and what it takes to   *)
(* the next boundary, stays within its grant.                               *)
LEMMA StaysWithinGrant ==
  ASSUME NEW p \in Partition, extraMB \in Nat, ~p.raw,
         NEW start \in Int, start % PARTITION_ALIGNMENT = 0
  PROVE  /\ ShrunkOrEnlarged(p) \in Int
         /\ AlignUp(start + ShrunkOrEnlarged(p) + PARTITION_GAP) <= start + Granted(p)
         /\ WantedSectors(p) <= Granted(p)
         /\ Granted(p) \in Nat
<1> DEFINE A == PARTITION_ALIGNMENT
           M == SectorsPerMB
           G == PARTITION_GAP
           w == WantedSectors(p)
           z == ShrunkOrEnlarged(p)
<1>1. /\ A \in Nat \ {0} /\ M \in Nat \ {0} /\ G \in Int /\ p.maximised \in BOOLEAN
      /\ extraMB \in Int
  BY GeometryAssumption DEF Partition
<1>2. /\ w \in Nat /\ w % M = 0
      /\ Granted(p) = w + (IF p.maximised \/ w % A # 0 THEN A ELSE 0)
  BY GrantedIs
<1>0. start \in Int /\ start % A = 0
  OBVIOUS
<1>3. z = Enlarge(p, IF w % A = 0 THEN w - G ELSE w)
  BY DEF ShrunkOrEnlarged, Shrink
<1>4. start % M = 0
  BY AlignedIsMB
<1>5. p.maximised \/ w % A = 0 => z \in Int /\ (z + G) % A = 0
  BY <1>1, EndsAtGap
<1> HIDE DEF w, z
<1>6. CASE p.maximised
  <2> DEFINE e == z + G
  <2>1. z \in Int /\ e \in Int /\ e % A = 0 /\ start + z + G = start + e
    BY <1>1, <1>5, <1>6
  <2>2. e <= w + A
    <3>1. e = AlignUp((IF w % A = 0 THEN w - G ELSE w) + G)
      <4>1. z = AlignUp((IF w % A = 0 THEN w - G ELSE w) + G) - G
        BY <1>3, <1>6 DEF Enlarge
      <4>2. (IF w % A = 0 THEN w - G ELSE w) + G \in Int
        BY <1>1, <1>2
      <4>3. AlignUp((IF w % A = 0 THEN w - G ELSE w) + G) \in Int
        BY <4>2, AlignUpBounds
      <4> QED BY <1>1, <4>1, <4>3
    <3>2. CASE w % A = 0
      <4>1. w - G + G = w
        BY <1>1, <1>2
      <4>2. AlignUp(w) = w
        BY <1>2, <3>2, AlignUpMultiple
      <4> QED BY <1>1, <1>2, <3>1, <3>2, <4>1, <4>2
    <3>3. CASE w % A # 0
      BY <1>2, <3>1, <3>3, GapFits
    <3> QED BY <3>2, <3>3
  <2> HIDE DEF e
  <2>3. AlignUp(start + e) = start + e
    <3>1. (start + e) % A = 0
      BY <1>1, <1>0, <2>1, SumMultiple
    <3> QED BY <1>0, <2>1, <3>1, AlignUpMultiple
  <2>4. AlignUp(start + z + G) <= start + Granted(p)
    BY <1>1, <1>2, <1>6, <2>1, <2>2, <2>3
  <2> QED BY <1>1, <1>2, <1>6, <2>1, <2>4 DEF w, z
<1>7. CASE ~p.maximised /\ w % A = 0
  <2>1. z = w - G /\ Granted(p) = w
    BY <1>1, <1>2, <1>3, <1>7 DEF Enlarge
  <2>2. start + z + G = start + w /\ z \in Int
    BY <1>1, <1>2, <2>1
  <2>3. start + w \in Int /\ (start + w) % A = 0
    <3>1. w \in Int /\ start + w \in Int
      BY <1>2
    <3> QED BY <1>1, <1>0, <1>7, <3>1, SumMultiple
  <2>4. AlignUp(start + w) = start + w
    BY <2>3, AlignUpMultiple
  <2>5. AlignUp(start + z + G) <= start + Granted(p)
    BY <2>1, <2>2, <2>3, <2>4
  <2> QED BY <1>2, <2>1, <2>2, <2>5 DEF w, z
<1>8. CASE ~p.maximised /\ w % A # 0
  <2>1. z = w /\ Granted(p) = w + A
    BY <1>2, <1>3, <1>8 DEF Enlarge
  <2>2. start + w \in Int /\ (start + w) % M = 0
    <3>1. w \in Int /\ start + w \in Int
      BY <1>2
    <3> QED BY <1>1, <1>2, <1>4, <3>1, SumMultiple
  <2>3. (start + w) % A # 0
    <3>1. ASSUME (start + w) % A = 0 PROVE FALSE
      <4>1. PICK q \in Int : start + w = A * q
        BY <1>1, <2>2, <3>1, MultipleOf
      <4>2. PICK u \in Int : start = A * u
        BY <1>1, MultipleOf
      <4> DEFINE t == q - u
      <4>3. t \in Int /\ q = u + t
        OBVIOUS
      <4> HIDE DEF t
      <4>4. A * (u + t) = A * u + A * t /\ A * u \in Int /\ A * t \in Int
        BY <1>1, <4>2, <4>3, Distribute
      <4>5. w = A * t
        BY <1>2, <4>1, <4>2, <4>3, <4>4
      <4>6. (A * t) % A = 0
        BY <1>1, <4>3, ProductMultiple
      <4> QED BY <1>8, <4>5, <4>6
    <3> QED BY <3>1
  <2>4. AlignUp((start + w) + G) <= (start + w) + A
    BY <2>2, <2>3, GapFits
  <2>5. AlignUp(start + z + G) <= start + Granted(p)
    BY <1>1, <1>2, <2>1, <2>4
  <2> QED BY <1>1, <1>2, <2>1, <2>5 DEF w, z
<1> QED BY <1>1, <1>6, <1>7, <1>8

(* The MBs in front of RISC OS, which checkImage puts on the bill.          *)
RiscosMB ==
  IF image.risc THEN (RISCOS_SECTOR_OFFSET - StartSector) \div SectorsPerMB ELSE 0

(* In an image the budget accounts for only RISC OS's first partition has a *)
(* fixed offset, and its number is the first of the list or the only one.   *)
NumberInv ==
  /\ pc = "image" => parts = image.partitions /\ totalMB = 0 /\ numexpand = 0
  /\ Budgeted /\ pc # "image" => \A i \in DOMAIN parts :
       /\ ~parts[i].raw
       /\ parts[i].fixed # 0 =>
            /\ i = 1 /\ image.risc /\ parts[i].fixed = RISCOS_SECTOR_OFFSET
            /\ parts[i].req = IF Len(parts) = 1 THEN 7 ELSE 6
  /\ \A n \in DOMAIN claimed : \E i \in DOMAIN parts :
       claimed[n] = parts[i] /\ (parts[i].req # 0 => n = parts[i].req)

(* The sums g and h over what is still to be placed fit between the next    *)
(* start and the end of the card.                                           *)
Need(g, h) == SectorsPerMB * (g[todo] + extraMB * h[todo])

Fits(g, h) ==
  /\ (\A n \in todo : claimed[n].fixed = 0) => NextStart + Need(g, h) <= TotalSectors
  /\ (\E n \in todo : claimed[n].fixed # 0) =>
       RISCOS_SECTOR_OFFSET + Need(g, h) <= TotalSectors

Balance(g, h) ==
  /\ Sums(g, DOMAIN claimed, CostOf) /\ Sums(h, DOMAIN claimed, ExpandsOf)
  /\ RiscosMB \in Nat /\ totalMB = RiscosMB + g[DOMAIN claimed]
  /\ numexpand = h[DOMAIN claimed]
  /\ pc = "place" => Fits(g, h)

BudgetInv ==
  Budgeted /\ settings =>
    /\ pc \in {"check", "space", "place"} => \E g, h : Balance(g, h)
    /\ \A n \in DOMAIN placed : End(placed[n]) <= TotalSectors

(* checkImage keeps the offsets of an image the budget accounts for.        *)
LEMMA NumberStep ==
  ASSUME Inv, Inv', NumberInv, [Next]_vars
  PROVE  NumberInv'
<1> USE DEF NumberInv
<1>1. Budgeted' = Budgeted /\ image' = image
  BY DEF Next, vars, RejectImage, AcceptImage, CheckPartition, CheckSpace,
         PlacePartition, RefuseTable, WriteTable, Finished, Budgeted, StartSector
<1>2. CASE /\ UNCHANGED <<parts, claimed>>
           /\ (pc # "image" /\ pc' # "image") \/ UNCHANGED <<pc, totalMB, numexpand>>
  BY <1>1, <1>2
<1>3. CASE RejectImage
  <2>1. pc = "image" /\ pc' = "failed" /\ parts' = parts /\ claimed' = claimed
    BY <1>3 DEF RejectImage
  <2>2. DOMAIN claimed' = {}
    BY <2>1 DEF Inv, Phases
  <2> QED BY <1>1, <2>1, <2>2 DEF Budgeted
<1>4. CASE AcceptImage
  <2>1. pc = "image" /\ pc' = "check" /\ claimed' = claimed /\ parts \in Seq(Partition)
    BY <1>4 DEF AcceptImage, Inv, TypeOK
  <2>2. DOMAIN claimed' = {}
    BY <2>1 DEF Inv, Phases
  <2>3. ASSUME Budgeted, NEW i \in DOMAIN parts'
        PROVE  /\ ~parts'[i].raw
               /\ parts'[i].fixed # 0 =>
                    /\ i = 1 /\ image.risc /\ parts'[i].fixed = RISCOS_SECTOR_OFFSET
                    /\ parts'[i].req = IF Len(parts') = 1 THEN 7 ELSE 6
    <3>1. \A j \in DOMAIN parts : ~parts[j].raw /\ parts[j].fixed = 0
      BY <2>1, <2>3 DEF Budgeted
    <3>2. CASE ~image.risc
      BY <1>4, <2>3, <3>1, <3>2 DEF AcceptImage
    <3>3. CASE image.risc
      <4>1. parts' = RiscosPartitions(parts)
        BY <1>4, <3>3 DEF AcceptImage
      <4>2. Len(parts') = Len(parts) /\ DOMAIN parts' = DOMAIN parts
        BY <2>1, <4>1, RiscosPartitionsType DEF RiscosPartitions
      <4>3. parts[i] \in Partition /\ i \in DOMAIN parts
        BY <2>1, <2>3, <4>2
      <4>4. parts'[i] = [parts[i] EXCEPT
                !.req   = IF i = Len(parts) THEN 7 ELSE IF i = 1 THEN 6 ELSE @,
                !.fixed = IF i = 1 THEN RISCOS_SECTOR_OFFSET ELSE @]
        BY <4>1, <4>3 DEF RiscosPartitions
      <4>5. /\ parts'[i].raw = parts[i].raw
            /\ parts'[i].fixed = IF i = 1 THEN RISCOS_SECTOR_OFFSET ELSE parts[i].fixed
            /\ parts'[i].req = IF i = Len(parts) THEN 7 ELSE IF i = 1 THEN 6 ELSE parts[i].req
        BY <4>3, <4>4 DEF Partition
      <4> QED BY <3>1, <3>3, <4>2, <4>3, <4>5
    <3> QED BY <3>2, <3>3
  <2> QED BY <1>1, <2>1, <2>2, <2>3
<1>5. CASE CheckPartition
  <2> DEFINE p == parts[k + 1]
  <2>1. PICK n \in 0..MaxNumber : CheckOne(n, p)
    BY <1>5 DEF CheckPartition
  <2>2. k + 1 \in DOMAIN parts /\ parts' = parts /\ pc # "image"
    BY <1>5 DEF CheckPartition, Inv, TypeOK
  <2>7. pc' # "image"
    BY <2>1 DEF CheckOne
  <2>3. IsNumberOf(n, p)
    BY <2>1 DEF CheckOne
  <2>4. p.req # 0 => n = p.req
    BY <2>3 DEF IsNumberOf
  <2>5. claimed' = claimed \/ claimed' = Insert(claimed, n, p)
    BY <2>1 DEF CheckOne
  <2>6. ASSUME NEW m \in DOMAIN claimed'
        PROVE  \E i \in DOMAIN parts' :
                 claimed'[m] = parts'[i] /\ (parts'[i].req # 0 => m = parts'[i].req)
    <3>1. CASE m \in DOMAIN claimed /\ claimed'[m] = claimed[m]
      BY <2>2, <3>1
    <3>2. CASE m = n /\ claimed'[m] = p
      BY <2>2, <2>4, <3>2
    <3> QED BY <2>5, <2>6, <3>1, <3>2 DEF Insert
  <2> QED BY <1>1, <2>2, <2>6, <2>7
<1>6. CASE CheckSpace \/ RefuseTable \/ WriteTable
  BY <1>2, <1>6 DEF CheckSpace, RefuseTable, WriteTable
<1>7. CASE PlacePartition
  <2>1. pc = "place" /\ UNCHANGED <<parts, claimed>>
    BY <1>7 DEF PlacePartition
  <2>2. pc' # "image"
    BY <1>7, PlaceEffect
  <2> QED BY <1>2, <2>1, <2>2
<1>8. CASE UNCHANGED vars
  BY <1>2, <1>8 DEF vars
<1> QED BY <1>3, <1>4, <1>5, <1>6, <1>7, <1>8 DEF Next, Finished

(* A partition with a fixed offset is placed before all others.             *)
LEMMA FixedFirst ==
  ASSUME Inv, NumberInv, Budgeted, pc # "image",
         NEW n \in DOMAIN claimed, claimed[n].fixed # 0,
         NEW m \in DOMAIN claimed, m # n
  PROVE  /\ Precedes(n, m) /\ claimed[m].fixed = 0
<1>1. PICK i \in DOMAIN parts :
        claimed[n] = parts[i] /\ (parts[i].req # 0 => n = parts[i].req)
  BY DEF NumberInv
<1>2. PICK j \in DOMAIN parts :
        claimed[m] = parts[j] /\ (parts[j].req # 0 => m = parts[j].req)
  BY DEF NumberInv
<1>3. i = 1 /\ parts[1].req = (IF Len(parts) = 1 THEN 7 ELSE 6) /\ parts[1].req # 0
  BY <1>1 DEF NumberInv
<1>4. j # 1
  BY <1>1, <1>2, <1>3
<1>5. parts \in Seq(Partition) /\ n = 6
  BY <1>1, <1>2, <1>3, <1>4 DEF Inv, TypeOK
<1>6. claimed[m].fixed = 0
  BY <1>2, <1>4 DEF NumberInv
<1>7. m \in (2..MaxNumber) \ {5}
  BY DEF Inv, TypeOK
<1> QED BY <1>5, <1>6, <1>7, GeometryAssumption DEF Precedes, IsLogical

(* What every step keeps.                                                   *)
LEMMA BudgetFrame ==
  ASSUME [Next]_vars
  PROVE  /\ UNCHANGED <<settings, image>>
         /\ StartSector' = StartSector /\ Budgeted' = Budgeted /\ RiscosMB' = RiscosMB
<1>1. UNCHANGED <<settings, image>>
  BY DEF Next, vars, RejectImage, AcceptImage, CheckPartition, CheckSpace,
         PlacePartition, RefuseTable, WriteTable, Finished
<1> QED BY <1>1 DEF StartSector, Budgeted, RiscosMB

(* Before the first partition is checked the bill is that of RISC OS.       *)
LEMMA AcceptBalances ==
  ASSUME Inv, NumberInv, AcceptImage
  PROVE  \E g, h : Balance(g, h)'
<1> DEFINE z == [S \in SUBSET {} |-> 0]
<1>1. /\ pc = "image" /\ pc' = "check" /\ claimed' = claimed /\ numexpand' = 0
      /\ DOMAIN claimed = {} /\ totalMB = 0
      /\ image' = image /\ settings' = settings
  BY DEF AcceptImage, NumberInv, Inv, Phases
<1>2. StartSector' = StartSector /\ StartSector \in Nat
  BY <1>1, StartSectorType DEF StartSector, Inv
<1>3. totalMB' = RiscosMB'
  <2>1. CASE ~image.risc
    BY <1>1, <2>1 DEF AcceptImage, RiscosMB
  <2>2. CASE image.risc
    <3> DEFINE d == (RISCOS_SECTOR_OFFSET - StartSector) \div SectorsPerMB
    <3>1. d \in Int
      BY <1>2, GeometryAssumption, DivType
    <3>2. totalMB' = totalMB + d /\ RiscosMB' = d
      BY <1>1, <1>2, <2>2 DEF AcceptImage, RiscosMB
    <3> HIDE DEF d
    <3> QED BY <1>1, <3>1, <3>2
  <2> QED BY <2>1, <2>2
<1>4. Sums(z, DOMAIN claimed', CostOf') /\ Sums(z, DOMAIN claimed', ExpandsOf')
  BY <1>1 DEF Sums
<1>5. z[DOMAIN claimed'] = 0
  BY <1>1
<1>6. totalMB' \in Nat
  <2>1. AcceptImage => [Next]_vars
    BY DEF Next
  <2> QED BY <2>1, TypeStep DEF Inv, TypeOK
<1> HIDE DEF z
<1>7. Balance(z, z)'
  BY <1>1, <1>3, <1>4, <1>5, <1>6 DEF Balance
<1> QED BY <1>7

(* One more partition is on the bill.                                       *)
LEMMA CheckBalances ==
  ASSUME Inv, CheckPartition, pc' # "failed", NEW g, NEW h, Balance(g, h)
  PROVE  \E g2, h2 : Balance(g2, h2)'
<1> DEFINE p == parts[k + 1]
           D == DOMAIN claimed
<1>1. PICK n \in 0..MaxNumber : CheckOne(n, p)
  BY DEF CheckPartition
<1>2. p \in Partition /\ claimed \in [D -> Partition] /\ totalMB \in Int /\ numexpand \in Int
  BY DEF CheckPartition, Inv, TypeOK
<1>3. /\ n \notin D /\ claimed' = Insert(claimed, n, p)
      /\ totalMB' = totalMB + p.nominalMB + AlignmentOverheadMB(p)
      /\ numexpand' = numexpand + Expands(p)
      /\ pc' \in {"check", "space"}
      /\ image' = image /\ settings' = settings
  BY <1>1 DEF CheckOne, Conflict, Expands, CheckPartition
<1>4. /\ DOMAIN claimed' = D \cup {n} /\ claimed'[n] = p
      /\ \A m \in D : claimed'[m] = claimed[m]
  BY <1>3 DEF Insert
<1>5. Cost(p) \in Nat /\ Expands(p) \in Nat /\ AlignmentOverheadMB(p) \in Nat
      /\ p.nominalMB \in Nat
  BY <1>2, CostType DEF Partition
<1>6. \A m \in D : Cost(claimed[m]) \in Nat /\ Expands(claimed[m]) \in Nat
  BY <1>2, CostType
<1> DEFINE v == CostOf
           e == ExpandsOf
           v2 == CostOf'
           e2 == ExpandsOf'
<1> HIDE DEF p
<1>7. /\ v2[n] = Cost(p) /\ \A m \in D : v2[m] = v[m] /\ v[m] \in Nat
      /\ e2[n] = Expands(p) /\ \A m \in D : e2[m] = e[m] /\ e[m] \in Nat
  BY <1>4, <1>6 DEF CostOf, ExpandsOf
<1>8. /\ Sums(g, D, v) /\ Sums(h, D, e)
      /\ totalMB = RiscosMB + g[D] /\ numexpand = h[D] /\ RiscosMB \in Nat
  BY DEF Balance
<1>9. g[D] \in Nat /\ h[D] \in Nat
  BY <1>8 DEF Sums
<1> HIDE DEF v, e, v2, e2, D
<1> DEFINE c == Cost(p)
           x == Expands(p)
<1>10. PICK g2 : Sums(g2, D \cup {n}, v2) /\ g2[D \cup {n}] = g[D] + c
  <2>1. OneMore(v, v2, D, n, c)
    BY <1>3, <1>5, <1>7 DEF OneMore
  <2>2. Sums(g, D, v)
    BY <1>8
  <2> HIDE DEF c
  <2>3. MoreSums(g, v2, D, n, c)
    BY <2>1, <2>2, SumsInsert
  <2> QED BY <2>3 DEF MoreSums
<1>11. PICK h2 : Sums(h2, D \cup {n}, e2) /\ h2[D \cup {n}] = h[D] + x
  <2>1. OneMore(e, e2, D, n, x)
    BY <1>3, <1>5, <1>7 DEF OneMore
  <2>2. Sums(h, D, e)
    BY <1>8
  <2> HIDE DEF x
  <2>3. MoreSums(h, e2, D, n, x)
    BY <2>1, <2>2, SumsInsert
  <2> QED BY <2>3 DEF MoreSums
<1> HIDE DEF c, x
<1>12. RiscosMB' = RiscosMB
  BY <1>3 DEF RiscosMB, StartSector
<1>13. totalMB' = RiscosMB' + g2[DOMAIN claimed']
  BY <1>2, <1>3, <1>4, <1>5, <1>8, <1>9, <1>10, <1>12 DEF Cost, c
<1>14. numexpand' = h2[DOMAIN claimed']
  BY <1>2, <1>3, <1>4, <1>5, <1>8, <1>9, <1>11 DEF x
<1>15. Balance(g2, h2)'
  BY <1>3, <1>4, <1>8, <1>10, <1>11, <1>12, <1>13, <1>14 DEF Balance, v2, e2
<1> QED BY <1>15

(* An equal share of what is left, times the number of shares, is not more  *)
(* than what is left.                                                       *)
LEMMA ShareFits ==
  ASSUME NEW left \in Nat, NEW N \in Nat,
         NEW x, x = IF N > 0 THEN left \div N ELSE 0
  PROVE  x \in Nat /\ x * N \in Nat /\ x * N <= left
<1>1. CASE N > 0
  <2>1. N \in Nat \ {0} /\ left \in Int
    BY <1>1
  <2>2. left = N * x + (left % N) /\ left % N \in Int /\ left % N >= 0 /\ x \in Nat
    BY <1>1, <2>1, DivMod, DivType
  <2>3. N * x = x * N /\ N * x \in Nat
    BY <2>1, <2>2, Z3
  <2> QED BY <2>1, <2>2, <2>3
<1>2. CASE N = 0
  BY <1>2
<1> QED BY <1>1, <1>2

(* The MBs in front of RISC OS are those from the first boundary behind the *)
(* settings partition.                                                      *)
LEMMA InFrontOfRiscos ==
  ASSUME TypeOK, settings
  PROVE  LET d == RISCOS_SECTOR_OFFSET - StartSector
         IN SectorsPerMB * (d \div SectorsPerMB) = d - PARTITION_GAP
<1> DEFINE M == SectorsPerMB
           G == PARTITION_GAP
           R == RISCOS_SECTOR_OFFSET
           s == StartSector + G
           d == R - StartSector
<1>1. M \in Nat \ {0} /\ G \in 0..(M - 1) /\ R \in Int /\ StartSector \in Int /\ G \in Int
  BY GeometryAssumption, StartSectorType
<1>2. s % PARTITION_ALIGNMENT = 0 /\ R % PARTITION_ALIGNMENT = 0
  BY StartSectorType, AlignedAssumption
<1>3. s \in Int /\ d \in Int /\ d - G = R - s
  BY <1>1
<1>4. s % M = 0 /\ R % M = 0
  BY <1>1, <1>2, <1>3, AlignedIsMB
<1> HIDE DEF M, G, R, s, d
<1>5. PICK a \in Int : s = M * a
  BY <1>1, <1>3, <1>4, MultipleOf
<1>6. PICK b \in Int : R = M * b
  BY <1>1, <1>4, MultipleOf
<1> DEFINE q == b - a
<1>7. q \in Int /\ b = a + q
  OBVIOUS
<1> HIDE DEF q
<1>8. M * (a + q) = M * a + M * q /\ M * a \in Int /\ M * q \in Int
  BY <1>1, <1>5, <1>7, Distribute
<1>9. d = M * q + G
  BY <1>1, <1>3, <1>5, <1>6, <1>7, <1>8
<1>10. (M * q + G) % M = G
  BY <1>1, <1>7, RemainderUnique
<1>11. d = M * (d \div M) + (d % M) /\ d \div M \in Int
  BY <1>1, <1>3, DivMod
<1>12. M * (d \div M) \in Int
  BY <1>1, <1>11, ProductMultiple
<1>13. M * (d \div M) = d - G
  BY <1>1, <1>3, <1>9, <1>10, <1>11, <1>12
<1> QED BY <1>13 DEF M, G, d, R

(* What passes the space check fits on the card.                            *)
LEMMA SpaceBalances ==
  ASSUME Inv, NumberInv, Budgeted, settings, CheckSpace, pc' = "place",
         NEW g, NEW h, Balance(g, h)
  PROVE  Balance(g, h)'
<1> DEFINE M == SectorsPerMB
           G == PARTITION_GAP
           D == DOMAIN claimed
           N == h[D]
           c == g[D]
           a == AvailableMB
           r == RiscosMB
           x == extraMB'
           S == StartSector
           T == TotalSectors
<1>1. /\ UNCHANGED <<settings, image, parts, claimed, totalMB, numexpand>>
      /\ pc = "space" /\ todo' = D /\ offset' = S /\ totalMB <= a
      /\ x = IF N > 0 THEN (a - totalMB) \div N ELSE extraMB
  <2>1. numexpand = N
    BY DEF Balance
  <2>2. TypeOK /\ totalMB \in Int
    BY DEF Inv, TypeOK
  <2>3. StartSector \in Int
    BY <2>2, StartSectorType
  <2>4. a \in Int
    BY <2>3, GeometryAssumption, DivType DEF AvailableMB
  <2> QED BY <2>1, <2>2, <2>4 DEF CheckSpace, NotEnoughSpace
<1>2. extraMB = 0 /\ TypeOK
  BY <1>1 DEF Inv, Phases
<1>3. /\ Sums(g, D, CostOf) /\ Sums(h, D, ExpandsOf)
      /\ r \in Nat /\ totalMB = r + c /\ numexpand = N
  BY DEF Balance
<1>4. c \in Nat /\ N \in Nat
  BY <1>3 DEF Sums
<1>5. /\ M \in Nat \ {0} /\ G \in Nat /\ T \in Nat /\ S \in Nat
      /\ S = StartP5 + SizeP5
  BY <1>2, GeometryAssumption, StartSectorType
<1>6. T - S \in Int /\ a = (T - S) \div M /\ (T - S) % M >= G
  BY <1>5 DEF AvailableMB, Budgeted
<1>7. (S + G) % PARTITION_ALIGNMENT = 0 /\ S + G \in Int
  BY <1>5, AlignedAssumption
<1>8. AlignUp(S + G) = S + G
  BY <1>7, AlignUpMultiple
<1>9. NextStart' = S + G
  BY <1>1, <1>8 DEF NextStart, AlignUp
<1>10. image.risc => M * r = RISCOS_SECTOR_OFFSET - S - G
  BY <1>2, InFrontOfRiscos DEF RiscosMB
<1>11. Need(g, h)' = M * (c + x * N)
  BY <1>1 DEF Need
<1> HIDE DEF M, G, D, N, c, a, r, x, S, T
<1>12. M * a + G <= T - S /\ a \in Int /\ M * a \in Int
  <2>1. T - S = M * ((T - S) \div M) + ((T - S) % M) /\ (T - S) \div M \in Int
        /\ (T - S) % M \in Int
    BY <1>5, <1>6, DivMod
  <2>2. M * a \in Int
    BY <1>5, <1>6, <2>1, ProductMultiple
  <2> QED BY <1>5, <1>6, <2>1, <2>2
<1>13. x \in Nat /\ x * N \in Nat /\ x * N <= a - totalMB
  <2> DEFINE left == a - totalMB
  <2>1. left \in Nat /\ x = IF N > 0 THEN left \div N ELSE 0
    BY <1>1, <1>2, <1>3, <1>4, <1>12
  <2> HIDE DEF left
  <2>2. x \in Nat /\ x * N \in Nat /\ x * N <= left
    BY <1>4, <2>1, ShareFits
  <2> QED BY <2>2 DEF left
<1> DEFINE y == c + x * N
<1>14. y \in Nat /\ y + r <= a
  BY <1>1, <1>3, <1>4, <1>12, <1>13
<1>15. Need(g, h)' = M * y
  BY <1>11
<1> HIDE DEF y
<1>16. M * y + M * r <= M * a /\ M * y \in Nat /\ M * r \in Nat
  <2>1. M * (y + r) = M * y + M * r
    BY <1>3, <1>5, <1>14, Distribute
  <2>2. \A i, j \in Int : i <= j => M * i <= M * j
    BY <1>5, Z3
  <2>3. M * y \in Nat /\ M * r \in Nat
    BY <1>3, <1>5, <1>14, Z3
  <2>4. y + r \in Int
    BY <1>3, <1>14
  <2> QED BY <1>12, <1>14, <2>1, <2>2, <2>3, <2>4
<1>17. NextStart' + Need(g, h)' <= T
  BY <1>5, <1>9, <1>12, <1>15, <1>16
<1>18. image.risc => RISCOS_SECTOR_OFFSET + Need(g, h)' <= T
  <2>1. RISCOS_SECTOR_OFFSET \in Int
    BY GeometryAssumption
  <2> QED BY <1>5, <1>10, <1>12, <1>15, <1>16, <2>1
<1>19. ASSUME NEW n \in D, claimed[n].fixed # 0 PROVE image.risc
  BY <1>1, <1>19 DEF NumberInv, D
<1>20. Fits(g, h)'
  BY <1>1, <1>17, <1>18, <1>19 DEF Fits, T
<1>21. RiscosMB' = RiscosMB
  BY <1>1 DEF RiscosMB, StartSector
<1>22. CostOf' = CostOf /\ ExpandsOf' = ExpandsOf
  BY <1>1 DEF CostOf, ExpandsOf
<1> QED BY <1>1, <1>3, <1>20, <1>21, <1>22 DEF Balance, D, N, c, r

(* A partition that gets its place takes no more than its grant.            *)
LEMMA PlaceBalances ==
  ASSUME Inv, NumberInv, Budgeted, PlacePartition, pc' # "failed",
         NEW g, NEW h, Balance(g, h)
  PROVE  /\ pc' = "place" => Balance(g, h)'
         /\ \A m \in DOMAIN placed' :
              m \notin DOMAIN placed => End(placed'[m]) <= TotalSectors
<1> DEFINE T == TotalSectors
           G == PARTITION_GAP
           M == SectorsPerMB
           x == extraMB
<1>1. PICK n \in todo :
        /\ \A m \in todo \ {n} : Precedes(n, m)
        /\ claimed[n] \in Partition /\ ExtentOf(n) \in Extent
        /\ DOMAIN placed' = DOMAIN placed \cup {n}
        /\ placed'[n] = ExtentOf(n)
        /\ offset' = End(ExtentOf(n)) /\ todo' = todo \ {n}
        /\ pc' = "place" <=> todo' # {}
  BY PlaceEffect
<1>2. /\ UNCHANGED <<settings, image, parts, claimed, totalMB, numexpand, extraMB>>
      /\ pc = "place" /\ x \in Nat
      /\ todo \subseteq DOMAIN claimed /\ DOMAIN claimed \subseteq Nat
  <2>1. (2..MaxNumber) \ {5} \subseteq Nat
    BY GeometryAssumption
  <2> QED BY <2>1, PlaceEffect DEF Inv, TypeOK, Phases
<1> DEFINE p == claimed[n]
           start == StartOf(p)
           q == Granted(p)
           need == Need(g, h)
           rest == Need(g, h)'
           z == ShrunkOrEnlarged(p)
<1>3. /\ T \in Nat /\ G \in Nat /\ M \in Nat \ {0} /\ RISCOS_SECTOR_OFFSET \in Int
  BY GeometryAssumption
<1>4. ~p.raw /\ (p.fixed # 0 => p.fixed = RISCOS_SECTOR_OFFSET)
  BY <1>2 DEF NumberInv
<1>5. ASSUME NEW m \in todo \ {n} PROVE claimed[m].fixed = 0
  <2>1. Precedes(n, m) /\ m # n /\ m \in DOMAIN claimed /\ n \in DOMAIN claimed
    BY <1>1, <1>2
  <2>2. ~Precedes(m, n)
    BY <1>2, <2>1, PrecedesOrder
  <2> QED BY <1>2, <2>1, <2>2, FixedFirst
<1>6. /\ start \in Int /\ start % PARTITION_ALIGNMENT = 0
      /\ start + need <= T
  <2>1. Fits(g, h)
    BY <1>2 DEF Balance
  <2>2. CASE p.fixed # 0
    <3>1. start = RISCOS_SECTOR_OFFSET
      BY <1>4, <2>2 DEF StartOf
    <3> QED BY <1>3, <2>1, <2>2, <3>1, AlignedAssumption DEF Fits
  <2>3. CASE p.fixed = 0
    <3>1. start = NextStart
      BY <2>3 DEF StartOf
    <3>2. offset + G \in Int
      BY <1>3 DEF Inv, TypeOK
    <3>3. NextStart \in Int /\ NextStart % PARTITION_ALIGNMENT = 0
      BY <3>2, AlignUpBounds, AlignUpMultiple DEF NextStart
    <3>4. \A m \in todo : claimed[m].fixed = 0
      BY <1>5, <2>3
    <3> QED BY <2>1, <3>1, <3>3, <3>4 DEF Fits
  <2> QED BY <2>2, <2>3
<1>7. /\ z \in Int /\ q \in Nat /\ WantedSectors(p) <= q
      /\ AlignUp(start + z + G) <= start + q
  BY <1>1, <1>2, <1>4, <1>6, StaysWithinGrant
<1>8. need = rest + q /\ rest \in Nat
  <2> DEFINE S == todo \ {n}
             a == g[S]
             b == h[S]
             c == Cost(p)
             e == Expands(p)
  <2>1. S \in SUBSET DOMAIN claimed /\ n \in DOMAIN claimed \ S /\ S \cup {n} = todo
    BY <1>2
  <2>2. Sums(g, DOMAIN claimed, CostOf) /\ Sums(h, DOMAIN claimed, ExpandsOf)
    BY DEF Balance
  <2>3. CostOf[n] = c /\ ExpandsOf[n] = e
    BY <2>1 DEF CostOf, ExpandsOf
  <2>4. g[todo] = a + c /\ a \in Nat
    BY <2>1, <2>2, <2>3 DEF Sums
  <2>5. h[todo] = b + e /\ b \in Nat
    BY <2>1, <2>2, <2>3 DEF Sums
  <2>6. c \in Nat /\ e \in Nat
    BY <1>1, CostType
  <2>7. /\ need = M * ((a + c) + x * (b + e))
        /\ rest = M * (a + x * b) /\ q = M * (c + x * e)
    BY <1>1, <1>2, <2>4, <2>5 DEF Need, Granted
  <2> HIDE DEF S, a, b, c, e, M, x, need, rest, q
  <2>8. x * (b + e) = x * b + x * e /\ x * b \in Nat /\ x * e \in Nat
    BY <1>2, <2>4, <2>5, <2>6, Z3
  <2> DEFINE i == a + x * b
             j == c + x * e
  <2>9. (a + c) + x * (b + e) = i + j /\ i \in Nat /\ j \in Nat
    BY <2>4, <2>6, <2>8
  <2>10. need = M * (i + j) /\ rest = M * i /\ q = M * j
    BY <2>7, <2>9
  <2> HIDE DEF i, j
  <2>11. M * (i + j) = M * i + M * j
    BY <1>3, <2>9, Distribute
  <2>12. M * i \in Nat
    BY <1>3, <2>9, Z3
  <2> QED BY <2>10, <2>11, <2>12
<1>9. /\ ExtentOf(n) = [start |-> start,
                        size |-> PartitionSizeSectors(p, start, todo = {n})]
      /\ End(ExtentOf(n)) = start + PartitionSizeSectors(p, start, todo = {n})
  BY DEF ExtentOf, End
<1>10. CASE todo = {n}
  <2>1. PartitionSizeSectors(p, start, todo = {n}) = LastSectors(p, start)
    BY <1>10 DEF PartitionSizeSectors
  <2>2. LastSectors(p, start) \in {T - start, WantedSectors(p)}
    BY DEF LastSectors
  <2>3. WantedSectors(p) \in Nat
    BY <1>1, <1>2, GrantedIs
  <2> HIDE DEF p, start, q, need, rest, T
  <2>4. End(ExtentOf(n)) <= T
    BY <1>3, <1>6, <1>7, <1>8, <1>9, <2>1, <2>2, <2>3
  <2>5. pc' # "place"
    BY <1>1, <1>10
  <2> QED BY <1>1, <2>4, <2>5 DEF T, End
<1>11. CASE todo # {n}
  <2>1. PartitionSizeSectors(p, start, todo = {n}) = z
    BY <1>11 DEF PartitionSizeSectors, ShrunkOrEnlarged
  <2>2. offset' = start + z
    BY <1>1, <1>9, <2>1
  <2>3. NextStart' = AlignUp(start + z + G)
    BY <2>2 DEF NextStart, AlignUp
  <2> HIDE DEF p, start, q, need, rest, T, z, G
  <2>4. start + z + G \in Int
    BY <1>3, <1>6, <1>7
  <2>5. /\ AlignUp(start + z + G) \in Int
        /\ AlignUp(start + z + G) >= start + z + G
    BY <2>4, AlignUpBounds
  <2>6. NextStart' + rest <= T
    BY <1>3, <1>6, <1>7, <1>8, <2>3, <2>5
  <2>7. End(ExtentOf(n)) <= T
    BY <1>3, <1>6, <1>7, <1>8, <1>9, <2>1, <2>5
  <2>8. Fits(g, h)'
    <3>1. \A m \in todo' : claimed'[m].fixed = 0
      BY <1>1, <1>2, <1>5
    <3> QED BY <2>6, <3>1 DEF Fits, rest, T
  <2>9. RiscosMB' = RiscosMB /\ CostOf' = CostOf /\ ExpandsOf' = ExpandsOf
    BY <1>2 DEF RiscosMB, StartSector, CostOf, ExpandsOf
  <2>10. Balance(g, h)'
    BY <1>2, <2>8, <2>9 DEF Balance
  <2> QED BY <1>1, <2>7, <2>10 DEF T, End
<1> QED BY <1>10, <1>11

(* Every step keeps the balance.                                            *)
LEMMA BudgetStep ==
  ASSUME Inv, Inv', NumberInv, BudgetInv, [Next]_vars
  PROVE  BudgetInv'
<1> SUFFICES ASSUME Budgeted, settings
             PROVE  /\ pc' \in {"check", "space", "place"} => \E g, h : Balance(g, h)'
                    /\ \A n \in DOMAIN placed' : End(placed'[n]) <= TotalSectors
  BY BudgetFrame DEF BudgetInv, End
<1>1. /\ pc \in {"check", "space", "place"} => \E g, h : Balance(g, h)
      /\ \A n \in DOMAIN placed : End(placed[n]) <= TotalSectors
  BY DEF BudgetInv
<1>2. ~PlacePartition => \A n \in DOMAIN placed' : End(placed'[n]) <= TotalSectors
  BY <1>1, PlacedSteps
<1>3. CASE AcceptImage
  <2>1. ~PlacePartition
    BY <1>3 DEF AcceptImage, PlacePartition
  <2> QED BY <1>2, <1>3, <2>1, AcceptBalances
<1>4. CASE CheckPartition
  <2>1. ~PlacePartition /\ pc = "check"
    BY <1>4 DEF CheckPartition, PlacePartition
  <2>2. PICK g, h : Balance(g, h)
    BY <1>1, <2>1
  <2> QED BY <1>2, <1>4, <2>1, <2>2, CheckBalances
<1>5. CASE CheckSpace
  <2>1. ~PlacePartition /\ pc = "space" /\ pc' \in {"failed", "place"}
    BY <1>5 DEF CheckSpace, PlacePartition
  <2>2. PICK g, h : Balance(g, h)
    BY <1>1, <2>1
  <2> QED BY <1>2, <1>5, <2>1, <2>2, SpaceBalances
<1>6. CASE PlacePartition
  <2>1. pc = "place"
    BY <1>6 DEF PlacePartition
  <2>2. PICK g, h : Balance(g, h)
    BY <1>1, <2>1
  <2>3. CASE pc' = "failed"
    <3>1. placed' = placed
      BY <1>6, <2>3, PlaceEffect
    <3> QED BY <1>1, <2>3, <3>1
  <2>4. CASE pc' # "failed"
    <3>1. /\ pc' = "place" => Balance(g, h)'
          /\ \A m \in DOMAIN placed' :
               m \notin DOMAIN placed => End(placed'[m]) <= TotalSectors
      BY <1>6, <2>2, <2>4, PlaceBalances
    <3>2. pc' \in {"table", "place"} /\ \A m \in DOMAIN placed : placed'[m] = placed[m]
      BY <1>6, <2>4, PlaceEffect
    <3> QED BY <1>1, <3>1, <3>2
  <2> QED BY <2>3, <2>4
<1>7. CASE RejectImage \/ RefuseTable \/ WriteTable
  <2>1. ~PlacePartition /\ pc' \in {"failed", "done"}
    BY <1>7 DEF RejectImage, RefuseTable, WriteTable, PlacePartition
  <2> QED BY <1>2, <2>1
<1>8. CASE UNCHANGED vars
  <2>1. pc' = pc /\ placed' = placed
    BY <1>8 DEF vars
  <2>2. ASSUME NEW g, NEW h, Balance(g, h) PROVE Balance(g, h)'
    <3>1. \A m : (Cost(claimed[m]) = Cost(claimed'[m])) /\ claimed' = claimed
      BY <1>8 DEF vars
    <3> QED BY <1>8, <2>2, BudgetFrame
        DEF vars, Balance, CostOf, ExpandsOf, Fits, Need, NextStart, AlignUp
  <2> QED BY <1>1, <2>1, <2>2
<1> QED BY <1>3, <1>4, <1>5, <1>6, <1>7, <1>8 DEF Next, Finished

(* checkPartition's space check is sound, for every card and every image    *)
(* with no raw partition and no offset of its own: what passes it ends on   *)
(* the card, however the partitions are mixed, aligned and maximised        *)
(* (checkImage, checkPartition, calculateSpaceRequirements).                *)
THEOREM StaysOnCard == Spec => []AllOnCardIfBudgeted
<1>1. Init => NumberInv /\ BudgetInv
  <2> SUFFICES ASSUME Init PROVE NumberInv /\ BudgetInv
    OBVIOUS
  <2>1. /\ DOMAIN claimed = {} /\ DOMAIN placed = {} /\ pc = "image"
        /\ parts = image.partitions /\ totalMB = 0 /\ numexpand = 0
    BY DEF Init, Empty
  <2> QED BY <2>1 DEF NumberInv, BudgetInv
<1>2. Inv /\ Inv' /\ NumberInv /\ [Next]_vars => NumberInv'
  BY NumberStep
<1>3. Inv /\ Inv' /\ NumberInv /\ BudgetInv /\ [Next]_vars => BudgetInv'
  BY BudgetStep
<1>4. Inv /\ BudgetInv => AllOnCardIfBudgeted
  BY DEF Inv, Phases, BudgetInv, AllOnCardIfBudgeted
<1> QED BY <1>1, <1>2, <1>3, <1>4, InvHolds, PTL DEF Spec

-----------------------------------------------------------------------------
(* The order of the list.  Each of the three moves keeps the list whole and *)
(* sorted by an order in which the numbers up to the one moved come last.   *)

(* A finite set of numbers has an ascending enumeration, and Ascending      *)
(* chooses one: each number stands where the numbers up to it are counted.  *)
LEMMA AscendingEnumerates ==
  ASSUME NEW S \in SUBSET Nat, IsFiniteSet(S)
  PROVE  /\ Ascending(S) \in Seq(S)
         /\ \A n \in S : \E i \in DOMAIN Ascending(S) : Ascending(S)[i] = n
         /\ \A i, j \in DOMAIN Ascending(S) : i < j => Ascending(S)[i] < Ascending(S)[j]
<1> DEFINE C == Cardinality(S)
           UpTo(n) == {m \in S : m <= n}
           rank == [n \in S |-> Cardinality(UpTo(n))]
           Rises(s) == \A i, j \in DOMAIN s : i < j => s[i] < s[j]
<1>1. C \in Nat
  BY FS_CardinalityType
<1>2. \A n \in S : /\ IsFiniteSet(UpTo(n)) /\ Cardinality(UpTo(n)) \in 1..C
  <2> TAKE n \in S
  <2>1. UpTo(n) \in SUBSET S /\ UpTo(n) # {}
    OBVIOUS
  <2>2. IsFiniteSet(UpTo(n)) /\ Cardinality(UpTo(n)) <= C
    BY <2>1, FS_Subset
  <2>3. Cardinality(UpTo(n)) \in Nat /\ Cardinality(UpTo(n)) # 0
    BY <2>1, <2>2, FS_CardinalityType, FS_EmptySet
  <2> QED BY <1>1, <2>2, <2>3
<1>3. \A m, n \in S : m < n => Cardinality(UpTo(m)) < Cardinality(UpTo(n))
  <2> TAKE m, n \in S
  <2> HAVE m < n
  <2>0. m \in Nat /\ n \in Nat /\ \A x \in S : x \in Nat
    OBVIOUS
  <2>1. UpTo(m) \in SUBSET UpTo(n) /\ n \in UpTo(n) /\ n \notin UpTo(m)
    <3>1. \A x \in S : x <= m => x <= n
      BY <2>0
    <3>2. n <= n /\ ~(n <= m)
      BY <2>0
    <3> QED BY <3>1, <3>2
  <2>2. Cardinality(UpTo(m)) <= Cardinality(UpTo(n)) /\ Cardinality(UpTo(m)) # Cardinality(UpTo(n))
    <3> HIDE DEF UpTo
    <3> QED BY <1>2, <2>1, FS_Subset
  <2> QED BY <1>2, <2>2
<1> HIDE DEF UpTo
<1>4. rank \in [S -> 1..C] /\ \A m, n \in S : m < n => rank[m] < rank[n]
  BY <1>2, <1>3
<1> HIDE DEF rank
<1>5. rank \in Injection(S, 1..C)
  <2>1. \A m, n \in S : rank[m] = rank[n] => m = n
    BY <1>1, <1>4
  <2> QED BY <1>4, <2>1 DEF Injection, IsInjective
<1>6. rank \in Surjection(S, 1..C)
  <2>1. IsFiniteSet(1..C) /\ Cardinality(1..C) = C
    BY <1>1, FS_Interval
  <2> QED BY <1>5, <2>1, FS_Injection
<1>7. \A i \in 1..C : \E n \in S : rank[n] = i
  BY <1>6 DEF Surjection
<1> DEFINE at == [i \in 1..C |-> CHOOSE n \in S : rank[n] = i]
<1>8. at \in [1..C -> S] /\ \A i \in 1..C : rank[at[i]] = i
  BY <1>7
<1> HIDE DEF at
<1>9. Rises(at)
  <2> SUFFICES ASSUME NEW i \in 1..C, NEW j \in 1..C, i < j PROVE at[i] < at[j]
    BY <1>8
  <2>1. at[i] \in Nat /\ at[j] \in Nat /\ rank[at[i]] = i /\ rank[at[j]] = j
    BY <1>8
  <2>2. ~(at[j] < at[i]) /\ at[i] # at[j]
    BY <1>4, <1>8, <2>1, <1>1
  <2> QED BY <2>1, <2>2
<1> DEFINE s == Ascending(S)
<1>10. s \in [1..C -> S] /\ Rises(s)
  BY <1>8, <1>9 DEF Ascending
<1> HIDE DEF s
<1>11. s \in Injection(1..C, S)
  <2>1. \A i, j \in 1..C : s[i] = s[j] => i = j
    <3> SUFFICES ASSUME NEW i \in 1..C, NEW j \in 1..C, i # j PROVE s[i] # s[j]
      OBVIOUS
    <3>1. s[i] \in Nat /\ s[j] \in Nat /\ DOMAIN s = 1..C
      BY <1>10
    <3>2. i < j \/ j < i
      BY <1>1
    <3> QED BY <1>10, <3>1, <3>2
  <2> QED BY <1>10, <2>1 DEF Injection, IsInjective
<1>12. s \in Surjection(1..C, S)
  <2>1. IsFiniteSet(1..C) /\ Cardinality(1..C) = C
    BY <1>1, FS_Interval
  <2> QED BY <1>11, <2>1, FS_Injection
<1>13. \A n \in S : \E i \in 1..C : s[i] = n
  BY <1>12 DEF Surjection
<1>14. s \in Seq(S)
  BY <1>1, <1>10
<1> QED BY <1>10, <1>13, <1>14 DEF s

(* The order of the list once the partitions up to q were moved back.       *)
Behind(q, m, n) ==
  \/ m > q /\ n <= q
  \/ (m > q <=> n > q) /\ m < n

(* s is the whole list, in that order.                                      *)
Listed(s, q) ==
  /\ s \in Seq(DOMAIN claimed)
  /\ \A n \in DOMAIN claimed : \E i \in DOMAIN s : s[i] = n
  /\ \A i, j \in DOMAIN s : i < j => Behind(q, s[i], s[j])

(* checkPartition gives out no number below 6 that was not required, and    *)
(* the loop of calculateSpaceRequirements ends when all have a place.       *)
ListInv ==
  /\ \A n \in DOMAIN claimed : claimed[n].req = n \/ (claimed[n].req = 0 /\ n > 5)
  /\ pc = "place" => DOMAIN claimed \subseteq DOMAIN placed \cup todo
  /\ pc \in {"table", "done"} => DOMAIN claimed \subseteq DOMAIN placed

(* Only the head can require the next number, and it does if any does.      *)
LEMMA MovedToBack ==
  ASSUME TypeOK, ListInv, NEW q \in 2..4, NEW s, Listed(s, q - 1)
  PROVE  Listed(MoveToBack(s, q), q)
<1> DEFINE D == DOMAIN claimed
<1>1. /\ \A n \in D : n \in Nat /\ n > 1
      /\ \A n \in D : claimed[n].req = q <=> n = q
  BY DEF TypeOK, ListInv
<1>2. /\ s \in Seq(D) /\ \A n \in D : \E i \in DOMAIN s : s[i] = n
      /\ \A i, j \in DOMAIN s : i < j => Behind(q - 1, s[i], s[j])
  BY DEF Listed
<1> HIDE DEF D
<1>3. CASE s # <<>> /\ Head(s) = q
  <2> DEFINE t == Append(Tail(s), Head(s))
  <2>1. /\ s[1] = q /\ q \in D /\ Len(s) \in Nat /\ Len(s) > 0
        /\ \A i \in 1..Len(s) : s[i] \in D /\ s[i] \in Nat
    BY <1>1, <1>2, <1>3
  <2>2. MoveToBack(s, q) = t
    BY <1>1, <1>3, <2>1 DEF MoveToBack
  <2>3. /\ t \in Seq(D) /\ Len(t) = Len(s) /\ t[Len(s)] = q
        /\ \A i \in 1..(Len(s) - 1) : t[i] = s[i + 1]
    BY <1>2, <1>3, <2>1
  <2> HIDE DEF t
  <2>4. \A n \in D : \E i \in DOMAIN t : t[i] = n
    <3> TAKE n \in D
    <3>1. PICK i \in 1..Len(s) : s[i] = n
      BY <1>2
    <3>2. CASE i = 1
      BY <2>1, <2>3, <3>1, <3>2
    <3>3. CASE i # 1
      <4>1. i - 1 \in 1..(Len(s) - 1) /\ t[i - 1] = s[(i - 1) + 1] /\ i - 1 + 1 = i
        BY <2>1, <2>3, <3>3
      <4> QED BY <2>1, <2>3, <3>1, <4>1
    <3> QED BY <3>2, <3>3
  <2>5. ASSUME NEW i \in DOMAIN t, NEW j \in DOMAIN t, i < j
        PROVE  Behind(q, t[i], t[j])
    <3>1. i \in 1..(Len(s) - 1) /\ j \in 1..Len(s) /\ t[i] = s[i + 1] /\ i + 1 \in 1..Len(s)
      BY <2>1, <2>3, <2>5
    <3>2. s[i + 1] \in Nat /\ Behind(q - 1, s[1], s[i + 1])
      BY <1>2, <2>1, <3>1
    <3>3. CASE j = Len(s)
      BY <2>1, <2>3, <3>1, <3>2, <3>3 DEF Behind
    <3>4. CASE j # Len(s)
      <4>1. t[j] = s[j + 1] /\ j + 1 \in 1..Len(s) /\ i + 1 < j + 1
        BY <2>1, <2>3, <2>5, <3>1, <3>4
      <4>2. 1 \in DOMAIN s /\ i + 1 \in DOMAIN s /\ j + 1 \in DOMAIN s /\ 1 < j + 1
        BY <1>2, <2>1, <3>1, <4>1
      <4>3. /\ Behind(q - 1, s[i + 1], s[j + 1]) /\ Behind(q - 1, s[1], s[j + 1])
        BY <1>2, <4>1, <4>2
      <4>4. s[j + 1] \in Nat
        BY <2>1, <4>1
      <4> QED BY <2>1, <3>1, <3>2, <4>1, <4>3, <4>4 DEF Behind
    <3> QED BY <3>3, <3>4
  <2> QED BY <2>2, <2>3, <2>4, <2>5 DEF Listed, D
<1>4. CASE ~(s # <<>> /\ Head(s) = q)
  <2>1. MoveToBack(s, q) = s
    <3>1. s # <<>> => Head(s) \in D
      BY <1>2
    <3> QED BY <1>1, <1>4, <3>1 DEF MoveToBack
  <2>2. q \notin D
    <3> SUFFICES ASSUME q \in D PROVE FALSE
      OBVIOUS
    <3>1. PICK i \in 1..Len(s) : s[i] = q
      BY <1>2
    <3>2. Len(s) \in Nat /\ s[1] = Head(s) /\ s # <<>> /\ 1 \in DOMAIN s /\ i \in DOMAIN s
      BY <1>2, <3>1
    <3>3. i # 1 /\ 1 < i
      BY <1>4, <3>1, <3>2
    <3>5. s[1] \in Nat /\ s[1] > 1
      <4>1. s[1] \in D
        BY <1>2, <3>2
      <4> QED BY <1>1, <4>1
    <3>4. Behind(q - 1, s[1], q)
      BY <1>2, <3>1, <3>2, <3>3
    <3> QED BY <1>4, <3>2, <3>5, <3>4 DEF Behind
  <2>3. ASSUME NEW i \in DOMAIN s, NEW j \in DOMAIN s, i < j
        PROVE  Behind(q, s[i], s[j])
    <3>1. /\ s[i] \in D /\ s[j] \in D /\ Behind(q - 1, s[i], s[j])
      BY <1>2, <2>3
    <3>2. s[i] \in Nat /\ s[j] \in Nat /\ s[i] # q /\ s[j] # q
      BY <1>1, <2>2, <3>1
    <3> QED BY <3>1, <3>2 DEF Behind
  <2> QED BY <1>2, <2>1, <2>3 DEF Listed, D
<1> QED BY <1>3, <1>4

(* LogBeforePrim has every partition, in the order Precedes.                *)
LEMMA ListIsInOrder ==
  ASSUME TypeOK, ListInv
  PROVE  Listed(LogBeforePrim, 4)
<1> DEFINE keys == Ascending(DOMAIN claimed)
           two == MoveToBack(keys, 2)
           three == MoveToBack(two, 3)
<1>1. DOMAIN claimed \in SUBSET Nat /\ IsFiniteSet(DOMAIN claimed)
  <2>1. DOMAIN claimed \in SUBSET (2..MaxNumber)
    BY DEF TypeOK
  <2>2. IsFiniteSet(2..MaxNumber)
    BY GeometryAssumption, FS_Interval
  <2>3. IsFiniteSet(DOMAIN claimed)
    BY <2>1, <2>2, FS_Subset
  <2>4. DOMAIN claimed \in SUBSET Nat
    BY <2>1
  <2> QED BY <2>3, <2>4
<1>2. Listed(keys, 1)
  <2>1. /\ keys \in Seq(DOMAIN claimed)
        /\ \A n \in DOMAIN claimed : \E i \in DOMAIN keys : keys[i] = n
        /\ \A i, j \in DOMAIN keys : i < j => keys[i] < keys[j]
    BY <1>1, AscendingEnumerates
  <2> HIDE DEF keys
  <2>2. \A i \in DOMAIN keys : keys[i] \in Nat /\ keys[i] > 1
    <3>1. \A i \in DOMAIN keys : keys[i] \in DOMAIN claimed
      BY <2>1
    <3> QED BY <3>1 DEF TypeOK
  <2> QED BY <2>1, <2>2 DEF Listed, Behind
<1> HIDE DEF keys
<1>3. Listed(two, 2)
  <2>1. Listed(keys, 2 - 1) /\ 2 \in 2..4
    BY <1>2
  <2> QED BY <2>1, MovedToBack
<1> HIDE DEF two
<1>4. Listed(three, 3)
  <2>1. Listed(two, 3 - 1) /\ 3 \in 2..4
    BY <1>3
  <2> QED BY <2>1, MovedToBack
<1> HIDE DEF three
<1>5. Listed(MoveToBack(three, 4), 4)
  <2>1. Listed(three, 4 - 1) /\ 4 \in 2..4
    BY <1>4
  <2> QED BY <2>1, MovedToBack
<1> QED BY <1>5 DEF LogBeforePrim, three, two, keys

LEMMA ListInvInit == Init => ListInv
BY DEF Init, ListInv, Empty

LEMMA ListInvStep ==
  ASSUME Inv, Inv', ListInv, [Next]_vars
  PROVE  ListInv'
<1> USE DEF ListInv
<1>1. CASE RejectImage
  BY <1>1 DEF RejectImage
<1>2. CASE AcceptImage
  BY <1>2 DEF AcceptImage
<1>3. CASE CheckPartition
  <2>1. PICK n \in 0..MaxNumber : CheckOne(n, parts[k + 1])
    BY <1>3 DEF CheckPartition
  <2> DEFINE p == parts[k + 1]
  <2>2. p \in Partition /\ n \in Nat
    <3>1. parts \in Seq(Partition) /\ k \in 0..Len(parts) /\ k < Len(parts)
      BY <1>3 DEF Inv, TypeOK, CheckPartition
    <3> QED BY <2>1, <3>1, GeometryAssumption
  <2>3. pc' \in {"failed", "space", "check"}
    BY <2>1 DEF CheckOne
  <2>4. p.req = n \/ (p.req = 0 /\ n > 5)
    <3>1. IsNumberOf(n, p)
      BY <2>1 DEF CheckOne
    <3>2. CASE p.req # 0
      BY <3>1, <3>2 DEF IsNumberOf
    <3>3. CASE p.req = 0
      <4>1. \A m \in DOMAIN claimed \cup {5} : m < n
        BY <3>1, <3>3 DEF IsNumberOf
      <4> QED BY <2>2, <3>3, <4>1
    <3> QED BY <3>2, <3>3
  <2> HIDE DEF p
  <2>5. claimed' = claimed \/ claimed' = Insert(claimed, n, p)
    BY <2>1 DEF CheckOne, p
  <2>6. CASE claimed' = claimed
    BY <2>3, <2>6
  <2>7. CASE claimed' = Insert(claimed, n, p)
    <3>1. \A m \in DOMAIN claimed' : claimed'[m].req = m \/ (claimed'[m].req = 0 /\ m > 5)
      BY <2>4, <2>7 DEF Insert
    <3> QED BY <2>3, <3>1
  <2> QED BY <2>5, <2>6, <2>7
<1>4. CASE CheckSpace
  BY <1>4 DEF CheckSpace
<1>5. CASE PlacePartition
  <2>1. PICK n \in todo : PlaceOne(n)
    BY <1>5 DEF PlacePartition
  <2>2. claimed' = claimed /\ pc = "place"
    BY <1>5 DEF PlacePartition
  <2>3. CASE pc' = "failed"
    BY <2>2, <2>3
  <2>4. CASE pc' # "failed"
    <3>1. /\ placed' = Insert(placed, n, ExtentOf(n)) /\ todo' = todo \ {n}
          /\ pc' = IF todo' = {} THEN "table" ELSE "place"
      BY <2>1, <2>4 DEF PlaceOne
    <3>2. DOMAIN placed' = DOMAIN placed \cup {n}
      BY <3>1 DEF Insert
    <3> QED BY <2>2, <3>1, <3>2
  <2> QED BY <2>3, <2>4
<1>6. CASE RefuseTable
  BY <1>6 DEF RefuseTable
<1>7. CASE WriteTable
  BY <1>7 DEF WriteTable
<1>8. CASE UNCHANGED vars
  BY <1>8 DEF vars
<1> QED BY <1>1, <1>2, <1>3, <1>4, <1>5, <1>6, <1>7, <1>8 DEF Next, Finished

(* calculateSpaceRequirements places the partitions in the order of the     *)
(* list the code builds, for every card and every image: the values of      *)
(* _partitionMap with the primary ones moved to the back are the order in   *)
(* which the loop meets them, and each starts behind the one before.        *)
THEOREM PlacesInListOrder == Spec => []PlacedInListOrder
<1>1. Init => ListInv
  BY ListInvInit
<1>2. Inv /\ Inv' /\ ListInv /\ [Next]_vars => ListInv'
  BY ListInvStep
<1>3. Inv /\ ListInv => PlacedInListOrder
  <2> SUFFICES ASSUME Inv, ListInv, pc \in {"table", "done"}, Sized,
                      NEW i \in DOMAIN LogBeforePrim, NEW j \in DOMAIN LogBeforePrim, i < j
               PROVE  placed[LogBeforePrim[i]].start < placed[LogBeforePrim[j]].start
    BY DEF PlacedInListOrder
  <2> DEFINE m == LogBeforePrim[i]
             n == LogBeforePrim[j]
  <2>1. TypeOK
    BY DEF Inv
  <2>2. Listed(LogBeforePrim, 4)
    BY <2>1, ListIsInOrder
  <2>3. m \in DOMAIN claimed /\ n \in DOMAIN claimed /\ Behind(4, m, n)
    BY <2>2 DEF Listed
  <2> HIDE DEF m, n
  <2>4. m \in DOMAIN placed /\ n \in DOMAIN placed /\ m \in Nat /\ n \in Nat
    BY <2>1, <2>3 DEF ListInv, TypeOK
  <2>5. Precedes(m, n)
    BY <2>3, <2>4 DEF Behind, Precedes, IsLogical
  <2>6. End(placed[m]) < placed[n].start /\ placed[m].size > 0
    BY <2>4, <2>5 DEF Inv, InOrder, BehindCursor
  <2>7. placed[m] \in Extent /\ placed[n] \in Extent
    BY <2>1, <2>4 DEF TypeOK
  <2>8. placed[m].start < placed[n].start
    BY <2>6, <2>7 DEF Extent, End
  <2> QED BY <2>8 DEF m, n
<1> QED BY <1>1, <1>2, <1>3, InvHolds, PTL DEF Spec
=============================================================================
