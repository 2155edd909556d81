---------------------------- MODULE PartitionPlan ----------------------------
(***************************************************************************)
(* How InstallManager turns the partition list of an OS image into a       *)
(* partition table: checkImage and checkPartition give every partition a   *)
(* number and add up the space, calculateSpaceRequirements gives it a      *)
(* start sector and a size, and writePartitionTable adds the recovery,     *)
(* settings and extended partitions and hands the rows to sfdisk.          *)
(*                                                                         *)
(* One behaviour is one installation request.  Sizes are in sectors unless *)
(* the name says MB; the partition list is read-only input.                *)
(***************************************************************************)
EXTENDS Integers, Sequences, FiniteSets

CONSTANTS
  PARTITION_ALIGNMENT,  \* start sectors are multiples of this (4 MiB)
  PARTITION_GAP,        \* sectors kept free in front of a logical partition
  SectorsPerMB,         \* 2048 in the code
  RISCOS_SECTOR_OFFSET, \* where RISC OS insists to live
  StartP1, SizeP1,      \* the FAT recovery partition
  StartP5, SizeP5,      \* the ext4 settings partition
  TotalSectors,         \* size of the card
  MaxNumber,            \* bound: highest partition number an image reaches
  Images                \* the OS images that may be requested

(* What the JSON says of one partition: the required number (0: none), the  *)
(* nominal size in MB, want_maximised, "raw" as filesystem type, and the    *)
(* fixed offset in sectors (0: none).                                       *)
Partition == [req : 0..MaxNumber, nominalMB : Nat, maximised : BOOLEAN,
              raw : BOOLEAN, fixed : Nat]

Extent == [start : Int, size : Int]

(* The card is the one PreSetup leaves behind: the settings partition lies  *)
(* behind the recovery partition with room for its EBR, and ends PARTITION_ *)
(* GAP sectors short of an alignment boundary.                              *)
ASSUME GeometryAssumption ==
  /\ PARTITION_ALIGNMENT \in Nat \ {0}
  /\ SectorsPerMB \in Nat \ {0}
  /\ PARTITION_GAP \in 1..(SectorsPerMB - 1)
  /\ RISCOS_SECTOR_OFFSET \in Nat
  /\ StartP1 \in Nat \ {0} /\ SizeP1 \in Nat \ {0}
  /\ StartP5 \in Nat /\ SizeP5 \in Nat \ {0}
  /\ StartP1 + SizeP1 < StartP5
  /\ TotalSectors \in Nat
  /\ StartP5 + SizeP5 <= TotalSectors
  /\ MaxNumber \in Nat /\ MaxNumber >= 7

ASSUME AlignedAssumption ==
  /\ (StartP5 + SizeP5 + PARTITION_GAP) % PARTITION_ALIGNMENT = 0
  /\ RISCOS_SECTOR_OFFSET % PARTITION_ALIGNMENT = 0
  /\ PARTITION_ALIGNMENT % SectorsPerMB = 0

ASSUME ImagesAssumption ==
  \A img \in Images : /\ img.partitions \in Seq(Partition)
                      /\ img.risc \in BOOLEAN

VARIABLES
  pc,         \* "image", "check", "space", "place", "table", "done", "failed"
  settings,   \* does /dev/mmcblk0p5 exist?
  image,      \* the requested image
  parts,      \* its partitions, after checkImage adjusted them
  k,          \* how many of them checkPartition has accepted
  claimed,    \* _partitionMap: number -> partition
  totalMB,    \* _totalnominalsize
  numexpand,  \* _numexpandparts
  extraMB,    \* _extraSpacePerPartition
  offset,     \* calculateSpaceRequirements' cursor
  todo,       \* numbers of claimed that have no place yet
  placed,     \* number -> the extent calculateSpaceRequirements gave it
  table       \* the rows handed to sfdisk: number -> extent

vars == <<pc, settings, image, parts, k, claimed, totalMB, numexpand, extraMB,
          offset, todo, placed, table>>

End(e) == e.start + e.size

(* A function with one more (or one replaced) entry: QMap::insert.          *)
Insert(f, key, value) ==
  [x \in DOMAIN f \cup {key} |-> IF x = key THEN value ELSE f[x]]

Empty == [x \in {} |-> 0]

(***************************************************************************)
(* InstallManager::InstallManager                                          *)
(***************************************************************************)
(* The first sector behind the settings partition; sysfs has no file for a  *)
(* partition that is not there, and the empty string reads as 0.            *)
StartSector == IF settings THEN StartP5 + SizeP5 ELSE 0

AvailableMB == (TotalSectors - StartSector) \div SectorsPerMB

Init ==
  /\ pc = "image"
  /\ settings \in BOOLEAN
  /\ image \in Images
  /\ parts = image.partitions
  /\ k = 0
  /\ claimed = Empty
  /\ totalMB = 0 /\ numexpand = 0 /\ extraMB = 0
  /\ offset = 0
  /\ todo = {} /\ placed = Empty /\ table = Empty

(***************************************************************************)
(* InstallManager::checkImage                                              *)
(***************************************************************************)
(* RISC OS: the first partition must be number 6 at the fixed offset, the   *)
(* last one number 7.                                                       *)
RiscosPartitions(ps) ==
  [i \in DOMAIN ps |->
     [ps[i] EXCEPT !.req   = IF i = Len(ps) THEN 7 ELSE IF i = 1 THEN 6 ELSE @,
                   !.fixed = IF i = 1 THEN RISCOS_SECTOR_OFFSET ELSE @]]

RiscosDoesNotFit == StartSector > RISCOS_SECTOR_OFFSET - SectorsPerMB

RejectImage ==
  /\ pc = "image"
  /\ \/ image.partitions = <<>>
     \/ image.risc /\ RiscosDoesNotFit
  /\ pc' = "failed"
  /\ UNCHANGED <<settings, image, parts, k, claimed, totalMB, numexpand,
                 extraMB, offset, todo, placed, table>>

AcceptImage ==
  /\ pc = "image"
  /\ image.partitions # <<>>
  /\ \/ ~image.risc /\ UNCHANGED <<parts, totalMB>>
     \/ /\ image.risc /\ ~RiscosDoesNotFit
        /\ parts' = RiscosPartitions(parts)
        /\ totalMB' = totalMB + (RISCOS_SECTOR_OFFSET - StartSector) \div SectorsPerMB
  /\ pc' = "check"
  /\ UNCHANGED <<settings, image, k, claimed, numexpand, extraMB, offset,
                 todo, placed, table>>

(***************************************************************************)
(* InstallManager::checkPartition                                          *)
(***************************************************************************)
(* The number partition p gets: the one it requires, else one above the     *)
(* highest one claimed so far, and never below 6.                           *)
IsNumberOf(n, p) ==
  IF p.req # 0 THEN n = p.req
  ELSE LET taken == DOMAIN claimed \cup {5}
       IN  n - 1 \in taken /\ \A m \in taken : m < n

(* Mutant: the exclusion of 2 next to 4 is only tested in one direction.    *)
Conflict_OneWay(n) ==
  \/ n \in DOMAIN claimed
  \/ n \in {1, 5}
  \/ n = 2 /\ 4 \in DOMAIN claimed

(* Mutant: an image may claim the system partitions.                        *)
Conflict_SystemAllowed(n) ==
  \/ n \in DOMAIN claimed
  \/ n = 2 /\ 4 \in DOMAIN claimed
  \/ n = 4 /\ 2 \in DOMAIN claimed

Conflict(n) ==
  \/ n \in DOMAIN claimed
  \/ n \in {1, 5}
  \/ n = 2 /\ 4 \in DOMAIN claimed
  \/ n = 4 /\ 2 \in DOMAIN claimed

(* Mutant: only partitions of unaligned size are charged for alignment.     *)
AlignmentOverheadMB_UnalignedOnly(p) ==
  IF (p.nominalMB * SectorsPerMB) % PARTITION_ALIGNMENT # 0
  THEN PARTITION_ALIGNMENT \div SectorsPerMB
  ELSE 0

(* The space, in MB, that aligning the next partition may cost.             *)
AlignmentOverheadMB(p) ==
  IF p.maximised \/ (p.nominalMB * SectorsPerMB) % PARTITION_ALIGNMENT # 0
  THEN PARTITION_ALIGNMENT \div SectorsPerMB
  ELSE 0

CheckOne(n, p) ==
  /\ IsNumberOf(n, p)
  /\ numexpand' = numexpand + (IF p.maximised THEN 1 ELSE 0)
  /\ \/ /\ Conflict(n)
        /\ totalMB' = totalMB + p.nominalMB
        /\ pc' = "failed"
        /\ UNCHANGED <<k, claimed>>
     \/ /\ ~Conflict(n)
        /\ totalMB' = totalMB + p.nominalMB + AlignmentOverheadMB(p)
        /\ claimed' = Insert(claimed, n, p)
        /\ k' = k + 1
        /\ pc' = IF k' = Len(parts) THEN "space" ELSE "check"

CheckPartition ==
  /\ pc = "check" /\ k < Len(parts)
  /\ \E n \in 0..MaxNumber : CheckOne(n, parts[k + 1])
  /\ UNCHANGED <<settings, image, parts, extraMB, offset, todo, placed, table>>

(***************************************************************************)
(* InstallManager::calculateSpaceRequirements                              *)
(***************************************************************************)
NotEnoughSpace == totalMB > AvailableMB

CheckSpace ==
  /\ pc = "space"
  /\ extraMB' = IF numexpand > 0 THEN (AvailableMB - totalMB) \div numexpand
                                 ELSE extraMB
  /\ \/ NotEnoughSpace /\ pc' = "failed" /\ UNCHANGED <<offset, todo>>
     \/ /\ ~NotEnoughSpace
        /\ pc' = "place"
        /\ offset' = StartSector
        /\ todo' = DOMAIN claimed
  /\ UNCHANGED <<settings, image, parts, k, claimed, totalMB, numexpand,
                 placed, table>>

(* log_before_prim: the map's values in ascending number, those requiring   *)
(* 2, 3 and 4 moved to the back one after the other.                        *)
IsLogical(n) == n > 4

(* Mutant: plain ascending order, primaries first.                          *)
Precedes_ByNumber(m, n) == m < n

Precedes(m, n) ==
  \/ IsLogical(m) /\ ~IsLogical(n)
  \/ IsLogical(m) = IsLogical(n) /\ m < n

(* The list as the code builds it: the values of _partitionMap in the order *)
(* of their keys, then the head moved to the back when it requires 2, then  *)
(* 3, then 4.                                                               *)
Ascending(S) ==
  CHOOSE s \in [1..Cardinality(S) -> S] : \A i, j \in DOMAIN s : i < j => s[i] < s[j]

MoveToBack(s, number) ==
  IF s # <<>> /\ claimed[Head(s)].req = number THEN Append(Tail(s), Head(s)) ELSE s

LogBeforePrim ==
  MoveToBack(MoveToBack(MoveToBack(Ascending(DOMAIN claimed), 2), 3), 4)

AlignUp(x) ==
  IF x % PARTITION_ALIGNMENT = 0 THEN x
  ELSE x + (PARTITION_ALIGNMENT - (x % PARTITION_ALIGNMENT))

(* Mutant: the next partition is aligned without room for its EBR.          *)
NextStart_NoGap == AlignUp(offset)

NextStart == AlignUp(offset + PARTITION_GAP)

WantedSectors(p) ==
  (p.nominalMB + (IF p.maximised THEN extraMB ELSE 0)) * SectorsPerMB

(* Mutant: the partition is never shrunk.                                   *)
Shrink_Never(p, s) == s

(* Make room for the next EBR inside a partition whose size is aligned.     *)
Shrink(p, s) ==
  IF s % PARTITION_ALIGNMENT = 0 /\ ~p.raw THEN s - PARTITION_GAP ELSE s

(* Close the gap in front of the next partition.                            *)
Enlarge(p, s) ==
  IF p.maximised
  THEN AlignUp(s + PARTITION_GAP) - PARTITION_GAP
  ELSE s

(* The last partition, if it wants to be maximised, takes what is left.     *)
LastSectors(p, start) ==
  LET s == WantedSectors(p)
  IN  IF p.maximised /\ TotalSectors - start - s > 0 THEN TotalSectors - start ELSE s

PartitionSizeSectors(p, start, isLast) ==
  IF isLast THEN LastSectors(p, start) ELSE Enlarge(p, Shrink(p, WantedSectors(p)))

FixedOffsetTooLow(p) == p.fixed # 0 /\ p.fixed <= offset

(* The sector the next partition starts at.                                 *)
StartOf(p) == IF p.fixed # 0 THEN p.fixed ELSE NextStart

ExtentOf(n) ==
  LET p == claimed[n]
  IN  [start |-> StartOf(p),
       size  |-> PartitionSizeSectors(p, StartOf(p), todo = {n})]

PlaceOne(n) ==
  \/ /\ FixedOffsetTooLow(claimed[n])
     /\ pc' = "failed"
     /\ UNCHANGED <<offset, todo, placed>>
  \/ /\ ~FixedOffsetTooLow(claimed[n])
     /\ placed' = Insert(placed, n, ExtentOf(n))
     /\ offset' = End(ExtentOf(n))
     /\ todo' = todo \ {n}
     /\ pc' = IF todo' = {} THEN "table" ELSE "place"

PlacePartition ==
  /\ pc = "place"
  /\ \E n \in todo :
       /\ \A m \in todo \ {n} : Precedes(n, m)
       /\ PlaceOne(n)
  /\ UNCHANGED <<settings, image, parts, k, claimed, totalMB, numexpand,
                 extraMB, table>>

(***************************************************************************)
(* InstallManager::writePartitionTable                                     *)
(***************************************************************************)
P1 == [start |-> StartP1, size |-> SizeP1]
P5 == [start |-> StartP5, size |-> SizeP5]

(* The fixed start of the extended partition.                               *)
StartExtended == StartP1 + SizeP1

ExtendedNumber == IF 2 \in DOMAIN placed THEN 4 ELSE 2

(* Mutant: the sizes read from sysfs are used unchecked.                    *)
SystemTableUnreadable_Never == FALSE

SystemTableUnreadable == ~settings

RefuseTable ==
  /\ pc = "table"
  /\ SystemTableUnreadable
  /\ pc' = "failed"
  /\ UNCHANGED <<settings, image, parts, k, claimed, totalMB, numexpand,
                 extraMB, offset, todo, placed, table>>

(* partitionMap.values().last() is the highest number, so the extended      *)
(* partition ends with the last logical one.                                *)
Rows == Insert(Insert(placed, 1, P1), 5, P5)

ExtendedUpTo(last) ==
  [start |-> StartExtended, size |-> End(Rows[last]) - StartExtended]

WriteTable ==
  /\ pc = "table"
  /\ ~SystemTableUnreadable
  /\ \E last \in DOMAIN Rows :
       /\ \A m \in DOMAIN Rows : m <= last
       /\ table' = Insert(Rows, ExtendedNumber, ExtendedUpTo(last))
  /\ pc' = "done"
  /\ UNCHANGED <<settings, image, parts, k, claimed, totalMB, numexpand,
                 extraMB, offset, todo, placed>>

Finished == pc \in {"done", "failed"} /\ UNCHANGED vars

Next ==
  \/ RejectImage \/ AcceptImage
  \/ CheckPartition
  \/ CheckSpace
  \/ PlacePartition
  \/ RefuseTable \/ WriteTable
  \/ Finished

Spec == Init /\ [][Next]_vars

-----------------------------------------------------------------------------
(***************************************************************************)
(* Properties                                                              *)
(***************************************************************************)
(* Every variable has its type; no image partition ever gets the number of  *)
(* the recovery (1) or of the settings partition (5).                       *)
TypeOK ==
  /\ pc \in {"image", "check", "space", "place", "table", "done", "failed"}
  /\ settings \in BOOLEAN
  /\ image \in Images
  /\ parts \in Seq(Partition)
  /\ k \in 0..Len(parts)
  /\ DOMAIN claimed \subseteq (2..MaxNumber) \ {5}
  /\ claimed \in [DOMAIN claimed -> Partition]
  /\ totalMB \in Nat /\ numexpand \in Nat /\ extraMB \in Int
  /\ offset \in Int
  /\ todo \subseteq DOMAIN claimed
  /\ DOMAIN placed \subseteq DOMAIN claimed
  /\ placed \in [DOMAIN placed -> Extent]
  /\ DOMAIN table \subseteq 1..MaxNumber
  /\ table \in [DOMAIN table -> Extent]

(* Every partition of the image states a size.                              *)
Sized == \A i \in DOMAIN parts : parts[i].nominalMB > 0

(* calculateSpaceRequirements never lets two partitions touch: one ends     *)
(* before the other starts and at least one sector is free between them for *)
(* the EBR, whatever mixture of fixed offsets, alignment, shrinking and     *)
(* maximising the image asks for; and all lie behind the settings partition.*)
RoomForEBR ==
  Sized =>
    /\ \A n \in DOMAIN placed : placed[n].start > StartSector
    /\ \A m, n \in DOMAIN placed :
         m # n => \/ End(placed[m]) < placed[n].start
                  \/ End(placed[n]) < placed[m].start

(* The partitions lie on the card in the order of log_before_prim, logical  *)
(* ones first, so taking the Precedes-least number of todo first is the     *)
(* iteration of calculateSpaceRequirements.                                 *)
PlacedInListOrder ==
  (pc \in {"table", "done"} /\ Sized) =>
    \A i, j \in DOMAIN LogBeforePrim :
      i < j => placed[LogBeforePrim[i]].start < placed[LogBeforePrim[j]].start

(* The table writePartitionTable emits is a legal MBR: the extended         *)
(* partition has a slot nobody claimed, holds exactly the logical           *)
(* partitions, and touches neither the recovery nor any primary partition.  *)
ExtendedHoldsLogicals ==
  (pc = "done" /\ Sized) =>
    LET x == table[ExtendedNumber] IN
    /\ ExtendedNumber \notin DOMAIN placed
    /\ \A n \in DOMAIN table \ {ExtendedNumber} :
         IF IsLogical(n)
         THEN table[n].start > x.start /\ End(table[n]) <= End(x)
         ELSE End(table[n]) <= x.start \/ End(x) <= table[n].start

(* No OS partition ever reaches into the recovery or the settings           *)
(* partition, even when the card was never prepared and the layout was      *)
(* computed from a missing settings partition.                              *)
SystemPartitionsKept ==
  (pc = "done" /\ Sized) =>
    \A n \in DOMAIN placed : placed[n].start > StartP5 + SizeP5

(* The comment in calculateSpaceRequirements: after a partition of aligned  *)
(* size (not raw), or a maximised one, "the next partition can align nicely *)
(* without having a 4 MiB gap".                                             *)
NoAlignmentGap ==
  Sized =>
    \A m, n \in DOMAIN placed :
      (/\ End(placed[m]) < placed[n].start
       /\ \A o \in DOMAIN placed \ {m} :
            placed[o].start > placed[m].start => placed[o].start >= placed[n].start
       /\ claimed[n].fixed = 0
       /\ placed[m].start % PARTITION_ALIGNMENT = 0
       /\ \/ claimed[m].maximised
          \/ ~claimed[m].raw /\ WantedSectors(claimed[m]) % PARTITION_ALIGNMENT = 0)
      => placed[n].start = End(placed[m]) + PARTITION_GAP

(* The images the budget accounts for: no raw partition, no offset of the   *)
(* image's own, and a card whose last MB leaves room for the first gap.     *)
Budgeted ==
  /\ \A i \in DOMAIN image.partitions :
       ~image.partitions[i].raw /\ image.partitions[i].fixed = 0
  /\ (TotalSectors - StartSector) % SectorsPerMB >= PARTITION_GAP

(* checkPartition's space check is sound for them: an image it lets through *)
(* ends on the card.                                                        *)
AllOnCardIfBudgeted ==
  Budgeted /\ pc = "done" => \A n \in DOMAIN placed : End(placed[n]) <= TotalSectors

=============================================================================
