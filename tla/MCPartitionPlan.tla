--------------------------- MODULE MCPartitionPlan ---------------------------
(***************************************************************************)
(* Instances of PartitionPlan for TLC.  The alignment, the gap and the     *)
(* sectors of a MB are the code's; the card is small so that the space     *)
(* check is met exactly, missed by one MB and passed with room to spare.   *)
(***************************************************************************)
EXTENDS PartitionPlan, SequencesExt

CONSTANTS
  MaxParts,       \* partitions in an image
  SizesMB,        \* values of partition_size_nominal
  FixedOffsets    \* values of offset_in_sectors, apart from "none"

Plain(req, sizeMB) == [req |-> req, nominalMB |-> sizeMB, maximised |-> FALSE,
                       raw |-> FALSE, fixed |-> 0]

(* What partitions ask for: a number of every class, to be maximised, to be *)
(* raw, and a place of their own, on and off the alignment grid.            *)
SomePartition ==
  {Plain(0, s) : s \in SizesMB}
  \cup {Plain(r, s) : r \in {2, 3, 4, 7}, s \in SizesMB \ {16}} \cup {Plain(5, 4)}
  \cup {[Plain(0, s) EXCEPT !.maximised = TRUE] : s \in SizesMB}
  \cup {[Plain(0, s) EXCEPT !.raw = TRUE] : s \in SizesMB}
  \cup {[Plain(r, 4) EXCEPT !.maximised = TRUE, !.raw = (r = 0)] : r \in {0, 3}}
  \cup {[Plain(r, 4) EXCEPT !.fixed = f] : r \in {0, 2}, f \in FixedOffsets}

MCImages ==
  [partitions : BoundedSeq(SomePartition, MaxParts), risc : BOOLEAN]
=============================================================================
