----------------------------- MODULE MCCardSetup -----------------------------
(***************************************************************************)
(* Instances of CardSetup for TLC.                                         *)
(***************************************************************************)
EXTENDS CardSetup

(* Aligned on 4 MiB, on 1 MiB only, and not at all.                         *)
SomeStarts == {8192, 2048, 63}

(* An end on a 4 MiB boundary, just short of one by the gap, and others.    *)
SomeSizes == {212992, 212990, 212991, 210944}
=============================================================================
