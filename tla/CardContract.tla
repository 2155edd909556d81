---------------------------- MODULE CardContract -----------------------------
(***************************************************************************)
(* What the card promises to whoever starts from it, however often the     *)
(* power fails: the OS it lists is there, whole.  An OS is only listed     *)
(* when its partitions hold it, and the partitions only change while no OS *)
(* is listed.                                                              *)
(***************************************************************************)
CONSTANTS OSes, NoOS

VARIABLES
  listed,   \* the OS the card says is installed, or NoOS
  holds     \* the OS whose partitions are all complete, or NoOS

Init == listed = NoOS /\ holds = NoOS

Forget == listed' = NoOS /\ UNCHANGED holds

Rewrite == listed = NoOS /\ holds' \in OSes \cup {NoOS} /\ UNCHANGED listed

List == holds # NoOS /\ listed' = holds /\ UNCHANGED holds

Next == Forget \/ Rewrite \/ List

Spec == Init /\ [][Next]_<<listed, holds>>
=============================================================================
