----------------------------- MODULE MCProvision -----------------------------
(***************************************************************************)
(* Instances of Provision for TLC: two OSes whose tables differ and share  *)
(* a number, with every kind of partition and one setup script between     *)
(* them.                                                                   *)
(***************************************************************************)
EXTENDS Provision

CONSTANTS A, B

P(no, kind) == [no |-> no, kind |-> kind]

MCLayout ==
  [o \in OSes |-> IF o = A THEN <<P(6, "tar"), P(7, "raw")>>
                           ELSE <<P(2, "mkfs"), P(6, "tar"), P(8, "none")>>]

MCHasScript == [o \in OSes |-> o = A]

CommandLine(partition, webserver) == [partition |-> partition, webserver |-> webserver]

(* The device serves requests, or shows its menu and is told a partition.   *)
RestOnly == {CommandLine(Absent, TRUE)}
RestAndMenu == RestOnly \cup {CommandLine(7, FALSE)}

MCDevices == {2, 7, Garbage, Unprefixed}
=============================================================================
