--------------------------- MODULE CardSetupProofs ---------------------------
(***************************************************************************)
(* Proofs about CardSetup, for every geometry of partition 1, with and     *)
(* without failing commands and a RISC OS blob.                            *)
(***************************************************************************)
EXTENDS CardSetup, TLAPS

(***************************************************************************)
(* The inductive invariant                                                 *)
(***************************************************************************)
(* checkAndPrepareSDCard has found no partition 2 or 5 and goes on to make  *)
(* them: the steps before the new table exists, and those after it.         *)
BeforeTable == {"mount", "unmount", "zero", "parted", "resizing", "sfdisk"}
AfterTable  == {"remount", "format", "blob", "finish", "sync", "test", "tested"}

(* The table is ours on the card exactly when the kernel shows it so:       *)
(* sfdisk syncs. What settings partition there is belongs to that table.    *)
TableInv ==
  /\ table.disk = "ours" <=> table.cache = "ours"
  /\ pc \in BeforeTable => table.cache # "ours"
  /\ pc \in AfterTable => table.cache = "ours"

(* /settings is mounted from our table only, and nothing is mounted while   *)
(* the card is rewritten.                                                   *)
MountInv ==
  /\ settings => table.cache = "ours"
  /\ pc \in AfterTable => ~settings
  /\ pc \in {"zero", "parted", "resizing", "sfdisk"} => ~systems

(* Files are stored only under our table, never while it is being made, and *)
(* reach the card at once.                                                  *)
ContentInv ==
  /\ content.cache = "used" <=> content.disk = "used"
  /\ content.cache = "used" => table.cache = "ours"
  /\ pc \in AfterTable => content.cache # "used"
  /\ pc \in {"blob", "finish", "sync"} => content.cache # "nothing"
  /\ pc \in {"test", "tested"} => content.cache # "nothing" /\ content.disk # "nothing"

(* Once prepared, nothing takes table or file system off the card.          *)
ResultInv ==
  result = "prepared" =>
    /\ pc \in {"clear", "reopen", "truncate", "write", "verify", "network", "setup"}
    /\ table.cache = "ours"
    /\ content.cache # "nothing" /\ content.disk # "nothing"

IInv == TypeOK /\ TableInv /\ MountInv /\ ContentInv /\ ResultInv

(***************************************************************************)
(* Lemmas                                                                  *)
(***************************************************************************)
(* mountSystemsPartition changes nothing but the mount and the position.    *)
LEMMA MountSystemsEffect ==
  ASSUME NEW from, NEW to, NEW elsewhere, systems \in BOOLEAN,
         MountSystems(from, to, elsewhere)
  PROVE  /\ systems' \in BOOLEAN
         /\ pc = from /\ pc' \in {to, elsewhere}
         /\ UNCHANGED <<card, geometry, settings, told>>
BY Zenon DEF MountSystems, Goto, mounts

(* unmountSystemsPartition likewise, and the code goes on as planned only   *)
(* if /mnt is unmounted.                                                    *)
LEMMA UnmountSystemsEffect ==
  ASSUME NEW from, NEW to, NEW elsewhere, systems \in BOOLEAN,
         UnmountSystems(from, to, elsewhere)
  PROVE  /\ systems' \in BOOLEAN
         /\ pc = from /\ pc' \in {to, elsewhere}
         /\ pc' # elsewhere => ~systems'
         /\ UNCHANGED <<card, geometry, settings, told>>
BY Zenon DEF UnmountSystems, Goto, mounts

(* mountSettingsPartition mounts only a formatted partition of our table.   *)
LEMMA MountSettingsEffect ==
  ASSUME NEW from, NEW to, settings \in BOOLEAN, MountSettings(from, to)
  PROVE  /\ settings' \in BOOLEAN
         /\ settings' => settings \/ table.cache = "ours"
         /\ pc = from /\ pc' = to
         /\ UNCHANGED <<card, geometry, systems, told>>
<1>1. settings' \in (IF ~settings /\ Partitioned /\ content.cache # "nothing"
                    THEN {TRUE} ELSE {settings})
                     \cup (IF MayFail THEN {settings} ELSE {})
  BY DEF MountSettings
<1>2. settings' = settings \/ (settings' = TRUE /\ Partitioned)
  BY <1>1, Zenon
<1> QED BY <1>2, Zenon DEF MountSettings, Goto, Partitioned

(* The card as it was bought satisfies the invariant.                       *)
LEMMA InitInv == Init => IInv
<1> SUFFICES ASSUME Init PROVE IInv
  OBVIOUS
<1>1. systems \in BOOLEAN /\ settings \in BOOLEAN /\ verified \in BOOLEAN
  BY Zenon DEF Init
<1> QED
  BY <1>1, CardAssumption DEF Init, IInv, TypeOK, TableInv, MountInv, ContentInv,
    ResultInv, BeforeTable, AfterTable, Both, Steps, Tables, Contents, Cmdlines

(* Every step of the program, of the kernel and of the power keeps it.      *)
LEMMA NextInv == IInv /\ [Next]_vars => IInv'
<1> SUFFICES ASSUME IInv, [Next]_vars
             PROVE  IInv'
  OBVIOUS
<1> USE CardAssumption DEF IInv, TypeOK, TableInv, MountInv, ContentInv, ResultInv,
      BeforeTable, AfterTable, Steps, Tables, Contents, Cmdlines,
      Goto, card, geometry, mounts, told
<1>1. CASE PowerOn
  BY <1>1 DEF PowerOn
<1>2. CASE Start
  BY <1>2, MountSettingsEffect DEF Start
<1>3. CASE Check
  BY <1>3 DEF Check, Partitioned
<1>4. CASE Mount
  BY <1>4, MountSystemsEffect DEF Mount
<1>5. CASE Unmount
  BY <1>5, UnmountSystemsEffect DEF Unmount
<1>6. CASE ZeroEntries
  BY <1>6 DEF ZeroEntries
<1>7. CASE PartedBegins
  BY <1>7 DEF PartedBegins
<1>8. CASE Fails("parted", "failed")
  BY <1>8 DEF Fails
<1>9. CASE PartedEnds
  BY <1>9 DEF PartedEnds, NewStart, PARTITION_ALIGNMENT, Both
<1>10. CASE Sfdisk
  BY <1>10 DEF Sfdisk, Both
<1>11. CASE Fails("sfdisk", "failed")
  BY <1>11 DEF Fails
<1>12. CASE Remount
  BY <1>12, MountSystemsEffect DEF Remount
<1>13. CASE FormatSettings
  BY <1>13 DEF FormatSettings
<1>14. CASE Fails("format", "failed")
  BY <1>14 DEF Fails
<1>15. CASE WriteRiscOSblob
  BY <1>15 DEF WriteRiscOSblob, Fails
<1>16. CASE Finish
  BY <1>16, UnmountSystemsEffect DEF Finish
<1>17. CASE Sync
  BY <1>17 DEF Sync, Flushed, Both
<1>18. CASE Test
  BY <1>18, MountSystemsEffect DEF Test
<1>19. CASE Tested
  BY <1>19 DEF Tested
<1>20. CASE Failed
  BY <1>20 DEF Failed
<1>21. CASE Clear
  BY <1>21, MountSystemsEffect DEF Clear
<1>22. CASE Reopen
  BY <1>22 DEF Reopen
<1>23. CASE Truncate
  BY <1>23 DEF Truncate
<1>24. CASE Fails("truncate", "network")
  BY <1>24 DEF Fails
<1>25. CASE Write
  BY <1>25 DEF Write, Fails
<1>26. CASE Verify
  BY <1>26 DEF Verify
<1>27. CASE StartNetworking
  BY <1>27, MountSettingsEffect DEF StartNetworking
<1>28. CASE Use
  BY <1>28 DEF Use, Both
<1>29. CASE Writeback
  BY <1>29 DEF Writeback, Flushed, Both
<1>30. CASE PowerCut
  BY <1>30 DEF PowerCut, Both
<1>31. CASE UNCHANGED vars
  BY <1>31 DEF vars
<1> QED
  BY <1>1, <1>2, <1>3, <1>4, <1>5, <1>6, <1>7, <1>8, <1>9, <1>10, <1>11,
     <1>12, <1>13, <1>14, <1>15, <1>16, <1>17, <1>18, <1>19, <1>20, <1>21,
     <1>22, <1>23, <1>24, <1>25, <1>26, <1>27, <1>28, <1>29, <1>30, <1>31
  DEF Next, Program, CheckAndPrepareSDCard, ResizePartitions, ClearCMDline

(* The invariant holds in every reachable state.                            *)
LEMMA Invariance == Spec => []IInv
BY InitInv, NextInv, PTL DEF Spec

(* The row sfdisk gets for the settings partition, for every start and size *)
(* of partition 1: resizePartitions rounds up to the next 4 MiB boundary.   *)
LEMMA SettingsRow ==
  ASSUME NEW s \in Nat, NEW n \in Nat
  PROVE  LET first == startOfSettings(s, n)
             least == startOfExtended(s, n) + PARTITION_GAP
         IN /\ first % PARTITION_ALIGNMENT = 0
            /\ first >= least /\ first < least + PARTITION_ALIGNMENT
<1> DEFINE least == s + n + 2
<1>1. least \in Nat
  OBVIOUS
<1> HIDE DEF least
<1>2. /\ least % 8192 \in 0..8191
      /\ (least + (8192 - (least % 8192))) % 8192 = 0
  BY <1>1, Z3
<1>3. startOfExtended(s, n) + PARTITION_GAP = least
  BY DEF startOfExtended, PARTITION_GAP, least
<1> QED
  BY <1>1, <1>2, <1>3 DEF startOfSettings, PARTITION_ALIGNMENT

-----------------------------------------------------------------------------
(***************************************************************************)
(* Theorems                                                                *)
(***************************************************************************)
(* Whatever fails and whenever the power is cut: checkAndPrepareSDCard      *)
(* rewrites table and file systems only while nothing of the card is        *)
(* mounted, puts the settings partition on a 4 MiB boundary with room for   *)
(* its boot record, and what it reports as prepared is on the card.         *)
THEOREM PreparesSafely == Spec => []PreparedSafely
<1>1. IInv => PreparedSafely
  <2> SUFFICES ASSUME IInv PROVE PreparedSafely
    OBVIOUS
  <2>1. TypeOK
    BY DEF IInv
  <2>2. NothingMountedWhenWritten
    BY DEF IInv, TableInv, MountInv, BeforeTable, AfterTable, NothingMountedWhenWritten
  <2>3. SettingsPlaced
    BY <2>1, SettingsRow, CardAssumption DEF TypeOK, SettingsPlaced
  <2>4. PreparedIsDurable
    BY DEF IInv, TableInv, ResultInv, PreparedIsDurable
  <2> QED BY <2>1, <2>2, <2>3, <2>4 DEF PreparedSafely
<1> QED BY <1>1, Invariance, PTL

(* No step of checkAndPrepareSDCard, of the kernel or of the power takes    *)
(* away what is stored in the settings partition: its format is reached     *)
(* only from a card without partitions 2 and 5.                             *)
THEOREM KeepsStored == Spec => StoredIsKept
<1>1. IInv /\ [Next]_vars => [content.disk = "used" => content'.disk = "used"]_vars
  <2> SUFFICES ASSUME IInv, Next, content.disk = "used"
               PROVE  content'.disk = "used"
    OBVIOUS
  <2> USE DEF IInv, TypeOK, ContentInv, AfterTable, Contents
  <2>1. content.cache = "used" /\ content = Both("used") /\ pc # "format" /\ pc # "sync"
    BY DEF Both
  <2>2. UNCHANGED content \/ Use \/ Writeback \/ PowerCut
    BY <2>1 DEF Next, PowerOn, Program, Start, Check, Mount, Unmount, ZeroEntries,
      PartedBegins, PartedEnds, Sfdisk, Remount, FormatSettings, WriteRiscOSblob,
      Finish, Sync, Test, Tested, Failed, Clear, Reopen, Truncate, Write, Verify,
      StartNetworking, MountSettings, MountSystems, UnmountSystems, Fails, Goto, card,
      CheckAndPrepareSDCard, ResizePartitions, ClearCMDline
  <2>3. ASSUME Use \/ Writeback \/ PowerCut PROVE content' = content
    BY <2>1, <2>3 DEF Use, Writeback, PowerCut, Flushed, Both
  <2> QED BY <2>2, <2>3
<1> QED BY <1>1, Invariance, PTL DEF Spec, StoredIsKept
=============================================================================
