------------------------------ MODULE CardSetup ------------------------------
(***************************************************************************)
(* PreSetup: a card as it was bought gets an extended partition with the   *)
(* settings partition in it, and runinstaller is taken off the kernel      *)
(* command line. Power may be cut between any two steps; what was written  *)
(* but not synced is then on the card or not. Any command may fail.        *)
(***************************************************************************)
EXTENDS Naturals

CONSTANTS
  MayFail,        \* may a command fail?
  HasRiscOSBlob,  \* is there a riscos-boot.bin on the recovery partition?
  Starts, Sizes   \* possible start and size of partition 1, in sectors

PARTITION_ALIGNMENT == 8192
PARTITION_GAP == 2
SETTINGS_PARTITION_SIZE == 32 * 2048 - PARTITION_GAP

ASSUME CardAssumption ==
  /\ MayFail \in BOOLEAN /\ HasRiscOSBlob \in BOOLEAN
  /\ Starts \subseteq Nat /\ Sizes \subseteq Nat

(* Partition tables: as bought (partition 1 only), with the entries 2 to 4  *)
(* zeroed, and ours with the extended and the settings partition.           *)
Tables == {"factory", "zeroed", "ours"}

(* What the settings partition holds. "used": files of the program.         *)
Contents == {"nothing", "formatted", "used"}

Cmdlines == {"runinstaller", "empty", "clean"}

VARIABLES
  pc,        \* where the program stands
  start,     \* start of partition 1, as sfdisk is told
  size,      \* its size
  table,     \* partition table: [cache |-> as the kernel sees it, disk |-> on the card]
  content,   \* the settings partition, likewise
  cmdline,   \* cmdline.txt, likewise
  recovery,  \* partition 1: "ok", "moving" while parted works on it, "broken"
  systems,   \* is partition 1 mounted on /mnt?
  settings,  \* is partition 5 mounted on /settings?
  verified,  \* did clearCMDline return true, in this boot?
  result     \* what checkAndPrepareSDCard returned in this boot: "already" or
             \* "prepared" (true), or "false"

card == <<table, content, cmdline, recovery>>
geometry == <<start, size>>
mounts == <<systems, settings>>
told == <<verified, result>>
vars == <<pc, card, geometry, mounts, told>>

Both(v) == [cache |-> v, disk |-> v]

Init ==
  /\ pc = "off"
  /\ start \in Starts /\ size \in Sizes
  /\ table = Both("factory") /\ content = Both("nothing")
  /\ cmdline = Both("runinstaller")
  /\ recovery = "ok"
  /\ systems = FALSE /\ settings = FALSE
  /\ verified = FALSE /\ result = "none"

Goto(from, to) == pc = from /\ pc' = to

(* A command that fails takes the code to elsewhere.                        *)
Fails(from, elsewhere) ==
  /\ MayFail
  /\ Goto(from, elsewhere)
  /\ UNCHANGED <<card, geometry, mounts, told>>

(* QFile::exists of partition 2 and partition 5.                            *)
Partitioned == table.cache = "ours"

(***************************************************************************)
(* mount and umount. partitionIsMounted never says yes (there is no shell  *)
(* to read the pipe), so a partition that is mounted is mounted again,     *)
(* which fails.                                                            *)
(***************************************************************************)
(* mountSystemsPartition: if it returns false the code goes to elsewhere.   *)
MountSystems(from, to, elsewhere) ==
  \/ /\ ~systems
     /\ Goto(from, to)
     /\ systems' = TRUE
     /\ UNCHANGED <<card, geometry, settings, told>>
  \/ /\ systems \/ MayFail
     /\ Goto(from, elsewhere)
     /\ UNCHANGED <<card, geometry, mounts, told>>

(* unmountSystemsPartition                                                  *)
UnmountSystems(from, to, elsewhere) ==
  \/ /\ systems
     /\ Goto(from, to)
     /\ systems' = FALSE
     /\ UNCHANGED <<card, geometry, settings, told>>
  \/ /\ ~systems \/ MayFail
     /\ Goto(from, elsewhere)
     /\ UNCHANGED <<card, geometry, mounts, told>>

(* mountSettingsPartition, whose result nobody acts upon: ext4 mounts what  *)
(* mkfs has made.                                                           *)
MountSettings(from, to) ==
  /\ Goto(from, to)
  /\ settings' \in
       (IF ~settings /\ Partitioned /\ content.cache # "nothing" THEN {TRUE} ELSE {settings})
         \cup (IF MayFail THEN {settings} ELSE {})
  /\ UNCHANGED <<card, geometry, systems, told>>

(***************************************************************************)
(* run, as far as setup mode                                               *)
(***************************************************************************)
(* A broken recovery partition does not start any more.                     *)
PowerOn ==
  /\ Goto("off", "start")
  /\ recovery = "ok" /\ cmdline.disk # "empty"
  /\ UNCHANGED <<card, geometry, mounts, told>>

Start == MountSettings("start", "check")

(* Mutant: only the settings partition's file system is asked for.          *)
Check_ByMount ==
  /\ pc = "check"
  /\ IF settings
     THEN pc' = "clear" /\ result' = "already"
     ELSE pc' = "mount" /\ result' = "none"
  /\ UNCHANGED <<card, geometry, mounts, verified>>

(* The card is there (the program waits for it, and was itself read from    *)
(* it). Is it formatted already?                                            *)
Check ==
  /\ pc = "check"
  /\ IF Partitioned
     THEN pc' = "clear" /\ result' = "already"
     ELSE pc' = "mount" /\ result' = "none"
  /\ UNCHANGED <<card, geometry, mounts, verified>>

Mount == MountSystems("mount", "unmount", "failed")

(***************************************************************************)
(* resizePartitions                                                        *)
(***************************************************************************)
(* Mutant: the table is rewritten although /mnt is still mounted.           *)
Unmount_Unchecked == UnmountSystems("unmount", "zero", "zero")

Unmount == UnmountSystems("unmount", "zero", "failed")

(* Partition table entries 2 to 4 are zeroed through the block device. If   *)
(* partition 1 is missing, there is no partition table.                     *)
ZeroEntries ==
  /\ Goto("zero", "parted")
  /\ table' = [table EXCEPT !.cache = "zeroed"]
  /\ UNCHANGED <<content, cmdline, recovery, geometry, mounts, told>>

(* A start that is not on a MiB boundary becomes 4 MiB.                     *)
NewStart(s) == IF s < 2048 \/ s % 2048 # 0 THEN PARTITION_ALIGNMENT ELSE s

(* parted moves and resizes the file system: until it is done the partition *)
(* is unusable.                                                             *)
PartedBegins ==
  /\ Goto("parted", "resizing")
  /\ recovery' = "moving"
  /\ UNCHANGED <<table, content, cmdline, geometry, mounts, told>>

PartedEnds ==
  /\ Goto("resizing", "sfdisk")
  /\ recovery' = "ok"
  /\ table' = Both(table.cache)
  /\ start' = NewStart(start)
  /\ size' \in Sizes
  /\ UNCHANGED <<content, cmdline, mounts, told>>

(* The rows given to sfdisk.                                                *)
startOfExtended(s, n) == s + n
startOfSettings(s, n) ==
  LET first == startOfExtended(s, n) + PARTITION_GAP
  IN IF first % PARTITION_ALIGNMENT = 0 THEN first
     ELSE first + (PARTITION_ALIGNMENT - (first % PARTITION_ALIGNMENT))

(* sfdisk (which syncs), partprobe if partition 1 is missing, and mlabel.   *)
Sfdisk ==
  /\ Goto("sfdisk", "remount")
  /\ table' = Both("ours")
  /\ UNCHANGED <<content, cmdline, recovery, geometry, mounts, told>>

Remount == MountSystems("remount", "format", "failed")

(***************************************************************************)
(* checkAndPrepareSDCard goes on                                           *)
(***************************************************************************)
FormatSettings ==
  /\ Goto("format", "blob")
  /\ content' = [content EXCEPT !.cache = "formatted"]
  /\ UNCHANGED <<table, cmdline, recovery, geometry, mounts, told>>

WriteRiscOSblob ==
  \/ /\ Goto("blob", "finish")
     /\ UNCHANGED <<card, geometry, mounts, told>>
  \/ HasRiscOSBlob /\ Fails("blob", "failed")

(* The result of this umount is not looked at.                              *)
Finish == UnmountSystems("finish", "sync", "sync")

Flushed(f) == Both(f.cache)

Sync ==
  /\ Goto("sync", "test")
  /\ table' = Flushed(table) /\ content' = Flushed(content)
  /\ UNCHANGED <<cmdline, recovery, geometry, mounts, told>>

Test == MountSystems("test", "tested", "failed")

(* umount again, and checkAndPrepareSDCard returns true.                    *)
Tested ==
  /\ Goto("tested", "clear")
  /\ systems' \in {FALSE} \cup (IF MayFail THEN {TRUE} ELSE {})
  /\ result' = "prepared"
  /\ UNCHANGED <<card, geometry, settings, verified>>

(* It returns false. run says "aborting" and goes on.                       *)
Failed ==
  /\ Goto("failed", "clear")
  /\ result' = "false"
  /\ UNCHANGED <<card, geometry, mounts, verified>>

(***************************************************************************)
(* clearCMDline                                                            *)
(***************************************************************************)
Clear == MountSystems("clear", "truncate", "reopen")

(* Mutant: it is mounted again until that succeeds.                         *)
Reopen_Retries ==
  /\ Goto("reopen", "clear")
  /\ UNCHANGED <<card, geometry, mounts, told>>

(* /mnt could not be mounted: it was mounted already, or there is no file.  *)
Reopen ==
  /\ Goto("reopen", IF systems THEN "truncate" ELSE "network")
  /\ UNCHANGED <<card, geometry, mounts, told>>

(* open(WriteOnly) empties the file, write fills it.                        *)
Truncate ==
  /\ Goto("truncate", "write")
  /\ cmdline' = [cmdline EXCEPT !.cache = "empty"]
  /\ UNCHANGED <<table, content, recovery, geometry, mounts, told>>

Write ==
  \/ /\ Goto("write", "verify")
     /\ cmdline' = [cmdline EXCEPT !.cache = "clean"]
     /\ UNCHANGED <<table, content, recovery, geometry, mounts, told>>
  \/ Fails("write", "verify")

(* The file is read back, from the page cache.                              *)
Verify ==
  /\ Goto("verify", "network")
  /\ verified' = (cmdline.cache = "clean")
  /\ UNCHANGED <<card, geometry, mounts, result>>

(* startNetworking asks for an address every five seconds until there is    *)
(* one, which may be never; then /settings is mounted again.                *)
StartNetworking == MountSettings("network", "setup")

(* Setup mode: requests leave files in /settings.                           *)
Use ==
  /\ pc = "setup"
  /\ settings
  /\ content' = Both("used")
  /\ UNCHANGED <<pc, table, cmdline, recovery, geometry, mounts, told>>

(***************************************************************************)
(* Kernel and power                                                        *)
(***************************************************************************)
(* The kernel writes dirty pages back when it likes, in any order.          *)
Writeback ==
  /\ pc # "off"
  /\ \/ /\ table.disk # table.cache
        /\ table' = Flushed(table)
        /\ UNCHANGED <<content, cmdline>>
     \/ /\ content.disk # content.cache
        /\ content' = Flushed(content)
        /\ UNCHANGED <<table, cmdline>>
     \/ /\ cmdline.disk # cmdline.cache
        /\ cmdline' = Flushed(cmdline)
        /\ UNCHANGED <<table, content>>
  /\ UNCHANGED <<pc, recovery, geometry, mounts, told>>

PowerCut ==
  /\ pc # "off" /\ pc' = "off"
  /\ table' = Both(table.disk) /\ content' = Both(content.disk)
  /\ cmdline' = Both(cmdline.disk)
  /\ recovery' = IF recovery = "moving" THEN "broken" ELSE recovery
  /\ systems' = FALSE /\ settings' = FALSE
  /\ verified' = FALSE /\ result' = "none"
  /\ UNCHANGED geometry

ResizePartitions ==
  \/ Unmount \/ ZeroEntries
  \/ PartedBegins \/ Fails("parted", "failed") \/ PartedEnds
  \/ Sfdisk \/ Fails("sfdisk", "failed")
  \/ Remount

CheckAndPrepareSDCard ==
  \/ Check \/ Mount \/ ResizePartitions
  \/ FormatSettings \/ Fails("format", "failed")
  \/ WriteRiscOSblob \/ Finish \/ Sync \/ Test \/ Tested \/ Failed

ClearCMDline == Clear \/ Reopen \/ Truncate \/ Fails("truncate", "network") \/ Write \/ Verify

Program == Start \/ CheckAndPrepareSDCard \/ ClearCMDline \/ StartNetworking \/ Use
Next == PowerOn \/ Program \/ Writeback \/ PowerCut

Spec == Init /\ [][Next]_vars

(* The device is switched on and the program never rests, except where it   *)
(* waits for a network: whether one comes is not the program's to say.      *)
FairSpec == Spec /\ WF_vars(PowerOn) /\ WF_vars(pc # "network" /\ Program)

(***************************************************************************)
(* Properties                                                              *)
(***************************************************************************)
Steps == {"off", "start", "check", "mount", "unmount", "zero", "parted", "resizing",
          "sfdisk", "remount", "format", "blob", "finish", "sync", "test", "tested",
          "failed", "clear", "reopen", "truncate", "write", "verify", "network", "setup"}

(* Every variable has its type.                                             *)
TypeOK ==
  /\ pc \in Steps
  /\ start \in Nat /\ size \in Sizes
  /\ table \in [cache : Tables, disk : Tables]
  /\ content \in [cache : Contents, disk : Contents]
  /\ cmdline \in [cache : Cmdlines, disk : Cmdlines]
  /\ recovery \in {"ok", "moving", "broken"}
  /\ systems \in BOOLEAN /\ settings \in BOOLEAN /\ verified \in BOOLEAN
  /\ result \in {"none", "already", "prepared", "false"}

(* The table and the file systems are rewritten only while nothing of the   *)
(* card is mounted (resizePartitions unmounts /mnt first and gives up if it *)
(* cannot; the settings partition does not exist before).                   *)
NothingMountedWhenWritten ==
  /\ pc \in {"zero", "parted", "resizing", "sfdisk"} => ~systems /\ ~settings
  /\ pc = "format" => ~settings

(* Whatever interrupts it, preparing a card never takes away what an        *)
(* earlier boot has stored in the settings partition (the check for the     *)
(* partitions 2 and 5 in checkAndPrepareSDCard).                            *)
StoredIsKept == [][content.disk = "used" => content'.disk = "used"]_vars

(* When checkAndPrepareSDCard has run to its end and says so, table and file *)
(* system are on the card: a power cut does not undo them (its sync).       *)
PreparedIsDurable ==
  result = "prepared" => table.disk = "ours" /\ content.disk # "nothing"

(* The settings partition leaves room for the extended boot record in front *)
(* of it, starts on a 4 MiB boundary, less than 4 MiB further than needed   *)
(* (the rows of resizePartitions).                                          *)
SettingsPlaced ==
  LET first == startOfSettings(start, size)
      least == startOfExtended(start, size) + PARTITION_GAP
  IN /\ first % PARTITION_ALIGNMENT = 0
     /\ first >= least /\ first < least + PARTITION_ALIGNMENT

(* A device that keeps power reaches setup mode, whichever commands fail    *)
(* and also when the card cannot be prepared (run goes on after             *)
(* "aborting"); the one thing that can keep it from there is a network that *)
(* never comes (the loop of startNetworking).                               *)
ReachesSetup ==
  \/ pc = "start" ~> pc \in {"setup", "off"}
  \/ <>[](pc = "network")

(* The card is rewritten only while nothing of it is mounted, the settings  *)
(* partition is where it must be, and what was prepared is on the card      *)
(* (checkAndPrepareSDCard, resizePartitions).                               *)
PreparedSafely ==
  TypeOK /\ NothingMountedWhenWritten /\ SettingsPlaced /\ PreparedIsDurable
=============================================================================
