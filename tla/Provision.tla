------------------------------ MODULE Provision ------------------------------
(***************************************************************************)
(* The recovery program from power-on to power-off: BootManager decides    *)
(* between booting an installed OS and setup mode, serves the REST         *)
(* requests one after the other, and has InstallManager rewrite the card.  *)
(* Between any two steps the power may be cut or the kernel may commit the *)
(* settings file system; any command the program runs may fail.            *)
(*                                                                         *)
(* The layout of an image is the subject of PartitionPlan; here prepare-   *)
(* Image just succeeds or fails, and the partition table is named by the   *)
(* OS it was computed for.                                                 *)
(***************************************************************************)
EXTENDS Naturals, Sequences, FiniteSets, SettingsFS

CONSTANTS
  OSes,          \* the OS images that may be installed
  Layout,        \* OS -> sequence of [no |-> partition number, kind |-> ...]
  HasScript,     \* OS -> does it come with a partition setup script?
  NoOS, Torn,    \* no OS; a table without the settings partition
  Garbage,       \* "/dev/mmcblk0p" followed by something that is no number
  Unprefixed,    \* a string that does not start with "/dev/mmcblk0p"
  CommandLines,  \* kernel command lines: [partition, webserver]
  Devices,       \* the device strings a user or client sends
  Failures       \* which outside operations may fail

Kinds == {"raw",   \* dd or partclone_restore writes the image
          "tar",   \* mkfs, then a tarball is unpacked
          "mkfs",  \* mkfs only: empty_fs, or no tarball
          "none"}  \* unformatted

FailureKinds ==
  {"mountSettings",  \* mount of the settings partition
   "umount",         \* any umount
   "command",        \* any other command: mount, mkfs, sfdisk, dd, wget, ...
   "io",             \* writing a file
   "remove",         \* removing a file
   "rebootPart"}     \* the kernel has no reboot_part parameter

ASSUME OSAssumption ==
  /\ \A o \in OSes : Layout[o] \in Seq([no : Nat \ {0}, kind : Kinds]) \ {<<>>}
  /\ HasScript \in [OSes -> BOOLEAN]
  /\ NoOS \notin OSes /\ Torn \notin OSes /\ NoOS # Torn

(* checkPartition refuses a number that another partition of the image has. *)
ASSUME NumbersAssumption ==
  \A o \in OSes : \A i, j \in DOMAIN Layout[o] :
    Layout[o][i].no = Layout[o][j].no => i = j

ASSUME FailuresAssumption == Failures \subseteq FailureKinds

PartsOf(o) == {Layout[o][j].no : j \in DOMAIN Layout[o]}
Numbers == UNION {PartsOf(o) : o \in OSes}
FirstPart(o) == Layout[o][1].no

(* What setDefaultBootPartition lets into default_boot_partition.           *)
Prefixed == Numbers \cup {Garbage}

ASSUME ValuesAssumption ==
  /\ CommandLines \subseteq [partition : Prefixed \cup {Unprefixed, Absent},
                             webserver : BOOLEAN]
  /\ Devices \subseteq Prefixed \cup {Unprefixed}
  /\ Absent # Zero
  /\ Absent \notin OSes \cup Prefixed \cup {Unprefixed}
  /\ Zero \notin OSes \cup Prefixed \cup {Unprefixed}
  /\ Garbage \notin OSes \cup Numbers
  /\ Unprefixed \notin Prefixed
  /\ OSes \cap Numbers = {}

VARIABLES
  commandLine, \* one of CommandLines; it never changes
  pc,          \* where the program stands
  fs,          \* the settings file system
  table,       \* the OS the partition table on the card was made for
  image,       \* partition -> what it holds, as the kernel sees it
  imageDisk,   \* partition -> what it holds after a power cut
  systems,     \* is the recovery partition mounted on /mnt?
  mnt2,        \* the partitions mounted on /mnt2, the lowest first
  script,      \* does /tmp/partition_setup.sh exist?
  os,          \* the OS of the current or last installation
  auto,        \* did the request carry the AutoReboot header?
  part,        \* index of the partition writeImage works on
  mountedDir,  \* partitions whose PartitionInfo remembers a mount point
  exitCode,    \* exit code of sfdisk
  caller,      \* who called setDefaultBootPartition or bootIntoPartition
  device,      \* the argument of that call, Absent if there is none
  reply,       \* what the client of the last request was told
  runinstaller,\* "runinstaller" in the kernel command line: it is "there",
               \* "rewritten" (without it, in the page cache only) or "gone"
  bootMode,    \* did bootCheck return true?
  rebootPart   \* the reboot_part parameter the firmware will see, 0 if none

kernel == <<systems, mnt2, script>>
card   == <<table, image, imageDisk>>
job    == <<os, auto, part, mountedDir, exitCode>>
call   == <<caller, device>>
boot   == <<runinstaller, bootMode, rebootPart>>
vars   == <<commandLine, pc, fs, kernel, card, job, call, reply, boot>>

CmdPartition == commandLine.partition  \* the value of partition=, or Absent
Webserver == commandLine.webserver     \* FALSE: no-webserver is there

(* A partition holds <<o, done>>: the image of o, and what writeImage has   *)
(* done in it since: "config", both os_config.json and config.txt, and      *)
(* "setup", the effects of the setup script.                                *)
Deeds == {"config", "setup"}

NoImage == <<NoOS, {}>>
Blank == [p \in Numbers |-> NoImage]

MayFail(what) == what \in Failures

(* What writeImage makes sure of in the first partition of o: that its      *)
(* setup script has run.  The two files are there if no write fails, for    *)
(* writeImage does not learn of every failure.                              *)
Promised(o) == {d \in Deeds : IF d = "setup" THEN HasScript[o] ELSE ~MayFail("io")}

(* The partitions of o all hold their image, and the first one what is      *)
(* promised of it.                                                          *)
Complete(im, o) ==
  /\ \A p \in PartsOf(o) : im[p][1] = o
  /\ Promised(o) \subseteq im[FirstPart(o)][2]

(* The recovery partition is written back.                                  *)
Cleared == IF runinstaller = "rewritten" THEN "gone" ELSE runinstaller

(* sfdisk does not touch a disk that has a mounted partition.               *)
DiskInUse == systems \/ fs.mounted \/ mnt2 # <<>>

(* A prepared card without an OS, at its first boot.                        *)
Init ==
  /\ commandLine \in CommandLines
  /\ pc = "off"
  /\ fs = [mounted |-> FALSE, disk |-> NoFiles, cache |-> NoFiles, ram |-> NoFiles]
  /\ table = NoOS /\ image = Blank /\ imageDisk = Blank
  /\ systems = FALSE /\ mnt2 = <<>> /\ script = FALSE
  /\ os = NoOS /\ auto = FALSE /\ part = 1 /\ mountedDir = {} /\ exitCode = 0
  /\ caller = "boot" /\ device = Absent
  /\ reply = "none"
  /\ runinstaller = "there" /\ bootMode = FALSE /\ rebootPart = 0

Goto(from, to) == pc = from /\ pc' = to

(***************************************************************************)
(* Power, firmware and kernel                                              *)
(***************************************************************************)
(* The firmware starts the partition named by reboot_part if the table has  *)
(* it, and the recovery partition otherwise.                                *)
PowerOn ==
  /\ pc = "off"
  /\ pc' = IF table \in OSes /\ rebootPart \in PartsOf(table) THEN "os" ELSE "start"
  /\ rebootPart' = 0
  /\ UNCHANGED <<fs, kernel, card, job, call, reply, runinstaller, bootMode>>

(* What the program and the kernel kept in memory is gone.                  *)
Off ==
  /\ pc' = "off"
  /\ systems' = FALSE /\ mnt2' = <<>> /\ script' = FALSE
  /\ os' = NoOS /\ auto' = FALSE /\ part' = 1 /\ mountedDir' = {} /\ exitCode' = 0
  /\ caller' = "boot" /\ device' = Absent
  /\ reply' = "none" /\ bootMode' = FALSE

(* The power is cut.  If sfdisk was writing, the table may be half written. *)
PowerLoss ==
  /\ pc # "off"
  /\ Off
  /\ fs' = PowerCut(fs)
  /\ image' = imageDisk
  /\ \/ UNCHANGED table
     \/ pc = "sfdisk" /\ ~DiskInUse /\ table' = Torn
  /\ rebootPart' = 0
  /\ runinstaller' = IF runinstaller = "rewritten" THEN "there" ELSE runinstaller
  /\ UNCHANGED imageDisk

(* The kernel writes back what it has cached.                               *)
Writeback ==
  /\ pc # "off"
  /\ \/ /\ fs.mounted
        /\ \E d \in CommitOutcomes(fs) : fs' = [fs EXCEPT !.disk = d]
        /\ UNCHANGED <<imageDisk, runinstaller>>
     \/ imageDisk' = image /\ UNCHANGED <<fs, runinstaller>>
     \/ runinstaller' = Cleared /\ UNCHANGED <<fs, imageDisk>>
  /\ UNCHANGED <<pc, kernel, table, image, job, call, reply, bootMode, rebootPart>>

(***************************************************************************)
(* Utility::Sys                                                            *)
(***************************************************************************)
(* mountSettingsPartition: partitionIsMounted never finds a mount, so the   *)
(* mount is always tried, and refused when it is there.                     *)
MountSettings(f) ==
  \/ table' # Torn /\ fs' = Mount(f)
  \/ (table' = Torn \/ MayFail("mountSettings")) /\ fs' = f

MountSystems ==
  \/ systems' = TRUE
  \/ MayFail("command") /\ systems' = systems

(* f.exists() and f.remove(), whose result nobody looks at.                 *)
RemoveFile(f) ==
  \/ fs' = Store(fs, f, Absent)
  \/ MayFail("remove") /\ fs' = fs

(***************************************************************************)
(* BootManager::run and BootManager::bootCheck                             *)
(***************************************************************************)
Run ==
  /\ Goto("start", "args")
  /\ UNCHANGED table
  /\ MountSettings(fs)
  /\ UNCHANGED <<kernel, image, imageDisk, job, call, reply, boot>>

HasInstalledOS == Contents(fs, "installed") \in OSes

(* A -partition argument is stored as the default on every boot.            *)
ProcessArgs ==
  /\ pc = "args"
  /\ \/ /\ CmdPartition \in Prefixed
        /\ pc' = "removeDefault"
        /\ caller' = "args" /\ device' = CmdPartition
     \/ /\ CmdPartition \notin Prefixed
        /\ pc' = "decide"
        /\ UNCHANGED call
  /\ UNCHANGED <<fs, kernel, card, job, reply, boot>>

BootCheck ==
  /\ pc = "decide"
  /\ bootMode' = (runinstaller # "there" /\ HasInstalledOS)
  /\ pc' = IF bootMode' THEN "bootInto" ELSE "setup"
  /\ caller' = "boot" /\ device' = Absent
  /\ UNCHANGED <<fs, kernel, card, job, reply, runinstaller, rebootPart>>

(* PreSetup::checkAndPrepareSDCard, as one step: a card with neither        *)
(* partition 2 nor 5 is partitioned and /settings formatted.  A failure is  *)
(* reported, and setup goes on all the same.                                *)
PrepareCard ==
  \/ UNCHANGED card /\ MountSettings(fs)
  \/ /\ table = Torn
     /\ table' = NoOS /\ image' = Blank /\ imageDisk' = Blank
     /\ MountSettings([fs EXCEPT !.disk = NoFiles])

(* PreSetup::clearCMDline, which needs /mnt.                                *)
ClearCMDline ==
  \/ /\ systems'
     /\ runinstaller' = IF runinstaller = "there" THEN "rewritten" ELSE runinstaller
  \/ (~systems' \/ MayFail("io")) /\ UNCHANGED runinstaller

(* Setup mode: the card is prepared, clearCMDline mounts /mnt and takes     *)
(* runinstaller off the command line, the network comes up and /settings is *)
(* mounted once more.                                                       *)
EnterSetup ==
  /\ Goto("setup", "listen")
  /\ PrepareCard
  /\ MountSystems
  /\ ClearCMDline
  /\ UNCHANGED <<mnt2, script, job, call, reply, bootMode, rebootPart>>

(***************************************************************************)
(* Requests to the web server, and the menu of the local mode              *)
(***************************************************************************)
(* An unknown path, JSON that does not parse or describes no valid OS, a    *)
(* device that is no SD card partition, and a selection not in the menu.    *)
RejectRequest ==
  /\ Goto("listen", "listen")
  /\ reply' = IF Webserver THEN "bad" ELSE "none"
  /\ UNCHANGED <<fs, kernel, card, job, call, boot>>

(* POST /os, or menu entry 4: new InstallManager, then installOS.           *)
InstallOS(o) ==
  /\ Goto("listen", "prepare")
  /\ os' = o /\ part' = 1 /\ mountedDir' = {} /\ exitCode' = 0
  /\ auto' \in IF Webserver THEN BOOLEAN ELSE {FALSE}
  /\ MountSystems
  /\ reply' = "none"
  /\ UNCHANGED <<fs, mnt2, script, card, call, boot>>

(* POST /bootPartition, or menu entry 3.                                    *)
SetDefault(d) ==
  /\ Goto("listen", "removeDefault")
  /\ d \in Prefixed
  /\ caller' = "user" /\ device' = d
  /\ reply' = "none"
  /\ UNCHANGED <<fs, kernel, card, job, boot>>

(* POST /reboot, which is answered first, or menu entry 1 or 2.             *)
Reboot(d) ==
  /\ Goto("listen", "bootInto")
  /\ Webserver => d = Absent
  /\ caller' = "user" /\ device' = d
  /\ reply' = IF Webserver THEN "rebooting" ELSE "none"
  /\ UNCHANGED <<fs, kernel, card, job, boot>>

(* POST /exit, or menu entry 5. A client or a download that ends the        *)
(* program (WebServer) leaves the card as this does.                        *)
ExitToShell ==
  /\ Goto("listen", "shell")
  /\ UNCHANGED <<fs, kernel, card, job, call, reply, boot>>

Request ==
  \/ RejectRequest \/ ExitToShell
  \/ \E o \in OSes : InstallOS(o)
  \/ \E d \in Devices : SetDefault(d)
  \/ \E d \in Devices \cup {Absent} : Reboot(d)

(***************************************************************************)
(* BootManager::setDefaultBootPartition                                    *)
(***************************************************************************)
(* Mutant: the old default is left for putFileContents to write over.       *)
RemoveDefault_LeftThere ==
  /\ Goto("removeDefault", "putDefault")
  /\ UNCHANGED <<fs, kernel, card, job, call, reply, boot>>

RemoveDefault ==
  /\ Goto("removeDefault", "putDefault")
  /\ RemoveFile("default")
  /\ UNCHANGED <<kernel, card, job, call, reply, boot>>

AfterDefault == CASE caller = "args"    -> "decide"
                  [] caller = "install" -> "sync"
                  [] OTHER              -> "listen"

AnswerDefault(r) ==
  reply' = IF caller = "user" /\ Webserver THEN r ELSE reply

(* putFileContents does not write over a file.                              *)
PutDefault ==
  /\ Goto("putDefault", AfterDefault)
  /\ \/ /\ Contents(fs, "default") = Absent
        /\ fs' = Store(fs, "default", device)
        /\ AnswerDefault("defaultSet")
     \/ /\ Contents(fs, "default") # Absent \/ MayFail("io")
        /\ \/ fs' = fs
           \/ Contents(fs, "default") = Absent /\ fs' = Store(fs, "default", Zero)
        /\ AnswerDefault("bad")
  /\ UNCHANGED <<kernel, card, job, call, boot>>

(***************************************************************************)
(* InstallManager::installOS up to partitionSDCard                         *)
(***************************************************************************)
(* installOS returns false: the client gets a 500, the menu's case 4 falls  *)
(* through to case 5.                                                       *)
InstallFails ==
  IF Webserver THEN pc' = "listen" /\ reply' = "error"
               ELSE pc' = "shell" /\ UNCHANGED reply

(* prepareImage, which changes nothing but InstallManager's own fields: see *)
(* PartitionPlan.                                                           *)
PrepareImage ==
  /\ pc = "prepare"
  /\ \/ pc' = "removeInstalled" /\ UNCHANGED reply
     \/ InstallFails
  /\ UNCHANGED <<fs, kernel, card, job, call, boot>>

(* Mutant: the listing stays until it is written anew.                      *)
RemoveInstalled_LeftThere ==
  /\ Goto("removeInstalled", "unmount")
  /\ UNCHANGED <<fs, kernel, card, job, call, reply, boot>>

(* The first lines of partitionSDCard.                                      *)
RemoveInstalled ==
  /\ Goto("removeInstalled", "unmount")
  /\ RemoveFile("installed")
  /\ UNCHANGED <<kernel, card, job, call, reply, boot>>

TableUnreadable == table = Torn

RefuseTable ==
  /\ pc = "unmount"
  /\ TableUnreadable
  /\ InstallFails
  /\ UNCHANGED <<fs, kernel, card, job, call, boot>>

(* /mnt and /settings are unmounted, or not: nobody looks.                  *)
UnmountAll ==
  /\ Goto("unmount", "sfdisk")
  /\ ~TableUnreadable
  /\ \/ systems' = FALSE /\ runinstaller' = Cleared
     \/ MayFail("umount") /\ UNCHANGED <<systems, runinstaller>>
  /\ \/ fs' = Unmount(fs)
     \/ MayFail("umount") /\ UNCHANGED fs
  /\ UNCHANGED <<mnt2, script, card, job, call, reply, bootMode, rebootPart>>

(* A partition that moves or is new holds nothing.                          *)
Repartition ==
  /\ ~DiskInUse
  /\ table' = os /\ exitCode' = 0
  /\ image' = IF table = os THEN image ELSE Blank

SfdiskFails ==
  /\ DiskInUse \/ MayFail("command")
  /\ exitCode' = 1
  /\ \/ UNCHANGED table
     \/ ~DiskInUse /\ table' = Torn
  /\ UNCHANGED image

(* sfdisk, sync and partprobe.                                              *)
Sfdisk ==
  /\ Goto("sfdisk", "remount")
  /\ Repartition \/ SfdiskFails
  /\ fs' = Flush(fs) /\ imageDisk' = image' /\ runinstaller' = Cleared
  /\ UNCHANGED <<kernel, os, auto, part, mountedDir, call, reply, bootMode, rebootPart>>

(* Mutant: sfdisk's exit code is not looked at.                             *)
Remount_ExitCodeIgnored ==
  /\ Goto("remount", "zero")
  /\ UNCHANGED card
  /\ MountSystems
  /\ MountSettings(fs)
  /\ UNCHANGED <<mnt2, script, job, call, reply, boot>>

(* Mutant: /settings is not mounted again.                                  *)
Remount_SettingsLeft ==
  /\ pc = "remount"
  /\ UNCHANGED <<card, fs>>
  /\ MountSystems
  /\ \/ exitCode = 0 /\ pc' = "zero" /\ UNCHANGED reply
     \/ exitCode # 0 /\ InstallFails
  /\ UNCHANGED <<mnt2, script, job, call, boot>>

Remount ==
  /\ pc = "remount"
  /\ UNCHANGED card
  /\ MountSystems
  /\ MountSettings(fs)
  /\ \/ exitCode = 0 /\ pc' = "zero" /\ UNCHANGED reply
     \/ exitCode # 0 /\ InstallFails
  /\ UNCHANGED <<mnt2, script, job, call, boot>>

Erase(im, ps) == [p \in Numbers |-> IF p \in ps THEN NoImage ELSE im[p]]

(* dd over the first sector of every partition, by ascending number, up to  *)
(* the first one that fails.                                                *)
ZeroPartitions ==
  /\ pc = "zero"
  /\ \/ /\ pc' = "write"
        /\ image' = Erase(image, PartsOf(os))
        /\ imageDisk' = Erase(imageDisk, PartsOf(os))
        /\ UNCHANGED reply
     \/ /\ MayFail("command")
        /\ \E n \in PartsOf(os) :
             LET done == {p \in PartsOf(os) : p < n} IN
             /\ image' = Erase(image, done)
             /\ imageDisk' = Erase(imageDisk, done)
        /\ InstallFails
  /\ UNCHANGED <<fs, kernel, table, job, call, boot>>

(***************************************************************************)
(* InstallManager::writeImage                                              *)
(***************************************************************************)
Kind == Layout[os][part].kind
Part == Layout[os][part].no

(* writeImage returns, with true or false: installOS goes on either way.    *)
LeaveWriteImage ==
  /\ pc' = "removeDefault"
  /\ caller' = "install" /\ device' = FirstPart(os)

(* Mutant: the loop runs once too often.                                    *)
NextPartition_OnceMore ==
  /\ IF part <= Len(Layout[os])
     THEN part' = part + 1 /\ pc' = "write"
     ELSE part' = part /\ pc' = "mountFirst"
  /\ UNCHANGED call

NextPartition ==
  /\ IF part < Len(Layout[os])
     THEN part' = part + 1 /\ pc' = "write"
     ELSE part' = part /\ pc' = "mountFirst"
  /\ UNCHANGED call

(* Mutant: a partition that could not be written is passed over.            *)
WriteImageFails_PassedOver == MayFail("command") /\ NextPartition

WriteImageFails ==
  MayFail("command") /\ LeaveWriteImage /\ UNCHANGED part

Written(im, p) == [im EXCEPT ![p] = <<os, {}>>]

(* The commands write the device and close it, which flushes its cache.     *)
FillPartition ==
  /\ image' = Written(image, Part)
  /\ imageDisk' = Written(imageDisk, Part)

(* dd and partclone_restore: download and write in one pipe.                *)
WriteRaw ==
  /\ pc = "write" /\ Kind = "raw"
  /\ \/ FillPartition /\ NextPartition
     \/ WriteImageFails /\ UNCHANGED <<image, imageDisk>>
  /\ UNCHANGED <<fs, kernel, table, os, auto, mountedDir, exitCode, reply, boot>>

SkipUnformatted ==
  /\ pc = "write" /\ Kind = "none"
  /\ FillPartition /\ NextPartition
  /\ UNCHANGED <<fs, kernel, table, os, auto, mountedDir, exitCode, reply, boot>>

MakeFS ==
  /\ pc = "write" /\ Kind \in {"mkfs", "tar"}
  /\ \/ Kind = "mkfs" /\ FillPartition /\ NextPartition
     \/ /\ Kind = "tar" /\ pc' = "mount"
        /\ UNCHANGED <<part, call, image, imageDisk>>
     \/ WriteImageFails /\ UNCHANGED <<image, imageDisk>>
  /\ UNCHANGED <<fs, kernel, table, os, auto, mountedDir, exitCode, reply, boot>>

(* PartitionInfo::mountPartition("/mnt2").                                  *)
MountPartition(p, next) ==
  \/ /\ p \notin mountedDir
     /\ mnt2' = Append(mnt2, p) /\ mountedDir' = mountedDir \cup {p}
     /\ pc' = next
     /\ UNCHANGED call
  \/ /\ p \in mountedDir \/ MayFail("command")
     /\ LeaveWriteImage
     /\ UNCHANGED <<mnt2, mountedDir>>

MountForUntar ==
  /\ pc = "mount"
  /\ MountPartition(Part, "untar")
  /\ UNCHANGED <<fs, systems, script, card, os, auto, part, exitCode, reply, boot>>

(* wget tries for ever; whatever else goes wrong, the partition is          *)
(* unmounted before writeImage gives up.                                    *)
Untar ==
  /\ pc = "untar"
  /\ \/ image' = Written(image, Part) /\ pc' = "umount"
     \/ MayFail("command") /\ UNCHANGED image /\ pc' = "umountAndFail"
  /\ UNCHANGED <<fs, kernel, table, imageDisk, job, call, reply, boot>>

Front(s) == SubSeq(s, 1, Len(s) - 1)
Top(s) == s[Len(s)]

(* umount /mnt2 takes the mount on top, and writes it back.                 *)
UmountMnt2 ==
  /\ mnt2' = Front(mnt2)
  /\ imageDisk' = [imageDisk EXCEPT ![Top(mnt2)] = image[Top(mnt2)]]

UmountMnt2Fails == MayFail("umount") /\ UNCHANGED <<mnt2, imageDisk>>

(* PartitionInfo::unmountPartition; its result is ignored.                  *)
UnmountAfterUntar ==
  /\ \/ pc = "umount" /\ NextPartition
     \/ pc = "umountAndFail" /\ LeaveWriteImage /\ UNCHANGED part
  /\ \/ UmountMnt2 /\ mountedDir' = mountedDir \ {Part}
     \/ UmountMnt2Fails /\ UNCHANGED mountedDir
  /\ UNCHANGED <<fs, systems, script, table, image, os, auto, exitCode, reply, boot>>

MountFirst ==
  /\ pc = "mountFirst"
  /\ MountPartition(FirstPart(os), "config")
  /\ UNCHANGED <<fs, systems, script, card, os, auto, part, exitCode, reply, boot>>

Add(deed) ==
  [image EXCEPT ![FirstPart(os)] = <<os, image[FirstPart(os)][2] \cup {deed}>>]

(* os_config.json, then patchConfigTxt.  If os_config.json cannot be opened *)
(* or written, writeImage gives up with /mnt2 mounted.  It goes on without  *)
(* a file when os_config.json fails no sooner than f.close(), and whatever  *)
(* becomes of config.txt.                                                   *)
SaveConfig ==
  /\ pc = "config"
  /\ \/ /\ \/ image' = Add("config")
           \/ MayFail("io") /\ UNCHANGED image
        /\ pc' = IF HasScript[os] THEN "script" ELSE "finalUmount"
        /\ UNCHANGED call
     \/ MayFail("io") /\ LeaveWriteImage /\ UNCHANGED image
  /\ UNCHANGED <<fs, kernel, table, imageDisk, job, reply, boot>>

(* The setup script is saved, which fails if the file is there, run and     *)
(* removed.  Every failure leaves /mnt2 mounted, and most the file.         *)
RunScript ==
  /\ pc = "script"
  /\ \/ /\ ~script
        /\ image' = Add("setup")
        /\ pc' = "finalUmount"
        /\ UNCHANGED <<script, call>>
     \/ /\ ~script /\ MayFail("remove")
        /\ image' = Add("setup") /\ script' = TRUE
        /\ LeaveWriteImage
     \/ /\ ~script
        /\ \/ MayFail("command") /\ script' = TRUE
           \/ MayFail("io") /\ script' \in BOOLEAN
        /\ LeaveWriteImage /\ UNCHANGED image
     \/ script /\ LeaveWriteImage /\ UNCHANGED <<script, image>>
  /\ UNCHANGED <<fs, systems, mnt2, table, imageDisk, job, reply, boot>>

FinalUmount ==
  /\ Goto("finalUmount", "saveInstalled")
  /\ UmountMnt2 \/ UmountMnt2Fails
  /\ UNCHANGED <<fs, systems, script, table, image, job, call, reply, boot>>

SaveInstalled ==
  /\ pc = "saveInstalled"
  /\ \/ fs' = Store(fs, "installed", os)
     \/ MayFail("io") /\ fs' \in {fs, Store(fs, "installed", Zero)}
  /\ LeaveWriteImage
  /\ UNCHANGED <<kernel, card, job, reply, boot>>

(***************************************************************************)
(* The end of installOS and of its caller                                  *)
(***************************************************************************)
Sync ==
  /\ pc = "sync"
  /\ fs' = Flush(fs) /\ imageDisk' = image /\ runinstaller' = Cleared
  /\ device' = Absent
  /\ pc' = IF auto THEN "bootInto" ELSE IF Webserver THEN "listen" ELSE "shell"
  /\ reply' = IF Webserver THEN "installed" ELSE reply
  /\ UNCHANGED <<kernel, table, image, job, caller, bootMode, rebootPart>>

(***************************************************************************)
(* BootManager::bootIntoPartition                                          *)
(***************************************************************************)
BootDevice == IF device = Absent THEN Contents(fs, "default") ELSE device

(* reboot_part is set, everything is unmounted and synced, reboot(2).       *)
RebootInto ==
  /\ pc = "bootInto"
  /\ BootDevice \in Numbers
  /\ rebootPart' = BootDevice
  /\ Off
  /\ fs' = PowerCut(Flush(fs)) /\ imageDisk' = image /\ runinstaller' = Cleared
  /\ UNCHANGED <<table, image>>

(* Mutant: it tries again.                                                  *)
CannotBoot_TriesAgain ==
  /\ pc = "bootInto"
  /\ BootDevice \notin Numbers \/ MayFail("rebootPart")
  /\ UNCHANGED vars

(* It returns: run ends, and init starts a shell; a request handler returns *)
(* to the server, the menu is shown again.                                  *)
CannotBoot ==
  /\ pc = "bootInto"
  /\ BootDevice \notin Numbers \/ MayFail("rebootPart")
  /\ pc' = IF caller = "boot" THEN "shell" ELSE "listen"
  /\ UNCHANGED <<fs, kernel, card, job, call, reply, boot>>

Program ==
  \/ Run \/ ProcessArgs \/ BootCheck \/ EnterSetup
  \/ RemoveDefault \/ PutDefault
  \/ PrepareImage \/ RemoveInstalled \/ RefuseTable \/ UnmountAll \/ Sfdisk
  \/ Remount \/ ZeroPartitions
  \/ WriteRaw \/ SkipUnformatted \/ MakeFS \/ MountForUntar \/ Untar
  \/ UnmountAfterUntar \/ MountFirst \/ SaveConfig \/ RunScript \/ FinalUmount
  \/ SaveInstalled
  \/ Sync \/ RebootInto \/ CannotBoot

Next ==
  /\ PowerOn \/ Program \/ Request \/ Writeback \/ PowerLoss
  /\ UNCHANGED commandLine

Spec == Init /\ [][Next]_vars

(* The program makes progress on its own, and a card that is switched off   *)
(* is switched on again.  Nothing is assumed of what it waits for: the      *)
(* network (startNetworking loops, wget has --tries=inf), the setup script, *)
(* and the user or client.                                                  *)
WaitsForOutside ==
  \/ pc \in {"setup", "untar", "script"}
  \/ pc = "write" /\ Kind = "raw"

Fairness ==
  /\ WF_vars(PowerOn /\ UNCHANGED commandLine)
  /\ WF_vars(~WaitsForOutside /\ Program /\ UNCHANGED commandLine)

FairSpec == Spec /\ Fairness

-----------------------------------------------------------------------------
(***************************************************************************)
(* Properties                                                              *)
(***************************************************************************)
Locations ==
  {"off", "os", "start", "args", "decide", "setup", "listen", "shell",
   "removeDefault", "putDefault", "prepare", "removeInstalled", "unmount",
   "sfdisk", "remount", "zero", "write", "mount", "untar", "umount",
   "umountAndFail", "mountFirst", "config", "script", "finalUmount",
   "saveInstalled", "sync", "bootInto"}

Installing ==
  {"prepare", "removeInstalled", "unmount", "sfdisk", "remount", "zero",
   "write", "mount", "untar", "umount", "umountAndFail", "mountFirst",
   "config", "script", "finalUmount", "saveInstalled", "sync"}

ImageStates == {NoImage} \cup (OSes \X SUBSET Deeds)

(* Every variable has its type, and while an installation runs part points  *)
(* into the partition list of its OS.                                       *)
TypeOK ==
  /\ commandLine \in CommandLines
  /\ pc \in Locations
  /\ fs \in FileSystems(OSes \cup Prefixed \cup {Absent, Zero})
  /\ table \in OSes \cup {NoOS, Torn}
  /\ image \in [Numbers -> ImageStates] /\ imageDisk \in [Numbers -> ImageStates]
  /\ systems \in BOOLEAN /\ mnt2 \in Seq(Numbers) /\ script \in BOOLEAN
  /\ os \in OSes \cup {NoOS} /\ auto \in BOOLEAN /\ part \in Nat
  /\ mountedDir \subseteq Numbers
  /\ exitCode \in {0, 1}
  /\ caller \in {"boot", "args", "install", "user"}
  /\ device \in Prefixed \cup {Unprefixed, Absent}
  /\ reply \in {"none", "bad", "error", "installed", "defaultSet", "rebooting"}
  /\ runinstaller \in {"there", "rewritten", "gone"} /\ bootMode \in BOOLEAN
  /\ rebootPart \in Numbers \cup {0}
  /\ pc \in Installing => os \in OSes /\ part \in DOMAIN Layout[os]

(* Whatever happens between two steps, an OS that installed_os.json lists   *)
(* on the card is the one the partition table is for, and is there whole:   *)
(* partitionSDCard forgets the old OS before it touches the card, and       *)
(* writeImage lists the new one after its data is on the card.              *)
ListedImpliesInstalled ==
  \A o \in OSes : fs.disk["installed"] = o => table = o /\ Complete(imageDisk, o)

(* The card implements the contract, seen through what a power cut leaves.  *)
ListedOnCard == IF fs.disk["installed"] \in OSes THEN fs.disk["installed"] ELSE NoOS
HeldByCard == IF table \in OSes /\ Complete(imageDisk, table) THEN table ELSE NoOS

Contract == INSTANCE CardContract WITH listed <- ListedOnCard, holds <- HeldByCard

(* installOS never rewrites the partitions of an OS that is still listed,   *)
(* and lists an OS only once all of it is on the card.                      *)
CardKeepsContract == Contract!Spec

(* No partition is zeroed, written or formatted while it is mounted, also   *)
(* when an earlier installation gave up with /mnt2 mounted or a umount was  *)
(* refused.                                                                 *)
MountedOnMnt2 == {mnt2[j] : j \in DOMAIN mnt2}

NoWriteToMounted ==
  /\ pc = "zero" => MountedOnMnt2 = {}
  /\ pc = "write" => Part \notin MountedOnMnt2

(* A client that was told the OS is installed may pull the plug: the        *)
(* partitions, installed_os.json and default_boot_partition are on the card *)
(* as the program sees them.  This takes the remounting of /settings after  *)
(* sfdisk as well as the sync: files written below a mount that is not      *)
(* there are in the ramdisk.                                                *)
ToldIsDurable ==
  reply = "installed" => /\ imageDisk = image
                         /\ \A f \in Files : fs.disk[f] = Contents(fs, f)

(* With AutoReboot the program reboots into the OS it has just installed,   *)
(* never into an older default, also when default_boot_partition could not  *)
(* be written.                                                              *)
AutoRebootTarget ==
  [][(RebootInto /\ caller = "install") => rebootPart' = FirstPart(os)]_vars

(* The program always comes back to its clients, to a shell or to a reboot, *)
(* unless it waits for the network or for the setup script.                 *)
ComesBack ==
  []<>(pc \in {"off", "os", "listen", "shell"}) \/ <>[]WaitsForOutside

(* The 200 of POST /os, "Successfully installed OS": every partition holds  *)
(* its image, and the first one its files and the effects of the script.    *)
SuccessMeansInstalled == reply = "installed" => Complete(image, os)
=============================================================================
