--------------------------- MODULE ProvisionProofs ---------------------------
(***************************************************************************)
(* Proofs about Provision, for every set of OSes, every layout, every      *)
(* kernel command line and every set of failing operations.                *)
(***************************************************************************)
EXTENDS Provision, SequenceTheorems, TLAPS

-----------------------------------------------------------------------------
(***************************************************************************)
(* The inductive invariants                                                *)
(***************************************************************************)
(* The job of an installation is known until setDefaultBootPartition, which *)
(* installOS calls at its end, has returned; a partition is mounted on      *)
(* /mnt2 while writeImage works in it.                                      *)
SettingDefault == {"removeDefault", "putDefault"}
InMnt2 == {"untar", "umount", "umountAndFail", "config", "script", "finalUmount"}

TypeInv ==
  /\ TypeOK
  /\ pc \in SettingDefault => device \in Prefixed
  /\ pc \in SettingDefault /\ caller = "install" => os \in OSes /\ part \in DOMAIN Layout[os]
  /\ pc = "bootInto" /\ caller = "install" => os \in OSes
  /\ pc \in InMnt2 => mnt2 # <<>>

(* p is a partition writeImage works on before it comes to the n-th of o.   *)
Earlier(o, n, p) == \E j \in 1..(n - 1) : p = Layout[o][j].no

(* What is mounted on /mnt2. sfdisk succeeds only while nothing is, so what *)
(* is mounted later was mounted by this writeImage, for a partition it has  *)
(* left behind; the partition it works in is on top.                        *)
Mnt2Inv ==
  /\ pc = "remount" /\ exitCode = 0 => mnt2 = <<>>
  /\ pc = "zero" => mnt2 = <<>>
  /\ pc \in {"write", "mount"} => \A i \in DOMAIN mnt2 : Earlier(os, part, mnt2[i])
  /\ pc \in {"untar", "umount", "umountAndFail"} =>
       /\ Top(mnt2) = Part
       /\ \A i \in 1..(Len(mnt2) - 1) : Earlier(os, part, mnt2[i])
  /\ pc \in {"config", "script", "finalUmount"} => Top(mnt2) = FirstPart(os)

(* installOS works on with /settings mounted again, from the zeroing of the *)
(* partitions to the sync.                                                  *)
Remounted ==
  \/ pc \in {"zero", "write", "mount", "untar", "umount", "umountAndFail", "mountFirst",
            "config", "script", "finalUmount", "saveInstalled", "sync"}
  \/ pc \in SettingDefault /\ caller = "install"

RemountedInv ==
  /\ pc = "remount" /\ exitCode = 0 => table # Torn
  /\ Remounted => fs.mounted

(* A client is told "installed" after the sync, and told something else     *)
(* before the card changes again.                                           *)
ToldInv ==
  reply = "installed" => /\ pc \in {"listen", "shell", "bootInto"}
                         /\ imageDisk = image
                         /\ fs.mounted /\ fs.disk = fs.cache

(* While installOS sets the default and reboots, default_boot_partition is  *)
(* the first partition of the new OS, empty, or not there.                  *)
DefaultInv ==
  caller = "install" =>
    /\ pc \in SettingDefault => device = FirstPart(os)
    /\ pc = "putDefault" => Contents(fs, "default") = Absent
    /\ pc \in {"sync", "bootInto"} =>
         Contents(fs, "default") \in {Absent, Zero, FirstPart(os)}
    /\ pc = "bootInto" => device = Absent

-----------------------------------------------------------------------------
(***************************************************************************)
(* What the operators of SettingsFS do to the three places a file of       *)
(* /settings may be in, for every set of file contents.                    *)
(***************************************************************************)
(* Parts of a file system record.                                           *)
LEMMA FileSystemParts ==
  ASSUME NEW V, NEW s \in FileSystems(V)
  PROVE  /\ s.mounted \in BOOLEAN
         /\ s.disk \in [Files -> V] /\ s.cache \in [Files -> V] /\ s.ram \in [Files -> V]
         /\ s.disk["installed"] \in V /\ s.cache["installed"] \in V
         /\ s.ram["installed"] \in V /\ s.disk["default"] \in V
         /\ s.cache["default"] \in V /\ s.ram["default"] \in V
BY DEF FileSystems, Files

(* A program reads one of the stored values.                                *)
LEMMA ContentsType ==
  ASSUME NEW V, NEW s \in FileSystems(V), NEW f \in Files
  PROVE  Contents(s, f) \in V
BY DEF FileSystems, Contents

(* Writing a file changes what the program sees, and nothing on the disk.   *)
LEMMA StoreEffect ==
  ASSUME NEW V, NEW s \in FileSystems(V), NEW f \in Files, NEW v \in V
  PROVE  /\ Store(s, f, v) \in FileSystems(V)
         /\ Store(s, f, v).mounted = s.mounted
         /\ Store(s, f, v).disk = s.disk
         /\ s.mounted => Store(s, f, v).cache = [s.cache EXCEPT ![f] = v]
         /\ ~s.mounted => Store(s, f, v).cache = s.cache
<1>1. CASE s.mounted
  <2>1. Store(s, f, v) = [s EXCEPT !.cache = [s.cache EXCEPT ![f] = v]]
    BY <1>1 DEF Store
  <2> QED BY <1>1, <2>1 DEF FileSystems, Contents
<1>2. CASE ~s.mounted
  <2>1. Store(s, f, v) = [s EXCEPT !.ram = [s.ram EXCEPT ![f] = v]]
    BY <1>2 DEF Store
  <2> QED BY <1>2, <2>1 DEF FileSystems, Contents
<1> QED BY <1>1, <1>2

(* What was written is read.                                                *)
LEMMA StoreReads ==
  ASSUME NEW V, NEW s \in FileSystems(V), NEW f \in Files, NEW v \in V
  PROVE  Contents(Store(s, f, v), f) = v
<1>1. CASE s.mounted
  <2>1. Store(s, f, v) = [s EXCEPT !.cache = [s.cache EXCEPT ![f] = v]]
    BY <1>1 DEF Store
  <2> QED BY <1>1, <2>1 DEF FileSystems, Contents
<1>2. CASE ~s.mounted
  <2>1. Store(s, f, v) = [s EXCEPT !.ram = [s.ram EXCEPT ![f] = v]]
    BY <1>2 DEF Store
  <2> QED BY <1>2, <2>1 DEF FileSystems, Contents
<1> QED BY <1>1, <1>2

(* sync brings the disk up to what the program sees.                        *)
LEMMA FlushEffect ==
  ASSUME NEW V, NEW s \in FileSystems(V)
  PROVE  /\ Flush(s) \in FileSystems(V)
         /\ Flush(s).mounted = s.mounted
         /\ Flush(s).cache = s.cache /\ Flush(s).ram = s.ram
         /\ s.mounted => Flush(s).disk = s.cache
         /\ ~s.mounted => Flush(s) = s
         /\ \A f \in Files : Contents(Flush(s), f) = Contents(s, f)
<1>1. CASE s.mounted
  <2>1. Flush(s) = [s EXCEPT !.disk = s.cache]
    BY <1>1 DEF Flush
  <2> QED BY <1>1, <2>1 DEF FileSystems, Contents
<1>2. CASE ~s.mounted
  BY <1>2 DEF Flush
<1> QED BY <1>1, <1>2

(* Mounting shows what is on the disk.                                      *)
LEMMA MountEffect ==
  ASSUME NEW V, NEW s \in FileSystems(V)
  PROVE  /\ Mount(s) \in FileSystems(V)
         /\ Mount(s).mounted
         /\ Mount(s).disk = s.disk
         /\ s.mounted => Mount(s) = s
         /\ ~s.mounted => Mount(s).cache = s.disk
<1>1. CASE s.mounted
  BY <1>1 DEF Mount
<1>2. CASE ~s.mounted
  <2>1. Mount(s) = [s EXCEPT !.mounted = TRUE, !.cache = s.disk]
    BY <1>2 DEF Mount
  <2> QED BY <1>2, <2>1 DEF FileSystems
<1> QED BY <1>1, <1>2

(* umount leaves on the disk what the program saw.                          *)
LEMMA UnmountEffect ==
  ASSUME NEW V, NEW s \in FileSystems(V)
  PROVE  /\ Unmount(s) \in FileSystems(V)
         /\ ~Unmount(s).mounted
         /\ s.mounted => Unmount(s).disk = s.cache
         /\ ~s.mounted => Unmount(s) = s
<1>1. CASE s.mounted
  <2>1. Unmount(s) = [s EXCEPT !.mounted = FALSE, !.disk = s.cache]
    BY <1>1 DEF Unmount
  <2> QED BY <1>1, <2>1 DEF FileSystems
<1>2. CASE ~s.mounted
  BY <1>2 DEF Unmount
<1> QED BY <1>1, <1>2

(* A journal commit leaves on the disk what the program sees, or an empty   *)
(* file; if all is there already it changes nothing.                        *)
LEMMA CommitEffect ==
  ASSUME NEW V, Absent \in V, Zero \in V,
         NEW s \in FileSystems(V), NEW d \in CommitOutcomes(s)
  PROVE  /\ [s EXCEPT !.disk = d] \in FileSystems(V)
         /\ [s EXCEPT !.disk = d].mounted = s.mounted
         /\ [s EXCEPT !.disk = d].disk = d
         /\ [s EXCEPT !.disk = d].cache = s.cache
         /\ \A f \in Files : d[f] \in {s.cache[f], Zero}
         /\ \A f \in Files : Contents([s EXCEPT !.disk = d], f) = Contents(s, f)
         /\ s.disk = s.cache => d = s.cache
<1>1. /\ d \in [Files -> {Absent, Zero} \cup {s.cache[f] : f \in Files}]
      /\ \A f \in Files : \/ d[f] = s.cache[f]
                          \/ d[f] = Zero /\ s.cache[f] \notin {Absent, s.disk[f]}
  BY DEF CommitOutcomes
<1>2. \A f \in Files : s.cache[f] \in V
  BY DEF FileSystems
<1>3. d \in [Files -> V]
  BY <1>1, <1>2
<1>4. s.cache \in [Files -> V]
  BY DEF FileSystems
<1>5. s.disk = s.cache => d = s.cache
  BY <1>1, <1>3, <1>4
<1> QED BY <1>1, <1>3, <1>5 DEF FileSystems, Contents

(* A power cut leaves the disk.                                             *)
LEMMA PowerCutEffect ==
  ASSUME NEW V, Absent \in V, NEW s \in FileSystems(V)
  PROVE  /\ PowerCut(s) \in FileSystems(V)
         /\ ~PowerCut(s).mounted
         /\ PowerCut(s).disk = s.disk
BY DEF PowerCut, FileSystems, NoFiles

-----------------------------------------------------------------------------
(***************************************************************************)
(* Lemmas about other operators                                            *)
(***************************************************************************)
(* An element of a sequence.                                                *)
LEMMA ElementType ==
  ASSUME NEW S, NEW q \in Seq(S), NEW j \in 1..Len(q)
  PROVE  q[j] \in S
OBVIOUS

(* The partition list of an OS is not empty, and its numbers are numbers.   *)
LEMMA LayoutFacts ==
  ASSUME NEW o \in OSes
  PROVE  /\ Len(Layout[o]) \in Nat \ {0}
         /\ DOMAIN Layout[o] = 1..Len(Layout[o])
         /\ \A j \in 1..Len(Layout[o]) :
              /\ Layout[o][j].no \in Nat \ {0}
              /\ Layout[o][j].no \in PartsOf(o)
              /\ Layout[o][j].no \in Numbers
              /\ Layout[o][j].kind \in Kinds
         /\ PartsOf(o) \subseteq Numbers
         /\ FirstPart(o) \in PartsOf(o) /\ FirstPart(o) \in Numbers
<1>1. Layout[o] \in Seq([no : Nat \ {0}, kind : Kinds]) /\ Layout[o] # <<>>
  BY OSAssumption
<1>2. Len(Layout[o]) \in Nat /\ Len(Layout[o]) # 0 /\ DOMAIN Layout[o] = 1..Len(Layout[o])
  BY <1>1
<1>3. \A j \in 1..Len(Layout[o]) : Layout[o][j] \in [no : Nat \ {0}, kind : Kinds]
  BY <1>1, ElementType
<1>4. PartsOf(o) \subseteq Numbers
  BY DEF Numbers
<1>5. \A j \in 1..Len(Layout[o]) : Layout[o][j].no \in PartsOf(o)
  BY <1>2 DEF PartsOf
<1> QED BY <1>2, <1>3, <1>4, <1>5 DEF FirstPart

(* Every value that a file of /settings may hold.                           *)
Values == OSes \cup Prefixed \cup {Absent, Zero}

(* Erasing, filling and configuring partitions keeps their states typed.    *)
LEMMA ImageType ==
  ASSUME NEW im \in [Numbers -> ImageStates]
  PROVE  /\ Blank \in [Numbers -> ImageStates]
         /\ \A ps : Erase(im, ps) \in [Numbers -> ImageStates]
         /\ os \in OSes => \A p \in Numbers : Written(im, p) \in [Numbers -> ImageStates]
         /\ os \in OSes => \A p \in Numbers, d \in Deeds :
               [im EXCEPT ![p] = <<os, im[p][2] \cup {d}>>] \in [Numbers -> ImageStates]
<1>1. {} \in SUBSET Deeds
  OBVIOUS
<1>2. ASSUME NEW p \in Numbers, NEW d \in Deeds
      PROVE  im[p][2] \cup {d} \in SUBSET Deeds
  <2>1. im[p] \in ImageStates
    OBVIOUS
  <2>2. im[p][2] \in SUBSET Deeds
    BY <2>1 DEF ImageStates, NoImage
  <2> QED BY <2>2
<1> HIDE DEF Deeds
<1>3. Blank \in [Numbers -> ImageStates] /\ \A ps : Erase(im, ps) \in [Numbers -> ImageStates]
  BY DEF Blank, Erase, ImageStates
<1>4. os \in OSes => \A p \in Numbers : Written(im, p) \in [Numbers -> ImageStates]
  BY <1>1 DEF Written, ImageStates
<1>5. ASSUME os \in OSes, NEW p \in Numbers, NEW d \in Deeds
      PROVE  [im EXCEPT ![p] = <<os, im[p][2] \cup {d}>>] \in [Numbers -> ImageStates]
  <2> DEFINE done == im[p][2] \cup {d}
  <2>1. done \in SUBSET Deeds
    BY <1>2
  <2> HIDE DEF done
  <2>2. <<os, done>> \in ImageStates
    BY <1>5, <2>1 DEF ImageStates
  <2>3. [im EXCEPT ![p] = <<os, done>>] \in [Numbers -> ImageStates]
    BY <2>2
  <2> QED BY <2>3 DEF done
<1> QED BY <1>3, <1>4, <1>5

(* Pushing a mount.                                                         *)
LEMMA MountPush ==
  ASSUME NEW S, NEW q \in Seq(S), NEW p \in S
  PROVE  /\ Append(q, p) \in Seq(S)
         /\ Append(q, p) # <<>>
         /\ Top(Append(q, p)) = p
         /\ Len(Append(q, p)) = Len(q) + 1
         /\ \A i \in 1..Len(q) : Append(q, p)[i] = q[i]
<1>1. /\ Append(q, p) \in Seq(S)
      /\ Len(Append(q, p)) = Len(q) + 1
      /\ \A i \in 1..Len(q) : Append(q, p)[i] = q[i]
      /\ Append(q, p)[Len(q) + 1] = p
  OBVIOUS
<1> QED BY <1>1 DEF Top

(* Popping one.                                                             *)
LEMMA MountPop ==
  ASSUME NEW S, NEW q \in Seq(S), q # <<>>
  PROVE  /\ Front(q) \in Seq(S)
         /\ Top(q) \in S
         /\ Len(q) \in Nat \ {0}
         /\ Len(Front(q)) = Len(q) - 1
         /\ \A i \in 1..(Len(q) - 1) : Front(q)[i] = q[i]
<1>1. Len(q) \in Nat \ {0}
  OBVIOUS
<1>2. Top(q) \in S
  BY <1>1, ElementType DEF Top
<1> DEFINE n == Len(q) - 1
<1>3. n \in Int /\ n >= 0 /\ 1 \in Int
  BY <1>1
<1>4. \A i \in 1..n : q[i] \in S
  BY <1>1, ElementType
<1> HIDE DEF n
<1>5. /\ SubSeq(q, 1, n) \in Seq(S)
      /\ Len(SubSeq(q, 1, n)) = IF 1 <= n THEN n - 1 + 1 ELSE 0
      /\ \A i \in 1..(n - 1 + 1) : SubSeq(q, 1, n)[i] = q[1 + i - 1]
  BY <1>3, <1>4, SubSeqProperties, SMTT(30)
<1>6. /\ Len(SubSeq(q, 1, n)) = n
      /\ \A i \in 1..n : SubSeq(q, 1, n)[i] = q[i]
  <2>1. n - 1 + 1 = n /\ \A i \in 1..n : 1 + i - 1 = i
    BY <1>3
  <2> QED BY <1>3, <1>5, <2>1
<1> QED BY <1>1, <1>2, <1>5, <1>6 DEF Front, n

-----------------------------------------------------------------------------
(***************************************************************************)
(* Typing: which steps change a variable, and that they keep its type      *)
(***************************************************************************)
USE DEF Next, Program, Request, vars, kernel, card, job, call, boot,
        InstallFails, NextPartition, WriteImageFails, LeaveWriteImage,
        MountPartition, UmountMnt2Fails, Off, MountSystems, PowerOn, Run,
        ProcessArgs, BootCheck, EnterSetup, RejectRequest, ExitToShell,
        InstallOS, SetDefault, Reboot, RemoveDefault, PutDefault, PrepareImage,
        RemoveInstalled, RefuseTable, UnmountAll, Sfdisk, Remount,
        ZeroPartitions, WriteRaw, SkipUnformatted, MakeFS, MountForUntar, Untar,
        UnmountAfterUntar, MountFirst, SaveConfig, RunScript, FinalUmount,
        SaveInstalled, Sync, RebootInto, CannotBoot, Writeback, PowerLoss

(* The steps that write to, mount, unmount or sync the settings partition.  *)
LEMMA FsSteps ==
  ASSUME [Next]_vars
  PROVE  \/ UNCHANGED fs
         \/ Run \/ EnterSetup \/ RemoveDefault \/ PutDefault
         \/ RemoveInstalled \/ UnmountAll \/ Sfdisk \/ Remount
         \/ SaveInstalled \/ Sync \/ RebootInto \/ Writeback \/ PowerLoss
OBVIOUS

(* The steps that change the partition table.                               *)
LEMMA TableSteps ==
  ASSUME [Next]_vars
  PROVE  \/ UNCHANGED table
         \/ EnterSetup \/ Sfdisk \/ PowerLoss
OBVIOUS

(* The steps that change what a partition holds.                            *)
LEMMA ImageSteps ==
  ASSUME [Next]_vars
  PROVE  \/ UNCHANGED <<image, imageDisk>>
         \/ EnterSetup \/ Sfdisk \/ ZeroPartitions \/ WriteRaw
         \/ SkipUnformatted \/ MakeFS \/ Untar \/ UnmountAfterUntar
         \/ SaveConfig \/ RunScript \/ FinalUmount \/ Sync \/ RebootInto
         \/ Writeback \/ PowerLoss
OBVIOUS

(* The steps that mount and unmount partitions on /mnt2.                    *)
LEMMA Mnt2Steps ==
  ASSUME [Next]_vars
  PROVE  \/ UNCHANGED <<mnt2, mountedDir>>
         \/ (\E o \in OSes : InstallOS(o)) \/ MountForUntar
         \/ UnmountAfterUntar \/ MountFirst \/ FinalUmount \/ RebootInto
         \/ PowerLoss
OBVIOUS

(* The steps that change the OS to install or the partition at work.        *)
LEMMA JobSteps ==
  ASSUME [Next]_vars
  PROVE  \/ UNCHANGED <<os, part>>
         \/ (\E o \in OSes : InstallOS(o)) \/ WriteRaw \/ SkipUnformatted
         \/ MakeFS \/ UnmountAfterUntar \/ RebootInto \/ PowerLoss
OBVIOUS

(* The Boolean variables.                                                   *)
LEMMA BooleansType ==
  ASSUME TypeInv, [Next]_vars
  PROVE  systems' \in BOOLEAN /\ script' \in BOOLEAN /\ auto' \in BOOLEAN /\ bootMode' \in BOOLEAN
<1>1. systems \in BOOLEAN /\ script \in BOOLEAN /\ auto \in BOOLEAN /\ bootMode \in BOOLEAN
  BY DEF TypeInv, TypeOK
<1>2. systems' \in BOOLEAN
  <2>1. \/ UNCHANGED systems \/ systems' = TRUE \/ systems' = FALSE
    OBVIOUS
  <2> QED BY <1>1, <2>1, Zenon
<1>3. script' \in BOOLEAN
  <2>1. \/ UNCHANGED script \/ script' = TRUE \/ script' = FALSE
    OBVIOUS
  <2> QED BY <1>1, <2>1, Zenon
<1>4. auto' \in BOOLEAN
  <2>1. \/ UNCHANGED auto \/ auto' \in BOOLEAN \/ auto' \in {FALSE} \/ auto' = FALSE
    OBVIOUS
  <2> QED BY <1>1, <2>1, Zenon
<1>5. bootMode' \in BOOLEAN
  <2>1. \/ UNCHANGED bootMode \/ bootMode' = FALSE
        \/ bootMode' = (runinstaller # "there" /\ HasInstalledOS)
    OBVIOUS
  <2> QED BY <1>1, <2>1, Zenon
<1> QED BY <1>2, <1>3, <1>4, <1>5

(* The variables with a fixed set of values.                                *)
LEMMA ControlType ==
  ASSUME TypeInv, [Next]_vars
  PROVE  /\ commandLine' \in CommandLines
         /\ pc' \in Locations
         /\ exitCode' \in {0, 1}
         /\ caller' \in {"boot", "args", "install", "user"}
         /\ reply' \in {"none", "bad", "error", "installed", "defaultSet", "rebooting"}
         /\ runinstaller' \in {"there", "rewritten", "gone"}
<1>1. commandLine' \in CommandLines
  BY DEF TypeInv, TypeOK
<1>2. pc' \in Locations
  <2>1. pc \in Locations
    BY DEF TypeInv, TypeOK
  <2>2. UNCHANGED pc \/ pc' = AfterDefault \/ pc' \in Locations
    BY DEF Locations, Goto
  <2>3. AfterDefault \in Locations
    BY DEF AfterDefault, Locations
  <2> QED BY <2>1, <2>2, <2>3
<1>3. exitCode' \in {0, 1}
  BY DEF TypeInv, TypeOK, Repartition, SfdiskFails
<1>4. caller' \in {"boot", "args", "install", "user"}
  BY DEF TypeInv, TypeOK
<1>5. reply' \in {"none", "bad", "error", "installed", "defaultSet", "rebooting"}
  BY DEF TypeInv, TypeOK, AnswerDefault
<1>6. runinstaller' \in {"there", "rewritten", "gone"}
  BY DEF TypeInv, TypeOK, Cleared, ClearCMDline
<1> QED BY <1>1, <1>2, <1>3, <1>4, <1>5, <1>6

(* installOS runs, or the setDefaultBootPartition it calls.                 *)
InJob == pc \in Installing \/ (pc \in SettingDefault /\ caller = "install")

(* Only a request for an installation starts one.                           *)
LEMMA JobStarts ==
  ASSUME [Next]_vars, InJob'
  PROVE  InJob \/ (\E o \in OSes : InstallOS(o))
BY DEF InJob, Installing, SettingDefault, Goto, AfterDefault

(* The steps that enter a region of the code that the invariant speaks of.  *)
LEMMA RegionSteps ==
  ASSUME [Next]_vars
  PROVE  /\ pc' \in SettingDefault => \/ pc \in SettingDefault /\ UNCHANGED device
                                      \/ device' \in Prefixed
                                      \/ InJob /\ device' = FirstPart(os)
         /\ pc' = "bootInto" /\ caller' = "install" =>
              InJob \/ (pc = "bootInto" /\ caller = "install")
         /\ pc' \in InMnt2 => \/ pc \in InMnt2 /\ UNCHANGED mnt2
                              \/ MountForUntar \/ MountFirst
BY DEF InJob, Installing, SettingDefault, InMnt2, Goto, AfterDefault

(* Where a device name comes from, and the number the firmware is given.    *)
LEMMA DeviceSteps ==
  ASSUME [Next]_vars
  PROVE  /\ \/ UNCHANGED device
            \/ device' \in Prefixed \cup Devices \cup {Absent}
            \/ pc \in Installing /\ device' = FirstPart(os)
         /\ rebootPart' \in {rebootPart, 0} \cup Numbers
BY DEF Installing, Goto

(* From sfdisk to the last umount.                                          *)
OnMnt2 == {"remount", "zero", "write", "mount"} \cup InMnt2

(* The steps of an installation that lead there, or stay.                   *)
LEMMA OnMnt2Steps ==
  ASSUME [Next]_vars, pc' \in OnMnt2
  PROVE  \/ UNCHANGED <<pc, mnt2, os, part, exitCode>>
         \/ Sfdisk \/ Remount \/ ZeroPartitions \/ WriteRaw \/ SkipUnformatted
         \/ MakeFS \/ MountForUntar \/ Untar \/ UnmountAfterUntar \/ MountFirst
         \/ SaveConfig \/ RunScript
BY DEF OnMnt2, InMnt2, Goto, AfterDefault

(* How a client that was told "installed" remains the last one answered.    *)
LEMMA ToldSteps ==
  ASSUME [Next]_vars, reply' = "installed",
         reply = "installed" => pc \in {"listen", "shell", "bootInto"}
  PROVE  /\ pc' \in {"listen", "shell", "bootInto"}
         /\ \/ Sync
            \/ reply = "installed" /\ UNCHANGED <<fs, image, imageDisk>>
            \/ reply = "installed" /\ Writeback
BY DEF Goto, AnswerDefault

(* partitionSDCard comes to remount what it unmounted.                      *)
LEMMA SfdiskSteps ==
  ASSUME [Next]_vars, pc' = "remount"
  PROVE  Sfdisk \/ UNCHANGED <<pc, exitCode, table>>
BY DEF Goto, AfterDefault

(* From then on installOS writes to /settings, and does not unmount it.     *)
LEMMA RemountedSteps ==
  ASSUME [Next]_vars, Remounted'
  PROVE  \/ Remount /\ exitCode = 0
         \/ /\ Remounted
            /\ \/ UNCHANGED fs
               \/ RemoveDefault \/ PutDefault \/ SaveInstalled \/ Writeback
BY DEF Remounted, SettingDefault, Goto, AfterDefault

(* How setDefaultBootPartition and bootIntoPartition come to run on behalf  *)
(* of installOS.                                                            *)
LEMMA DefaultSteps ==
  ASSUME [Next]_vars, caller' = "install",
         pc' \in {"removeDefault", "putDefault", "sync", "bootInto"}
  PROVE  \/ UNCHANGED <<pc, fs, os, caller, device>>
         \/ Writeback /\ UNCHANGED <<pc, os, caller, device>>
         \/ pc \in Installing /\ pc' = "removeDefault" /\ device' = FirstPart(os) /\ os' = os
         \/ RemoveDefault \/ PutDefault \/ Sync
BY DEF Goto, Installing, AfterDefault

HIDE DEF Next, Program, Request, vars, kernel, card, job, call, boot,
        InstallFails, NextPartition, WriteImageFails, LeaveWriteImage,
        MountPartition, UmountMnt2Fails, Off, MountSystems, PowerOn, Run,
        ProcessArgs, BootCheck, EnterSetup, RejectRequest, ExitToShell,
        InstallOS, SetDefault, Reboot, RemoveDefault, PutDefault, PrepareImage,
        RemoveInstalled, RefuseTable, UnmountAll, Sfdisk, Remount,
        ZeroPartitions, WriteRaw, SkipUnformatted, MakeFS, MountForUntar, Untar,
        UnmountAfterUntar, MountFirst, SaveConfig, RunScript, FinalUmount,
        SaveInstalled, Sync, RebootInto, CannotBoot, Writeback, PowerLoss

(* mountSettingsPartition keeps the type of the file system.                *)
LEMMA MountSettingsType ==
  ASSUME NEW s \in FileSystems(Values), MountSettings(s)
  PROVE  fs' \in FileSystems(Values)
BY MountEffect DEF MountSettings

(* f.remove() likewise.                                                     *)
LEMMA RemoveFileType ==
  ASSUME fs \in FileSystems(Values), NEW f \in Files, RemoveFile(f)
  PROVE  fs' \in FileSystems(Values)
<1>1. Absent \in Values
  BY DEF Values
<1>2. Store(fs, f, Absent) \in FileSystems(Values)
  BY <1>1, StoreEffect
<1> QED BY <1>2 DEF RemoveFile

(* The settings file system only ever holds OSes, device names and nothing. *)
LEMMA FsType ==
  ASSUME TypeInv, [Next]_vars
  PROVE  fs' \in FileSystems(Values)
<1>1. fs \in FileSystems(Values)
  BY DEF TypeInv, TypeOK, Values
<1>2. Absent \in Values /\ Zero \in Values
  BY DEF Values
<1>3. "installed" \in Files /\ "default" \in Files
  BY DEF Files
<1>4. CASE UNCHANGED fs
  BY <1>1, <1>4
<1>5. CASE Run
  BY <1>1, <1>5, MountSettingsType DEF Run
<1>6. CASE EnterSetup
  <2>1. [fs EXCEPT !.disk = NoFiles] \in FileSystems(Values)
    BY <1>1, <1>2 DEF FileSystems, NoFiles
  <2> QED BY <1>1, <1>6, <2>1, MountSettingsType DEF EnterSetup, PrepareCard
<1>7. CASE RemoveDefault \/ RemoveInstalled
  BY <1>1, <1>3, <1>7, RemoveFileType DEF RemoveDefault, RemoveInstalled
<1>8. CASE PutDefault
  <2>1. device \in Values
    BY <1>8 DEF PutDefault, Goto, TypeInv, SettingDefault, Values
  <2>2. \A v \in Values : Store(fs, "default", v) \in FileSystems(Values)
    BY <1>1, <1>3, StoreEffect
  <2> QED BY <1>1, <1>2, <1>8, <2>1, <2>2 DEF PutDefault
<1>9. CASE UnmountAll
  BY <1>1, <1>9, UnmountEffect DEF UnmountAll
<1>10. CASE Sfdisk \/ Sync
  BY <1>1, <1>10, FlushEffect DEF Sfdisk, Sync
<1>11. CASE Remount
  BY <1>1, <1>11, MountSettingsType DEF Remount
<1>12. CASE SaveInstalled
  <2>1. os \in Values
    BY <1>12 DEF SaveInstalled, TypeInv, TypeOK, Installing, Values
  <2>2. \A v \in Values : Store(fs, "installed", v) \in FileSystems(Values)
    BY <1>1, <1>3, StoreEffect
  <2> QED BY <1>1, <1>2, <1>12, <2>1, <2>2 DEF SaveInstalled
<1>13. CASE RebootInto
  BY <1>1, <1>2, <1>13, FlushEffect, PowerCutEffect DEF RebootInto
<1>14. CASE Writeback
  BY <1>1, <1>2, <1>14, CommitEffect DEF Writeback
<1>15. CASE PowerLoss
  BY <1>1, <1>2, <1>15, PowerCutEffect DEF PowerLoss
<1> QED
  BY FsSteps, <1>4, <1>5, <1>6, <1>7, <1>8, <1>9, <1>10, <1>11, <1>12, <1>13, <1>14, <1>15

(* The partition table is that of an OS, empty or torn.                     *)
LEMMA TableType ==
  ASSUME TypeInv, [Next]_vars
  PROVE  table' \in OSes \cup {NoOS, Torn}
<1>1. table \in OSes \cup {NoOS, Torn}
  BY DEF TypeInv, TypeOK
<1>2. CASE UNCHANGED table
  BY <1>1, <1>2
<1>3. CASE EnterSetup
  BY <1>1, <1>3 DEF EnterSetup, PrepareCard, card
<1>4. CASE Sfdisk
  <2>1. os \in OSes
    BY <1>4 DEF Sfdisk, Goto, TypeInv, TypeOK, Installing
  <2> QED BY <1>1, <1>4, <2>1 DEF Sfdisk, Repartition, SfdiskFails
<1>5. CASE PowerLoss
  BY <1>1, <1>5 DEF PowerLoss
<1> QED BY TableSteps, <1>2, <1>3, <1>4, <1>5

(* While an installation runs the partition at work is one of its OS, and a *)
(* mount on /mnt2 can be taken off.                                         *)
LEMMA AtWork ==
  ASSUME TypeInv, pc \in Installing
  PROVE  /\ os \in OSes /\ part \in 1..Len(Layout[os])
         /\ Part \in Numbers /\ Part \in PartsOf(os)
         /\ FirstPart(os) \in Numbers /\ FirstPart(os) \in PartsOf(os)
         /\ pc \in InMnt2 => mnt2 # <<>> /\ Top(mnt2) \in Numbers
                            /\ Front(mnt2) \in Seq(Numbers)
<1>1. os \in OSes /\ part \in DOMAIN Layout[os]
  BY DEF TypeInv, TypeOK
<1>2. part \in 1..Len(Layout[os])
  BY <1>1, LayoutFacts
<1>3. mnt2 \in Seq(Numbers) /\ (pc \in InMnt2 => mnt2 # <<>>)
  BY DEF TypeInv, TypeOK
<1> QED BY <1>1, <1>2, <1>3, LayoutFacts, MountPop DEF Part

(* Partitions hold nothing, or what an installation put there.              *)
LEMMA ImagesType ==
  ASSUME TypeInv, [Next]_vars
  PROVE  image' \in [Numbers -> ImageStates] /\ imageDisk' \in [Numbers -> ImageStates]
<1> DEFINE Images == [Numbers -> ImageStates]
<1>1. image \in Images /\ imageDisk \in Images
  BY DEF TypeInv, TypeOK
<1>2. Blank \in Images
  BY <1>1, ImageType
<1>3. ASSUME pc \in Installing
      PROVE  /\ os \in OSes /\ Part \in Numbers /\ FirstPart(os) \in Numbers
             /\ Written(image, Part) \in Images /\ Written(imageDisk, Part) \in Images
             /\ Add("config") \in Images /\ Add("setup") \in Images
  <2>1. "config" \in Deeds /\ "setup" \in Deeds
    BY DEF Deeds
  <2> QED BY <1>1, <1>3, <2>1, AtWork, ImageType DEF Add
<1> SUFFICES image' \in Images /\ imageDisk' \in Images
  OBVIOUS
<1> HIDE DEF Images
<1>4. CASE UNCHANGED <<image, imageDisk>>
  BY <1>1, <1>4
<1>5. CASE EnterSetup
  BY <1>1, <1>2, <1>5 DEF EnterSetup, PrepareCard, card
<1>6. CASE Sfdisk
  BY <1>1, <1>2, <1>6 DEF Sfdisk, Repartition, SfdiskFails
<1>7. CASE ZeroPartitions
  <2>1. \A ps : Erase(image, ps) \in Images /\ Erase(imageDisk, ps) \in Images
    BY <1>1, ImageType DEF Images
  <2> QED BY <1>7, <2>1 DEF ZeroPartitions
<1>8. CASE WriteRaw \/ SkipUnformatted \/ MakeFS
  BY <1>1, <1>3, <1>8 DEF WriteRaw, SkipUnformatted, MakeFS, FillPartition, Installing
<1>9. CASE Untar
  BY <1>1, <1>3, <1>9 DEF Untar, Installing
<1>10. CASE UnmountAfterUntar \/ FinalUmount
  <2>1. pc \in Installing /\ pc \in InMnt2
    BY <1>10 DEF UnmountAfterUntar, FinalUmount, Goto, Installing, InMnt2
  <2>2. Top(mnt2) \in Numbers
    BY <2>1, AtWork
  <2>3. image' = image
    BY <1>10 DEF UnmountAfterUntar, FinalUmount
  <2>4. imageDisk' = imageDisk \/ imageDisk' = [imageDisk EXCEPT ![Top(mnt2)] = image[Top(mnt2)]]
    BY <1>10 DEF UnmountAfterUntar, FinalUmount, UmountMnt2, UmountMnt2Fails
  <2> QED BY <1>1, <2>2, <2>3, <2>4 DEF Images
<1>11. CASE SaveConfig \/ RunScript
  BY <1>1, <1>3, <1>11 DEF SaveConfig, RunScript, Installing
<1>12. CASE Sync \/ RebootInto \/ Writeback \/ PowerLoss
  BY <1>1, <1>12 DEF Sync, RebootInto, Writeback, PowerLoss
<1> QED
  BY ImageSteps, <1>4, <1>5, <1>6, <1>7, <1>8, <1>9, <1>10, <1>11, <1>12

(* Only partitions of the card are mounted on /mnt2.                        *)
LEMMA Mnt2Type ==
  ASSUME TypeInv, [Next]_vars
  PROVE  /\ mnt2' \in Seq(Numbers)
         /\ mountedDir' \subseteq Numbers
         /\ pc' \in InMnt2 => mnt2' # <<>>
<1>1. mnt2 \in Seq(Numbers) /\ mountedDir \subseteq Numbers /\ (pc \in InMnt2 => mnt2 # <<>>)
  BY DEF TypeInv, TypeOK
<1>2. ASSUME NEW p \in Numbers, NEW next, MountPartition(p, next)
      PROVE  /\ mnt2' \in Seq(Numbers) /\ mountedDir' \subseteq Numbers
             /\ mnt2' # <<>> \/ pc' = "removeDefault"
  <2>1. Append(mnt2, p) \in Seq(Numbers) /\ Append(mnt2, p) # <<>>
    BY <1>1, MountPush
  <2> QED BY <1>1, <1>2, <2>1 DEF MountPartition, LeaveWriteImage
<1>3. CASE MountForUntar \/ MountFirst
  <2>1. pc \in Installing
    BY <1>3 DEF MountForUntar, MountFirst, Installing
  <2> QED BY <1>2, <1>3, <2>1, AtWork DEF MountForUntar, MountFirst, InMnt2
<1>4. CASE UnmountAfterUntar \/ FinalUmount
  <2>1. pc \in Installing /\ pc \in InMnt2
    BY <1>4 DEF UnmountAfterUntar, FinalUmount, Goto, Installing, InMnt2
  <2>2. Front(mnt2) \in Seq(Numbers)
    BY <2>1, AtWork
  <2>3. pc' \notin InMnt2
    BY <1>4 DEF UnmountAfterUntar, FinalUmount, Goto, NextPartition, LeaveWriteImage, InMnt2
  <2>4. (mnt2' = mnt2 \/ mnt2' = Front(mnt2)) /\ mountedDir' \subseteq mountedDir
    BY <1>4 DEF UnmountAfterUntar, FinalUmount, UmountMnt2, UmountMnt2Fails, job
  <2> QED BY <1>1, <2>2, <2>3, <2>4
<1>5. CASE UNCHANGED <<mnt2, mountedDir>>
  BY <1>1, <1>3, <1>5, RegionSteps
<1>6. CASE \E o \in OSes : InstallOS(o)
  <2>1. mnt2' = mnt2 /\ mountedDir' = {} /\ pc' = "prepare"
    BY <1>6 DEF InstallOS, Goto
  <2> QED BY <1>1, <2>1 DEF InMnt2
<1>7. CASE RebootInto \/ PowerLoss
  <2>1. mnt2' = <<>> /\ mountedDir' = {} /\ pc' = "off"
    BY <1>7 DEF RebootInto, PowerLoss, Off
  <2> QED BY <2>1 DEF InMnt2
<1> QED BY Mnt2Steps, <1>3, <1>4, <1>5, <1>6, <1>7

(* The OS to install, and the partition at work.                            *)
LEMMA JobType ==
  ASSUME TypeInv, [Next]_vars
  PROVE  /\ os' \in OSes \cup {NoOS} /\ part' \in Nat
         /\ InJob' => os' \in OSes /\ part' \in DOMAIN Layout[os']
         /\ pc' = "bootInto" /\ caller' = "install" => os' \in OSes
<1>1. /\ os \in OSes \cup {NoOS} /\ part \in Nat
      /\ InJob => os \in OSes /\ part \in DOMAIN Layout[os]
      /\ pc = "bootInto" /\ caller = "install" => os \in OSes
  BY DEF TypeInv, TypeOK, InJob
<1>2. CASE UNCHANGED <<os, part>>
  <2>1. ASSUME \E o \in OSes : InstallOS(o)
        PROVE  os' \in OSes /\ part' \in DOMAIN Layout[os']
    <3>1. PICK o \in OSes : InstallOS(o)
      BY <2>1
    <3>2. os' = o /\ part' = 1
      BY <3>1 DEF InstallOS
    <3> QED BY <3>2, LayoutFacts
  <2> QED BY <1>1, <1>2, <2>1, JobStarts, RegionSteps
<1>3. CASE \E o \in OSes : InstallOS(o)
  <2>1. PICK o \in OSes : InstallOS(o)
    BY <1>3
  <2>2. os' = o /\ part' = 1
    BY <2>1 DEF InstallOS
  <2> QED BY <2>2, LayoutFacts
<1>4. CASE WriteRaw \/ SkipUnformatted \/ MakeFS \/ UnmountAfterUntar
  <2>1. InJob /\ os' = os
    BY <1>4 DEF WriteRaw, SkipUnformatted, MakeFS, UnmountAfterUntar, InJob, Installing
  <2>2. part' = part \/ (part' = part + 1 /\ part < Len(Layout[os]))
    BY <1>4 DEF WriteRaw, SkipUnformatted, MakeFS, UnmountAfterUntar, NextPartition,
      WriteImageFails
  <2>3. DOMAIN Layout[os] = 1..Len(Layout[os]) /\ Len(Layout[os]) \in Nat
    BY <1>1, <2>1, LayoutFacts
  <2> QED BY <1>1, <2>1, <2>2, <2>3
<1>5. CASE RebootInto \/ PowerLoss
  BY <1>5 DEF RebootInto, PowerLoss, Off, InJob, Installing, SettingDefault
<1> QED BY JobSteps, <1>2, <1>3, <1>4, <1>5

(* The arguments of setDefaultBootPartition and bootIntoPartition.          *)
LEMMA DeviceType ==
  ASSUME TypeInv, [Next]_vars
  PROVE  /\ device' \in Prefixed \cup {Unprefixed, Absent}
         /\ pc' \in SettingDefault => device' \in Prefixed
         /\ rebootPart' \in Numbers \cup {0}
<1>1. /\ device \in Prefixed \cup {Unprefixed, Absent}
      /\ pc \in SettingDefault => device \in Prefixed
      /\ rebootPart \in Numbers \cup {0}
      /\ InJob => os \in OSes
  BY DEF TypeInv, TypeOK, InJob
<1>2. InJob => FirstPart(os) \in Prefixed
  BY <1>1, LayoutFacts DEF Prefixed
<1>3. Devices \subseteq Prefixed \cup {Unprefixed}
  BY ValuesAssumption
<1>4. pc \in Installing => InJob
  BY DEF InJob
<1> QED BY <1>1, <1>2, <1>3, <1>4, DeviceSteps, RegionSteps

(* Every step keeps the types.                                              *)
LEMMA TypeNext == TypeInv /\ [Next]_vars => TypeInv'
<1> SUFFICES ASSUME TypeInv, [Next]_vars
             PROVE  TypeInv'
  OBVIOUS
<1> QED
  BY FsType, TableType, ImagesType, BooleansType, ControlType, Mnt2Type, JobType, DeviceType
  DEF TypeInv, TypeOK, InJob, Values

(* A prepared card at its first boot.                                       *)
LEMMA TypeInit == Init => TypeInv
<1> SUFFICES ASSUME Init PROVE TypeInv
  OBVIOUS
<1>1. systems \in BOOLEAN /\ script \in BOOLEAN /\ auto \in BOOLEAN /\ bootMode \in BOOLEAN
  BY Zenon DEF Init
<1>2. fs \in FileSystems(Values)
  BY DEF Init, FileSystems, NoFiles, Values
<1>3. image \in [Numbers -> ImageStates] /\ imageDisk \in [Numbers -> ImageStates]
  BY DEF Init, Blank, ImageStates
<1>4. mnt2 \in Seq(Numbers) /\ mountedDir \subseteq Numbers
  BY DEF Init
<1> QED
  BY <1>1, <1>2, <1>3, <1>4
  DEF Init, TypeInv, TypeOK, Locations, Installing, SettingDefault, InMnt2, Values

(* Every variable has its type, and part points into the partition list of  *)
(* the OS that writeImage writes, whatever fails.                           *)
THEOREM TypeCorrect == Spec => []TypeOK
<1>1. TypeInv => TypeOK
  BY DEF TypeInv
<1> QED BY <1>1, TypeInit, TypeNext, PTL DEF Spec

(* The strengthened form.                                                   *)
LEMMA TypeInvariant == Spec => []TypeInv
BY TypeInit, TypeNext, PTL DEF Spec

-----------------------------------------------------------------------------
(***************************************************************************)
(* /mnt2                                                                   *)
(***************************************************************************)
(* Going on to the next partition, the one at work becomes an earlier one.  *)
LEMMA NextIsEarlier ==
  ASSUME NEW o, NEW n \in Nat \ {0}
  PROVE  /\ \A p : Earlier(o, n, p) => Earlier(o, n + 1, p)
         /\ Earlier(o, n + 1, Layout[o][n].no)
<1>1. \A j \in 1..(n - 1) : j \in 1..(n + 1 - 1)
  OBVIOUS
<1>2. n \in 1..(n + 1 - 1)
  OBVIOUS
<1> QED BY <1>1, <1>2 DEF Earlier

(* Every step keeps the order of the mounts.                                *)
LEMMA Mnt2Next == TypeInv /\ Mnt2Inv /\ [Next]_vars => Mnt2Inv'
<1> SUFFICES ASSUME TypeInv, Mnt2Inv, [Next]_vars, pc' \in OnMnt2
             PROVE  Mnt2Inv'
  BY DEF Mnt2Inv, OnMnt2, InMnt2
<1>1. mnt2 \in Seq(Numbers) /\ DOMAIN mnt2 = 1..Len(mnt2) /\ Len(mnt2) \in Nat
  BY DEF TypeInv, TypeOK
<1>2. CASE UNCHANGED <<pc, mnt2, os, part, exitCode>>
  BY <1>2 DEF Mnt2Inv, Part, Top, FirstPart
<1>3. CASE Sfdisk
  <2>1. pc' = "remount" /\ mnt2' = mnt2 /\ (exitCode' = 0 => mnt2 = <<>>)
    BY <1>3 DEF Sfdisk, Goto, Repartition, SfdiskFails, DiskInUse, kernel
  <2> QED BY <2>1 DEF Mnt2Inv
<1>4. CASE Remount
  <2>1. pc' = "zero" /\ pc = "remount" /\ exitCode = 0 /\ mnt2' = mnt2
    BY <1>4 DEF Remount, InstallFails, OnMnt2, InMnt2
  <2> QED BY <2>1 DEF Mnt2Inv
<1>5. CASE ZeroPartitions
  <2>1. pc' = "write" /\ pc = "zero" /\ mnt2' = mnt2
    BY <1>5 DEF ZeroPartitions, InstallFails, OnMnt2, InMnt2, kernel
  <2>2. DOMAIN mnt2' = {}
    BY <2>1 DEF Mnt2Inv
  <2> QED BY <2>1, <2>2 DEF Mnt2Inv
<1>6. CASE WriteRaw \/ SkipUnformatted \/ MakeFS
  <2>1. pc = "write" /\ pc \in Installing /\ UNCHANGED <<mnt2, os>>
    BY <1>6 DEF WriteRaw, SkipUnformatted, MakeFS, kernel, Installing
  <2>2. (NextPartition /\ pc' = "write") \/ (pc' = "mount" /\ part' = part)
    BY <1>6 DEF WriteRaw, SkipUnformatted, MakeFS, WriteImageFails, LeaveWriteImage,
      OnMnt2, InMnt2, NextPartition
  <2>3. CASE NextPartition /\ pc' = "write"
    <3>1. part \in Nat \ {0}
      BY <2>1, AtWork
    <3>2. part' = part + 1
      BY <2>3 DEF NextPartition
    <3>3. \A i \in DOMAIN mnt2 : Earlier(os, part + 1, mnt2[i])
      BY <2>1, <3>1, NextIsEarlier DEF Mnt2Inv
    <3> QED BY <2>1, <2>3, <3>2, <3>3 DEF Mnt2Inv
  <2>4. CASE pc' = "mount" /\ part' = part
    BY <2>1, <2>4 DEF Mnt2Inv
  <2> QED BY <2>2, <2>3, <2>4
<1>7. CASE MountForUntar
  <2>1. pc = "mount" /\ pc \in Installing /\ UNCHANGED <<os, part>> /\ pc' = "untar"
    BY <1>7 DEF MountForUntar, MountPartition, LeaveWriteImage, OnMnt2, InMnt2, Installing
  <2>2. mnt2' = Append(mnt2, Part)
    BY <1>7, <2>1 DEF MountForUntar, MountPartition, LeaveWriteImage
  <2>3. Part \in Numbers
    BY <2>1, AtWork
  <2>4. /\ Top(mnt2') = Part /\ Len(mnt2') = Len(mnt2) + 1
        /\ \A i \in 1..Len(mnt2) : mnt2'[i] = mnt2[i]
    BY <1>1, <2>2, <2>3, MountPush
  <2>5. \A i \in 1..(Len(mnt2') - 1) : Earlier(os, part, mnt2'[i])
    BY <1>1, <2>1, <2>4 DEF Mnt2Inv
  <2>6. Part' = Part
    BY <2>1 DEF Part
  <2> QED BY <2>1, <2>4, <2>5, <2>6 DEF Mnt2Inv, Top
<1>8. CASE Untar
  <2>1. pc = "untar" /\ pc' \in {"umount", "umountAndFail"} /\ UNCHANGED <<mnt2, os, part>>
    BY <1>8 DEF Untar, kernel, job
  <2> QED BY <2>1 DEF Mnt2Inv, Part, Top
<1>9. CASE UnmountAfterUntar
  <2>1. /\ pc = "umount" /\ pc \in Installing /\ pc \in InMnt2
        /\ os' = os /\ NextPartition /\ pc' = "write"
    BY <1>9 DEF UnmountAfterUntar, LeaveWriteImage, NextPartition, OnMnt2, InMnt2, Installing
  <2>2. mnt2' = mnt2 \/ mnt2' = Front(mnt2)
    BY <1>9 DEF UnmountAfterUntar, UmountMnt2, UmountMnt2Fails
  <2>3. mnt2 # <<>>
    BY <2>1 DEF TypeInv
  <2>4. \A i \in DOMAIN mnt2 : Earlier(os, part, mnt2[i]) \/ mnt2[i] = Part
    BY <1>1, <2>1 DEF Mnt2Inv, Top
  <2>5. DOMAIN mnt2' \subseteq DOMAIN mnt2 /\ \A i \in DOMAIN mnt2' : mnt2'[i] = mnt2[i]
    <3>1. /\ Front(mnt2) \in Seq(Numbers) /\ Len(Front(mnt2)) = Len(mnt2) - 1
          /\ \A i \in 1..(Len(mnt2) - 1) : Front(mnt2)[i] = mnt2[i]
      BY <1>1, <2>3, MountPop
    <3>2. DOMAIN Front(mnt2) = 1..(Len(mnt2) - 1)
      BY <3>1
    <3> QED BY <1>1, <2>2, <3>1, <3>2
  <2>6. \A i \in DOMAIN mnt2' : Earlier(os', part', mnt2'[i])
    <3>1. part \in Nat \ {0} /\ part' = part + 1
      BY <2>1, AtWork DEF NextPartition
    <3>2. \A i \in DOMAIN mnt2 : Earlier(os, part + 1, mnt2[i])
      BY <2>4, <3>1, NextIsEarlier DEF Part
    <3> QED BY <2>1, <2>5, <3>1, <3>2
  <2> QED BY <2>1, <2>6 DEF Mnt2Inv
<1>10. CASE MountFirst
  <2>1. pc \in Installing /\ os' = os /\ pc' = "config"
    BY <1>10 DEF MountFirst, MountPartition, LeaveWriteImage, OnMnt2, InMnt2, Installing
  <2>2. mnt2' = Append(mnt2, FirstPart(os))
    BY <1>10, <2>1 DEF MountFirst, MountPartition, LeaveWriteImage
  <2>3. Top(mnt2') = FirstPart(os)
    BY <1>1, <2>1, <2>2, AtWork, MountPush
  <2> QED BY <2>1, <2>3 DEF Mnt2Inv, Top, FirstPart
<1>11. CASE SaveConfig \/ RunScript
  <2>1. pc \in {"config", "script"} /\ pc' \in {"script", "finalUmount"} /\ UNCHANGED <<mnt2, os>>
    BY <1>11 DEF SaveConfig, RunScript, LeaveWriteImage, OnMnt2, InMnt2, kernel, job
  <2> QED BY <2>1 DEF Mnt2Inv, Top, FirstPart
<1> QED
  BY OnMnt2Steps, <1>2, <1>3, <1>4, <1>5, <1>6, <1>7, <1>8, <1>9, <1>10, <1>11

(* The mounts on /mnt2 are in order in every reachable state.               *)
LEMMA Mnt2Invariant == Spec => [](TypeInv /\ Mnt2Inv)
<1>1. Init => Mnt2Inv
  BY DEF Init, Mnt2Inv
<1> QED BY <1>1, Mnt2Next, TypeInit, TypeNext, PTL DEF Spec

(* No partition is zeroed, written or formatted while it is mounted on      *)
(* /mnt2, whatever failed before: partitionSDCard and writeImage rely on    *)
(* sfdisk's refusal to touch a disk in use, and on distinct numbers.        *)
THEOREM WritesUnmounted == Spec => []NoWriteToMounted
<1>1. TypeInv /\ Mnt2Inv => NoWriteToMounted
  <2> SUFFICES ASSUME TypeInv, Mnt2Inv PROVE NoWriteToMounted
    OBVIOUS
  <2>1. pc = "zero" => MountedOnMnt2 = {}
    BY DEF Mnt2Inv, MountedOnMnt2
  <2>2. ASSUME pc = "write" PROVE Part \notin MountedOnMnt2
    <3>1. os \in OSes /\ part \in 1..Len(Layout[os]) /\ Len(Layout[os]) \in Nat
          /\ DOMAIN Layout[os] = 1..Len(Layout[os])
      BY <2>2, AtWork, LayoutFacts DEF Installing
    <3>2. \A j \in 1..(part - 1) : j \in DOMAIN Layout[os] /\ j # part
      BY <3>1
    <3>3. \A j \in 1..(part - 1) : Layout[os][j].no # Part
      BY <3>1, <3>2, NumbersAssumption DEF Part
    <3> QED BY <2>2, <3>3 DEF Mnt2Inv, MountedOnMnt2, Earlier
  <2> QED BY <2>1, <2>2 DEF NoWriteToMounted
<1> QED BY <1>1, Mnt2Invariant, PTL

-----------------------------------------------------------------------------
(***************************************************************************)
(* What a client may rely on                                               *)
(***************************************************************************)
(* Every step keeps the default partition of an installation that reboots.  *)
LEMMA DefaultNext ==
  ASSUME ~MayFail("remove"), TypeInv, DefaultInv, [Next]_vars
  PROVE  DefaultInv'
<1> SUFFICES ASSUME caller' = "install",
                    pc' \in {"removeDefault", "putDefault", "sync", "bootInto"}
             PROVE  DefaultInv'
  BY DEF DefaultInv, SettingDefault
<1>1. fs \in FileSystems(Values) /\ Absent \in Values /\ Zero \in Values /\ "default" \in Files
  BY DEF TypeInv, TypeOK, Values, Files
<1>2. CASE UNCHANGED <<pc, fs, os, caller, device>>
  BY <1>2 DEF DefaultInv, FirstPart
<1>3. CASE Writeback /\ UNCHANGED <<pc, os, caller, device>>
  <2>1. Contents(fs, "default")' = Contents(fs, "default")
    <3>1. CASE fs' = fs
      BY <3>1
    <3>2. CASE \E d \in CommitOutcomes(fs) : fs' = [fs EXCEPT !.disk = d]
      <4>1. PICK d \in CommitOutcomes(fs) : fs' = [fs EXCEPT !.disk = d]
        BY <3>2
      <4>2. Contents([fs EXCEPT !.disk = d], "default") = Contents(fs, "default")
        BY <1>1, <4>1, CommitEffect
      <4> QED BY <4>1, <4>2
    <3> QED BY <1>3, <3>1, <3>2 DEF Writeback
  <2> QED BY <1>3, <2>1 DEF DefaultInv, FirstPart
<1>4. CASE pc \in Installing /\ pc' = "removeDefault" /\ device' = FirstPart(os) /\ os' = os
  BY <1>4 DEF DefaultInv, FirstPart
<1>5. CASE RemoveDefault
  <2>1. /\ fs' = Store(fs, "default", Absent) /\ pc = "removeDefault" /\ pc' = "putDefault"
        /\ UNCHANGED <<os, caller, device>>
    BY <1>5 DEF RemoveDefault, RemoveFile, Goto, job, call
  <2>2. Contents(Store(fs, "default", Absent), "default") = Absent
    BY <1>1, StoreReads
  <2> QED BY <2>1, <2>2 DEF DefaultInv, SettingDefault, FirstPart
<1>6. CASE PutDefault
  <2>1. pc = "putDefault" /\ caller = "install" /\ pc' = "sync" /\ os' = os
    BY <1>6 DEF PutDefault, Goto, AfterDefault, job, call
  <2>2. device \in Values /\ device = FirstPart(os) /\ Contents(fs, "default") = Absent
    BY <2>1 DEF DefaultInv, SettingDefault, TypeInv, Values
  <2>3. fs' \in {fs, Store(fs, "default", device), Store(fs, "default", Zero)}
    BY <1>6 DEF PutDefault
  <2>4. \A v \in Values : Contents(Store(fs, "default", v), "default") = v
    BY <1>1, StoreReads
  <2>5. Contents(fs', "default") \in {Absent, Zero, FirstPart(os)}
    BY <1>1, <2>2, <2>3, <2>4
  <2> QED BY <2>1, <2>5 DEF DefaultInv, SettingDefault, FirstPart
<1>7. CASE Sync
  <2>1. pc = "sync" /\ caller = "install" /\ fs' = Flush(fs) /\ device' = Absent /\ os' = os
    BY <1>7 DEF Sync, job
  <2>2. pc' \notin SettingDefault
    BY <1>7 DEF Sync, SettingDefault
  <2>3. Contents(fs', "default") = Contents(fs, "default")
    BY <1>1, <2>1, FlushEffect
  <2> QED BY <2>1, <2>2, <2>3 DEF DefaultInv, SettingDefault, FirstPart
<1> QED BY DefaultSteps, <1>2, <1>3, <1>4, <1>5, <1>6, <1>7

(* With AutoReboot the program reboots into the OS it has just installed,   *)
(* never into an older default, also when default_boot_partition could not  *)
(* be written or is cut short. f.remove() must work: its result is ignored, *)
(* and putFileContents does not write over the file it left.                *)
THEOREM RebootsIntoInstalled ==
  ASSUME "remove" \notin Failures
  PROVE  Spec => AutoRebootTarget
<1>0. ~MayFail("remove")
  BY DEF MayFail
<1>1. Init => DefaultInv
  BY DEF Init, DefaultInv
<1>2. TypeInv /\ DefaultInv /\ [Next]_vars => DefaultInv'
  BY <1>0, DefaultNext
<1>3. TypeInv /\ DefaultInv /\ [Next]_vars =>
        [(RebootInto /\ caller = "install") => rebootPart' = FirstPart(os)]_vars
  <2> SUFFICES ASSUME TypeInv, DefaultInv, RebootInto, caller = "install"
               PROVE  rebootPart' = FirstPart(os)
    OBVIOUS
  <2>1. pc = "bootInto" /\ rebootPart' = BootDevice /\ BootDevice \in Numbers
    BY DEF RebootInto
  <2>2. BootDevice \in {Absent, Zero, FirstPart(os)}
    BY <2>1 DEF DefaultInv, BootDevice
  <2>3. Absent \notin Numbers /\ Zero \notin Numbers
    BY ValuesAssumption DEF Prefixed
  <2> QED BY <2>1, <2>2, <2>3
<1> QED BY <1>1, <1>2, <1>3, TypeInit, TypeNext, PTL DEF Spec, AutoRebootTarget

-----------------------------------------------------------------------------
(***************************************************************************)
(* Provision implements CardContract, if the operations whose results      *)
(* InstallManager does not look at work.                                   *)
(***************************************************************************)
(* unmountSettingsPartition, mountSettingsPartition and f.remove(): nobody  *)
(* looks at what they return. Every other operation may fail.               *)
Reliable == Failures \cap {"mountSettings", "umount", "remove"} = {}

(***************************************************************************)
(* The inductive invariant of the contract                                 *)
(***************************************************************************)
(* o is what the table is for, and is there with and without a power cut.   *)
Holds(o) == table = o /\ Complete(image, o) /\ Complete(imageDisk, o)

BeforeLoop == {"prepare", "removeInstalled", "unmount", "sfdisk", "remount", "zero"}
WriteLoop == {"write", "mount", "untar", "umount", "umountAndFail"}
AfterLoop == {"mountFirst", "config", "script", "finalUmount", "saveInstalled"}

(* partitionSDCard has removed installed_os.json; and unmounted /settings.  *)
OffDisk == {"sfdisk", "remount", "zero"} \cup WriteLoop \cup AfterLoop
Forgotten == {"unmount"} \cup OffDisk

(* Outside the program, and while partitionSDCard has it unmounted, the     *)
(* settings partition is not mounted; otherwise it is, if there is one.     *)
Away == {"off", "os", "start", "sfdisk", "remount"}

SettingsInv ==
  /\ pc \in Away => ~fs.mounted
  /\ pc \notin Away => (fs.mounted <=> table # Torn)

(* What installed_os.json lists, on the disk and as the program sees it, is *)
(* on the card.                                                             *)
ListedInv ==
  /\ fs.disk["installed"] \in OSes => Holds(fs.disk["installed"])
  /\ fs.mounted /\ fs.cache["installed"] \in OSes => Holds(fs.cache["installed"])

(* While partitions are rewritten, nothing is listed.                       *)
ForgottenInv ==
  /\ pc \in Forgotten /\ fs.mounted => fs.cache["installed"] \notin OSes
  /\ pc \in OffDisk => fs.disk["installed"] \notin OSes

(* How far writeImage has come.                                             *)
Has(p) == image[p][1] = os /\ imageDisk[p][1] = os

ProgressInv ==
  /\ pc \in BeforeLoop => part = 1
  /\ pc = "remount" /\ exitCode = 0 => table = os
  /\ pc \in {"zero"} \cup WriteLoop \cup AfterLoop => table = os
  /\ pc \in WriteLoop => \A j \in 1..(part - 1) : Has(Layout[os][j].no)
  /\ pc = "umount" => image[Part][1] = os
  /\ pc \in AfterLoop => \A p \in PartsOf(os) : Has(p)
  /\ pc = "script" => Promised(os) \subseteq image[FirstPart(os)][2] \cup {"setup"}
  /\ pc \in {"finalUmount", "saveInstalled"} => Promised(os) \subseteq image[FirstPart(os)][2]
  /\ pc = "saveInstalled" => Promised(os) \subseteq imageDisk[FirstPart(os)][2]

CardInv == SettingsInv /\ ListedInv /\ ForgottenInv /\ ProgressInv

-----------------------------------------------------------------------------
(***************************************************************************)
(* Which steps enter and leave these regions of the code                   *)
(***************************************************************************)
USE DEF Next, Program, Request, vars, kernel, card, job, call, boot,
        InstallFails, NextPartition, WriteImageFails, LeaveWriteImage,
        MountPartition, UmountMnt2Fails, Off, PowerOn, Run,
        ProcessArgs, BootCheck, EnterSetup, RejectRequest, ExitToShell,
        InstallOS, SetDefault, Reboot, RemoveDefault, PutDefault, PrepareImage,
        RemoveInstalled, RefuseTable, UnmountAll, Sfdisk, Remount,
        ZeroPartitions, WriteRaw, SkipUnformatted, MakeFS, MountForUntar, Untar,
        UnmountAfterUntar, MountFirst, SaveConfig, RunScript, FinalUmount,
        SaveInstalled, Sync, RebootInto, CannotBoot, Writeback, PowerLoss,
        Goto, AfterDefault

(* The steps that mount and unmount the settings partition.                 *)
LEMMA AwaySteps ==
  ASSUME [Next]_vars
  PROVE  \/ pc \in Away <=> pc' \in Away
         \/ Run \/ Remount \/ UnmountAll \/ PowerLoss \/ RebootInto
BY DEF Away

(* Nothing is listed from the removal of installed_os.json on.              *)
LEMMA ForgottenSteps ==
  ASSUME [Next]_vars
  PROVE  /\ pc' \in Forgotten => pc \in Forgotten \/ RemoveInstalled
         /\ pc' \in OffDisk => pc \in OffDisk \/ UnmountAll
         /\ pc \in Forgotten /\ pc' \in Forgotten =>
              \/ UNCHANGED fs \/ UnmountAll \/ Sfdisk \/ Remount \/ Writeback
BY DEF Forgotten, OffDisk, WriteLoop, AfterLoop

(* The steps of an installation that rewrite the card.                      *)
LEMMA RewriteSteps ==
  ASSUME [Next]_vars
  PROVE  \/ UNCHANGED <<table, image, imageDisk>>
         \/ pc \in OffDisk /\ UNCHANGED fs
         \/ EnterSetup \/ Sfdisk \/ Sync \/ RebootInto \/ Writeback \/ PowerLoss
BY DEF OffDisk, WriteLoop, AfterLoop

(* The steps that lead on in an installation, or stay.                      *)
LEMMA ProgressSteps ==
  ASSUME [Next]_vars, pc' \in BeforeLoop \cup WriteLoop \cup AfterLoop
  PROVE  \/ /\ UNCHANGED <<pc, table, image, os, part, exitCode>>
            /\ imageDisk' \in {imageDisk, image}
         \/ (\E o \in OSes : InstallOS(o))
         \/ PrepareImage \/ RemoveInstalled \/ UnmountAll \/ Sfdisk \/ Remount
         \/ ZeroPartitions \/ WriteRaw \/ SkipUnformatted \/ MakeFS \/ MountForUntar
         \/ Untar \/ UnmountAfterUntar \/ MountFirst \/ SaveConfig \/ RunScript
         \/ FinalUmount
BY DEF BeforeLoop, WriteLoop, AfterLoop

HIDE DEF Next, Program, Request, vars, kernel, card, job, call, boot,
         InstallFails, NextPartition, WriteImageFails, LeaveWriteImage,
         MountPartition, UmountMnt2Fails, Off, PowerOn, Run,
         ProcessArgs, BootCheck, EnterSetup, RejectRequest, ExitToShell,
         InstallOS, SetDefault, Reboot, RemoveDefault, PutDefault, PrepareImage,
         RemoveInstalled, RefuseTable, UnmountAll, Sfdisk, Remount,
         ZeroPartitions, WriteRaw, SkipUnformatted, MakeFS, MountForUntar, Untar,
         UnmountAfterUntar, MountFirst, SaveConfig, RunScript, FinalUmount,
         SaveInstalled, Sync, RebootInto, CannotBoot, Writeback, PowerLoss,
         Goto, AfterDefault

-----------------------------------------------------------------------------
(***************************************************************************)
(* What the steps do to the settings partition                             *)
(***************************************************************************)
(* Values that are no OS.                                                   *)
LEMMA FsFacts ==
  ASSUME TypeInv
  PROVE  /\ fs \in FileSystems(Values)
         /\ fs.mounted \in BOOLEAN
         /\ Absent \in Values /\ Zero \in Values /\ Absent \notin OSes /\ Zero \notin OSes
         /\ "installed" \in Files /\ "default" \in Files
<1>1. fs \in FileSystems(Values)
  BY DEF TypeInv, TypeOK, Values
<1> QED BY <1>1, FileSystemParts, ValuesAssumption DEF Values, Files

(* mountSettingsPartition works when there is a settings partition.         *)
LEMMA MountsSettings ==
  ASSUME Reliable, NEW s, MountSettings(s)
  PROVE  fs' = IF table' = Torn THEN s ELSE Mount(s)
BY DEF Reliable, MountSettings, MayFail

(* setDefaultBootPartition does not touch installed_os.json.                *)
LEMMA DefaultEffect ==
  ASSUME TypeInv, RemoveDefault \/ PutDefault
  PROVE  /\ fs'.mounted = fs.mounted /\ fs'.disk = fs.disk
         /\ fs'.cache["installed"] = fs.cache["installed"]
<1>1. fs \in FileSystems(Values) /\ Absent \in Values /\ Zero \in Values
      /\ "default" \in Files /\ "installed" \in Files
  BY FsFacts
<1>2. fs.cache \in [Files -> Values]
  BY <1>1, FileSystemParts
<1>3. ASSUME NEW v \in Values
      PROVE  LET s == Store(fs, "default", v)
             IN  /\ s.mounted = fs.mounted /\ s.disk = fs.disk
                 /\ s.cache["installed"] = fs.cache["installed"]
  <2> DEFINE s == Store(fs, "default", v)
  <2>1. /\ s.mounted = fs.mounted /\ s.disk = fs.disk
        /\ fs.mounted => s.cache = [fs.cache EXCEPT !["default"] = v]
        /\ ~fs.mounted => s.cache = fs.cache
    BY <1>1, StoreEffect
  <2> HIDE DEF s
  <2>2. s.cache["installed"] = fs.cache["installed"]
    BY <1>1, <1>2, <2>1
  <2> QED BY <2>1, <2>2 DEF s
<1>4. \E v \in Values : fs' = fs \/ fs' = Store(fs, "default", v)
  <2>1. CASE RemoveDefault
    BY <1>1, <2>1 DEF RemoveDefault, RemoveFile
  <2>2. CASE PutDefault
    <3>1. device \in Values
      BY <2>2 DEF PutDefault, Goto, TypeInv, SettingDefault, Values
    <3> QED BY <1>1, <2>2, <3>1 DEF PutDefault
  <2> QED BY <2>1, <2>2
<1> QED BY <1>3, <1>4

(* f.remove() of installed_os.json.                                         *)
LEMMA RemoveEffect ==
  ASSUME Reliable, TypeInv, RemoveInstalled
  PROVE  /\ fs'.mounted = fs.mounted /\ fs'.disk = fs.disk
         /\ fs.mounted => fs'.cache["installed"] = Absent
<1>1. fs \in FileSystems(Values) /\ Absent \in Values /\ "installed" \in Files
  BY FsFacts
<1>2. fs.cache \in [Files -> Values]
  BY <1>1, FileSystemParts
<1>3. fs' = Store(fs, "installed", Absent)
  BY DEF RemoveInstalled, RemoveFile, Reliable, MayFail
<1> DEFINE s == Store(fs, "installed", Absent)
<1>4. /\ s.mounted = fs.mounted /\ s.disk = fs.disk
      /\ fs.mounted => s.cache = [fs.cache EXCEPT !["installed"] = Absent]
  BY <1>1, StoreEffect
<1> HIDE DEF s
<1>5. fs' = s
  BY <1>3 DEF s
<1> QED BY <1>1, <1>2, <1>4, <1>5

(* installed_os.json is written, or cut short.                              *)
LEMMA SaveEffect ==
  ASSUME TypeInv, SaveInstalled
  PROVE  /\ fs'.mounted = fs.mounted /\ fs'.disk = fs.disk
         /\ fs'.cache["installed"] \in {os, Zero, fs.cache["installed"]}
<1>1. fs \in FileSystems(Values) /\ Zero \in Values /\ "installed" \in Files
  BY FsFacts
<1>2. fs.cache \in [Files -> Values]
  BY <1>1, FileSystemParts
<1>3. os \in Values
  BY DEF SaveInstalled, TypeInv, TypeOK, Installing, Values
<1>4. ASSUME NEW v \in Values
      PROVE  LET s == Store(fs, "installed", v)
             IN  /\ s.mounted = fs.mounted /\ s.disk = fs.disk
                 /\ s.cache["installed"] \in {v, fs.cache["installed"]}
  <2> DEFINE s == Store(fs, "installed", v)
  <2>1. /\ s.mounted = fs.mounted /\ s.disk = fs.disk
        /\ fs.mounted => s.cache = [fs.cache EXCEPT !["installed"] = v]
        /\ ~fs.mounted => s.cache = fs.cache
    BY <1>1, StoreEffect
  <2> HIDE DEF s
  <2>2. s.cache["installed"] \in {v, fs.cache["installed"]}
    BY <1>1, <1>2, <2>1
  <2> QED BY <2>1, <2>2 DEF s
<1>5. fs' \in {fs, Store(fs, "installed", os), Store(fs, "installed", Zero)}
  BY DEF SaveInstalled
<1> QED BY <1>1, <1>3, <1>4, <1>5

(* The journal commits, or other pages are written back.                    *)
LEMMA WritebackEffect ==
  ASSUME TypeInv, Writeback
  PROVE  /\ fs'.mounted = fs.mounted /\ fs'.cache = fs.cache
         /\ UNCHANGED <<table, image>>
         /\ \/ fs' = fs /\ imageDisk' \in {imageDisk, image}
            \/ /\ imageDisk' = imageDisk /\ fs.mounted
               /\ fs'.disk["installed"] \in {fs.cache["installed"], Zero}
<1>1. fs \in FileSystems(Values) /\ Absent \in Values /\ Zero \in Values /\ "installed" \in Files
  BY FsFacts
<1>2. ASSUME NEW d \in CommitOutcomes(fs), fs' = [fs EXCEPT !.disk = d]
      PROVE  /\ fs'.mounted = fs.mounted /\ fs'.cache = fs.cache
             /\ fs'.disk["installed"] \in {fs.cache["installed"], Zero}
  BY <1>1, <1>2, CommitEffect
<1>3. UNCHANGED <<table, image>>
  BY DEF Writeback
<1>4. CASE fs' = fs
  BY <1>3, <1>4 DEF Writeback
<1>5. CASE fs' # fs
  BY <1>2, <1>3, <1>5 DEF Writeback
<1> QED BY <1>4, <1>5

(* sync brings disk and memory together, and so does the sync of a reboot.  *)
LEMMA SyncEffect ==
  ASSUME TypeInv, Sync \/ RebootInto
  PROVE  /\ UNCHANGED <<table, image>> /\ imageDisk' = image
         /\ fs'.disk = IF fs.mounted THEN fs.cache ELSE fs.disk
         /\ Sync => fs'.mounted = fs.mounted /\ fs'.cache = fs.cache
         /\ RebootInto => ~fs'.mounted
<1>1. fs \in FileSystems(Values) /\ Absent \in Values
  BY FsFacts
<1>2. /\ Flush(fs) \in FileSystems(Values)
      /\ Flush(fs).mounted = fs.mounted /\ Flush(fs).cache = fs.cache
      /\ Flush(fs).disk = IF fs.mounted THEN fs.cache ELSE fs.disk
  BY <1>1, FlushEffect
<1>3. /\ ~PowerCut(Flush(fs)).mounted
      /\ PowerCut(Flush(fs)).disk = Flush(fs).disk
  BY <1>1, <1>2, PowerCutEffect
<1>4. UNCHANGED <<table, image>> /\ imageDisk' = image
  BY DEF Sync, RebootInto
<1>5. /\ Sync => fs' = Flush(fs)
      /\ RebootInto => fs' = PowerCut(Flush(fs))
  BY DEF Sync, RebootInto
<1> QED BY <1>2, <1>3, <1>4, <1>5

(* partitionSDCard unmounts /settings: what was not yet written is then.    *)
LEMMA UnmountAllEffect ==
  ASSUME Reliable, TypeInv, UnmountAll
  PROVE  /\ table # Torn /\ ~fs'.mounted
         /\ fs.mounted => fs'.disk = fs.cache
         /\ ~fs.mounted => fs' = fs
<1>1. fs \in FileSystems(Values)
  BY FsFacts
<1>2. fs' = Unmount(fs) /\ table # Torn
  BY DEF UnmountAll, TableUnreadable, Reliable, MayFail
<1> QED BY <1>1, <1>2, UnmountEffect

(* /settings is mounted where it was away, and shows what the disk holds.   *)
LEMMA RemountEffect ==
  ASSUME Reliable, TypeInv, ~fs.mounted, Run \/ Remount
  PROVE  /\ UNCHANGED <<table, image, imageDisk>>
         /\ fs'.mounted <=> table # Torn
         /\ fs'.disk = fs.disk
         /\ fs'.mounted => fs'.cache = fs.disk
<1>1. fs \in FileSystems(Values)
  BY FsFacts
<1>2. UNCHANGED <<table, image, imageDisk>> /\ MountSettings(fs)
  BY DEF Run, Remount, card
<1>3. fs' = IF table' = Torn THEN fs ELSE Mount(fs)
  BY <1>2, MountsSettings
<1>4. Mount(fs).mounted /\ Mount(fs).disk = fs.disk /\ Mount(fs).cache = fs.disk
  BY <1>1, MountEffect
<1> QED BY <1>2, <1>3, <1>4

(* EnterSetup prepares a card whose table is torn, or leaves it as it is.   *)
LEMMA EnterSetupEffect ==
  ASSUME Reliable, TypeInv, SettingsInv, EnterSetup
  PROVE  \/ UNCHANGED <<fs, table, image, imageDisk>>
         \/ /\ table' # Torn /\ fs'.mounted /\ table = Torn
            /\ fs'.disk["installed"] = Absent /\ fs'.cache["installed"] = Absent
<1>1. fs \in FileSystems(Values) /\ Absent \in Values /\ "installed" \in Files
  BY FsFacts
<1>2. fs.mounted <=> table # Torn
  BY DEF EnterSetup, Goto, SettingsInv, Away
<1>3. CASE UNCHANGED card /\ MountSettings(fs)
  <2>1. fs' = IF table = Torn THEN fs ELSE Mount(fs)
    BY <1>3, MountsSettings DEF card
  <2>2. fs.mounted => Mount(fs) = fs
    BY <1>1, MountEffect
  <2> QED BY <1>2, <1>3, <2>1, <2>2 DEF card
<1>4. CASE table = Torn /\ table' = NoOS /\ MountSettings([fs EXCEPT !.disk = NoFiles])
  <2> DEFINE s == [fs EXCEPT !.disk = NoFiles]
  <2>1. s \in FileSystems(Values) /\ ~s.mounted /\ s.disk["installed"] = Absent
    BY <1>1, <1>2, <1>4 DEF FileSystems, NoFiles
  <2>2. fs' = Mount(s)
    BY <1>4, MountsSettings, OSAssumption
  <2> HIDE DEF s
  <2>3. Mount(s).mounted /\ Mount(s).disk = s.disk /\ Mount(s).cache = s.disk
    BY <2>1, MountEffect
  <2> QED BY <1>4, <2>1, <2>2, <2>3, OSAssumption
<1> QED BY <1>3, <1>4 DEF EnterSetup, PrepareCard

-----------------------------------------------------------------------------
(***************************************************************************)
(* A success is on the card, if mounting /settings works                   *)
(***************************************************************************)
(* partitionSDCard does not look at the result of mountSettingsPartition,   *)
(* so this is a condition; umount, remove and every command may fail.       *)
MountWorks == "mountSettings" \notin Failures

(* Every step keeps /settings mounted from partitionSDCard to the sync.     *)
LEMMA RemountedNext ==
  ASSUME MountWorks, TypeInv, RemountedInv, [Next]_vars
  PROVE  RemountedInv'
<1>1. fs \in FileSystems(Values) /\ Torn \notin OSes
  BY FsFacts, OSAssumption
<1>2. (pc = "remount" /\ exitCode = 0 => table # Torn)'
  <2>1. CASE Sfdisk
    <3>1. os \in OSes
      BY <2>1 DEF Sfdisk, Goto, TypeInv, TypeOK, Installing
    <3> QED BY <1>1, <2>1, <3>1 DEF Sfdisk, Repartition, SfdiskFails
  <2>2. CASE UNCHANGED <<pc, exitCode, table>>
    BY <2>2 DEF RemountedInv
  <2> QED BY <2>1, <2>2, SfdiskSteps
<1>3. ASSUME Remounted'
      PROVE  fs'.mounted
  <2>1. CASE Remount /\ exitCode = 0
    <3>1. MountSettings(fs) /\ table' = table /\ pc = "remount"
      BY <2>1 DEF Remount, card
    <3>2. table' # Torn
      BY <2>1, <3>1 DEF RemountedInv
    <3>3. fs' = Mount(fs)
      BY <3>1, <3>2 DEF MountSettings, MountWorks, MayFail
    <3> QED BY <1>1, <3>3, MountEffect
  <2>2. CASE Remounted /\ UNCHANGED fs
    BY <2>2 DEF RemountedInv
  <2>3. CASE Remounted /\ (RemoveDefault \/ PutDefault \/ SaveInstalled \/ Writeback)
    BY <2>3, DefaultEffect, SaveEffect, WritebackEffect DEF RemountedInv
  <2> QED BY <1>3, <2>1, <2>2, <2>3, RemountedSteps
<1> QED BY <1>2, <1>3 DEF RemountedInv

(* Every step keeps what a client was told.                                 *)
LEMMA ToldNext ==
  ASSUME TypeInv, RemountedInv, ToldInv, [Next]_vars
  PROVE  ToldInv'
<1> SUFFICES ASSUME reply' = "installed"
             PROVE  /\ pc' \in {"listen", "shell", "bootInto"}
                    /\ imageDisk' = image' /\ fs'.mounted /\ fs'.disk = fs'.cache
  BY DEF ToldInv
<1>1. fs \in FileSystems(Values) /\ Absent \in Values /\ Zero \in Values
  BY FsFacts
<1>2. reply = "installed" => /\ pc \in {"listen", "shell", "bootInto"}
                             /\ imageDisk = image /\ fs.mounted /\ fs.disk = fs.cache
  BY DEF ToldInv
<1>3. pc' \in {"listen", "shell", "bootInto"}
  BY <1>2, ToldSteps
<1>4. CASE Sync
  <2>1. fs.mounted
    BY <1>4 DEF Sync, RemountedInv, Remounted
  <2> QED BY <1>3, <1>4, <2>1, SyncEffect
<1>5. CASE reply = "installed" /\ UNCHANGED <<fs, image, imageDisk>>
  BY <1>2, <1>3, <1>5
<1>6. CASE reply = "installed" /\ Writeback
  <2>1. imageDisk' = image'
    BY <1>2, <1>6 DEF Writeback
  <2>2. CASE fs' = fs
    BY <1>2, <1>3, <1>6, <2>1, <2>2
  <2>3. CASE fs.mounted /\ \E d \in CommitOutcomes(fs) : fs' = [fs EXCEPT !.disk = d]
    <3>1. PICK d \in CommitOutcomes(fs) : fs' = [fs EXCEPT !.disk = d]
      BY <2>3
    <3>2. /\ fs'.mounted = fs.mounted /\ fs'.disk = d /\ fs'.cache = fs.cache
          /\ fs.disk = fs.cache => d = fs.cache
      BY <1>1, <3>1, CommitEffect
    <3> QED BY <1>2, <1>3, <1>6, <2>1, <2>3, <3>2
  <2> QED BY <1>6, <2>2, <2>3 DEF Writeback
<1> QED BY <1>2, <1>4, <1>5, <1>6, ToldSteps

(* After "Successfully installed OS" the plug may be pulled: the card holds *)
(* what the program sees, partitions and settings, until the next request   *)
(* changes it.  The one condition is that mounting /settings works; when it *)
(* does not, the files of the installation are in the ramdisk.              *)
THEOREM InstalledIsDurable ==
  ASSUME MountWorks
  PROVE  Spec => []ToldIsDurable
<1>1. Init => RemountedInv /\ ToldInv
  BY DEF Init, RemountedInv, Remounted, SettingDefault, ToldInv
<1>2. ToldInv => ToldIsDurable
  BY DEF ToldInv, ToldIsDurable, Contents
<1>3. TypeInv /\ RemountedInv /\ [Next]_vars => RemountedInv'
  BY RemountedNext
<1>4. TypeInv /\ RemountedInv /\ ToldInv /\ [Next]_vars => ToldInv'
  BY ToldNext
<1> QED BY <1>1, <1>2, <1>3, <1>4, TypeInit, TypeNext, PTL DEF Spec

-----------------------------------------------------------------------------
(***************************************************************************)
(* The invariant is inductive                                              *)
(***************************************************************************)
(* Where the settings partition is mounted.                                 *)
LEMMA SettingsNext ==
  ASSUME Reliable, TypeInv, SettingsInv, [Next]_vars
  PROVE  SettingsInv'
<1>1. fs \in FileSystems(Values) /\ fs.mounted \in BOOLEAN /\ Absent \in Values
  BY FsFacts
<1>2. CASE Run \/ Remount
  <2>1. pc \in Away /\ pc' \notin Away
    BY <1>2 DEF Run, Remount, Goto, InstallFails, Away
  <2>2. ~fs.mounted
    BY <2>1 DEF SettingsInv
  <2> QED BY <1>2, <2>1, <2>2, RemountEffect DEF SettingsInv
<1>3. CASE UnmountAll
  <2>1. pc' \in Away
    BY <1>3 DEF UnmountAll, Goto, Away
  <2> QED BY <1>3, <2>1, UnmountAllEffect DEF SettingsInv
<1>4. CASE PowerLoss \/ RebootInto
  <2>1. pc' \in Away
    BY <1>4 DEF PowerLoss, RebootInto, Off, Away
  <2>2. ~fs'.mounted
    BY <1>1, <1>4, SyncEffect, PowerCutEffect DEF PowerLoss
  <2> QED BY <2>1, <2>2 DEF SettingsInv
<1>5. CASE pc \in Away <=> pc' \in Away
  <2>1. CASE UNCHANGED <<fs, table>>
    BY <1>5, <2>1 DEF SettingsInv
  <2>2. CASE RemoveDefault \/ PutDefault \/ RemoveInstalled \/ SaveInstalled \/ Writeback
    <3>1. fs'.mounted = fs.mounted
      BY <2>2, DefaultEffect, RemoveEffect, SaveEffect, WritebackEffect
    <3>2. table' = table
      BY <2>2 DEF RemoveDefault, PutDefault, RemoveInstalled, SaveInstalled, Writeback, card
    <3> QED BY <1>5, <3>1, <3>2 DEF SettingsInv
  <2>3. CASE Sync
    BY <1>5, <2>3, SyncEffect DEF SettingsInv
  <2>4. CASE Sfdisk
    <3>1. pc \in Away /\ pc' \in Away /\ fs' = Flush(fs)
      BY <2>4 DEF Sfdisk, Goto, Away
    <3> QED BY <1>1, <3>1, FlushEffect DEF SettingsInv
  <2>5. CASE EnterSetup
    <3>1. pc' \notin Away
      BY <2>5 DEF EnterSetup, Goto, Away
    <3> QED BY <1>5, <2>5, <3>1, EnterSetupEffect DEF SettingsInv
  <2> QED
    BY FsSteps, TableSteps, <1>2, <1>3, <1>4, <2>1, <2>2, <2>3, <2>4, <2>5
<1> QED BY AwaySteps, <1>2, <1>3, <1>4, <1>5

(* Nothing is listed while partitions are rewritten.                        *)
LEMMA ForgottenNext ==
  ASSUME Reliable, TypeInv, SettingsInv, ForgottenInv, [Next]_vars
  PROVE  ForgottenInv'
<1> SUFFICES ASSUME pc' \in Forgotten
             PROVE  ForgottenInv'
  BY DEF ForgottenInv, Forgotten
<1>1. fs \in FileSystems(Values) /\ Absent \notin OSes /\ Zero \notin OSes
  BY FsFacts
<1>2. CASE RemoveInstalled
  <2>1. pc' = "unmount"
    BY <1>2 DEF RemoveInstalled, Goto
  <2>2. pc' \notin OffDisk
    BY <2>1 DEF OffDisk, WriteLoop, AfterLoop
  <2> QED BY <1>1, <1>2, <2>2, RemoveEffect DEF ForgottenInv
<1>3. CASE UnmountAll
  <2>1. pc = "unmount" /\ pc \in Forgotten /\ pc \notin Away
    BY <1>3 DEF UnmountAll, Goto, Forgotten, Away
  <2>2. fs.mounted
    BY <1>3, <2>1, UnmountAllEffect DEF SettingsInv
  <2> QED BY <1>3, <2>1, <2>2, UnmountAllEffect DEF ForgottenInv
<1>4. CASE pc \in Forgotten /\ ~RemoveInstalled /\ ~UnmountAll
  <2>1. pc' \in OffDisk => pc \in OffDisk
    BY <1>4, ForgottenSteps
  <2>2. CASE UNCHANGED fs
    BY <1>4, <2>1, <2>2 DEF ForgottenInv
  <2>3. CASE Sfdisk \/ Remount
    <3>1. pc \in Away /\ pc \in OffDisk
      BY <2>3 DEF Sfdisk, Remount, Goto, Away, OffDisk
    <3>2. ~fs.mounted /\ fs.disk["installed"] \notin OSes
      BY <3>1 DEF SettingsInv, ForgottenInv
    <3>3. Sfdisk => fs' = fs
      BY <1>1, <3>2, FlushEffect DEF Sfdisk
    <3>4. Remount => fs'.disk = fs.disk /\ (fs'.mounted => fs'.cache = fs.disk)
      BY <3>2, RemountEffect
    <3> QED BY <2>3, <3>2, <3>3, <3>4 DEF ForgottenInv
  <2>4. CASE Writeback
    <3>1. /\ fs'.mounted = fs.mounted /\ fs'.cache = fs.cache
          /\ \/ fs' = fs
             \/ fs.mounted /\ fs'.disk["installed"] \in {fs.cache["installed"], Zero}
      BY <2>4, WritebackEffect
    <3> QED BY <1>1, <1>4, <2>1, <3>1 DEF ForgottenInv
  <2> QED BY <1>4, ForgottenSteps, <2>2, <2>3, <2>4
<1> QED BY ForgottenSteps, <1>2, <1>3, <1>4

(* What is listed is on the card.                                           *)
LEMMA ListedNext ==
  ASSUME Reliable, TypeInv, CardInv, [Next]_vars
  PROVE  ListedInv'
<1>1. fs \in FileSystems(Values) /\ Absent \in Values /\ Absent \notin OSes /\ Zero \notin OSes
  BY FsFacts
<1>2. SettingsInv /\ ListedInv /\ ForgottenInv /\ ProgressInv
  BY DEF CardInv
<1>3. \A o : Holds(o) /\ UNCHANGED <<table, image, imageDisk>> => Holds(o)'
  BY DEF Holds
<1>4. CASE pc \in OffDisk /\ UNCHANGED fs
  BY <1>2, <1>4 DEF ForgottenInv, ListedInv, Forgotten
<1>5. CASE EnterSetup
  <2>1. CASE UNCHANGED <<fs, table, image, imageDisk>>
    BY <1>2, <1>3, <2>1 DEF ListedInv
  <2>2. CASE fs'.disk["installed"] = Absent /\ fs'.cache["installed"] = Absent
    BY <1>1, <2>2 DEF ListedInv
  <2> QED BY <1>2, <1>5, <2>1, <2>2, EnterSetupEffect
<1>6. CASE Sfdisk
  <2>1. pc \in Away /\ pc \in OffDisk /\ fs' = Flush(fs)
    BY <1>6 DEF Sfdisk, Goto, Away, OffDisk
  <2>2. ~fs.mounted /\ fs.disk["installed"] \notin OSes
    BY <1>2, <2>1 DEF SettingsInv, ForgottenInv
  <2>3. fs' = fs
    BY <1>1, <2>1, <2>2, FlushEffect
  <2> QED BY <2>2, <2>3 DEF ListedInv
<1>7. CASE Sync \/ RebootInto
  <2>1. /\ UNCHANGED <<table, image>> /\ imageDisk' = image
        /\ fs'.disk = IF fs.mounted THEN fs.cache ELSE fs.disk
        /\ fs'.mounted => fs.mounted /\ fs'.cache = fs.cache
    BY <1>7, SyncEffect
  <2>2. \A o : Holds(o) => Holds(o)'
    BY <2>1 DEF Holds
  <2> QED BY <1>2, <2>1, <2>2 DEF ListedInv
<1>8. CASE Writeback
  <2>1. /\ fs'.mounted = fs.mounted /\ fs'.cache = fs.cache
        /\ UNCHANGED <<table, image>> /\ imageDisk' \in {imageDisk, image}
        /\ \/ fs' = fs
           \/ fs.mounted /\ fs'.disk["installed"] \in {fs.cache["installed"], Zero}
    BY <1>8, WritebackEffect
  <2>2. \A o : Holds(o) => Holds(o)'
    BY <2>1 DEF Holds
  <2> QED BY <1>1, <1>2, <2>1, <2>2 DEF ListedInv
<1>9. CASE PowerLoss
  <2>1. ~fs'.mounted /\ fs'.disk = fs.disk
    BY <1>1, <1>9, PowerCutEffect DEF PowerLoss
  <2>2. image' = imageDisk /\ imageDisk' = imageDisk
    BY <1>9 DEF PowerLoss
  <2>3. CASE table' = table
    <3>1. \A o : Holds(o) => Holds(o)'
      BY <2>2, <2>3 DEF Holds
    <3> QED BY <1>2, <2>1, <3>1 DEF ListedInv
  <2>4. CASE pc = "sfdisk"
    BY <1>2, <2>1, <2>4 DEF ListedInv, ForgottenInv, OffDisk
  <2> QED BY <1>9, <2>3, <2>4 DEF PowerLoss
<1>10. CASE UNCHANGED <<table, image, imageDisk>>
  <2>1. CASE UNCHANGED fs
    BY <1>2, <1>3, <1>10, <2>1 DEF ListedInv
  <2>2. CASE Run \/ Remount
    <3>1. pc \in Away
      BY <2>2 DEF Run, Remount, Goto, Away
    <3>2. ~fs.mounted
      BY <1>2, <3>1 DEF SettingsInv
    <3>3. fs'.disk = fs.disk /\ (fs'.mounted => fs'.cache = fs.disk)
      BY <2>2, <3>2, RemountEffect
    <3> QED BY <1>2, <1>3, <1>10, <3>3 DEF ListedInv
  <2>3. CASE RemoveDefault \/ PutDefault
    BY <1>2, <1>3, <1>10, <2>3, DefaultEffect DEF ListedInv
  <2>4. CASE RemoveInstalled
    BY <1>1, <1>2, <1>3, <1>10, <2>4, RemoveEffect DEF ListedInv
  <2>5. CASE UnmountAll
    BY <1>2, <1>3, <1>10, <2>5, UnmountAllEffect DEF ListedInv
  <2>6. CASE SaveInstalled
    <3>1. pc = "saveInstalled" /\ pc \in Installing
      BY <2>6 DEF SaveInstalled, Installing
    <3>2. Holds(os)
      <4>1. /\ table = os /\ \A p \in PartsOf(os) : Has(p)
            /\ Promised(os) \subseteq image[FirstPart(os)][2]
            /\ Promised(os) \subseteq imageDisk[FirstPart(os)][2]
        BY <1>2, <3>1 DEF ProgressInv, AfterLoop
      <4> QED BY <4>1 DEF Holds, Complete, Has
    <3>3. /\ fs'.mounted = fs.mounted /\ fs'.disk = fs.disk
          /\ fs'.cache["installed"] \in {os, Zero, fs.cache["installed"]}
      BY <2>6, SaveEffect
    <3> QED BY <1>1, <1>2, <1>3, <1>10, <3>2, <3>3 DEF ListedInv
  <2> QED
    BY FsSteps, <1>5, <1>6, <1>7, <1>8, <1>9, <2>1, <2>2, <2>3, <2>4, <2>5, <2>6
<1> QED BY RewriteSteps, <1>4, <1>5, <1>6, <1>7, <1>8, <1>9, <1>10

(* Filling a partition keeps those that are filled.                         *)
LEMMA WrittenEffect ==
  ASSUME NEW im \in [Numbers -> ImageStates], NEW p \in Numbers
  PROVE  /\ Written(im, p)[p][1] = os
         /\ \A q \in Numbers : im[q][1] = os => Written(im, p)[q][1] = os
BY DEF Written

(* Adding to what is done in the first one likewise.                        *)
LEMMA AddEffect ==
  ASSUME TypeInv, pc \in Installing, NEW d
  PROVE  /\ Add(d)[FirstPart(os)][2] = image[FirstPart(os)][2] \cup {d}
         /\ \A q \in Numbers : image[q][1] = os => Add(d)[q][1] = os
<1>1. image \in [Numbers -> ImageStates] /\ FirstPart(os) \in Numbers
  BY AtWork DEF TypeInv, TypeOK
<1> QED BY <1>1 DEF Add

(* The loop of writeImage goes on, or ends.                                 *)
LEMMA LoopStep ==
  ASSUME TypeInv, pc \in Installing, NextPartition, UNCHANGED <<os, table>>, table = os,
         \A j \in 1..part : /\ image'[Layout[os][j].no][1] = os
                            /\ imageDisk'[Layout[os][j].no][1] = os
  PROVE  ProgressInv'
<1>1. /\ os \in OSes /\ part \in 1..Len(Layout[os]) /\ Len(Layout[os]) \in Nat
      /\ DOMAIN Layout[os] = 1..Len(Layout[os])
  BY AtWork, LayoutFacts
<1>2. CASE part < Len(Layout[os])
  <2>1. part' = part + 1 /\ pc' = "write"
    BY <1>2 DEF NextPartition
  <2>2. 1..(part' - 1) = 1..part
    BY <1>1, <2>1
  <2>3. (\A j \in 1..(part - 1) : Has(Layout[os][j].no))'
    BY <2>2 DEF Has
  <2> QED BY <2>1, <2>3 DEF ProgressInv, BeforeLoop, AfterLoop
<1>3. CASE ~(part < Len(Layout[os]))
  <2>1. part = Len(Layout[os]) /\ pc' = "mountFirst"
    BY <1>1, <1>3 DEF NextPartition
  <2>2. \A p \in PartsOf(os) : \E j \in 1..part : p = Layout[os][j].no
    BY <1>1, <2>1 DEF PartsOf
  <2>3. \A p \in PartsOf(os) : image'[p][1] = os' /\ imageDisk'[p][1] = os'
    BY <2>2
  <2>4. PartsOf(os)' = PartsOf(os)
    BY DEF PartsOf
  <2> QED BY <2>1, <2>3, <2>4 DEF ProgressInv, BeforeLoop, WriteLoop, Has
<1> QED BY <1>2, <1>3

(* writeImage lists the OS only after it has written all of it.             *)
LEMMA ProgressNext ==
  ASSUME Reliable, TypeInv, Mnt2Inv, ProgressInv, [Next]_vars
  PROVE  ProgressInv'
<1> SUFFICES ASSUME pc' \in BeforeLoop \cup WriteLoop \cup AfterLoop
             PROVE  ProgressInv'
  BY DEF ProgressInv, BeforeLoop, WriteLoop, AfterLoop
<1>1. image \in [Numbers -> ImageStates] /\ imageDisk \in [Numbers -> ImageStates]
  BY DEF TypeInv, TypeOK
<1>2. pc \in Installing =>
        /\ os \in OSes /\ PartsOf(os) \subseteq Numbers /\ Part \in Numbers
        /\ FirstPart(os) \in Numbers /\ FirstPart(os) \in PartsOf(os)
        /\ part \in 1..Len(Layout[os]) /\ Len(Layout[os]) \in Nat
        /\ \A j \in 1..part : Layout[os][j].no \in Numbers
  BY AtWork, LayoutFacts
<1>3. CASE /\ UNCHANGED <<pc, table, image, os, part, exitCode>>
           /\ imageDisk' \in {imageDisk, image}
  <2>1. \A p : Has(p) => Has(p)'
    BY <1>3 DEF Has
  <2>2. /\ PartsOf(os)' = PartsOf(os) /\ FirstPart(os)' = FirstPart(os) /\ Part' = Part
        /\ Promised(os)' = Promised(os)
    BY <1>3 DEF PartsOf, FirstPart, Part, Promised, MayFail
  <2> QED BY <1>3, <2>1, <2>2 DEF ProgressInv
<1>4. CASE \E o \in OSes : InstallOS(o)
  <2>1. pc' = "prepare" /\ part' = 1
    BY <1>4 DEF InstallOS, Goto
  <2> QED BY <2>1 DEF ProgressInv, WriteLoop, AfterLoop
<1>5. CASE PrepareImage \/ RemoveInstalled \/ UnmountAll
  <2>1. pc \in BeforeLoop /\ pc' \in {"removeInstalled", "unmount", "sfdisk"} /\ part' = part
    BY <1>5 DEF PrepareImage, InstallFails, RemoveInstalled, UnmountAll, Goto, job,
      BeforeLoop, WriteLoop, AfterLoop
  <2> QED BY <2>1 DEF ProgressInv, WriteLoop, AfterLoop
<1>6. CASE Sfdisk
  <2>1. /\ pc = "sfdisk" /\ pc' = "remount" /\ UNCHANGED <<os, part>>
        /\ exitCode' = 0 => table' = os
    BY <1>6 DEF Sfdisk, Goto, Repartition, SfdiskFails
  <2> QED BY <2>1 DEF ProgressInv, BeforeLoop, WriteLoop, AfterLoop
<1>7. CASE Remount
  <2>1. pc = "remount" /\ exitCode = 0 /\ pc' = "zero" /\ UNCHANGED <<os, part, table>>
    BY <1>7 DEF Remount, InstallFails, card, job, BeforeLoop, WriteLoop, AfterLoop
  <2> QED BY <2>1 DEF ProgressInv, BeforeLoop, WriteLoop, AfterLoop
<1>8. CASE ZeroPartitions
  <2>1. pc = "zero" /\ pc' = "write" /\ UNCHANGED <<os, part, table>>
    BY <1>8 DEF ZeroPartitions, InstallFails, job, BeforeLoop, WriteLoop, AfterLoop
  <2>2. part' = 1 /\ table = os
    BY <2>1 DEF ProgressInv, BeforeLoop
  <2>3. 1..(part' - 1) = {}
    BY <2>2
  <2> QED BY <2>1, <2>2, <2>3 DEF ProgressInv, BeforeLoop, WriteLoop, AfterLoop
<1>9. CASE WriteRaw \/ SkipUnformatted \/ MakeFS
  <2>1. pc = "write" /\ pc \in Installing /\ UNCHANGED <<os, table>>
    BY <1>9 DEF WriteRaw, SkipUnformatted, MakeFS, Installing
  <2>2. table = os /\ \A j \in 1..(part - 1) : Has(Layout[os][j].no)
    BY <2>1 DEF ProgressInv, WriteLoop
  <2>3. \/ FillPartition /\ NextPartition
        \/ pc' = "mount" /\ UNCHANGED <<part, image, imageDisk>>
    BY <1>9 DEF WriteRaw, SkipUnformatted, MakeFS, WriteImageFails, LeaveWriteImage,
      BeforeLoop, WriteLoop, AfterLoop
  <2>4. CASE FillPartition /\ NextPartition
    <3>1. image' = Written(image, Part) /\ imageDisk' = Written(imageDisk, Part)
      BY <2>4 DEF FillPartition
    <3>2. image'[Part][1] = os /\ imageDisk'[Part][1] = os
      BY <1>1, <1>2, <2>1, <3>1, WrittenEffect
    <3>3. \A q \in Numbers : Has(q) => image'[q][1] = os /\ imageDisk'[q][1] = os
      BY <1>1, <1>2, <2>1, <3>1, WrittenEffect DEF Has
    <3>4. \A j \in 1..part : j = part \/ j \in 1..(part - 1)
      BY <1>2, <2>1
    <3>5. \A j \in 1..part : /\ image'[Layout[os][j].no][1] = os
                             /\ imageDisk'[Layout[os][j].no][1] = os
      BY <1>2, <2>1, <2>2, <3>2, <3>3, <3>4 DEF Part
    <3> QED BY <2>1, <2>2, <2>4, <3>5, LoopStep
  <2>5. CASE pc' = "mount" /\ UNCHANGED <<part, image, imageDisk>>
    BY <2>1, <2>2, <2>5 DEF ProgressInv, BeforeLoop, WriteLoop, AfterLoop, Has
  <2> QED BY <2>3, <2>4, <2>5
<1>10. CASE MountForUntar
  <2>1. pc = "mount" /\ pc' = "untar" /\ UNCHANGED <<table, image, imageDisk, os, part>>
    BY <1>10 DEF MountForUntar, MountPartition, LeaveWriteImage, card, BeforeLoop,
      WriteLoop, AfterLoop
  <2> QED BY <2>1 DEF ProgressInv, BeforeLoop, WriteLoop, AfterLoop, Has
<1>11. CASE Untar
  <2>1. pc = "untar" /\ pc \in Installing /\ UNCHANGED <<table, imageDisk, os, part>>
    BY <1>11 DEF Untar, job, Installing
  <2>2. table = os /\ \A j \in 1..(part - 1) : Has(Layout[os][j].no)
    BY <2>1 DEF ProgressInv, WriteLoop
  <2>3. CASE image' = Written(image, Part) /\ pc' = "umount"
    <3>1. image'[Part][1] = os
      BY <1>1, <1>2, <2>1, <2>3, WrittenEffect
    <3>2. \A j \in 1..(part - 1) : j \in 1..part
      BY <1>2, <2>1
    <3>3. \A j \in 1..(part - 1) : Has(Layout[os][j].no)'
      BY <1>1, <1>2, <2>1, <2>2, <2>3, <3>2, WrittenEffect DEF Has
    <3>4. (image[Part][1] = os)'
      BY <2>1, <3>1 DEF Part
    <3> QED BY <2>1, <2>2, <2>3, <3>3, <3>4 DEF ProgressInv, BeforeLoop, AfterLoop
  <2>4. CASE image' = image /\ pc' = "umountAndFail"
    BY <2>1, <2>2, <2>4 DEF ProgressInv, BeforeLoop, AfterLoop, Has
  <2> QED BY <1>11, <2>3, <2>4 DEF Untar
<1>12. CASE UnmountAfterUntar
  <2>1. /\ pc = "umount" /\ pc \in Installing /\ NextPartition
        /\ UNCHANGED <<os, table, image>>
    BY <1>12 DEF UnmountAfterUntar, LeaveWriteImage, BeforeLoop, WriteLoop, AfterLoop,
      Installing
  <2>2. /\ table = os /\ \A j \in 1..(part - 1) : Has(Layout[os][j].no)
        /\ image[Part][1] = os /\ Top(mnt2) = Part
    BY <2>1 DEF ProgressInv, WriteLoop, Mnt2Inv
  <2>3. imageDisk' = [imageDisk EXCEPT ![Part] = image[Part]]
    BY <1>12, <2>2 DEF UnmountAfterUntar, UmountMnt2, UmountMnt2Fails, Reliable, MayFail
  <2>4. image'[Part][1] = os /\ imageDisk'[Part][1] = os
    BY <1>1, <1>2, <2>1, <2>2, <2>3
  <2>5. \A q \in Numbers : Has(q) => image'[q][1] = os /\ imageDisk'[q][1] = os
    BY <1>1, <2>1, <2>3, <2>4 DEF Has
  <2>6. \A j \in 1..part : j = part \/ j \in 1..(part - 1)
    BY <1>2, <2>1
  <2>7. \A j \in 1..part : /\ image'[Layout[os][j].no][1] = os
                           /\ imageDisk'[Layout[os][j].no][1] = os
    BY <1>2, <2>1, <2>2, <2>4, <2>5, <2>6 DEF Part
  <2> QED BY <2>1, <2>2, <2>7, LoopStep
<1>13. CASE MountFirst
  <2>1. pc = "mountFirst" /\ pc' = "config" /\ UNCHANGED <<table, image, imageDisk, os>>
    BY <1>13 DEF MountFirst, MountPartition, LeaveWriteImage, card, BeforeLoop,
      WriteLoop, AfterLoop
  <2>2. PartsOf(os)' = PartsOf(os)
    BY <2>1 DEF PartsOf
  <2> QED BY <2>1, <2>2 DEF ProgressInv, BeforeLoop, WriteLoop, AfterLoop, Has
<1>14. CASE SaveConfig \/ RunScript
  <2> DEFINE done == image[FirstPart(os)][2]
             done1 == image'[FirstPart(os)][2]
  <2>1. /\ pc \in {"config", "script"} /\ pc \in Installing
        /\ UNCHANGED <<table, imageDisk, os>> /\ pc' \in {"script", "finalUmount"}
        /\ image' \in {image, Add("config"), Add("setup")}
    BY <1>14 DEF SaveConfig, RunScript, LeaveWriteImage, job, BeforeLoop, WriteLoop,
      AfterLoop, Installing
  <2>2. table = os /\ \A p \in PartsOf(os) : Has(p)
    BY <2>1 DEF ProgressInv, AfterLoop
  <2>3. /\ PartsOf(os)' = PartsOf(os) /\ FirstPart(os)' = FirstPart(os)
        /\ Promised(os)' = Promised(os)
    BY <2>1 DEF PartsOf, FirstPart, Promised, MayFail
  <2>4. \A q \in Numbers : image[q][1] = os => image'[q][1] = os
    BY <2>1, AddEffect
  <2>5. \A p \in PartsOf(os) : image'[p][1] = os /\ imageDisk'[p][1] = os
    BY <1>2, <2>1, <2>2, <2>4 DEF Has
  <2>6. CASE SaveConfig
    <3>1. /\ pc' = IF HasScript[os] THEN "script" ELSE "finalUmount"
          /\ image' = Add("config") \/ (MayFail("io") /\ image' = image)
      BY <2>1, <2>6 DEF SaveConfig, LeaveWriteImage
    <3>2. done1 = done \cup {"config"} \/ MayFail("io")
      BY <2>1, <3>1, AddEffect
    <3> HIDE DEF done, done1
    <3>3. \A d \in Promised(os) : IF d = "setup" THEN HasScript[os]
                                               ELSE ~MayFail("io") /\ d = "config"
      BY DEF Promised, Deeds
    <3>4. Promised(os) \subseteq done1 \cup {"setup"}
      BY <3>2, <3>3
    <3>5. pc' = "finalUmount" => Promised(os) \subseteq done1
      BY <3>1, <3>2, <3>3
    <3> QED BY <2>1, <2>2, <2>3, <2>5, <3>4, <3>5
      DEF ProgressInv, BeforeLoop, WriteLoop, Has, done1
  <2>7. CASE RunScript
    <3>1. pc = "script" /\ pc' = "finalUmount" /\ image' = Add("setup")
      BY <2>1, <2>7 DEF RunScript, LeaveWriteImage
    <3>2. done1 = done \cup {"setup"}
      BY <2>1, <3>1, AddEffect
    <3>3. Promised(os) \subseteq done1
      BY <3>1, <3>2 DEF ProgressInv
    <3> QED BY <2>1, <2>2, <2>3, <2>5, <3>1, <3>3
      DEF ProgressInv, BeforeLoop, WriteLoop, Has
  <2> QED BY <1>14, <2>6, <2>7
<1>15. CASE FinalUmount
  <2>1. /\ pc = "finalUmount" /\ pc' = "saveInstalled" /\ pc \in Installing
        /\ UNCHANGED <<table, image, os>>
    BY <1>15 DEF FinalUmount, Goto, job, Installing
  <2>2. /\ table = os /\ \A p \in PartsOf(os) : Has(p)
        /\ Promised(os) \subseteq image[FirstPart(os)][2] /\ Top(mnt2) = FirstPart(os)
    BY <2>1 DEF ProgressInv, AfterLoop, Mnt2Inv
  <2>3. imageDisk' = [imageDisk EXCEPT ![FirstPart(os)] = image[FirstPart(os)]]
    BY <1>15, <2>2 DEF FinalUmount, UmountMnt2, UmountMnt2Fails, Reliable, MayFail
  <2>4. Promised(os) \subseteq imageDisk'[FirstPart(os)][2]
    BY <1>1, <1>2, <2>1, <2>2, <2>3
  <2>5. \A p \in PartsOf(os) : imageDisk'[p][1] = os
    BY <1>1, <1>2, <2>1, <2>2, <2>3 DEF Has
  <2>6. /\ PartsOf(os)' = PartsOf(os) /\ FirstPart(os)' = FirstPart(os)
        /\ Promised(os)' = Promised(os)
    BY <2>1 DEF PartsOf, FirstPart, Promised, MayFail
  <2> QED
    BY <2>1, <2>2, <2>4, <2>5, <2>6 DEF ProgressInv, BeforeLoop, WriteLoop, Has
<1> QED
  BY ProgressSteps, <1>3, <1>4, <1>5, <1>6, <1>7, <1>8, <1>9, <1>10, <1>11, <1>12,
    <1>13, <1>14, <1>15

(* What the card lists, it holds, in every reachable state.                 *)
LEMMA CardInvariant ==
  ASSUME Reliable
  PROVE  Spec => [](TypeInv /\ Mnt2Inv /\ CardInv)
<1>1. Init => CardInv
  <2> SUFFICES ASSUME Init PROVE CardInv
    OBVIOUS
  <2>1. fs.disk["installed"] \notin OSes /\ ~fs.mounted /\ pc = "off"
    BY ValuesAssumption DEF Init, NoFiles, Files
  <2> QED
    BY <2>1 DEF CardInv, SettingsInv, ListedInv, ForgottenInv, ProgressInv, Away,
      Forgotten, OffDisk, BeforeLoop, WriteLoop, AfterLoop
<1>2. TypeInv /\ Mnt2Inv /\ CardInv /\ [Next]_vars => CardInv'
  BY SettingsNext, ListedNext, ForgottenNext, ProgressNext DEF CardInv
<1> QED BY <1>1, <1>2, Mnt2Invariant, PTL DEF Spec

-----------------------------------------------------------------------------
(***************************************************************************)
(* The contract                                                            *)
(***************************************************************************)
(* An OS that installed_os.json lists on the card is the one the partition  *)
(* table is for and is there whole, wherever the power is cut and whatever  *)
(* fails of the commands, writes and downloads of installOS.                *)
THEOREM ListedIsInstalled ==
  ASSUME Reliable
  PROVE  Spec => []ListedImpliesInstalled
<1>1. CardInv => ListedImpliesInstalled
  BY DEF CardInv, ListedInv, Holds, ListedImpliesInstalled
<1> QED BY <1>1, CardInvariant, PTL

(* A step lists something else only while the card holds the same.          *)
LEMMA ListingSteps ==
  ASSUME Reliable, TypeInv, CardInv, [Next]_vars
  PROVE  \/ ListedOnCard' = ListedOnCard
         \/ /\ UNCHANGED <<table, image>> /\ imageDisk' \in {imageDisk, image}
            /\ fs.mounted
            /\ fs'.disk["installed"] \in {fs.cache["installed"], Zero}
<1>1. SettingsInv /\ ListedInv /\ ForgottenInv
  BY DEF CardInv
<1>2. fs \in FileSystems(Values) /\ Absent \in Values /\ Absent \notin OSes /\ Zero \notin OSes
  BY FsFacts
<1>3. fs'.disk["installed"] = fs.disk["installed"] => ListedOnCard' = ListedOnCard
  BY DEF ListedOnCard
<1>4. CASE UNCHANGED fs
  BY <1>3, <1>4
<1>5. CASE Run \/ Remount
  <2>1. ~fs.mounted
    BY <1>1, <1>5 DEF Run, Remount, Goto, SettingsInv, Away
  <2> QED BY <1>3, <1>5, <2>1, RemountEffect
<1>6. CASE EnterSetup
  <2>1. CASE UNCHANGED fs
    BY <1>3, <2>1
  <2>2. CASE table = Torn /\ fs'.disk["installed"] = Absent
    <3>1. fs.disk["installed"] \notin OSes
      BY <1>1, <2>2, OSAssumption DEF ListedInv, Holds
    <3> QED BY <1>2, <2>2, <3>1 DEF ListedOnCard
  <2> QED BY <1>1, <1>6, <2>1, <2>2, EnterSetupEffect
<1>7. CASE RemoveDefault \/ PutDefault \/ RemoveInstalled \/ SaveInstalled
  BY <1>3, <1>7, DefaultEffect, RemoveEffect, SaveEffect
<1>8. CASE UnmountAll
  BY <1>3, <1>8, UnmountAllEffect DEF UnmountAll, card
<1>9. CASE Sfdisk
  <2>1. ~fs.mounted /\ fs' = Flush(fs)
    BY <1>1, <1>9 DEF Sfdisk, Goto, SettingsInv, Away
  <2> QED BY <1>2, <1>3, <2>1, FlushEffect
<1>10. CASE Sync \/ RebootInto
  BY <1>2, <1>3, <1>10, SyncEffect
<1>11. CASE Writeback
  BY <1>3, <1>11, WritebackEffect
<1>12. CASE PowerLoss
  BY <1>2, <1>3, <1>12, PowerCutEffect DEF PowerLoss
<1> QED
  BY FsSteps, <1>4, <1>5, <1>6, <1>7, <1>8, <1>9, <1>10, <1>11, <1>12

(* installOS implements the contract of the card: whatever a step does, it  *)
(* forgets the listed OS, lists the one the card holds, or changes the      *)
(* partitions while nothing is listed.                                      *)
THEOREM ImplementsContract ==
  ASSUME Reliable
  PROVE  Spec => CardKeepsContract
<1>1. Init => Contract!Init
  BY OSAssumption, ValuesAssumption
  DEF Init, Contract!Init, ListedOnCard, HeldByCard, NoFiles, Files
<1>2. TypeInv /\ CardInv /\ CardInv' /\ [Next]_vars
        => [Contract!Next]_<<ListedOnCard, HeldByCard>>
  <2> SUFFICES ASSUME TypeInv, CardInv, CardInv', [Next]_vars
               PROVE  Contract!Next \/ UNCHANGED <<ListedOnCard, HeldByCard>>
    OBVIOUS
  <2>1. ListedInv /\ ListedInv'
    BY DEF CardInv
  <2>2. /\ ListedOnCard \in OSes => HeldByCard = ListedOnCard
        /\ ListedOnCard \in OSes \cup {NoOS} /\ HeldByCard \in OSes \cup {NoOS}
        /\ ListedOnCard' \in OSes => HeldByCard' = ListedOnCard'
        /\ ListedOnCard' \in OSes \cup {NoOS} /\ HeldByCard' \in OSes \cup {NoOS}
    BY <2>1, OSAssumption DEF ListedInv, Holds, ListedOnCard, HeldByCard
  <2>3. CASE ListedOnCard' = ListedOnCard
    <3>1. CASE ListedOnCard \in OSes
      BY <2>2, <2>3, <3>1
    <3>2. CASE ListedOnCard = NoOS
      BY <2>2, <2>3, <3>2 DEF Contract!Next, Contract!Rewrite
    <3> QED BY <2>2, <3>1, <3>2
  <2>4. CASE /\ UNCHANGED <<table, image>> /\ imageDisk' \in {imageDisk, image}
             /\ fs.mounted
             /\ fs'.disk["installed"] \in {fs.cache["installed"], Zero}
    <3>1. \A o \in OSes : Holds(o) => HeldByCard = o /\ HeldByCard' = o
      BY <2>4 DEF Holds, HeldByCard
    <3>2. NoOS \notin OSes /\ Zero \notin OSes
      BY FsFacts, OSAssumption
    <3>3. CASE ListedOnCard' \in OSes
      <4>1. Holds(fs.cache["installed"]) /\ ListedOnCard' = fs.cache["installed"]
            /\ fs.cache["installed"] \in OSes
        BY <2>1, <2>4, <3>2, <3>3 DEF ListedInv, ListedOnCard
      <4> QED BY <3>1, <3>2, <4>1 DEF Contract!Next, Contract!List
    <3>4. CASE ListedOnCard' = NoOS /\ ListedOnCard \in OSes
      <4>1. Holds(ListedOnCard)
        BY <2>1, <3>2, <3>4 DEF ListedInv, ListedOnCard
      <4> QED BY <3>1, <3>4, <4>1 DEF Contract!Next, Contract!Forget
    <3> QED BY <2>2, <2>3, <3>3, <3>4
  <2> QED BY <2>3, <2>4, ListingSteps
<1> QED
  BY <1>1, <1>2, CardInvariant, PTL DEF Spec, CardKeepsContract, Contract!Spec
=============================================================================
