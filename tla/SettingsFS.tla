----------------------------- MODULE SettingsFS ------------------------------
(***************************************************************************)
(* The files BootManager and InstallManager keep in /settings, and what a  *)
(* power cut leaves of them.  A file system is a record                    *)
(*   mounted  is the ext4 settings partition mounted on /settings?         *)
(*   disk     what the partition holds                                     *)
(*   cache    what the kernel shows while it is mounted                    *)
(*   ram      what the directory of the initramfs below the mount holds    *)
(* Each of the last three maps a file to Absent, to Zero (it exists and is *)
(* empty) or to its content.                                               *)
(***************************************************************************)
EXTENDS Naturals

CONSTANTS Absent, Zero

Files == {"installed", "default"}   \* installed_os.json, default_boot_partition

NoFiles == [f \in Files |-> Absent]

FileSystems(values) ==
  [mounted : BOOLEAN,
   disk    : [Files -> values],
   cache   : [Files -> values],
   ram     : [Files -> values]]

(* The content a program reads at /settings/f.                              *)
Contents(fs, f) == IF fs.mounted THEN fs.cache[f] ELSE fs.ram[f]

(* A program creates, rewrites or removes a file.                           *)
Store(fs, f, v) ==
  IF fs.mounted THEN [fs EXCEPT !.cache[f] = v] ELSE [fs EXCEPT !.ram[f] = v]

(* sync(2) and the last step of umount.                                     *)
Flush(fs) == IF fs.mounted THEN [fs EXCEPT !.disk = fs.cache] ELSE fs

(* mount -t ext4 ... /settings, when it works; a second mount is refused    *)
(* and changes nothing.                                                     *)
Mount(fs) ==
  IF fs.mounted THEN fs ELSE [fs EXCEPT !.mounted = TRUE, !.cache = fs.disk]

Unmount(fs) ==
  IF fs.mounted THEN [fs EXCEPT !.mounted = FALSE, !.disk = fs.cache] ELSE fs

(* The ext4 journal commits: every name created or removed so far reaches   *)
(* the disk; the data of a file written since the last commit may not be    *)
(* allocated yet, and the file is then empty on disk.                       *)
CommitOutcomes(fs) ==
  {d \in [Files -> {Absent, Zero} \cup {fs.cache[f] : f \in Files}] :
     \A f \in Files : \/ d[f] = fs.cache[f]
                      \/ /\ d[f] = Zero
                         /\ fs.cache[f] \notin {Absent, fs.disk[f]}}

(* Power is cut: the initramfs and the page cache are gone.                 *)
PowerCut(fs) ==
  [mounted |-> FALSE, disk |-> fs.disk, cache |-> NoFiles, ram |-> NoFiles]
=============================================================================
