------------------------------- MODULE OSInfo --------------------------------
(***************************************************************************)
(* From the JSON of a request to a description of an OS: OSInfo::parseOS   *)
(* reads the entries of the request, downloads the OS info, the partition  *)
(* info and the setup script, and builds one PartitionInfo per partition.  *)
(*                                                                         *)
(* A JSON object is a function from keys to entries. An entry is a value,  *)
(* Missing, or Bad when it cannot be converted to the type asked for.      *)
(***************************************************************************)
EXTENDS Integers, Sequences

CONSTANTS
  Missing, Bad,
  Requests,        \* JSON objects POSTed to /os
  Infos,           \* JSON objects behind os_info URLs
  PartitionLists,  \* lists of JSON objects behind partitions_info URLs, or
                   \* Missing, Bad; an element that is no object is Bad
  Model            \* the models this device counts as

(* What an entry asked for as a value of type may be.                       *)
Entry(type) == {Missing, Bad} \cup type

Names == {"os", "data", "risc"}   \* see name

RequestType ==
  [name : Entry(Names), os_name : Entry(Names), bootable : Entry(BOOLEAN),
   riscos_offset : Entry(Int), supported_models : Entry(SUBSET STRING),
   tarballs : Entry(Seq(STRING)), os_info : Entry(STRING),
   partitions_info : Entry(STRING), partition_setup : Entry(STRING)]

InfoType == [name : Entry(Names), bootable : Entry(BOOLEAN)]

ElementType ==
  [filesystem_type : Entry(STRING), partition_type : Entry(STRING),
   offset_in_sectors : Entry(Int), partition_size_nominal : Entry(Int),
   requires_partition_number : Entry(Int), uncompressed_tarball_size : Entry(Int),
   want_maximised : Entry(BOOLEAN), empty_fs : Entry(BOOLEAN), active : Entry(BOOLEAN)]

(* Whatever JSON comes, parseEntry leaves a value of the type it was asked  *)
(* for, or none: Missing and Bad are not values.                            *)
ASSUME EntryAssumption ==
  /\ Missing # Bad
  /\ {Missing, Bad} \cap BOOLEAN = {}
  /\ {Missing, Bad} \cap {"0c", "82", "07", "83"} = {}

ASSUME InputAssumption ==
  /\ Requests \subseteq RequestType
  /\ Infos \subseteq InfoType
  /\ PartitionLists \subseteq Entry(Seq(ElementType \cup {Bad}))

(* What downloadRessource may return: nothing, the resource, a part of it,  *)
(* or the text of another page (WebClient does not look at the status).     *)
Downloads == {"nothing", "resource", "damaged", "page"}

VARIABLES
  pc,          \* where parseOS stands
  request,     \* the object that was POSTed
  name,        \* _name: "os", "data" (contains Data Partition), "risc"
  bootable,    \* _bootable
  supported,   \* _supported
  riscos,      \* _riscosOffset, Missing if it was not set
  tarballs,    \* _tarballs
  partitions,  \* _partitions
  script,      \* _partitionSetupScript, as one of Downloads
  info,        \* the OS info that was parsed: one of Infos, or Empty
  fetched      \* what the downloads have returned: [info, list]

parsed == <<name, bootable, supported, riscos, tarballs, partitions, script>>
vars   == <<pc, request, parsed, info, fetched>>

(* The OS info of a download that is no JSON: an object without entries.    *)
Empty == [name |-> Missing, bootable |-> Missing]

Init ==
  /\ pc = "parse"
  /\ request \in Requests
  /\ name = Missing /\ bootable = Missing /\ supported = FALSE /\ riscos = Missing
  /\ tarballs = <<>> /\ partitions = <<>> /\ script = "nothing"
  /\ info = Empty
  /\ fetched = [info |-> "nothing", list |-> "nothing"]

(***************************************************************************)
(* Utility::Json::parseEntry: ok is what it returns, value the target      *)
(* afterwards.                                                             *)
(***************************************************************************)
parseEntry(entry, target, optional) ==
  [ok    |-> IF entry = Missing THEN optional ELSE entry # Bad,
   value |-> IF entry \in {Missing, Bad} THEN target ELSE entry]

Required(entry) == parseEntry(entry, Missing, FALSE)
Optional(entry, target) == parseEntry(entry, target, TRUE).value

(***************************************************************************)
(* PartitionInfo                                                           *)
(***************************************************************************)
partitionTypeOf(fstype) ==
  CASE fstype = "fat"  -> "0c"
    [] fstype = "swap" -> "82"
    [] fstype = "ntfs" -> "07"
    [] OTHER           -> "83"

(* The PartitionInfo of one element of the list; isValid is valid.          *)
parsePartition(entry, tarball) ==
  [valid    |-> Required(entry.filesystem_type).ok,
   fstype   |-> Required(entry.filesystem_type).value,
   type     |-> IF Required(entry.partition_type).ok
                THEN Required(entry.partition_type).value
                ELSE partitionTypeOf(Required(entry.filesystem_type).value),
   tarball  |-> tarball,
   offset   |-> Optional(entry.offset_in_sectors, 0),
   nominal  |-> Optional(entry.partition_size_nominal, 0),
   number   |-> Optional(entry.requires_partition_number, 0),
   tarSize  |-> Optional(entry.uncompressed_tarball_size, 0),
   maximise |-> Optional(entry.want_maximised, FALSE),
   emptyFS  |-> Optional(entry.empty_fs, FALSE),
   active   |-> Optional(entry.active, FALSE)]

(***************************************************************************)
(* parseOS                                                                 *)
(***************************************************************************)
Invalid == pc' = "invalid"

(* name, or os_name if name cannot be used.                                 *)
NameOf(os) == IF Required(os.name).ok THEN Required(os.name) ELSE Required(os.os_name)

(* bootable, or by the name.                                                *)
BootableOf(os) ==
  IF Required(os.bootable).ok THEN Required(os.bootable).value
                              ELSE NameOf(os).value # "data"

(* supported_models is optional; _supported is true before the first model  *)
(* is compared with this device.                                            *)
SupportedBy(os) ==
  LET models == parseEntry(os.supported_models, {}, TRUE)
  IN models.ok /\ (TRUE \/ \E m \in models.value : m \in Model)

RISCOS_OFFSET == 1760

(* The entries of the request, up to the first that is not acceptable.      *)
ParseRequest ==
  /\ pc = "parse"
  /\ LET os == request
     IN /\ name' = NameOf(os).value
        /\ bootable' = IF NameOf(os).ok THEN BootableOf(os) ELSE Missing
        /\ riscos' = IF name' = "risc" /\ bootable' = TRUE
                     THEN parseEntry(os.riscos_offset, RISCOS_OFFSET, FALSE).value
                     ELSE Missing
        /\ supported' = (NameOf(os).ok /\ bootable' = TRUE /\ SupportedBy(os))
        /\ tarballs' = IF supported' /\ Required(os.tarballs).ok THEN os.tarballs ELSE <<>>
        /\ pc' = IF supported' /\ Required(os.tarballs).ok /\ Required(os.os_info).ok
                 THEN "info" ELSE "invalid"
  /\ UNCHANGED <<request, partitions, script, info, fetched>>

(* parseOSInfo: every entry is optional, and JSON that does not parse is an *)
(* object without entries.                                                  *)
ParseOSInfo ==
  /\ pc = "info"
  /\ \E d \in Downloads, i \in Infos :
       /\ fetched' = [fetched EXCEPT !.info = d]
       /\ info' = IF d = "resource" THEN i ELSE Empty
  /\ name' = Optional(info'.name, name)
  /\ bootable' = Optional(info'.bootable, bootable)
  /\ pc' = IF parseEntry(info'.bootable, bootable, TRUE).ok /\ ~bootable' THEN "invalid"
           ELSE IF Required(request.partitions_info).ok THEN "list" ELSE "invalid"
  /\ UNCHANGED <<request, supported, riscos, tarballs, partitions, script>>

(* Mutant: the tarballs are taken as they come, the gap is left at the front. *)
Filled_Front(balls, n) ==
  [i \in 1..n |-> IF i - (n - Len(balls)) \in DOMAIN balls
                  THEN balls[i - (n - Len(balls))] ELSE "none"]

(* Missing tarballs are filled up with empty ones.                          *)
Filled(balls, n) == [i \in 1..n |-> IF i \in DOMAIN balls THEN balls[i] ELSE "none"]

(* The elements before the first that is no object or not valid.            *)
ValidPrefix(list, balls) ==
  {k \in 0..Len(list) :
     \A i \in 1..k : list[i] # Bad /\ parsePartition(list[i], balls[i]).valid}

(* parsePartitionInfo                                                       *)
ParsePartitionInfo ==
  /\ pc = "list"
  /\ \E d \in Downloads, l \in PartitionLists :
       /\ fetched' = [fetched EXCEPT !.list = d]
       /\ LET list == IF d = "resource" THEN Required(l) ELSE Required(Missing)
          IN \/ /\ ~list.ok \/ (list.ok /\ Len(list.value) < Len(tarballs))
                /\ Invalid
                /\ UNCHANGED <<tarballs, partitions>>
             \/ /\ list.ok /\ Len(list.value) >= Len(tarballs)
                /\ LET n == Len(list.value)
                       k == CHOOSE k \in ValidPrefix(list.value, Filled(tarballs, n)) :
                              \A j \in ValidPrefix(list.value, Filled(tarballs, n)) : j <= k
                   IN /\ tarballs' = Filled(tarballs, n)
                      /\ partitions' =
                           [i \in 1..k |-> parsePartition(list.value[i], tarballs'[i])]
                      /\ pc' = IF k = n THEN "setup" ELSE "invalid"
  /\ UNCHANGED <<request, name, bootable, supported, riscos, script, info>>

(* The setup script is optional; if there is a URL, something must come.    *)
ParseSetup ==
  /\ pc = "setup"
  /\ \/ /\ request.partition_setup = Bad
        /\ Invalid
        /\ UNCHANGED script
     \/ /\ request.partition_setup = Missing
        /\ pc' = "valid"
        /\ UNCHANGED script
     \/ /\ request.partition_setup \notin {Missing, Bad}
        /\ script' \in Downloads
        /\ pc' = IF script' = "nothing" THEN "invalid" ELSE "valid"
  /\ UNCHANGED <<request, name, bootable, supported, riscos, tarballs, partitions, info, fetched>>

Next == ParseRequest \/ ParseOSInfo \/ ParsePartitionInfo \/ ParseSetup

Spec == Init /\ [][Next]_vars

(***************************************************************************)
(* Properties                                                              *)
(***************************************************************************)
(* Every variable has its type.                                             *)
TypeOK ==
  /\ pc \in {"parse", "info", "list", "setup", "valid", "invalid"}
  /\ name \in {"os", "data", "risc", Missing}
  /\ bootable \in BOOLEAN \cup {Missing}
  /\ supported \in BOOLEAN
  /\ riscos \in Int \cup {Missing}
  /\ \A i \in DOMAIN partitions :
       /\ partitions[i].type \notin {Missing, Bad}
       /\ partitions[i].offset \in Int /\ partitions[i].number \in Int
       /\ partitions[i].maximise \in BOOLEAN /\ partitions[i].emptyFS \in BOOLEAN
  /\ script \in Downloads
  /\ fetched \in [info : Downloads, list : Downloads]

(* An OS that is installed has one partition per element of the list, in its *)
(* order; the tarballs of the request belong to the first ones, the others  *)
(* have none; each has a file system and a type (parsePartitionInfo): the   *)
(* loops of InstallManager index the two lists together.                    *)
ValidIsComplete ==
  pc = "valid" =>
    /\ Len(partitions) = Len(tarballs) /\ Len(partitions) >= Len(request.tarballs)
    /\ \A i \in DOMAIN partitions :
         /\ partitions[i].tarball = IF i <= Len(request.tarballs) THEN request.tarballs[i]
                                                                  ELSE "none"
         /\ partitions[i].fstype \notin {Missing, Bad}

(* An OS is installed only if neither the request nor the OS info says that *)
(* it cannot be booted, and by its name if the request says nothing         *)
(* (parseOS, parseOSInfo).                                                  *)
ValidIsBootable ==
  pc = "valid" =>
    /\ request.bootable # FALSE /\ info.bootable # FALSE
    /\ request.bootable \in {Missing, Bad} => NameOf(request).value # "data"

(* What InstallManager is given is of its type, complete and bootable.      *)
ValidIsInstallable == TypeOK /\ ValidIsComplete /\ ValidIsBootable
=============================================================================
