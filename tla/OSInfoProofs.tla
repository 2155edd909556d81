---------------------------- MODULE OSInfoProofs -----------------------------
(***************************************************************************)
(* Proofs about OSInfo, for every set of requests, OS infos and partition  *)
(* lists.                                                                  *)
(***************************************************************************)
EXTENDS OSInfo, NaturalsInduction, WellFoundedInduction, TLAPS

-----------------------------------------------------------------------------
(***************************************************************************)
(* The inductive invariant                                                 *)
(***************************************************************************)
(* What parseOS works on is what was sent and what was downloaded.          *)
InputInv ==
  /\ request \in Requests
  /\ info \in Infos \cup {Empty}
  /\ pc \in {"parse", "info"} => info = Empty

(* Behind the entries of the request the OS is bootable, and the tarballs   *)
(* are those of the request until the partition list has come.              *)
RequestInv ==
  pc \in {"info", "list"} =>
    /\ bootable = TRUE
    /\ tarballs = request.tarballs /\ tarballs \in Seq(STRING)

(* What is known of a valid OS as soon as the entries it depends on are     *)
(* read.                                                                    *)
Bootable ==
  /\ request.bootable # FALSE /\ info.bootable # FALSE
  /\ request.bootable \in {Missing, Bad} => NameOf(request).value # "data"

Complete ==
  /\ Len(partitions) = Len(tarballs) /\ Len(partitions) >= Len(request.tarballs)
  /\ \A i \in DOMAIN partitions :
       /\ partitions[i].tarball = IF i <= Len(request.tarballs) THEN request.tarballs[i]
                                                                ELSE "none"
       /\ partitions[i].fstype \notin {Missing, Bad}

AcceptedInv ==
  /\ pc \in {"info", "list", "setup", "valid"} => Bootable
  /\ pc \in {"setup", "valid"} => Complete

IInv == TypeOK /\ InputInv /\ RequestInv /\ AcceptedInv

-----------------------------------------------------------------------------
(***************************************************************************)
(* Lemmas about the operators                                              *)
(***************************************************************************)
(* parseEntry leaves a value of the type asked for, or what was there.      *)
LEMMA ParseEntryType ==
  ASSUME NEW T, NEW entry \in Entry(T), NEW target
  PROVE  /\ parseEntry(entry, target, TRUE).value \in T \cup {target}
         /\ parseEntry(entry, target, FALSE).value \in T \cup {target}
         /\ Required(entry).ok \in BOOLEAN
         /\ Required(entry).ok => Required(entry).value = entry /\ entry \in T
         /\ ~Required(entry).ok => entry \in {Missing, Bad}
BY EntryAssumption DEF Entry, parseEntry, Required

(* The PartitionInfo of an object: every entry has its type, and a valid    *)
(* one has a file system.                                                   *)
LEMMA ParsePartitionType ==
  ASSUME NEW entry \in ElementType, NEW tarball
  PROVE  LET p == parsePartition(entry, tarball)
         IN /\ p.type \notin {Missing, Bad}
            /\ p.valid => p.fstype \notin {Missing, Bad}
            /\ p.offset \in Int /\ p.number \in Int
            /\ p.maximise \in BOOLEAN /\ p.emptyFS \in BOOLEAN
            /\ p.tarball = tarball
<1>1. /\ entry.filesystem_type \in Entry(STRING) /\ entry.partition_type \in Entry(STRING)
      /\ entry.offset_in_sectors \in Entry(Int)
      /\ entry.requires_partition_number \in Entry(Int)
      /\ entry.want_maximised \in Entry(BOOLEAN) /\ entry.empty_fs \in Entry(BOOLEAN)
  BY DEF ElementType
<1>2. /\ Optional(entry.offset_in_sectors, 0) \in Int
      /\ Optional(entry.requires_partition_number, 0) \in Int
  BY <1>1, 0 \in Int DEF Optional, parseEntry, Entry
<1>3. /\ Optional(entry.want_maximised, FALSE) \in BOOLEAN
      /\ Optional(entry.empty_fs, FALSE) \in BOOLEAN
  BY <1>1 DEF Optional, parseEntry, Entry
<1>4. \A fstype : partitionTypeOf(fstype) \in {"0c", "82", "07", "83"}
  BY Zenon DEF partitionTypeOf
<1>5. Required(entry.filesystem_type).ok =>
        Required(entry.filesystem_type).value \notin {Missing, Bad}
  BY <1>1 DEF Required, parseEntry
<1>6. Required(entry.partition_type).ok =>
        Required(entry.partition_type).value \notin {Missing, Bad}
  BY <1>1 DEF Required, parseEntry
<1> QED BY <1>2, <1>3, <1>4, <1>5, <1>6, EntryAssumption DEF parsePartition

(* A set of numbers up to n has a largest one.                              *)
LEMMA LargestExists ==
  ASSUME NEW n \in Nat, NEW S \in SUBSET (0..n), S # {}
  PROVE  \E k \in S : \A j \in S : j <= k
<1> DEFINE T == {m \in 0..n : n - m \in S}
           R == {ss \in Nat \X Nat : ss[1] < ss[2]}
<1>1. T \subseteq Nat /\ T # {}
  <2>1. PICK k \in S : TRUE
    OBVIOUS
  <2>2. k \in 0..n /\ n - k \in 0..n /\ n - (n - k) = k
    BY <2>1
  <2>3. n - k \in T
    BY <2>1, <2>2
  <2>4. T \subseteq Nat
    OBVIOUS
  <2> HIDE DEF T
  <2> QED BY <2>3, <2>4
<1>2. IsWellFoundedOn(R, Nat)
  BY NatLessThanWellFounded DEF OpToRel
<1>3. PICK m \in T : \A l \in T : ~(<<l, m>> \in R)
  BY <1>1, <1>2, WFMin
<1>4. \A l \in T : l >= m
  <2> SUFFICES ASSUME NEW l \in T, l < m PROVE FALSE
    BY <1>1
  <2>1. l \in Nat /\ m \in Nat
    BY <1>1
  <2>2. <<l, m>> \in R
    BY <2>1
  <2> QED BY <1>3, <2>2
<1>5. n - m \in S /\ \A j \in S : n - j \in T /\ j \in 0..n
  OBVIOUS
<1> QED BY <1>4, <1>5

(* The elements that become PartitionInfos: all up to the first that is no  *)
(* object or not valid.                                                     *)
LongestPrefix(list, balls) ==
  CHOOSE k \in ValidPrefix(list, balls) : \A j \in ValidPrefix(list, balls) : j <= k

(* There is such a prefix, and its elements are valid objects.              *)
LEMMA LongestPrefixValid ==
  ASSUME NEW list \in Seq(ElementType \cup {Bad}), NEW balls
  PROVE  /\ LongestPrefix(list, balls) \in 0..Len(list)
         /\ \A i \in 1..LongestPrefix(list, balls) :
              list[i] \in ElementType /\ parsePartition(list[i], balls[i]).valid
<1> DEFINE V == ValidPrefix(list, balls)
<1>1. Len(list) \in Nat /\ V \in SUBSET (0..Len(list)) /\ 0 \in V
  BY DEF ValidPrefix
<1>2. \E k \in V : \A j \in V : j <= k
  <2> HIDE DEF V
  <2> QED BY <1>1, LargestExists
<1>3. LongestPrefix(list, balls) \in V
  BY <1>2 DEF LongestPrefix
<1> QED BY <1>1, <1>3 DEF ValidPrefix

-----------------------------------------------------------------------------
(***************************************************************************)
(* The invariant is inductive                                              *)
(***************************************************************************)
(* It holds when parseOS is called.                                         *)
LEMMA InitInv == Init => IInv
<1> SUFFICES ASSUME Init PROVE IInv
  OBVIOUS
<1>1. TypeOK
  <2>1. supported \in BOOLEAN
    BY Zenon DEF Init
  <2> QED BY <2>1 DEF Init, TypeOK, Downloads
<1>2. InputInv /\ RequestInv /\ AcceptedInv
  BY DEF Init, InputInv, RequestInv, AcceptedInv
<1> QED BY <1>1, <1>2 DEF IInv

(* The entries of the request.                                              *)
LEMMA ParseRequestInv == IInv /\ ParseRequest => IInv'
<1> SUFFICES ASSUME IInv, ParseRequest PROVE IInv'
  OBVIOUS
<1> USE DEF IInv, ParseRequest
<1>1. /\ request \in RequestType /\ request' = request
      /\ request.name \in Entry(Names) /\ request.os_name \in Entry(Names)
      /\ request.bootable \in Entry(BOOLEAN) /\ request.riscos_offset \in Entry(Int)
      /\ request.tarballs \in Entry(Seq(STRING))
  BY InputAssumption DEF InputInv, RequestType
<1>2. name' \in {"os", "data", "risc", Missing}
  BY <1>1 DEF NameOf, Required, parseEntry, Entry, Names
<1>3. bootable' \in BOOLEAN \cup {Missing}
  BY <1>1, ParseEntryType DEF BootableOf
<1>4. riscos' \in Int \cup {Missing}
  <2>1. parseEntry(request.riscos_offset, RISCOS_OFFSET, FALSE).value \in Int
    BY <1>1 DEF parseEntry, Entry, RISCOS_OFFSET
  <2> QED BY <2>1, Zenon
<1>5. supported' \in BOOLEAN
  BY Zenon
<1>6. pc' \in {"info", "invalid"}
  BY Zenon
<1>7. TypeOK'
  BY <1>2, <1>3, <1>4, <1>5, <1>6 DEF TypeOK
<1>8. InputInv'
  BY <1>6 DEF InputInv
<1>9. pc' = "info" => /\ bootable' = TRUE /\ bootable' = BootableOf(request)
                      /\ Required(request.tarballs).ok /\ tarballs' = request.tarballs
  BY Zenon
<1>10. RequestInv'
  BY <1>1, <1>6, <1>9, ParseEntryType DEF RequestInv
<1>11. info' = Empty
  BY DEF InputInv
<1>12. pc' = "info" => Bootable'
  <2> SUFFICES ASSUME pc' = "info" PROVE Bootable'
    OBVIOUS
  <2>1. info'.bootable # FALSE
    <3>1. info'.bootable = Missing
      BY <1>11 DEF Empty
    <3>2. Missing # FALSE
      BY EntryAssumption, Zenon
    <3> QED BY <3>1, <3>2, Zenon
  <2>2. request.bootable # FALSE
    BY <1>1, <1>9, EntryAssumption DEF BootableOf, Required, parseEntry
  <2>3. request.bootable \in {Missing, Bad} => NameOf(request).value # "data"
    BY <1>9 DEF BootableOf, Required, parseEntry
  <2> QED BY <1>1, <2>1, <2>2, <2>3 DEF Bootable, NameOf
<1>13. AcceptedInv'
  BY <1>6, <1>12 DEF AcceptedInv
<1> QED BY <1>7, <1>8, <1>10, <1>13

(* The OS info, or what was downloaded instead of it.                       *)
LEMMA ParseOSInfoInv == IInv /\ ParseOSInfo => IInv'
<1> SUFFICES ASSUME IInv, ParseOSInfo PROVE IInv'
  OBVIOUS
<1> USE DEF IInv, ParseOSInfo
<1>1. /\ info' \in Infos \cup {Empty} /\ request' = request
      /\ fetched' \in [info : Downloads, list : Downloads]
  BY DEF TypeOK
<1>2. info'.name \in Entry(Names) /\ info'.bootable \in Entry(BOOLEAN)
  BY <1>1, InputAssumption DEF InfoType, Empty, Entry
<1>3. name' \in {"os", "data", "risc", Missing}
  BY <1>2 DEF Optional, parseEntry, Entry, Names, TypeOK
<1>4. /\ bootable = TRUE /\ Bootable
      /\ tarballs = request.tarballs /\ tarballs \in Seq(STRING)
  BY DEF RequestInv, AcceptedInv
<1>5. bootable' \in BOOLEAN
  BY <1>2, <1>4 DEF Optional, parseEntry, Entry
<1>6. pc' \in {"list", "invalid"}
  BY Zenon
<1>7. TypeOK'
  BY <1>1, <1>3, <1>5, <1>6 DEF TypeOK
<1>8. InputInv'
  BY <1>1, <1>6 DEF InputInv
<1>9. pc' = "list" => bootable' = TRUE /\ info'.bootable # FALSE
  BY <1>2, <1>4, <1>5, EntryAssumption DEF Optional, parseEntry
<1>10. RequestInv'
  BY <1>4, <1>6, <1>9 DEF RequestInv
<1>11. AcceptedInv'
  BY <1>1, <1>4, <1>6, <1>9 DEF AcceptedInv, Bootable, NameOf
<1> QED BY <1>7, <1>8, <1>10, <1>11

(* The partition list: one PartitionInfo and one tarball per element.       *)
LEMMA ParsePartitionInfoInv == IInv /\ ParsePartitionInfo => IInv'
<1> SUFFICES ASSUME IInv, ParsePartitionInfo PROVE IInv'
  OBVIOUS
<1>1. PICK d \in Downloads, l \in PartitionLists :
        /\ fetched' = [fetched EXCEPT !.list = d]
        /\ LET list == IF d = "resource" THEN Required(l) ELSE Required(Missing)
           IN \/ /\ ~list.ok \/ (list.ok /\ Len(list.value) < Len(tarballs))
                 /\ Invalid
                 /\ UNCHANGED <<tarballs, partitions>>
              \/ /\ list.ok /\ Len(list.value) >= Len(tarballs)
                 /\ LET n == Len(list.value)
                        k == LongestPrefix(list.value, Filled(tarballs, n))
                    IN /\ tarballs' = Filled(tarballs, n)
                       /\ partitions' =
                            [i \in 1..k |-> parsePartition(list.value[i], tarballs'[i])]
                       /\ pc' = IF k = n THEN "setup" ELSE "invalid"
  BY DEF ParsePartitionInfo, LongestPrefix
<1>2. /\ UNCHANGED <<request, name, bootable, supported, riscos, script, info>>
      /\ pc = "list"
  BY DEF ParsePartitionInfo
<1>3. fetched' \in [info : Downloads, list : Downloads]
  BY <1>1 DEF IInv, TypeOK
<1>4. Bootable'
  BY <1>2 DEF IInv, AcceptedInv, Bootable, NameOf
<1>5. CASE Invalid /\ UNCHANGED <<tarballs, partitions>>
  BY <1>2, <1>3, <1>5
  DEF IInv, TypeOK, InputInv, RequestInv, AcceptedInv, Invalid
<1>6. CASE ~(Invalid /\ UNCHANGED <<tarballs, partitions>>)
  <2> DEFINE n == Len(l)
             k == LongestPrefix(l, Filled(tarballs, n))
  <2>1. Required(l).ok /\ Required(l).value = l /\ ~Required(Missing).ok
    BY <1>1, <1>6, EntryAssumption DEF Required, parseEntry
  <2>2. l \in Seq(ElementType \cup {Bad})
    BY <2>1, InputAssumption DEF Required, parseEntry, Entry
  <2>3. /\ n >= Len(tarballs)
        /\ tarballs' = Filled(tarballs, n)
        /\ partitions' = [i \in 1..k |-> parsePartition(l[i], tarballs'[i])]
        /\ pc' = IF k = n THEN "setup" ELSE "invalid"
    BY <1>1, <1>6, <2>1
  <2>4. /\ n \in Nat /\ k \in 0..n
        /\ \A i \in 1..k : l[i] \in ElementType /\ parsePartition(l[i], tarballs'[i]).valid
    BY <2>2, <2>3, LongestPrefixValid
  <2>5. \A i \in 1..k :
          LET p == partitions'[i]
          IN /\ p.type \notin {Missing, Bad} /\ p.fstype \notin {Missing, Bad}
             /\ p.offset \in Int /\ p.number \in Int
             /\ p.maximise \in BOOLEAN /\ p.emptyFS \in BOOLEAN
             /\ p.tarball = tarballs'[i]
    BY <2>3, <2>4, ParsePartitionType
  <2>6. DOMAIN partitions' = 1..k /\ pc' \in {"setup", "invalid"}
    BY <2>3
  <2>7. TypeOK'
    BY <1>2, <1>3, <2>5, <2>6 DEF IInv, TypeOK
  <2>8. InputInv' /\ RequestInv'
    BY <1>2, <2>6 DEF IInv, InputInv, RequestInv
  <2>9. pc' = "setup" => Complete'
    <3> SUFFICES ASSUME pc' = "setup" PROVE Complete'
      OBVIOUS
    <3>1. tarballs = request.tarballs /\ tarballs \in Seq(STRING)
      BY <1>2 DEF IInv, RequestInv
    <3>2. k = n /\ Len(partitions') = n
      BY <2>3, <2>4
    <3>3. /\ Len(tarballs') = n /\ DOMAIN tarballs = 1..Len(tarballs)
          /\ \A i \in 1..n : tarballs'[i] = IF i \in DOMAIN tarballs THEN tarballs[i]
                                                                     ELSE "none"
      BY <2>3, <2>4, <3>1 DEF Filled
    <3> HIDE DEF n, k
    <3>4. \A i \in 1..n : tarballs'[i] = IF i <= Len(tarballs) THEN tarballs[i]
                                                               ELSE "none"
      BY <2>4, <3>1, <3>3
    <3> QED BY <1>2, <2>3, <2>5, <2>6, <3>1, <3>2, <3>3, <3>4 DEF Complete
  <2>10. AcceptedInv'
    BY <1>4, <2>6, <2>9 DEF AcceptedInv
  <2> QED BY <2>7, <2>8, <2>10 DEF IInv
<1> QED BY <1>5, <1>6

(* The setup script.                                                        *)
LEMMA ParseSetupInv == IInv /\ ParseSetup => IInv'
BY DEF IInv, ParseSetup, Invalid, TypeOK, InputInv, RequestInv, AcceptedInv,
       Bootable, Complete, NameOf

(* Every step of parseOS preserves the invariant.                           *)
LEMMA NextInv == IInv /\ [Next]_vars => IInv'
<1> SUFFICES ASSUME IInv, [Next]_vars PROVE IInv'
  OBVIOUS
<1>1. CASE UNCHANGED vars
  BY <1>1 DEF IInv, vars, parsed, TypeOK, InputInv, RequestInv, AcceptedInv, Bootable,
              Complete, NameOf
<1> QED
  BY <1>1, ParseRequestInv, ParseOSInfoInv, ParsePartitionInfoInv, ParseSetupInv DEF Next

-----------------------------------------------------------------------------
(***************************************************************************)
(* Results                                                                 *)
(***************************************************************************)
(* Whatever JSON is POSTed and whatever the downloads return, the OS that   *)
(* parseOS hands to InstallManager is of its type, has a file system, a     *)
(* type and its own tarball for each partition of the list, and nothing     *)
(* that was parsed says that it cannot be booted.                           *)
THEOREM AcceptedIsInstallable == Spec => []ValidIsInstallable
<1>1. IInv => ValidIsInstallable
  BY DEF IInv, AcceptedInv, Bootable, Complete, ValidIsInstallable, ValidIsComplete,
         ValidIsBootable
<1> QED BY <1>1, InitInv, NextInv, PTL DEF Spec
=============================================================================
