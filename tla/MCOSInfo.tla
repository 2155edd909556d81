------------------------------ MODULE MCOSInfo -------------------------------
(***************************************************************************)
(* Instances of OSInfo for TLC.                                            *)
(***************************************************************************)
EXTENDS OSInfo

SomeRequests ==
  [name : {"os", "data", "risc", Bad}, os_name : {Missing, "os"},
   bootable : Entry(BOOLEAN), riscos_offset : {Missing, 1761},
   supported_models : {Missing, Bad, {"Pi 2"}, {"Pi 3"}},
   tarballs : {Missing, <<>>, <<"boot">>, <<"boot", "root">>},
   os_info : {"url", Missing}, partitions_info : {"url", Bad},
   partition_setup : Entry({"url"})]

SomeInfos == [name : {Missing, "risc"}, bootable : Entry(BOOLEAN)]

Element(fstype, type, offset, max) ==
  [filesystem_type |-> fstype, partition_type |-> type, offset_in_sectors |-> offset,
   partition_size_nominal |-> 100, requires_partition_number |-> Bad,
   uncompressed_tarball_size |-> Missing, want_maximised |-> max,
   empty_fs |-> Missing, active |-> Missing]

SomeLists ==
  {Missing, Bad,
   <<Element("fat", Missing, Missing, FALSE)>>,
   <<Element("fat", "0c", 8192, Missing), Element("ext4", Bad, Bad, TRUE)>>,
   <<Element("fat", Missing, Missing, Bad), Element("swap", Missing, Missing, Missing),
     Element("ntfs", Missing, Missing, Missing)>>,
   <<Element("fat", Missing, Missing, Bad), Element(Missing, "da", Missing, Missing)>>,
   <<Bad>>}
=============================================================================
