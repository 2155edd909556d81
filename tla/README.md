# NOOBS4IoT in TLA+

NOOBS4IoT is the program that runs from the recovery partition of a Raspberry
Pi's SD card. It either reboots into an installed OS or offers a small REST
API (or a local menu) through which a client has an OS written to the card.
This directory models that program, and the configuration tools its buildroot
is configured with, checks them with TLC and proves the safety of the program on the device with
TLAPS.

* `src/recovery/` is the program itself, with its HTTP classes (`libs/Web`)
  and the QR code that shows the address of the device (`libs/QRCode`).
* `src/buildroot/support/kconfig/` decides what goes into the image: it reads
  the Config.in files, keeps `.config`, and is run as `conf` by the makefiles
  and as `menuconfig` by a person.

## 1. The system

| Component | State | Operations |
|---|---|---|
| `BootManager` | `default_boot_partition` and `installed_os.json` in `/settings`; the `reboot_part` kernel parameter; `webserver` flag | `run`, `bootCheck`, four REST handlers, the local menu, `setDefaultBootPartition`, `bootIntoPartition` |
| `InstallManager` | `_partitionMap`, space counters, `_installed_os`; the partition table and the partitions of the card; mounts on `/mnt`, `/settings`, `/mnt2`; `/tmp/partition_setup.sh` | `installOS`: `prepareImage` (layout), `partitionSDCard`, `writeImage`, `setDefaultBootPartition`, `sync` |
| `PartitionInfo` | offset, sizes, device, `_mountedDir` | parse, `mountPartition`, `unmountPartition` |
| `OSInfo` | the parsed description of one OS | `parseOS`, downloads of its parts |
| `PreSetup` | partition table of a fresh card, `cmdline.txt` | `checkAndPrepareSDCard`, `clearCMDline`, `startNetworking` |
| `Utility::Sys`, `Utility::Json` | none | files, mounts, JSON in files |
| `Web`, `WebServer`, `WebClient` | one socket at a time, bytes read, header, body | receive, parse, route, send, get |
| `QrCode`, `QrSegment` | a symbol while it is built | encode, draw, mask, print |
| kconfig: parser and menus | the tree of menus with their conditions | `source`, nesting, `menu_finalize`, expressions |
| kconfig: symbols | user's values, calculated values with `SYMBOL_VALID`, choices | calculate, set, check for recursion |
| kconfig: files | `.config`, `.config.old`, `auto.conf`, `autoconf.h`, `tristate.conf` | `conf_read`, `conf_write`, `conf_write_defconfig`, `conf_write_autoconf` |
| kconfig: `conf` | the round of questions | twelve modes |
| kconfig: `menuconfig` | the stack of menus and dialogs, the count of changes | keys, sizes of the terminal, load, save, search, SIGINT |

The program on the device runs in one thread: the server accepts a connection,
receives the request, runs the handler to its end (an installation takes
minutes) and answers. `BootManager` calls `InstallManager`, which calls back
`BootManager::setDefaultBootPartition`; the two share `/settings`. They talk to
the outside through commands (`mount`, `sfdisk`, `mkfs`, `wget | tar`, ...)
whose exit codes are sometimes looked at. kconfig is sequential too; what its
processes share are the files.

What is hard here is what happens around the programs: power may be cut
between any two steps, the kernel writes cached data back when it likes, any
command may fail, a request inherits what an earlier one left behind, a client
sends in pieces and hangs up, a process is killed between two renames, a value
is read from a cache that nobody cleared, and a terminal changes its size
under a dialog that redraws only what changed. PROJECT.json lists these hazards
at their lines.

What makes the parts correct:

* layout: partitions are disjoint, leave the system partitions alone, leave
  room for extended boot records, lie inside the extended partition or outside
  it as their number says, and end on the card;
* installation: the card never lists an OS that is not there; nothing mounted
  is overwritten; what is reported as installed survives a power cut;
* boot: a device that keeps power ends in an OS, in setup mode or in a shell;
* card preparation: nothing stored is lost and nothing mounted is rewritten,
  wherever it is interrupted, and setup mode is reached once there is a network;
* HTTP: a handler gets the request that was sent, each request has one answer,
  and a patient client is answered while no installation keeps the server;
* QR code: whoever reads the picture reads the text;
* kconfig: conditions mean what was written, values are never stale, asking
  ends, what is saved is restored, the build sees every change, and what
  menuconfig shows is what a key acts on, and what it saved stays on the disk.

## 2. Modules

| Module | Models |
|---|---|
| `PartitionPlan` | `checkImage`, `checkPartition`, `calculateSpaceRequirements`, the rows of `writePartitionTable` |
| `Provision` (uses `SettingsFS`, refines `CardContract`) | the program from power-on to power-off: boot decision, requests and menu, the whole installation, default partition, reboot; power cuts, write-back, failing commands |
| `SettingsFS` | operators on the files in `/settings`: what the program sees, what is on the card, what is in the ramdisk when the partition is not mounted |
| `CardContract` | abstract: what the card promises (listed OS, complete OS) |
| `CardSetup` | `PreSetup` step by step |
| `OSInfo` | from the JSON of a request and three downloads to a description |
| `Web`, `WebServer`, `WebClient` | the receive loop; the server with its clients; the download |
| `QRSegment`, `QRCode`, `QRReader` | segments and bits; the symbol; an independent reader, the reference |
| `KExpr`, `KMenu` | expressions; parser and `menu_finalize` |
| `KSymbol`, `KConfData`, `KConf` | values; files; the program `conf` |
| `LxDialog`, `MConf` | the dialogs; the program menuconfig (over `KConfData`) |
| `MC...` | instances for TLC |
| `PartitionPlanProofs`, `CardSetupProofs`, `ProvisionProofs`, `OSInfoProofs`, `WebProofs` (lemmas on the receiver), `WebServerProofs`, `WebClientProofs`, `QRCodeProofs` | theorems and proofs, see section 4 |

### PartitionPlan

One behaviour is one installation request. `claimed` is `_partitionMap`;
`CheckPartition` accepts or refuses one partition, `PlacePartition` gives one
its start and size, `WriteTable` adds rows 1, 5 and the extended partition.
The list `log_before_prim` is represented by the order `Precedes`;
`PlacedInListOrder` compares that order with `LogBeforePrim`, the list as the
code builds it.
`settings` is FALSE on a card without partition 5, where sysfs reads as 0.
Labels, types, the active flag and the uncompressed size (only printed) are
left out. `int` does not overflow for cards below 1 TiB, so sectors are
integers.

### Provision

`pc` is the next step of the program; each action is one file operation, one
command, or a stretch of code that changes nothing but local variables. The
request handlers and menu entries share their actions; `commandLine`, fixed in
an initial state, says whether the device has the web server or the menu and
whether `partition=` is given. `fs` is `/settings` (see `SettingsFS`);
`image`/`imageDisk` say what each partition holds for the kernel and after a
power cut: `<<o, done>>`, the OS it was written for and what `writeImage` has
done in it since (`Deeds`: the two config files, the setup script). `Promised`
is what `writeImage` makes sure of before it lists an OS: that the script ran,
and that the config files are there only if no write can fail, because it does
not learn of a failure in `patchConfigTxt` or behind `f.close()`. `mnt2` is the
stack of mounts on `/mnt2`; `mountedDir` the `_mountedDir` fields. `table` names the OS the table was made for, with `Torn`
for a table that lost partition 5.

Environment, modelled from how the code uses it: `sfdisk` refuses a disk with
a mounted partition (`DiskInUse`); the firmware starts `reboot_part` if it
exists and the recovery partition otherwise; `dd`, `mkfs` and `partclone`
flush the device they close, `tar` leaves its data in the page cache until
umount or sync; an ext4 commit may leave a fresh file empty.

`Failures` says which outside operations may fail in an instance:
`mountSettings`, `umount`, `command`, `io` (writing a file), `remove`
(removing one), `rebootPart` (no such kernel parameter).

Simplifications: the kernel writes the partitions back all at once or not at
all; a command that fills a partition is one step, during which no OS is
listed; `checkAndPrepareSDCard` is one step and Init is a prepared card (see
`CardSetup`); a request arrives whole (see `WebServer`); OS descriptions are
valid or refused (see `OSInfo`).

### CardSetup

One step per command of `checkAndPrepareSDCard` and `resizePartitions` and per
file operation of `clearCMDline`, with a boot after every power cut. `table`,
`content` (of the settings partition) and `cmdline` have what the kernel has
and what is on the card; `parted` leaves the recovery partition broken if it
is interrupted. Rows of the new table are computed in sectors from the real
constants. `StartNetworking` is the return from the wait for a network, which
may never come.

### OSInfo

One behaviour is one request. A JSON object is a function to entries that are
values, `Missing` or `Bad` (`Entry`, `RequestType`, `InfoType`, `ElementType`);
a download brings the resource, nothing, a damaged text or another page, since
`WebClient` does not look at the status.

### Web, WebServer, WebClient

A message is a sequence of units: its first line, header lines, the CR and LF
of the blank line, the bytes of the body (`Message` says what a peer sends: it
begins with a line, and `stoi` makes an integer of its Content-Length or
throws). `rcv` is the receiver's state over
the rounds of `readReceive`; a round reads any number of units that have
arrived, or waits a second for none. Clients connect, send one unit or more,
close or abort; the server may be ended by SIGPIPE or by an exception.
`marred` are the clients whose request was interrupted by a pause, and those
of whose request one read filled the buffer; in `WebClient` it says the same of
the response. `handled` has, for every client, the receivers its handlers were
run with, in order. The handlers are reduced to what they answer, and when; an
installation begins (`InstallOS`) and returns (`InstallReturns`), never returns,
or ends the program in one of its downloads (`InstallEndsProgram`). What ends it
there is in `WebClient`, which ends as "dead": a URL without a path, a status
code or a length without a number, a write to a closed connection.

### QRSegment, QRCode, QRReader

Texts and symbols are at their real size and coding; the tables are those of
`QrCode.cpp`. `encodeSegments` searches version and level, the patterns are
drawn, the codewords computed over GF(2^8) and interleaved, masks tried and
judged one per step, and a finished symbol may be copied with another mask.
`QRReader` takes the printed picture and decodes it without using any of
these definitions. The assertions of `QrCode.cpp` are not steps: that the
segments fit is `FitsTightly`, that a mask is found and every module lies in
the symbol are parts of the invariant behind `BestMask`, and the number of
codewords is part of `ReadsBack`.

### KExpr, KMenu

Expressions are trees and every function of `expr.c` an operator on them.
`KMenu` reads statements from nested files and builds `list`, `up`, `dep`,
`props`; then `menu_finalize` walks the tree with a stack of frames, one step
per entry, and the loop of `expr_eliminate_dups` one step per round. Tokens,
prompts and help texts are left out.

### KSymbol, KConfData, KConf

`g` is everything `symbol.c` keeps (flags, user's values, calculated values);
every function that changes it returns the new one, calculation on demand
included. `KConfData` reads and writes lines with the escapes of strings.
`KConf` runs one process after the other in one of twelve modes; `conf` and
`check_conf` recurse over a stack; every file operation is a step, may fail,
and a process may be killed before it. Wrong answers, which only repeat the
question, are left out.

### LxDialog, MConf

A dialog is a record, `Open...` the function up to its loop and `...Key` what
the loop does with one key; `KEY_RESIZE` enters it again at `do_resize`, with
the locals as they were. Of the drawing there is what is drawn piece by piece:
rows, cells, pages, the lit button. `MConf` has the C stack in `stack`, from
`main` to the dialog on top, and one action for each way a function goes on
after a dialog. SIGINT comes while a dialog waits (`Signal`) or while a function
works (`Interrupt`): inside `conf_read`, inside `conf_write`, also the one of
`handle_exit`, and inside `sym_calc_value`, with what the function has done so
far (`ReadStages`, `WriteStages`, `WorkStages`). While its handler runs the
signal is blocked; one before the first menu is left out.
`saved` remembers, for every file name, the lines of the last configuration that
was saved to it; `slip`, that changes may have been lost in one of the known ways
(see Observations): `EndMeansSaved` leaves these out, `LastSavedKept` does not.

## 3. Runs

* `layout`: every sequence of up to 3 partitions over 20 shapes (free, required
  2/3/4/5/7, maximised, raw, fixed offsets on and off the grid; 4, 9 and 16 MB),
  as RISC OS or not, with and without settings partition. The real alignment,
  gap and MB are used; the card has 32 MB behind the settings partition, so
  that images fit exactly, miss by one alignment unit, or leave room to
  expand. Three partitions are what it takes for 2 and 4 to conflict in both
  orders with a logical partition present, and for shrinking and enlarging to
  show between neighbours. `AllOnCardIfBudgeted` holds only for the images the
  budget accounts for (`Budgeted`); see Observations.
* `provision`: two OSes with different tables that share number 6, all four
  kinds of partitions, one with a setup script; devices that exist in one
  table, garbage, and strings without prefix; web server or menu, with or
  without `partition=`. Any number of installations, boots and power cuts;
  failures of commands, writes and `reboot_part`. Checks
  `ListedImpliesInstalled`, the refinement of `CardContract`
  (`CardKeepsContract`), `ToldIsDurable` and `AutoRebootTarget`. Since writes may
  fail in it, the config files are not `Promised` in this run; the theorems cover
  the case in which they are.
  `ListedImpliesInstalled` needs working `umount`, `mount /settings` and file
  removal, `ToldIsDurable` a working `mount /settings`: their results are ignored
  by the code, and with them failing the properties are false (with `/settings`
  unmounted, a success is only in the ramdisk). That is why this run leaves these
  failures out.
* `provision_failures`: one OS, every kind of failure. `NoWriteToMounted`, and
  `ComesBack` under fairness.
* `success_means_installed`, the one violation: 200 after a failed write.
* `card_setup`: three starts and four sizes of partition 1, on and off the
  grid, any number of boots: `PreparedSafely`, `StoredIsKept`, `ReachesSetup`.
* `os_info`: `ValidIsInstallable` for the product of missing, wrong and valid
  entries.
* `web_server`: two clients, buffer of 8 units, requests of up to 10:
  `HandledAsSent`, `AnswersAndStays`, and `EveryClientAnswered` under fairness.
* `web_client`: a buffer of 6 units, shorter than the longest response:
  `DownloadsWhole`, `GetReturns`; at most two leaked sockets.
* `qr_code`: `FitsTightly` and the room the patterns leave (`RoomIsExact`, a
  part of `ReadsBack`) over all 40 versions, the rest of `ReadsBack` and
  `BestMask` for the symbols up to version 7, where two block lengths, version
  bits and several alignment patterns occur.
* `kconfig_menu`: conditions over two booleans and two tristates in files of
  several shapes: `ParsedRight`, `TreeKept`, `MeaningKept`,
  `SelectsCollected`, `RoundsShrink`.
* `kconfig_conf`: five small Kconfigs and one for every pattern of
  dependencies among three symbols and a choice: `ValuesRight`,
  `SavedIsRestored`, `AskingEnds`, `CyclesReported`, `FilesInOrder`,
  `AnswerTaken`. In one Kconfig two processes run in turn, the first of
  which may be killed.
* `menuconfig`: nine scenes, each with its keys and a number of them
  (`budget`): `ShownIsActedOn`, `SavedIsKept` (`LastSavedKept` and
  `EndMeansSaved`), `PagesFollow`. The sizes are
  scaled down: 2 rows in a list, 2 columns in an input box, lines of 3
  characters, 2 jump keys on a page, a least height of 16 lines; the minimal
  heights of the dialogs are the real ones. Every list is longer than its box
  and every text than its page.

A property whose name stands for several (`TreeKept == TypeOK /\ ...`) is the
conjunction of the parts defined above it in its module, each with its own
comment. Only `web_client` (sockets), `kconfig_conf` (processes) and
`menuconfig` (keys) bound a count; the other state spaces are finite as they
are. `CHECK_DEADLOCK FALSE` stands where the program ends.

### Fairness

* `Provision`: weak fairness of the program's own steps, justified by a single
  thread that nothing blocks except what `WaitsForOutside` lists (the network in
  `startNetworking` and `wget --tries=inf`, the setup script), and of `PowerOn`.
  No fairness of requests, failures, write-back or power cuts. So `ComesBack`
  reads: the program always returns to its clients, to a shell or to a reboot,
  or waits for the network or the script for ever.
* `CardSetup`: the same; the exception is the wait for a network
  (`while(!isOnline())`, PreSetup.cpp:294). `ReachesSetup` reads: setup mode is
  reached, or the program waits for a network for ever.
* `WebServer`: weak fairness of the server, a single thread, except while it is
  in an installation (`wget --tries=inf`, and a receive loop without a limit),
  and of each client's sending: what was begun is sent, as TCP does on a
  connection that stays. Nothing obliges a client to connect, to pause or to hang
  up. `EveryClientAnswered` reads: a client that stays is answered, or the program
  ends, or the server stays for ever in an installation or in the receive loop of
  a client that has closed (`Hangs`).
* `WebClient`: likewise for the client and the remote server's answer.

## 4. Proofs

| Theorem | Says, for every value of the constants |
|---|---|
| `PartitionPlanProofs!TypeCorrect` | `TypeOK`: numbers 1 and 5 are never claimed |
| `LayoutIsDisjoint`, `SystemPartitionsAreKept`, `ExtendedIsSound` | `RoomForEBR`, `SystemPartitionsKept`, `ExtendedHoldsLogicals` |
| `AlignsWithoutGap`, `PlacesInListOrder` | `NoAlignmentGap`, `PlacedInListOrder` |
| `StaysOnCard` | `AllOnCardIfBudgeted` |
| `CardSetupProofs!PreparesSafely`, `KeepsStored` | `PreparedSafely`, `StoredIsKept` |
| `ProvisionProofs!TypeCorrect`, `WritesUnmounted` | `TypeOK`, `NoWriteToMounted`, whatever fails |
| `InstalledIsDurable` | `ToldIsDurable`, if `MountWorks` |
| `RebootsIntoInstalled` | `AutoRebootTarget`, if files can be removed |
| `ListedIsInstalled`, `ImplementsContract` | `ListedImpliesInstalled` and the refinement of `CardContract`, if `Reliable` |
| `OSInfoProofs!AcceptedIsInstallable` | `ValidIsInstallable` |
| `WebServerProofs!RequestsHandledAsSent`, `AnswersOnceAndStays` | `HandledAsSent`, `AnswersAndStays` |
| `WebClientProofs!Downloads` | `DownloadsWhole` |
| `QRCodeProofs!TakesSmallestSymbol` | `FitsTightly`, for every list of segments and range of versions |
| `ChoosesBestMask` | `BestMask`, for every version, level and content of the symbol |

### Assumptions and hypotheses

* `GeometryAssumption` and `AlignedAssumption` describe the card `PreSetup`
  leaves behind; `StaysOnCard` needs both, the other theorems of the layout
  only the first. Theorems about the layout that mention `Sized` hold for
  images all of whose partitions state a size, see Observations.
* `NumbersAssumption` of `Provision`: the partitions of an OS have different
  numbers. `checkPartition` refuses an image where they have not, and
  `PartitionPlan` models that.
* `EntryAssumption` and `InputAssumption` of `OSInfo` type the JSON; `Missing`
  and `Bad` are different from every value.
* `ServerAssumption` and `ClientAssumption` say that what peers send is a
  `Message`.
* `CallsAssumption` of `QRCode` types the parameters of `encodeSegments`, and
  `CopyMasksAssumption` says that a copy is made with a mask of -1..7, since the
  constructor refuses others. Which calls are valid is not assumed: `Reject` is
  a step.
* `Reliable` (`ProvisionProofs`): `umount`, `mount /settings` and the removal of
  files do not fail. The code ignores their results, and without it both
  theorems are false: that is also why the run `provision` leaves these
  failures out. All other failures, power cuts and write-backs are included.
  `RebootsIntoInstalled` needs the removal of files only.
* `MountWorks` (`ProvisionProofs`): mounting `/settings` does not fail.
  `InstalledIsDurable` needs nothing else.

### Arguments

Each theorem is an invariance: an inductive invariant that implies the property,
shown to hold initially and to be kept by every action. None of the properties
is inductive itself.

* *Layout.* `Inv` adds to `RoomForEBR`: claimed partitions come from the image,
  what is set in which phase, 2 and 4 are never both claimed, placed partitions
  precede those to come and lie in that order, and everything placed has sectors
  and ends at or before the cursor: a new partition starts behind the cursor,
  hence behind all others. The order also gives that logical partitions end
  before the first primary one starts, which is why an extended partition that
  ends with the highest number contains them all.
* *Gaps.* `ChainInv`: the cursor stands behind the last partition placed, each
  one that has no offset of its own starts where `AlignUp` took the cursor, and
  only the last takes what is left of the card. A shrunk or enlarged partition
  ends one gap in front of a boundary (`EndsAtGap`), so `AlignUp` adds nothing.
* *List order.* `Ascending` is the one enumeration of the numbers in ascending
  order; that there is one is shown by counting, for each number, those up to
  it (`AscendingEnumerates`). `ListInv` says that a number below 6 was required
  and never given out, so that the head of the list is the only one that may
  have to be moved (`MovedToBack`); after the three moves the list is in the
  order of `Precedes`, and `InOrder` of `Inv` does the rest.
* *Budget.* `StaysWithinGrant`: a partition on a boundary reaches, with the gap
  and the alignment of the next one, no further than the MBs `checkPartition`
  charged for it and its share of the extra space. `BudgetInv` says that the
  charges of what is still to be placed fit between the next start and the end
  of the card. The charges are sums over sets of partitions. Instead of a
  recursive sum, whose properties would need an induction, the invariant says
  that some additive function on the sets (`Sums`) has the total as its value;
  `SumsInsert` extends it by one partition. `NumberInv` is what RISC OS needs:
  the only fixed offset belongs to the partition that is placed first.
* *Card preparation.* `IInv` relates the step to the table on the card, to what
  is mounted, to the content of the settings partition and to what was reported.
* *Installation.* First, for each variable, a lemma names the actions that
  change it (`FsSteps`, `TableSteps`, ...), so that the proof of an invariant
  has to look at those only. `TypeInv` says where the cursor and the OS of an
  installation are defined; `Mnt2Inv` which partitions are on `/mnt2` at which
  step; `ToldInv` and `DefaultInv` what is in the files from the write to the
  answer; `RemountedInv` that `/settings` stays mounted from the remounting after
  `sfdisk` to the answer. `CardInv` adds that an OS on the list is held by the card
  (`ListedInv`), that nothing is listed from the removal of the list to its new
  writing, in the cache as on the card (`ForgottenInv`), and what has been
  written so far in the loop over the partitions (`ProgressInv`). The refinement
  takes each step that changes what is listed or held to the step of
  `CardContract` it implements.
* *OS description.* `AcceptedInv` follows the description through the three
  parsers; the loop over the tarballs becomes a longest valid prefix.
* *HTTP.* `WebProofs` proves once what `ReadRound` and `AfterRead` do to a
  receiver: what has come is a prefix of the message, perhaps with stray bytes
  in between but never in front; without stray bytes it is the prefix, and what
  `AfterRead` makes of it is the body that was sent. Server and client add who
  is being served (`QueueInv`), how far the receiver is (`ReadInv`, `WholeInv`),
  what handlers were run with (`HandledInv`), what was answered at which
  step (`AnswerInv`), and that an installation is one of a request that was
  handled and is not answered yet (`InstallInv`).
* *QR code, symbol.* `FitsInv`: the versions before the one the search is at
  are too small. `TotalBits` says that the recursive sum of `getTotalBits` is a
  number for every list of segments, by a smallest counterexample; from there
  the test in the loop and "has room" are the same (`FitsIsHolds`), and the
  highest level of `boostEcl` is not below the one asked for because that one
  fits.
* *QR code, mask.* `MaskInv`: of the masks tried so far the one remembered has
  the lowest penalty, as computed for the symbol with its own format bits,
  although the symbol still shows those of the last round. This needs that
  redrawing the format bits covers them completely (`FormatRedrawn`), for which
  the patterns of all 40 versions are shown to lie inside the symbol and to
  contain them (`FunctionPatterns`, with `AlignPositions` for the spacing); that
  a mask undoes itself (`MaskTwice`); and that every penalty is below INT32_MAX,
  from which the loop starts (`PenaltyRange`, by counting), so that the first
  round finds a mask and the sum does not overflow.

### Only model-checked

* Liveness: `ComesBack`, `ReachesSetup`, `EveryClientAnswered`, `GetReturns`.
* `ReadsBack`: that the error correction, interleaving and reading of a symbol
  belong together is a fact about recursive functions over its codewords, and
  the room the patterns leave (`RoomIsExact`) is a count that TLC makes for each
  of the 40 versions, which are all there are.
* `KExpr`, `KMenu`, `KSymbol`, `KConfData`, `KConf` and `MConf` use RECURSIVE
  operators, which follow the recursion of the code over trees: the prover
  cannot work on them.

## 5. Observations

What the models showed about the code beyond what the properties state; each
is excluded from a property by a named condition, or needed no property.

On the device:

* A failed `writeImage` is logged and the client is told 200
  (InstallManager.cpp:102; run `success_means_installed`).
* `installed_os.json` and `default_boot_partition` can be torn apart by a power
  cut: the next boot finds an OS and no default, or one of an older OS
  (BootManager.cpp:301, InstallManager.cpp:107).
* POST /bootPartition stores any text (BootManager.cpp:293).
* If `/settings` is not mounted, files go to the ramdisk, the listing too, and a
  client is told of a success that no power cut survives
  (InstallManager_Utility.cpp:111).
* An OS can be listed, and reported as installed, without its config.txt or
  os_config.json: `patchConfigTxt` ignores whether it could write
  (InstallManager_Utility.cpp:336, InstallManager.cpp:445), and a failure at the
  end of the other file is not seen (Utility_Json.cpp:76).
* Without a network the device never gets to setup mode, not even to its menu
  (PreSetup.cpp:294).
* An installation keeps the server from all other clients for as long as `wget`
  tries (InstallManager_Utility.cpp:171), and its downloads may end the program:
  a status line without a number (WebClient.cpp:127), a URL without a path.
* The budget does not count the alignment of raw partitions, and a partition
  without a size is placed with none (InstallManager.cpp:291, 296): hence
  `Budgeted` and `Sized`.
* A setup script that fails leaves `/mnt2` mounted; later installations are
  refused by `sfdisk` until a reboot.
* Power cut between `sfdisk` and `mkfs`: the next boot takes the card for
  prepared and the settings partition is never formatted (PreSetup.cpp:42).
* `clearCMDline` verifies what it wrote from the page cache and never syncs
  (PreSetup.cpp:251).
* Every model counts as supported (OSInfo.cpp:80), and a description whose OS
  info could not be downloaded is accepted (OSInfo.cpp:151).
* A client that hangs up before it has sent its body keeps the server in
  `receive` for ever (Web.cpp:93); one that is gone when the answer is written
  ends it with SIGPIPE (Web.cpp:39); a Content-Length that is no number ends it
  too; a read that fills the buffer leaves it without its final zero
  (Web.cpp:138).
* `WebClient` takes the page of an error for the resource (WebClient.cpp:127),
  and a failed connect leaves its socket open (WebClient.cpp:104).

In kconfig:

* `expr_eliminate_dups2` turns `(FOO || BAR) && (!FOO && !BAR)` into n, which is
  m for tristates that are m (expr.c:577).
* `expr_alloc_or(NULL, e)` is `e`: a definition without a condition is lost
  among others that have one (menu.c:370).
* The check for recursive inclusion comes one file late (zconf.l:315).
* `conf_read` drops a number out of range and clears only its own
  `SYMBOL_VALID` (confdata.c:458).
* `sym_calc_choice` takes the user's mark from a choice after it calculated from
  it: calculated again, a tristate choice is m instead of y (symbol.c:277).
* "is not set" of a choice value that cannot be seen any more may be left over
  in `.config` (symbol.c:331).
* A recursive dependency is reported and nothing else is done about it.
* At the end of its input `conf_string` may repeat its question for ever
  (conf.c:161).

In menuconfig:

* A menu that is resized keeps `choice`, `first_item` and `button`: it may show
  other lines than the ones a key acts on, light another button than the one
  that Enter presses, and print an item behind the last (menubox.c:193-271).
  "lxdialog is crash-safe ... and menus change their size on the fly", says
  its change log (menubox.c:45).
* A load of a file that does not exist sets the count of changes to 0: leaving
  does not ask and the changes are lost (confdata.c:411).
* SIGINT while "configuration written" is shown, or inside `conf_write`, then
  Yes: the second `conf_write` finds no `SYMBOL_WRITE` and writes a file without
  symbols; the configuration is in `.old` (mconf.c:997, confdata.c:783-832).
* SIGINT inside `conf_read` (from confdata.c:411, where the count of changes
  becomes 0, to mconf.c:912), or in `sym_calc_value`: the end comes without a
  question or a symbol is not written, and unsaved changes are lost. Inside the
  `conf_write` of `handle_exit` (mconf.c:971) it starts a second one. In all these
  cases what was saved before stays on the disk (`LastSavedKept`).
* Escape at the question of SIGINT ends the program, though the text says that
  it continues (mconf.c:961); `child_count` and `save_and_exit` are never reset.
* In a terminal that is too small for an input box, `conf_string`, `conf_load`
  and `conf_save` loop without waiting for a key (mconf.c:862, 901, 928).
* A text box in a terminal of eight lines has no rows; after the last full page
  there may be a blank one; a message without a final newline vanishes when it
  is scrolled aside.

## 6. Not modelled, and what comes next

* `easylogging++.h` is a vendored logging library; `Utility::Debug` and the
  printing functions only produce output; `toSvgString` has no caller.
* `nconf`, `gconf` and `qconf` are further front ends over the symbols and files
  modelled here; most of their state is in panels, GTK and Qt.
* buildroot's packages and the build scripts are recipes.
* Hash tables, string buffers, lexing of tokens and formatting in kconfig are
  abstracted.

Next: the dialogs of `LxDialog` (a list that scrolls keeps its choice inside),
and the parts of `MConf` and `KConf` that do not depend on expressions, once
they are separated from the modules that need RECURSIVE.
