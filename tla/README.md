# Verification of the Surface Duo 2 drivers and image tools

TLA+ models of the two kernel drivers in this repository - the HID-over-SPI
touch transport (`drivers/touch/hid-over-spi.c`) and the elgin DSI panel
(`drivers/panel/panel-elgin.c`) - and of the six Python scripts in `tools/` that
take device trees and boot images apart, change them and build them, with the
TLC runs that check them and TLAPS proofs of their main safety properties.
`PROJECT.json` maps every definition to the lines it models and lists runs,
mutants, findings, hazards and theorems.

## 1. Inventory

| Component | State it keeps | Operations | Hard because |
|---|---|---|---|
| Touch: input path (`hidspi_read_input`, `hidspi_handle_input`, `hidspi_handle_input_body`) | `inbuf`, `frag_buf`, `frag_len`, `frag_expected` | read one fragment, dispatch or accumulate, accept or reject a body | word-sized lengths against byte-exact announced ones; a read that fails between fragments; allocation failure; overflow |
| Touch: life cycle (`hidspi_probe`, `hidspi_irq_thread`, HID callbacks, PM, `hidspi_remove`) | interrupt depth, three completions, `dev_desc`, `report_desc`, `hid`, `flags`, runtime PM status | probe with its error labels, handler, open/close, suspend/resume, autosuspend, remove | three threads without a common lock; timeouts racing answers; edge interrupts; a device that resets itself |
| Touch: output path (`hidspi_write_output` and its four callers) | `cmd_lock`, the one `cmdbuf` | lock, size check, fill, `spi_write`, unlock | several senders, and the handler's two transfers on the same bus |
| Panel (`elgin_*`) | supply counts, reset line, `dsi->mode_flags`, the DDIC's registers | prepare, enable, disable, unprepare, brightness set/get | errors in the middle of a sequence; a sysfs user in parallel with the DRM core; an unlocked flag word |
| `mkbootimg.py` | the output images, opened and emptied while the arguments are parsed; the ramdisk table builder | build a boot or a vendor_boot image, or both, of header versions 0 to 4 | offsets are nowhere written down and follow from what was written before; an error leaves half an image |
| `unpack_bootimg.py` | an output directory that is never emptied, links by ramdisk name in it | read the header, compute where each part is, extract, link, print the arguments to build the image again | parts that are absent, empty, unaligned; addresses printed from another base; leftovers |
| `carve-dtb.py` | its list of hits, `dtb-index.json` | scan each dump, drop overlaps, write trees and the index | the scan advances by four from wherever the last tree ended |
| `patch-drmode.py`, `patch-extcon.py` | the structure block being copied or overwritten | replace a value by a longer one; blank a property out | values that look like tokens, padding, blocks in either order, files already patched |
| `fdt2dts.py` | the lines written | print a tree | unterminated names, what is not a tree |
| Bindings, device tree patch | none | none (declarative) | they decide edge/level interrupt and whether there is a reset line |
| initramfs `init`, build script | none | straight-line | looks for the UDC once |

How they interact. The touch controller queues input reports and asserts its
interrupt line; the threaded handler reads one fragment per run under
`irq_lock`, and the dispatcher completes what probe waits for or forwards to the
HID core. Probe, the PM callbacks and HID users send through `cmdbuf` under
`cmd_lock`. The DRM core calls the panel callbacks one after another and turns
the backlight on and off around enable and disable; a user reaches the same
backlight operations through sysfs at any time after probe. The two drivers
share nothing. The scripts meet in the file system: what `carve-dtb.py` writes
is patched, patched again and dumped in the same directory, beside an index
written earlier; what `mkbootimg.py` writes is taken apart by
`unpack_bootimg.py`, whose printed arguments and extracted files are the input
of the next `mkbootimg.py`.

What makes each correct: reports whole, in order, at most once (input path); the
interrupt masked exactly when it must be, nothing used before it exists or after
it is gone, probe always ending (life cycle); reports never mixed, acknowledged
exactly when received (output path); supplies paired, reset asserted whenever
unpowered, initialisation complete before success, the user's brightness on the
panel (panel); what is packed comes out again, the image built again is the
image, nothing old or half-written is taken for it (boot images); a patched tree
is the tree with its edits and nothing else, its header true of it, the trees
found the trees that are there, the index true (device trees). The hazards
behind these are listed with their lines in `PROJECT.json`.

## 2. Modules

| Module | Models |
|---|---|
| `ReportStream` | Abstract: reports are produced, delivered in order, or lost by the bus. |
| `FragReassembly` | Input path. One action is one run of the handler; bytes are abstracted to "bytes from..to of report n", lengths are kept. Refines `ReportStream`. |
| `HidSpi` | Life cycle. `pc` walks the driver core's thread through probe, PM and remove, statement by statement; `ipc` the handler; `HidOpen`/`HidClose` a user. The controller and its line are external (`boot`, `power`, `inbox`, `dq`): it may answer a command that failed, and, with `"ANSWERS"` in `Spontaneous`, send descriptors nobody asked for or the same one again. |
| `SpiOutput` | Output path. Writers step through lock, check, header, content, write, unlock; the handler through its two transfers. What a failed transfer carried may have been received. |
| `ElginPanel` | Panel. `pc` walks the DRM core's thread; `op` the backlight operation of each of the two threads; `ddic` is what the display has received since its reset, and what last. |
| `BootFormat` | What the two image scripts share: the format's constants, the variables, texts, versions, padding. |
| `Mkbootimg` | `main()` from `parse_cmdline()` on, one action per part written. |
| `UnpackBootimg` | Header and table, `image_info_list`, extraction one part at a time, links, the printed arguments. |
| `BootImages` | The two composed: build, unpack and build again in any order, over each other's files. |
| `FdtFormat` | Device trees as cells, the directory, the variables of the four scripts. |
| `CarveDtb`, `PatchDrmode`, `PatchExtcon`, `Fdt2dts` | One script each, one action per iteration of its loop and per file written. |
| `DeviceTreeTools` | The four composed over one directory; trees as sequences of tokens, which the properties compare the files with. |
| `MC*` | Instances for TLC. |
| `FragReassemblyProofs`, `HidSpiProofs`, `SpiOutputProofs`, `ElginPanelProofs`, `DeviceTreeProofs`, `BootImagesProofs`, `BootRoundTripProofs` | Theorems for all values of the constants (section 5). |
| `DataLemmas` | What the proofs need to know of sequences and numbers: least numbers, induction over a set of numbers, functions defined by recursion on a length, sums and sequences put together term by term. |

State and code. Variables carry the names of the code's fields where there is
one (`frag_len`, `report_desc`, `desc_done`, `cmdbuf`, ...). A completion is its
`done` count; `wait_for_completion_timeout()` is two actions, one that takes a
count and one that times out when there is none. `disable_irq()` is two actions:
raise the depth, then wait until the handler is idle. `memcpy()` into `dev_desc`
is two steps with the value `"torn"` between them, because probe reads
`dev_desc` without a lock. A failed probe reaches `"failed"`; devres releases
end in `"released"`. In the panel, the 27 writes of `elgin_on()` are twelve
commands by purpose, in their order, a parameter offset and what is written at it
(205-216) two of them, so that the other thread's command may come between; `lpm` is the one bit of `mode_flags` that
changes, and each `&=`/`|=` is a step of its own. A read-modify-write of
`mode_flags` is taken as atomic, which is kind to the code: torn updates would
write back one of the values the model already produces.

How the modules divide the touch driver: `HidSpi` treats a message as its report
type and models the accumulation only as far as its memory is concerned
(`FIRST`, `REST`); `FragReassembly` models lengths and contents, with a single
thread, because `irq_lock` makes the handler sequential; `SpiOutput` models what
is on the bus between the statements that `HidSpi` takes as one.

An image is its header's fields with their widths, its length, and where each
part that has bytes lies; a file is its identity and its size. Reading a stretch
of an image gives the file that lies exactly there, or bytes that are nobody's.
A command line is a stretch of text with the offset of its one two-byte
character, so that it can be cut in two, and wrongly. Padding, page counts,
field order, the ranges `pack('I')`, `pack('Q')` and `array('I')` accept, the names
and lengths argparse and `add_entry()` refuse, and every place where an exception
ends a run after an output was opened are kept, with what has been written by then;
`made` is a ghost that remembers the job an image was built by and whether its build
ended.

A device tree file is a sequence of cells. Cells below 100 are small numbers
(tokens, lengths, offsets, zero), 100 to 999 four characters of text, `Nul` says
which of them hold the NUL, 1000 and above are other numbers. Offsets and block
sizes are in cells; the lengths of properties are in bytes, so that padding can
go wrong; a dump is its size in bytes and the places where the magic is found.
Each file carries the tree it is meant to be (a ghost), to which the edits are
made token by token.

Lines whose detail is abstracted: logging, delays (a delay is only the chance
for others to run), identifiers copied into `struct hid_device`, the DSC and
mode constants, register payloads; wording and layout of what the scripts print.

## 3. Runs

Twelve runs. Eight show properties that hold:

| Run | Shows | Bounds |
|---|---|---|
| `frag_reliable` | On a bus whose failures hit reports in one fragment only, every report read is dispatched whole, once, in order; the reassembly implements `ReportStream`, liveness included. | 4 reports of 7 shapes; word and header 2, `inbuf` 8 |
| `frag_any_device` | Any device, failure at any read, `kmalloc` failures: `frag_len` and `frag_buf` agree and only the first copy is unbounded. | 3 reports of 8 shapes, three misread lengths |
| `hid_faults` | Level interrupt, reset line, SPI and allocation failures, timeouts, unbind, and any device: one that resets itself, and sends descriptors unasked, early or twice. Interrupt balance, handler quiet when it must be, no completion before what it announces is stored, a HID device always has its report descriptor, live memory only, a probe that had the report descriptor and fails gives it back, probe returns, reports get read. | 2 spontaneous events, 2 suspends, 2 queued reports |
| `hid_level` | No failures, and a device that answers when asked: probe binds the device just when its descriptor is valid, whatever state it powered up in, and suspend/resume leaves an active device on. | 3 events, 2 suspends |
| `spi_output` | Two senders: reports untorn, acknowledged exactly when received, once, and every call returns. | 2 requests each, 1 input |
| `panel_faults` | Failing transfers and regulators against a sysfs user: link mode restored, supplies paired, no reset release without power, all of `elgin_on()` received, in order, before success, the requested brightness shown. | 2 prepares, 2 uses of sysfs, 3 levels |
| `boot_images` | Every header version, with parts absent, empty and around a page: every part comes out as it went in, the image built from the printed arguments is the image, arguments and links never lead to another image's files, what a failed build leaves is refused, the declared header size is the real one. | 201 command lines, 2 builds (the second over the first), 2 unpackings, any number of repackings; 2^32 and 2^64 scaled to 2^30 and 1.5 * 2^30, with numbers at, below and above them |
| `device_trees` | Trees carved from dumps, patched, patched again and dumped in any order: every file is its tree with the edits, its header describes it, `fdt2dts.py` shows it, the scan finds what it can come across, the index is true, every run ends. | 6 directories or pairs of dumps, 4 runs; blob limits 64 and 300 bytes |

Four show what a comment, the binding or the test plan says and the code does not
do (quoted in `PROJECT.json`, "findings"):

| Run | What TLC finds |
|---|---|
| `frag_read_error` | A failed read loses the first fragment of two; the second, with nothing accumulated, is dispatched as a report in one fragment, its data read as a body header. |
| `hid_open_asleep` | Autosuspend puts an open device to sleep; nothing takes a runtime PM reference. |
| `panel_lpm` | A brightness operation sets LPM again under a running enable or disable. |
| `carve_misses` | "scan every byte" is a scan of every fourth: a tree behind one whose size is no multiple of four is lost. |

`hid_level` has `ProbeSucceeds`, `ActiveMeansOn` and `RegisteredMeansDescribed`, which
need a device that is up before the first SPI write, a level interrupt and a bus that
works; where the code is without them, the first three statements below tell.

Some statements that do not hold are in the modules, for whoever changes the code. They
have no run of their own; the constants given here, on an instance like the ones above,
make TLC show it.

* `HidSpi!ProbeSucceeds` with the device tree's edge interrupt and no reset line
  (`EdgeTriggered = TRUE`, `HasResetGpio = FALSE`): a report asserted before
  `enable_irq()` raises no interrupt, then or later.
* `HidSpi!WaitedForReset` (`HasResetGpio = TRUE`): the controller's own power-up
  RESET_RESPONSE ends the wait for the one after the reset pulse.
* `HidSpi!WaiterAlone` (`Spontaneous = {"ANSWERS"}`): the comment at 800-802 has the
  descriptor fetched "synchronously under irq_lock without racing the handler". No
  waiter takes `irq_lock`; with one descriptor more than asked for, the handler copies
  the second into `dev_desc` while probe validates the first.
* `HidSpi!DuplicatesIgnored` (the same, and `Unbinds = TRUE`): "duplicate
  REPORT_DESCRIPTOR_RESPONSE ignored" (302) is decided by `report_desc` alone; a
  response repeated after remove has set it to NULL, with the interrupt still enabled,
  is stored and never freed.
* `ElginPanel!OffsetsAdjacent`: the test plan (`UNIT-TEST-PLAN.md`, 189-191) wants each
  parameter offset "immediately followed" by the write at it, since the registers are
  position-dependent. Nothing keeps a user's brightness operation (335-337, 350-352)
  from between the two; one read of `actual_brightness` is enough.
* `SpiOutput!InputReadUninterrupted`: a sender does not take `irq_lock`, so a command
  goes out between the header and the body of an input.

Why the bounds suffice. Two reports are enough for one to be mixed with the
next; three or four let an accumulation be started, broken and started again.
Two events put a device-initiated reset before and after any other event, two
suspends a suspend after a resume and a runtime after a system suspend. Two
prepares let state left by the first meet the second (`stuck` supplies, a clear
LPM bit, an old brightness). Two senders are what a mutex is about; the proofs
cover any number. Two builds and two unpackings are what it takes for leftovers
of one image to meet another; sizes one below, at and one above a page, and text
lengths at the cut and at the end of the fields, are where the arithmetic
changes. Four runs let a tree be carved, patched twice and dumped, or carved
again behind a patch; the files hold values that look like tokens, an empty and
an odd value, both block orders, a tree behind a tree, and six files that are no
trees. The safety properties proved in section 5 do not depend on the bounds at
all.

Deadlock is not checked: all of these systems may stop, when the bounds are used
up, when a device has nothing to say, after remove, or when nobody starts a
script.

Each property has a mutant of the code (an operator next to the one it mutates,
commented `Mutant:`) that breaks it.

## 4. Fairness

* `FragReassembly`: weak fairness of the handler - the interrupt stays asserted
  while the device holds a fragment, and a threaded handler is scheduled.
* `HidSpi`: weak fairness of probe, remove, the handler and of the controller
  coming up and answering; strong fairness of a successful read, i.e. SPI
  transfers do not fail for ever. Nobody is forced to suspend, unbind, open or
  close. A timeout is enabled only where the run allows it; `ProbeReturns` needs
  it, `ProbeSucceeds` is checked without.
* `SpiOutput`: a thread inside the driver runs on (weak); a kernel mutex is
  handed to each of its waiters in time (strong fairness of `Lock`). Nobody has
  to call.
* `ElginPanel`: no liveness; every call is straight-line.
* `DeviceTreeTools`: a script that has started runs on (weak fairness of `Step`);
  nobody has to start one. `BootImages` states no liveness: its loops run over
  lists made before.

## 5. Proofs

All proofs are checked by TLAPS for every value of the constants that satisfies
the named assumptions. `ShapesAssumption`, `SizesAssumption`, `FlagsAssumption`,
`BoundsAssumption`, `WritersAssumption`, `OutputBounds`, `LevelsAssumption`,
`PanelBounds` and `TargetsAssumption` only say what kind of values they are.
`SetupsAssumption` says that a directory holds files of cells, and dumps whose
magics lie inside them and which have room for no more trees than the model has
numbers for; `TreesAssumption` that a file of the directory or of a dump that is
said to be a tree is one (`IsTree`): the names of its nodes end at their first NUL, its
values have the cells their length asks for, the names of its properties are at their
offsets, FDT_END is last, its blocks lie apart and its header and map of reserved
memory before the structure block, as the format has it. Files without a tree may hold anything.
`NamesAssumption` says what the parts of a file name start with; `JobsAssumption`
what argparse makes sure of (`Typed`: each option has a value of its type, and the ones with a list of choices one of those),
that no job names one file as both of its outputs, and that none has more ramdisks
than the model has names for; `NoneAssumption` that an absent option is not a file. The type invariants of the four driver modules are proved
and not listed again in their runs.

* `FragReassemblyProofs`. `TypeCorrect`; `AccumulationConsistent`
  (`LenMatchesBuffer`, `OnlyFirstCopyUnbounded`) by an invariant that is the
  properties themselves plus "a buffer of more than one fragment is within its
  allocation", and from it `RestBounded`. `WholeInOrder` (`ReadMeansDispatched`,
  `DispatchesWholeReports`) assumes `ExactDevice` - reports of several fragments
  are a whole number of words, and reads fail on reports in one fragment only.
  Its invariant `StreamInv` ties three places together: the wire holds the rest
  of one report and then whole ones, the buffer is a prefix of the report the
  wire continues, and what has left the wire has been dispatched or lost. The
  properties alone are not inductive: without the wire nothing says that the
  next fragment belongs to the buffer. `ImplementsSafeStream` is the safety half
  of `ImplementsStream`, under the same assumption: every step is a step of
  `ReportStream` or a stutter. A step of the device that queues a report is
  `Produce`, the handler's last copy is `Deliver`, a failed read is `Lose`, and
  every other step leaves what has been produced, consumed and delivered alone. It
  needs, beside `StreamInv`, that what is on the wire has numbers below the
  device's next one (`WireBelow`).
* `HidSpiProofs`. `TypeCorrect`, `IrqBalanced`, `QuietWhenDisabled`,
  `HandlerSafe`, for any device. `SafeInv` is those four with "the handler copies only device
  descriptors" (types) and "a HID device is there only from the end of probe to
  the start of remove, and open only while it is there" (`HidInv`), without
  which a test of STARTED says nothing about `hid`. `IrqDepthBalanced` carries
  `HandlerQuiet`: no handler starts at depth 1. `Published`
  (`CompletionPublishes`), `HasReportDescriptor` (`RegisteredMeansFetched`) and
  `GivesBack` (`FreesWhatItHad`) are about any device as well, one that sends
  descriptors unasked and repeatedly included. They rest on `FetchInv`: `dev_desc` is
  torn only under its first copy, and from when the report descriptor has been
  allocated until it is freed, `report_desc` keeps a second one from being stored or
  announced; so a probe that has taken the completion finds no other, until it frees
  the descriptor itself. None of the three says that nothing is lost: what
  comes after the free, or after probe has left its wait, is (section 6). That the
  device descriptor is still the one that was validated, `Described`
  (`RegisteredMeansDescribed`), needs a device that answers when it is asked and not
  otherwise (`AnswersWhenAsked`, which the theorem names; `WaiterAlone` is what any other
  does to it): then there is never more than one answer, and it is still to be
  given, or queued, or in the handler's hands, or published, and where it is says how
  far probe can be (`DescInv`). `OnWhileActive` (`ActiveMeansOn`) assumes
  `CalmDevice`: no reset line, a device that is up in time and resets only when
  told, on a bus that works, which is what the run that checks it has. Without
  any of these a SET_POWER goes to a device that does not hear it or forgets it,
  and the driver, which does not look at the outcome, takes the panel to be on.
  `PowerInv` says where in probe, resume and suspend the
  panel must be up and on.
* `SpiOutputProofs`. `TypeCorrect`, `MutualExclusion`, `WholeAndOnce` (both of
  `ReportsUntorn` and `SentMeansReceivedOnce`, the latter again as `SentOnce`: received
  once if the caller was told so, at most once if it was told of an error). The
  invariant says that whoever is between check and unlock is the owner, what the
  owner has filled in so far is its own, and request numbers on the bus are not
  above the ones handed out.
* `ElginPanelProofs`. `TypeCorrect`, `LpmAlwaysRestored`, `PowerSequenced`,
  `NeverReleasedUnpowered`, `Initialised`, `ShowsLastRequest`. The supplies' counts by `pc` and the reset
  line by `pc` (`ResetInv`) give that a DDIC out of reset is powered, so an
  acknowledged command has reached it; `SequenceInv` then counts the commands of
  `elgin_on()`. `Initialised` says that all of them have been received in their order,
  and not that nothing of the other thread came between two: that does not hold
  (`OffsetsAdjacent`, section 3). For the brightness, `LockInv` ties the update lock to its holder
  and `ValueInv` says the value about to be sent is current unless the other
  thread is already waiting to send a newer one.

* `DeviceTreeProofs`. `TypeCorrect` for files of any cells, well-formed or not;
  `TypeInv` adds what a run holds between its steps, and for `carve-dtb.py`
  (`CarveInv`) that its hits are blobs of the dump, one behind the other and all
  of them before the place the scan is at. Hence `HitsInDump` (`HitsOrdered`):
  the loop that drops overlapping trees never drops one. `ScanComplete`
  (`FindsRegular`): in a regular dump every tree before the scan has been taken,
  and the scan is at a multiple of four, or at a tree, or behind all of them
  (`RegularInv`); the first half alone is not inductive, since nothing would keep
  the scan from skipping the next tree. `NothingButNops` (`OnlyNops`): the block
  `patch-extcon.py` works on has the length it had, and its cells are the old ones
  or FDT_NOP (`NopsInv`). `NeverInPlace` (`SourceKept`,
  which is proved and not run): `str.replace()` gives a
  name that is longer than the one it is given whenever there is a `.dtb` in it. It
  is a recursive function over the parts of a name; what it computes follows from
  `DataLemmas!Induction`, which is induction stated for sets of numbers.
  `IndexNeverLies` (`IndexTrue`) has two parts. Carving a partition again
  writes over the files the index speaks of, one after the other, while the old
  index is still there: `SamePrefix` says that two scans of one
  dump take the same trees as far as both have come, hence each file is written with what it held. And no
  patched file has the name of a carved one (`NamesOfPatched`), although it may
  well be made from one. `IndexInv` carries for the index, and for the summary
  it will be, that the entries are what a scan takes (`Carved`).
  `PatchedTrees` (`Edited`), `PatchedLayout` (`Described`) and `DumpIsTheTree`
  (`DumpShowsTree`) follow from `TreeInv`: a file that is said to be a tree is one
  (`IsTree`), and the walk of the script that runs stands before some token of the
  tree and has done exactly what belongs to the tokens before it. For
  `patch-drmode.py` the output holds the edited tokens so far (`DrmodeWalk`), for
  `patch-extcon.py` the block has them blanked out and the rest as it was
  (`ExtconWalk`), for `fdt2dts.py` the lines so far are theirs and the depth is
  the number of open nodes (`DumpWalk`). The properties alone say nothing of a
  walk under way, so nothing would keep a token word inside of a value from being
  taken for a token. `IsTree` has more than `Edited` and `Described` ask for: that a name
  is passed over to its end needs it to have no NUL earlier, and that the strings are
  where the properties say, after a longer block has moved them, needs the blocks
  apart (`NewDataLayout`, `NewDataTree`). Encoding, depth and rendering of a tree
  are recursions over its tokens. `EncodeAsJoin`, `DepthAsSum` and `RenderAsLines`
  bring them into one form, a sequence or sum of what each token gives
  (`JoinOf`, `SumOf` in `DataLemmas`), whose step from k tokens to k + 1 is
  proved there by induction over a set of numbers; `Laid`, `NodeLies` and
  `PropLies` then say where in the block the k-th token and its parts are, and
  `ShownValue` that the loop over a value in `render_prop()` finds the text at its
  start, and takes the value for text just when there is one. It failed at first: the reference the model
  compares with did not count a text that a number follows (`Shown`), which no tree
  of the instance had. The code was right; the reference is corrected, and the
  instance has such a value now.
* `BootImagesProofs` has no theorem of its own but the lemmas on headers the next
  module rests on. `ImagesInv` says of every image that its header is whole or cut
  short. That a build in progress is writing the image the invariant thinks it is
  (`JobInv`) needs the job to have two different outputs; that a header cut short
  cannot be read (`CutNotReadable`) needs the version to come before the fields it
  decides on; and a repacked image is only covered because what is printed is again a
  job (`PrintedJob`).
* `BootRoundTripProofs`. `AbandonedRefused` (`AcceptedMeansComplete`), for every way
  a build ends after an output was opened. A header that is cut is refused by
  `CutNotReadable`. A vendor_boot image whose table meets a type `pack()` refuses has a
  whole header, its ramdisks and its dtb; it is refused because the header counts
  all entries, `unpack_vendor_boot_image()` reads each before it extracts anything, and
  the image ends before the end of the last one (`CutTableRefused`). It takes `TripInv`
  to know that the table is where the header says. `BootFilesReturn` (`BootRoundTrip`), `VendorFilesReturn`
  (`VendorRoundTrip`), `HeaderSizeTrue` (`DeclaredHeaderSize`), `LinksLead`
  (`LinksCurrent`) and `StaleNeverNamed` (`NoStaleFile`). Their argument has three
  parts. An image is first written down as a function of its job, part by part
  (`WithHeader` to `Signed`, `VendorHead` to `VendorWhole`), and lemmas about
  `WritePadded` say where each part then lies (`BootPlaced`, `VendorPlaced`): behind
  as many pages as the ones before it fill. Then, version by version, what
  `unpack_bootimg.py` computes from the header's fields are those places and sizes
  (`BootReads`, `VendorReads`), which is why two page counts written in two
  scripts agree. `TripInv` ties both to the state: a build has collected the table
  of the ramdisks added so far (`BuilderInv`), its outputs are empty until their
  header is written (`OutputInv`) and then hold exactly the parts before the current
  one (`StageInv`); so every image on disk is the beginning of a header, one that ends in its table, the
  whole image of its job or the one being written (`ContentInv`). One cut in its header or
  its table is refused, hence what has been read is the image of a job (`ReadInv`), and of each
  item in the list either the bytes are in the output directory or the item is still
  to be extracted. The properties alone say nothing of a build or an extraction
  under way, so no step preserves them without this. The names matter twice: that
  no two ramdisks of a table have one name (`NoneRefused`, which `add_entry()`
  enforces) keeps a later link from replacing an earlier one, and that no two items
  of a list do keeps a later part from overwriting an earlier one. For
  `StaleNeverNamed` it comes down to every option that is printed being the name of
  an item in the list just extracted (`FileOptions`).
  `RebuiltEqual` (`Rebuild`) needs more, `RebuildInv`: a job that nothing stops
  (`GoodRun`: its options and fields fit, its names differ, it can be signed) has
  left the image its job describes when it is done (`RunInv`), and the fields and the table of
  every whole image fit (`FitInv`, `TypesInv`), since `pack()` would have raised; without
  the second the printed job might stop where the first did not. What is left is that
  the printed job and the one that was given, which are seldom equal, describe the
  same image (`SameBootImage`, `SameVendorImage`): the base is in the printed
  addresses and printed as zero, an address of a part without bytes is zero, a
  file without bytes is written as none, a version and a patch level survive
  being packed into one number (`VersionsBack`), the fragments come in the order
  of the table, and the first ramdisk, which was given without a name, comes back as
  a fragment whose name is empty. An empty file is padded where a missing one is
  not; that both leave the same image rests on every part starting on a page
  (`NoPadding`). `BootTypesCorrect` (`TypeOK`) is proved last, because what an
  image on disk may be is only known from `TripInv`, and that what was printed is
  a job from `ReadInv`.

Only model-checked. The liveness half of the refinement `ImplementsStream`, and every
liveness property (`ProbeReturns`, `ReportsAreRead`, `ProbeSucceeds`,
`CallsReturn`, `RunsEnd`): the prover handles neither fairness nor ENABLED.

## 6. Not modelled

* `hidspi_remove()` leaves the interrupt enabled until devres frees it.
  The model contains that window, `HandlerTouchesLiveMemory` excludes it;
  `DuplicatesIgnored` (section 3) is about one thing that happens in it.
* What the driver loses on a failed probe, which the model has and no property excludes,
  since nothing in the repository promises otherwise: `frag_buf`, which no error label
  frees, and a report descriptor that arrives when probe no longer waits for it
  (after a timeout, after a `spi_write` that failed although the device got it, or one
  repeated after `err_free_report_desc`, all with the interrupt still enabled).
  `FreesWhatItHad` says what is left.
* What the controller does between its reports. It is external: it gets a command once
  it is up, answers in any order, may reset itself, and, in `hid_faults`, may send
  any descriptor at any time. It holds at most `QueueMax` reports of its own.
* The panel's probe failures and remove (devm unwinding), `get_modes`, DSC and
  mode constants. What the DDIC makes of a brightness command between an offset and the
  write at it: that one can get there is modelled (`OffsetsAdjacent`), what it displays
  then is not in the repository.
* hid_driver_suspend() refusing a suspend: nothing has changed then.
* `irq_lock` itself: only the handler takes it, and the interrupt core already
  runs one handler at a time.
* `HIDSPI_FLAG_RESET_PENDING` and `desc_addr`, which the driver never uses.
* The initramfs: its build script only packs files, and `init` is a straight
  line of shell commands before its loop, whose one decision, to look for the UDC
  once, is a hazard in `PROJECT.json` without a property: when a controller
  appears is the kernel's.
* Of the image scripts: the size check of `board_id` (mkbootimg.py:324), which no
  command line reaches, since eight words are always given; the words' range is
  modelled (`Word`). `--id`, which prints the digest the header holds; the
  layout of the info format; the quoting of printed arguments and their
  separation by NULs; a printed text that begins with `-` and would be taken for
  an option.
* Files that change between being measured and being copied, and pipes in place
  of files: `filesize()` and `read()` are taken to see the same file.
* Of the device tree scripts: the length of names after UTF-8 replacement in
  `fdt2dts.py`; names of more than four trees per dump.

## 7. Plan

Done: all the modules of section 2, their runs and the proofs of section 5; every
invariant that a run checks is stated by a theorem. What remains is an abstract
"host and device agree on power" specification that the PM part of `HidSpi`
implements on a bus that does not fail; `OnWhileActive` is its safety today.
