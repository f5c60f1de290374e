# Verification of the YP-Q2 flash storage stack and audio output

TLA+ models, TLC runs and TLAPS proofs for two drivers of the Samsung YP-Q2
source release that are the maker's own: the flash storage stack, UFD ("unified
flash driver"), and the playback of the OSS audio driver. Paths below are
relative to the source tree; `ufd/` stands for `dawitsv2-sys/linux/drivers/ufd/`
and `oss/` for `dawitsv2-sys/linux/sound/oss/`.

## The system

The repository is a firmware source release: a Linux 2.6 kernel with board
support, third-party user space and middleware, scripts to build and repack an
image, and two substantial pieces of the maker's own logic, the NAND storage
stack and the driver that plays sound. Those two are what is verified here.

| Component | Source | State it keeps | Operations |
|---|---|---|---|
| Interface (FD_*) | `ufd/fd_if.c`, `ufd/fd_global.c` | `UFD_LOCK` | open/close, page and group read, write, copy, erase, sync, format, partition table |
| Logical devices | `ufd/fd_logical.c` | logical device table, partition tables, block device tables | partition layout, sector-group I/O, emulated small-block devices |
| Physical devices | `ufd/fd_physical.c` | `PFDEV` per chip: I/O buffers, buffer index, "all busy", previous operation | block mapping, multi-plane operations, software copy-back, error recovery |
| Bad block manager | `ufd/fd_bm.c` | `BM_MOD` per chip: swap table, free list, map blocks, map page, sequence number; the map log on the chip | format, open, replace a bad block, look a block up |
| Low-level driver | `ufd/lld/large/secmlc-ddp` | the operation given last to each chip | DMA programs: read, program, erase, sync |
| ECC | `ufd/ecc_*.c` | none | encode, detect, correct |
| Raw block device | `ufd/fm_raw_blkdev.c` | usage and size of each device | block layer requests onto FD_* calls, ioctls that set partition tables and erase partitions |
| RFS glue | `dawitsv2-sys/linux/fs/rfs` | semaphores, block device table | file system on an FTL; the core is a prebuilt object |
| Audio output | `oss/stmp37xx_audio.c`, `oss/stmp37xx_audioout_dac.c` | a ring in on-chip memory with write pointer, valid bytes and last DMA position; two semaphores; `active` and `initDevice` | write, sync, reset, fragment setting, open, close; the DMA interrupt |
| Everything else | `dawitsv2-sys`, `dawitsv2-mid`, `git`, `repack_tool` | | kernel, libraries, tools, build: third party or scripts |

How they interact. A request takes `UFD_LOCK`, maps its blocks through the
partition, and calls the physical layer in a loop while that answers
`FM_TRY_AGAIN`. The physical layer asks the bad block manager which block
stands for the one named, starts the operation on the chip and returns; the
chip works on. The *next* access to the same chip, whatever it is, learns that
the operation before it failed. `err_recover` then has the bad block manager
replace the block, repeats the failed operation from the buffers it came from,
and answers `FM_TRY_AGAIN`. The bad block manager in turn erases, copies and
programs blocks itself, and saves its table in a log on two map blocks.

The audio driver stands apart. A writer copies sound into the ring, in one or two
pieces, and starts the DMA channel when the ring is full (a sync starts it
earlier). The channel plays a block per descriptor and per count of its hardware
semaphore, and interrupts at each block's end. The handler reads the channel's
position, counts and clears what was played, gives the channel another count and
wakes the writer; when nothing is left and the channel has halted it stops the
sound, resets the ring and wakes a caller that waits in a sync.

What is hard about it:

- **Power loss at any flash operation.** A replacement consists of many of them
  (erase the spare, copy the pages, one or two saves of the table, each of which
  may erase a block, write every segment of the table, and mark a bad block).
- **Failures within recovery.** The spare fails, the map block fails while the
  table is saved for a spare that failed, the bad mark fails, spares run out.
- **Deferred errors.** An operation fails into a later, unrelated call, which
  must redo it from buffers that nothing may have touched in between, and then
  do its own work.
- **Two chips at once.** One call at a time, but each chip still works on its
  last operation, and copies go between chips.
- **A writer, an interrupt and a DMA channel on one ring**, without a lock: the
  writer moves its pointer, copies and counts in separate steps, and the handler
  may count, clear, stop and reset between any two of them; the channel plays on
  while the handler looks at it, and its interrupts merge when handled late.

What makes each component correct:

- *Bad block manager*: a replacement reported as done is found by every reboot,
  one in progress is found whole or not at all, with its data; no block gets two
  replacements; free, map, bad and data blocks stay apart; calls end.
- *Physical layer*: every page a caller wrote ends in the block that stands for
  its own, whatever call meets a failure; the data of a pending write is kept
  until it is known to be on the chip; a failed operation is redone while spare
  blocks last; calls return.
- *Interface and logical devices*: a group call works on each partition as on
  one; partitions do not overlap; the device table counts its users.
- *Raw block device*: its tables follow those of the chips; an error reaches the
  request that met it (which it does not: `ufdraw_xfer_bio` drops it).
- *Audio output*: what was accepted is played, in order, before the sound stops;
  no copy leaves the ring and neither a copy nor a clearing reaches unplayed sound;
  a clearing that runs past the ring's end at a wrap stays in the memory mapped for
  it; a write reports what it queued; calls return.

The hazards of `PROJECT.json` list these risks at their lines. Those with no
property say why.

## The modules

| Module | What it is |
|---|---|
| `BadBlockManager` | `fd_bm.c` on one chip, each flash operation a step |
| `DurableMap` | what the manager promises: a durable map of blocks, changed one block at a time, at an instant |
| `MCBadBlockManager` | its accident budget as constants for the cfg files (`BBM_*.cfg`) |
| `BadBlockManager_proofs` | type correctness of the manager, and which blocks it writes to |
| `MapLog_proofs` | what the map blocks hold: a log in order, no block with two entries |
| `Survival_proofs` | what a reboot finds while no map page fails, and the refinement of `DurableMap` |
| `MapFailures_proofs` | what a reboot finds when map pages fail too |
| `PhysicalDevice` | `fd_physical.c` as `fd_if.c` drives it, over chips that work on their own |
| `MCPhysicalDevice` | values as model values, and their symmetry (`PD_*.cfg`) |
| `PhysicalDevice_proofs` | its types, the buffers that pending writes need, and that its pages hold what callers gave |
| `LogicalDevice` | `fd_logical.c` with the calls of `fd_if.c` on partition tables and devices, as `fm_raw_blkdev.c` drives them |
| `MCLogicalDevice` | the layouts asked for and the devices opened (`LD_*.cfg`) |
| `LogicalDevice_proofs` | the table of open devices and its users; partition and device tables, and their types |
| `AudioOut` | playback: caller, interrupt handler and DMA channel on one ring |
| `MCAudioOut` | the writes asked for (`Audio_*.cfg`) |
| `AudioOut_proofs` | the inductive invariant of the ring: types, and what stays inside it |
| `AudioOutQueue_proofs` | what is queued: counts, space, descriptors, the stop; where it lies in the ring, and that nothing overwrites it |

### BadBlockManager

State. `pages`, `data`, `marked` are the chip: the map pages programmed in a
block since its erase, the data it holds otherwise, bad marks. `SwapTable`,
`FreeBlockList`, `MapBlock`, `CurMapBlockIdx`, `CurMapPageNum`, `Sequence` and
`State` are the fields of `BM_MOD`. A map page is a record of its sequence
number, the segment it holds and the image of that segment; one that was cut or
failed is `TORN` and does not read back.

Control. `pc` names the flash operation that comes next. Each action is that
operation with its outcomes (done, failed) and the code that runs up to the next
one, so every `goto` and every nested save of the code is a path through
actions: `GetFreeBlock`, `EraseNew`, `CopyPages`, `Register`, `Install`,
`InstallOriginal` are `BM_SwapWriteBadBlock` and `BM_SwapEraseBadBlock`;
`EraseMap`, `WriteAll`, `WriteOne`, `MarkMap`, `MarkDelayed` are
`save_swap_table`; `save` is its stack frame, with the place it returns to.
`BM_Format`, `FormatSecondBlock` format, `Boot` is `FD_Init`, which opens or
else formats. `ProgramUser`, `EraseUser` and their failing forms are the driver
above. `PowerLoss` cuts any operation: a cut erase or program leaves a block
that reads as junk, still holds what it held, or is done.

Block numbers replace offsets into the area, a page copy of a block is one step,
and a user block's content is the block whose data it is. The sequence number is
not bounded in its type (2^32 saves outlast the map blocks by far).

`DurableMap` is what this promises the driver above: a mapping that callers see
change at an instant, one block at a time, that a call changes only once the chip
holds the change, and that only a format (on request, or because the chip holds no
mapping) may make anew. The refinement maps its `stored` to what `BM_Open` would
read from the chip now.

History variables: `answered` is the mapping the last call left, `pending` the
one the call in progress leads to, `live` the blocks holding a caller's data
(written where the last answer has them, see below), `window` the user blocks
whose replacement takes two saves, `adrift` that `BM_Open` once took a table that
denies a map block it found.

`live` leaves out one case, because of what the code does there. A call that
fails for want of a map spare returns `FM_ERROR`, but the replacement it could not
save stays in memory (`fd_bm.c:742`), and no later call can save it: the free list is
empty. The layer above is told of the failure and may retry; its writes go
to the replacement and succeed, and the next reboot, which finds the table
without it, does not see them. Of that data nothing is claimed: `ProgramUser` counts
a block in `live` only where the last call that succeeded, or `BM_Open`, placed it.

### PhysicalDevice

State. `cell` is the content of each chip, `PrevOp` the operation it was given
last and how that went (`busy`, `failed`, `ok`), `swap` and `spare` the bad
block map, `Buf`, `BufIndex`, `BufAllBusy` the fields of `PFDEV`, `call` the
interface call that holds the lock and `rec` the copy of `PrevOp` that
`err_recover` works on.

Actions. The `FD_*` actions begin a call. `GetBufferToFill`, `GetBufferToRead`,
`ReadSource`, `Issue`, `Sync` are its accesses to a chip; each waits for the
chip and either goes on or is `Refused` with the error of the operation before.
`Recover` redoes one plane of it: on the same block first, if it was a group
operation, then on a spare. `Finish` is the chip: the operation takes effect
with the data its buffers hold *then*.

A group call is one multi-plane operation when `is_multi_ok` holds for the
blocks that stand for those named, and one per plane otherwise, which happens
as soon as one of them has been replaced. `wrote` records what each page should
hold and `lost` the pages whose operation was given up. The bad block manager is
reduced to what `DurableMap` promises; the accidents inside it are the other
model's. Callers keep the data of a write in place until it is done and program
a page once between two erases.

### LogicalDevice

State. `flash` is the partition table that the block after the last usable one
holds on each chip (`NoTable` when signature or checksum do not verify), `op`
the operation given to the chip last. `mem` holds `PartTable`, `RAWDevTable` and
`FTLDevTable`; `LDev` the open devices by device ID, each with the pointers to
its partitions, its `NumBlocks`, `InterleavingLevel` and `UsageCount`. Because
these are pointers, a device sees what a later table puts where they point.
`power` is also `failed` when `FD_Init` comes up with an error for a table it
read, and `oops` when a caller has taken a null pointer or a block beyond its
partitions (`LFD_GetPartitionInfo`).

Actions. `SetPartition`, `EraseTable`, `ProgramTable` and `ReadBack` are the
steps of `UFD_SET_PARTITION`: the layout and its check, the erase and the
program of the block (each of them carried out by the chip, `Settle`, after its
call), then `identify_raw_blkdev`, which reads the tables of all chips. Every
step meets the failure of the operation before it, except where
`PFD_GetBuffer` drops the error. `FD_Open`, `FD_Close`, `FD_Erase` and
`LFD_ErasePart` are calls on devices and take one step each; `FD_Erase` stands
for every access that a caller makes through `LFD_GetPartitionInfo`, and for the
one that overwrites the block of the table when it lies in the device.
`PowerLoss` does or undoes the operations under way and `FD_Init` reads the
tables, once on its own and once for the raw block device.

The checks and corrections of a table (`is_valid_partition_table`,
`make_blk_dev_table`) and the addressing of blocks (`LFD_GetPartitionInfo`) are
operators over tables, with the early stop of each loop as a condition on the
prefix it leaves. The loops of `make_blk_dev_table` are sets: the partitions of a
class (`Members`), those that stop the loops (`Overfull`: an index too large, or an
array already full when the partition is met), and for each device those before
any such partition, in the order they are visited (`InOrder`). `SumOfFirst` and the
readings of `FD_Init` are recursive functions, so that the module can be proved
about.

History variables: `opened` counts the opens of a device not yet closed, `kept`
is the table last reported set on each chip, `swallowed` the chips with a failed
erase that nobody was told of, `missed` that a read found no table where there
had been one; `was` in an open device is what its partitions were at the open.

The checksum is assumed to detect a torn table, and chips to have one geometry.
Of the reasons to refuse a call, the write protection of a partition is left out
(`UFD_SET_PARTITION` never sets it), as are custom device specifications, and requests
for more than `MAX_FLASH_PARTITIONS` partitions: `fm_raw_blkdev.c:309` copies as many
entries as the request says into a table of that size before anything checks the
number, so that what such a call does is not the partition code's to say.

### AudioOut

State. `ring`, `decoderWritePointer`, `decoderValidBytes`, `AvaliableUserBytes`,
`lastDMAPosition`, `initDevice`, `active`, `buf_size` and the two semaphores are
the driver's. `sema`, `bar`, `next` and `chain` are the channel: the blocks it may
still play, the unit it is at, where its next descriptor points and the ring the
descriptors go round; `irq` is its pending interrupt. `pc` and `call` are the
caller between two of its steps.

Actions. `Play` is one unit of sound, and at the end of a block the interrupt and
the next descriptor. `Isr` is `stmp_dac_dma_isr`: `IsrMore` counts and clears,
`IsrRemain` and `IsrAcknowledge` are the branch that reads the semaphore and then
acknowledges, with the channel going on in between, `IsrStop` is
`stopDacProcessing`. Of a caller, `Write`, `FillFirst` and `FillNext` begin a fill
(its space, its pieces and the new write pointer are computed in one step),
`Copy1`, `Add1`, `Copy2`, `Add2` are its two pieces, copied and then counted,
`Filled...` what `stmp_audio_write` does next, the start of the channel and the
look at `initDevice` included (`StoppedMeanwhile`). `Sync`, `Reset`, `Drain`,
`Woken`, `Drained` wait for the end of the sound; `Signal` wakes a sleeper,
`CopyFaults` is `-EFAULT`. `SetFragment`, `Close`, `Open` change the ring, with the
driver's own tests: "now is playing" looks at `active` (`stmp37xx_audio.c:1576`),
and opening leaves the descriptors alone (`setDMADesc` is commented out, 2095).

Sound is numbered units and a block a few of them. Ring sizes are whole blocks, two
at least: `SETFRAGMENT` accepts them up to 40K (`stmp37xx_audio.c:1602`,
`ocram.h:87`), and opening sets 28K (2064, 2094), so the default is neither the
smallest nor the largest. `MemorySize` is what is mapped. `audio_setup_buf` maps
40K from an address 1K into a page (1253-1259), hence 44K in whole pages, of which
3K lie behind the largest ring: more than a block (2K), and that is all
`SizeAssumption` asks. It matters because the handler's `memset`
(`stmp37xx_audioout_dac.c:3552`) does not turn back at the ring's end: at a wrap it
clears straight on, by as much as the channel is past the wrap (`Cleared`).

The ring can be made smaller under its sound, or smaller than that of its
descriptors, in two ways: by `Open`, and by `SetFragment` when the device plays
while `active` is not set. `shrunk` records that, until the handler stops the sound
and makes the descriptors anew. From there the write pointer, the valid bytes and
the last position may be behind the end, and two lengths can go below zero as
unsigned numbers: that of a fill (`buffer_size - decoderWritePointer`, 1677) and that
of a clearing (`buffer_size - lastPosition`, 3545). Copy and clearing are then of
almost 4G, the kernel stops on the first page that is not mapped, and so does the
model (`pc = "overrun"`, from `Fill` or `IsrOverrun`).
`audio_sync` works on files open for reading and writing only; that is what `Sync`
is. There is one caller at a time. The position that `getDacPointer` corrects for
32 prefetched bytes is taken to be exact, which is the hardware's promise and not
the driver's. Masking and acknowledging the interrupt are one step of `IsrStop`,
since the handler alone does either.

History variables: `queue` is the sound accepted and not yet played, oldest first;
`intact` says that it is known. It ceases to be when the channel plays on with
nothing left (it plays silence and moves past the write pointer), when the handler
stops the sound in the middle of a fill, when a copy fails after the pointer
moved, and when an opening or a fragment setting changes the ring under the sound.
What the code does from there is modelled, but only `WithinRing`, `ReportedIsQueued`
and `CallsReturn` claim something of it, and once the ring is `shrunk` only
`CallsReturn` does. `lost` is that an acknowledgement threw away
the interrupt of the channel that had just halted.

## What is checked

Every property of a passing run has a mutant of the code that breaks it
(operators marked `\* mutant` in the modules).

| Run | Question | Bounds |
|---|---|---|
| `crashes` | Do replacements and their data survive power loss anywhere? | 2 user blocks, 4 area blocks (2 map, 2 spare), table of two segments, 4 pages a map block; 2 block failures, 2 power losses |
| `map_failures` | User, spare and map blocks that fail to erase, to program and to be marked, until the spares run out, from the first format of the chip on; do all calls end? (liveness) | 2 user, 6 area blocks, one of each bad from the factory, 2 pages; 2 block, 2 map, 1 mark failure, 1 power loss |
| `refinement` | Does the manager implement `DurableMap`, through a format of a chip in use? | 1 user, 6 area blocks, 3 pages; 1 block, 1 map failure, 1 power loss, 1 format |
| `latest_map` | *violated*: the open scan finds the latest map block | as `refinement`, no format |
| `pd_one_chip` | Deferred failures on one chip, any three calls | 3 groups of 2 planes (one holds data), 1 spare, 2 values; 3 calls, 2 failures |
| `pd_two_chips` | Buffered writes and copies between two chips; do calls return? (liveness) | 1 group a chip, 1 spare each, 2 values; 4 calls, 1 failure |
| `pd_cross_chip` | *violated*: `BufAllBusy` means that all buffers are busy | 2 chips, 2 calls |
| `pd_read_error` | *violated*: the buffers are used in turn | 2 chips, 4 calls, 2 failures |
| `pd_second_failure` | *violated*: a second failure is recovered | 2 spares, 2 failures |
| `ld_tables` | Do tables that were accepted survive failures and power loss, and do device tables, devices and block addresses agree with them? | 2 chips of 2 planes and 5 usable blocks, 3 partitions a table, 2 merged in a device; 2 layouts set (of 4), 2 opens at a time (of 5 devices), counts below 3, 1 erase, 1 failure, 1 power loss |
| `ld_overlap` | *violated*: partitions do not overlap | 1 chip, 7 blocks, 1 layout |
| `audio_playback` | Is what a write accepted played, whatever the handler and the channel do between its steps? Does anything leave the ring, or a clearing the mapped memory, also in a ring set larger than the default? Do calls return, in a ring made smaller too? (liveness) | rings of 2 blocks (the default) and 3 of 2 units, one block mapped behind the larger; 2 writes of 1 or 5 units, waiting or not; 2 syncs, resets, closes or fragment settings; 1 late interrupt, failed copy or write out of step; units numbered modulo 3 |

Why the bounds suffice. Two pages a map block are the fewest with a first and a
last save, three the fewest with one between them; with four, a block holds both
segments of the table before it is full. The log wraps to the other block after
a reboot, or when its block is full, and behaviours do both. The failures are
budgeted so that each kind meets each other kind; more of the same need more
spares first. Area sizes make both ends of the spare list meet. Two planes and
two buffers are the hardware's smallest; three calls are one that pends, one
that takes its buffer or its chip, and one that meets the failure. The value a
page holds matters only as equal or not to what was written: two suffice, and
nothing distinguishes them (hence the symmetry). The layouts of `ld_tables` are
one for each correction: a size that loses a block or all of them, a start that
is moved up, equal sizes on two chips (which interleave), and two partitions of
one chip under one index, which fill the device that the other chip's may claim.
`UsageRange` is 3, so that two opens take a count to its largest value.
Two blocks are the smallest ring the driver allows, and the only one in which the
two counts given at the start make the channel go round it; a ring of three leaves
a block that is neither played nor next, and being larger than the default it is
what an opening takes from under its sound. A write of one unit is shorter than a
block; one of five is longer than the default ring, has to wait, wraps and leaves a
rest; the second write meets the first one's sound, still playing, stopped or cut.
Two controls are what it takes to make a ring smaller under its sound: a setting and a
close, or a sync after a cut write and a setting. Two late
interrupts merge as one late interrupt does with its successor. `MaxMishaps` also
bounds the units that the channel plays while an interrupt waits; the theorems do
not depend on it.
All of these are named constants.

`CHECK_DEADLOCK FALSE` everywhere: a chip that cannot be formatted and a
behaviour that has used up its calls really do stop.

### What the passing runs show

- While map blocks do not fail, no replacement that was reported is lost and
  none appears by itself, nor any data (`DataSurvives`), with one exception: a
  replacement block that fails in turn, with its two entries on different map
  pages. Between the two saves a reboot maps the original block to itself.
  `ReplacementsSurviveButWindow` states exactly that.
- When map blocks fail, an old table comes back only from a map block that the
  newest table has given up and that is still unmarked (`OnlyStrayMapsRevive`), and
  only then is any data missed (`DataUnlessStray`).
- A save never programs a page that is not blank (`AppendsOnBlank`), memory and
  chip agree between calls (`RebootIsIdentity`), sequence numbers stay ahead
  (`SequenceAhead`), no map block is forgotten (`MapBlocksAgree`), callers are
  never sent to factory-bad blocks (`UsersAvoidFactoryBad`), no block has two
  replacements (`UniqueReplacement`). The block a failed format marked itself is
  another matter: if an older table can still be opened, it may be free there.
- Below the interface, a failure met by any later call is recovered into the
  right block with the right data (`AcceptedSurvives`, `PendingIntact`).
- A layout reported set is there after any reboot, because the call reads it
  back and so waits for the chip; the exception is an erase that fails unnoticed
  (`SetTableSurvives`). Tables accepted one after the other, each against what
  memory has of the other chip, never keep the driver from coming up, whichever
  of them power loss leaves (`AcceptedTablesBoot`), with the same exception. It
  takes two failures, beyond the bound of `ld_tables` (a run with two found it): the
  erase of a table fails, `PFD_GetBuffer` drops the error, and the read-back that
  would find the table gone ends early, with the other chip's earlier failure.
  Memory has the new table; a layout that the other chip is now given is judged
  with that one. If power is lost before the chip has spoilt the old table with
  the program of the new one, `FD_Init` meets the old one.
- The tables of devices follow the tables of chips through every write and read
  but one that finds a table gone (`DevTablesAgree`); a device is in the table
  of open devices exactly while it has users, fewer than its eight-bit count has
  values (`OpenDevicesHaveUsers`); and no two
  blocks of a device are one flash block (`BlocksApart`).

- The ring of the audio driver never loses accepted sound while its end is known:
  it lies where the channel will play it, in order (`RingInStep`), the space for
  the next fill does not reach it (`SpaceIsPlayed`), the sound stops only after it
  (`StopsWhenPlayed`), and no fragment setting rewinds the descriptors under it
  (`DescriptorsKept`). When its end is not known, copies and counts still stay in
  the ring and clearings in the mapped memory (`WithinRing`), and a write reports
  what it queued unless it was cut by the stop (`ReportedIsQueued`). Both hold for
  rings larger than the default too, and neither once a ring was made smaller under
  its sound, until that stops: behaviours of the run reach both lengths below zero.
- A write waits for room that the channel makes, a sync and a reset for a stop that
  comes, except when the handler acknowledges, unseen, the interrupt of the channel
  that has just halted (`CallsReturn`): nothing wakes them then.

### Disagreements found

1. `latest_map`: `fd_bm.c:384` wants the most up-to-date map block, but the scan
   stops at the first two valid ones (line 373), and there can be three.
2. `pd_cross_chip`: `PFD_GetBuffer` ignores `BufAllBusy` for reads; a copy from
   another chip overwrites the data of a pending multi-plane copy.
3. `pd_read_error`: a copy between chips whose read fails leaves the buffer index
   pointing so that the next call takes a pending write's buffer.
4. `pd_second_failure`: the recovery loops test for error codes the low-level
   driver does not return, so that a second failure in a row is given up.
5. `ld_overlap`: `fd_logical.c:1497` says that partitions should not overlap; the
   test compares with a variable that stays 0, and a start moved up to a plane
   boundary runs into the next partition.

Two ways in which the audio driver changes the ring while it plays have no run of
their own; `WithinRing` leaves out what follows from them.

- `stmp37xx_audio.c:1578` refuses fragments when it "now is playing", but the test
  (1576) is of `active`. When the handler stops the sound in the middle of a short
  write, between its copy and its count, the write leaves bytes in a ring that is not
  `active`; a sync plays them, and a setting changes ring and descriptors under it.
- Opening sets the default size without a test (2094) while the sound of the last
  open plays on (`stmp_audio_release` does not stop it). A ring set to more than the
  default, filled, closed and opened, is then smaller than what is in it.

`pd_two_chips` leaves 2 and 3 out on purpose (no multi-plane copy, one failure)
and shows that the buffers are safe otherwise.

### Fairness

`map_failures` assumes weak fairness of the steps of a call only (`Step`): the caller's
thread runs `fd_bm.c` to the end, and a flash operation ends or fails: the DMA
chain leaves a chip that stays busy by its own timeout, which is a failure, and a
channel that hangs halts the system (`apbh_common.c`), which is not modelled.
`pd_two_chips` assumes it of the call in progress and of each chip finishing its
operation. `audio_playback` assumes it of the channel, which plays as long as its
semaphore counts, of the interrupt, and of the caller's thread while no handler
runs. No fairness is assumed of callers, of failures, of power loss or of its return.

## What is proved

Of the bad block manager, with TLAPS, for every geometry and every number of
accidents, from `GeometryAssumption` (at least two area blocks; more pages in a block than
segments in the table), `BlockZeroAssumption` (block 0 leaves the factory good,
as NAND makers guarantee) and `BudgetAssumption`:

- **`TypeCorrect`**: `Spec => []TypeOK`. `TypeOK` is not inductive: an action
  that resumes after a save uses the block the call has chosen, so the invariant
  `TypeInv` adds `CallShape`, which says what is known at each phase of a call,
  also while `save_swap_table` runs inside it (`Phase`). The substance is in the
  lemmas about `BM_Open`: whatever the pages hold, the scan that `Openable`
  lets through yields two different map blocks, a total table and a
  well-typed position in the log.
- **`ReservedCorrect`**: `Spec => []Reserved`. A block on the free list is free
  in the table, both map blocks are known to it as map or bad blocks, the spare
  taken for a call stays free and off the list until it is registered, and the
  block it replaces keeps its entry. The four parts hold each other up: a nested
  save may replace a map block, and does not take the spare of the call because
  that is off the list, nor a data block because the list is free in the table.
- **`BadBlocksCorrect`**: `Spec => BadBlocksUntouched`, from the same invariant:
  no step erases or programs a block recorded as bad other than the map blocks.

The last two hold while `~ adrift`; once `BM_Open` has taken a table older than
one of the map blocks it found (`latest_map`), its free list may hold a map block.

- **`OneReplacement`**: `Spec => []UniqueReplacement`, adrift or not. A table that
  `BM_Open` reads is put together from segments saved at different times, so that
  every block's whole log has to be known. `MapLogInv` says that the logs climb in
  their sequence numbers and that the table a whole log yields has no block twice
  (`LogsClimb`), that a map block being rewritten holds the first segments of the
  table in memory (`Rewritten`), and that the log being continued yields that table
  but for the segment to be saved (`Overtaken`, `Followed`). The lemmas on logs
  (`Legible`, `Whole`, `LastOf`, `TableIn`) say what appending a page does to them.
- **`BlankPages`** and **`MapBlocksKnown`**: `Spec => []AppendsOnBlank` and
  `Spec => []MapBlocksAgree`. `TidyInv` adds that the log has as many pages as the
  manager counts (`Kept`), which no erase, copy or mark spoils since the blocks of
  a call are not the map block (from `Reserved`), and that no table, in memory or
  on the chip, reserves more than two blocks for the map (`MapsAreTwo`). Each
  property claims something of `~ adrift` states only.
- **`FactoryBadAvoided`**: `Spec => []UsersAvoidFactoryBad`, for tables of one map
  page (`NumMapPages = 1`). Every table has an entry for each factory-bad block
  (`Shuns`): the format's because it counts bad blocks and spares the same way
  (the n-th bad block exists for every n), the others because no call drops an
  entry. With more pages a replacement block that fails in its turn is replaced in
  two saves, and a power loss between them leaves the factory-bad block without one.

What a reboot finds is proved while no map page fails and nobody formats a chip in
use (`NoMapFails`: the budgets of those two accidents are 0; user and spare
blocks fail, and power is lost, any number of times at any operation):

- **`ReplacementsSafe`**, **`DataSafe`**, **`SequenceLeads`**, **`RebootSame`**:
  `Spec => []` of `ReplacementsSurviveButWindow`, `DataSurvives`, `SequenceAhead` and
  `RebootIsIdentity`. `SurvivalInv` adds five parts to `TidyInv`. The two map blocks
  are the ones the first format took, and no others (`Fixed`). One of them is *home*,
  the one `BM_Open` would choose: whole, with every page later than those of the
  other if that is whole too; its table is the one in memory but for the segment
  being saved (`Homed`). The mapping in memory is the one answered, or the one
  pending, by phase of the call (`Answers`); each block that callers wrote holds its
  data, or has it in the spare by the time that is registered (`Keeps`). And
  where chip and memory differ, the table at home answers what one of them does,
  with its data (`Rereads`).
- **`KeepsItsPromise`**: `Spec => ImplementsDurableMap`, for tables of one map page:
  every step is a step of `DurableMap` or a stutter. What the chip holds is what
  was answered or what is pending, and what is pending is at most one block away
  (`Promised`, `Underway`). With more pages a replacement block that fails in its
  turn is replaced in two saves, and a power loss between them answers a mapping
  that `DurableMap` does not know: that is the window of `ReplacementsSafe`.

`NoMapFails` is what makes the pair of map blocks fixed. When map pages and bad
marks fail as well, the home changes, and an old map block that could not be
marked, or not before power was lost, may come back. What then still holds is
proved for a swap table of one map page (`OneMapPage`; no limit on failures of map
pages, marks, user and spare blocks or on power losses, but no format of a chip in
use). One page is what `BADBLK_ENTRIES_PER_PAGE` (`fd_bm.c:90`: 120 entries) makes of
an area of up to 120 blocks:

- **`StrayMapsOnly`**: `Spec => []OnlyStrayMapsRevive`.
- **`DataSafeAfterFailures`**: `Spec => []DataUnlessStray`.
- **`RebootSameAfterFailures`**: `Spec => []RebootIsIdentity`.
- **`SequenceLeadsAfterFailures`**: `SequenceAhead` in every `~ adrift` state. The
  proviso is needed here: once a table was opened that denies a map block, its pages
  may be later than the number in memory.

`MapFailuresInv` follows the map block that *leads* (`Leads`): it can be read, and its
first page is later than every page that can be read in any other. The block that
leads answers what memory does, or what the call in progress will (`Headed`); no map
block is erased or marked bad while it leads, unless another, which would lead
without it, answers the same (`Backed`); outside a rewrite the current map block
leads and holds the table (`Continued`), which answers the last call or the one in
progress by its phase (`Replied`). `BM_Open` chooses the block that leads when the
table there knows all the others (`LeadIsRead`; that is `Consistent`). What remains
is what makes the next block lead: the sequence number in memory is later than every
page that can be read, and each such block is a map or a bad block of the table in
memory (`Known`), so that none is taken as a spare; and the two map blocks differ in
every table (`Paired`). The one exception to `Continued` is a map block that failed
when no spare was left: it stays in use though the table says it is bad, but then the
free list is empty and no later call gets as far as a save.

For the data, `DataInv` adds `Unspoilt`: behind the table of the block that leads, and
behind that of the one that would lead if that block is marked, every block of `live`
holds its data (`Refound`, `Backup`). It stays there because no step writes where
those tables send a caller, unless for that caller: the two mappings they may answer,
the last and the pending one, never have two callers in one block (`Apart`), and
what either gave to a caller is neither free nor a map block until the table calls it
bad (`Taken`). A save makes the table in memory lead, whose data is in place
(`Keeps`), or, with a map block given up for want of a spare, leaves memory with what is
pending (`Left`).

Of the audio driver, for every size of block and ring, any writes and any bounds,
from `SizeAssumption` (ring sizes are whole blocks, at least two, with a block of
mapped memory behind the largest; the default is one of them) and `BoundAssumption`:

- **`TypeCorrect`** and **`NothingLeavesTheRing`**: `Spec => []TypeOK` and
  `Spec => []WithinRing`. Neither is inductive: the write pointer is moved before
  the bytes are counted, and the handler may reset both in between. The invariant
  `IInv` adds what a fill in progress has fixed (`CallOK`); that the channel goes
  round the ring of its descriptors and is, once it has wrapped, at most a block past
  the start until the handler looks again (`Channel`: the semaphore never counts
  more than two); that, unless the ring was made smaller, that ring is within the one
  in use and the valid bytes fit it together with those the fill has still to count
  (`Placed`); which of two sizes the ring has and when it is smaller than its
  descriptors' (`Sized`); that a stopped channel has halted with its descriptors
  rewound (`Stopped`); and what a write cut by a stop leaves behind (`Torn`): less
  than a block, so that it fits any ring set before the next sound. The clearing that
  runs on past the end is within mapped memory by `Channel` (`ClearsMapped`).
- **`DescriptorsAreKept`**: `Spec => DescriptorsKept`, because what plays while the
  queue is known is `active` (`Act`).
- **`ReportedIsCounted`**: `Spec => []ReportedIsQueued`. The bytes of a write are at
  all times those counted, those of the fill in progress and those left
  (`Told`), until the handler stops the sound under it.
- **`NoOverwrite`** and **`StopsOnlyWhenPlayed`**: `Spec => []SpaceIsPlayed` and
  `Spec => StopsWhenPlayed`. Both follow from `Paced`: the handler's count covers
  what is queued and what was played since it last looked, measured round the ring,
  and its next position follows the channel's. A queue that is known is in the ring
  of its descriptors, which was not made smaller (`Known`).
- **`AcceptedIsPlayedInOrder`**: `Spec => []RingInStep`. The write pointer is where
  the queue ends, or will be after the fill in progress (`Points`); the ring holds
  the queue, and behind it what the fill has copied and not counted (`Contents`).
  What the handler clears and what the caller copies is apart from it because
  the queue, what is being filled and what was played and not yet cleared fit the
  ring together (`Fits`, from `Paced` and `Placed`).

Of the physical layer, for any number of chips, planes, blocks, spares, calls and
failures, from `DeviceAssumption` and `NoCrossCopy`: no call copies from one chip to
another. Such copies are where the code goes wrong (2 and 3 above), and a second
failure breaks `PendingIntact` with them; `pd_two_chips` shows one is survived.

- **`TypeCorrect`** and **`RedoneFromWhatWasGiven`**: `Spec => []TypeOK` and
  `Spec => []PendingIntact`. `IInv` says of each operation not known to be done
  that its blocks still stand for those its caller named and that its buffers hold
  its data (`Owed`), for a pending one (`PendingOK`) as for the planes left to redo
  (`RecOK`). A buffer that is filled is not one of these because a pending write
  holds the buffer taken last, or `BufAllBusy` makes the call wait (`TurnsOK`); a
  copy that takes the other one reads into it only when its chip is free (`CopyOK`).
  A replaced block keeps the map one to one, with spares outside it (`SwapOK`).
- **`BuffersAreTakenInTurn`**: `Spec => []BuffersInTurn`, from the same invariant:
  the comment that `pd_read_error` refutes holds without copies between chips.
- **`DeferredFailuresKeepData`**: `Spec => []AcceptedSurvives`. On top of `IInv`, an
  operation still open is the one its caller was promised (`Promised`) and a copy
  has read what its caller meant (`Sourced`), or an error was returned; recovery
  then leaves the promised data in the block that now stands for the page, and
  nothing else that callers see changes (`RedoneData`).

Of the logical devices, for any chips, layouts, devices and accidents, from
`LogicalAssumption`; the first while fewer opens are in force at a time than
`UsageCount` has values (256; `MaxOpens < UsageRange`):

- **`OpenDevicesAreUsed`**: `Spec => []OpenDevicesHaveUsers`. The budget bounds the
  opens of all devices together, so that the invariant has to count them: `Uses` has
  one element for each, an open adds one and a close removes one.

- **`SetTablesSurvive`**, **`AcceptedBoot`**, **`DeviceTablesAgree`**: `Spec => []` of
  `SetTableSurvives`, `AcceptedTablesBoot` and `DevTablesAgree`. They hold each other
  up in `TablesInv`: a layout is judged with the tables in memory, so memory has to
  be what a boot can meet. Each chip holds the table that memory has of it, or none,
  or, with its erase unnoticed, something about to be spoilt (`Judged`); the one
  being set goes through erased, programmed and read back (`Writing`). `InitReads`
  says what the two readings of `FD_Init` leave: every table of the chips, corrected,
  and the device tables made of them. It rests on the corrections being idempotent
  (`CorrectedStays`) and on tables of which some are gone making device tables if
  the full set did (`FewerMakes`).
- **`TypesHold`**: `Spec => []TypeOK`. That no merged device has more partitions than
  room is the work of the early stop: if it had, the last of them would have been
  met with the array full (`MergedFits`, from an order in which each partition has a
  rank, `Ranked`).
- **`BlocksStayApart`**: `Spec => []BlocksApart`, where `MAX_INTERLEAVED_CHIPS` is 1, 2,
  4 or 8: `fd_if.h` asks for a number of 2^n (line 65) and has 2. With 3 a device of four
  partitions would have a second group of one. In every table the partitions of a
  class follow one another, also after the rounding, of an FTL partition's start up
  and of sizes down (`FixedApart`); what is merged is of one class,
  hence does not overlap on a chip, and has whole groups of planes (`TableSound`). A
  device keeps both as it was opened (`DeviceSound`), and then the place of a block
  gives the block back: its offset in turn (`InTurnFalls`), or `Behind`, the inverse
  of the interleaving (`InterleavedFalls`, by cases on planes and level, which leaves
  linear arithmetic).

Sums and readings are recursive functions over an interval. That they exist and
have values of the right kind is proved by least counterexample on a set of
numbers (`Upwards`), which needs no induction over an operator.

Only model-checked: `OnlyStrayMapsRevive`, `DataUnlessStray` and `RebootIsIdentity` for
tables of several map pages when map blocks fail, the refinement when a chip in use is formatted, copies between chips, and
liveness, which is out of the prover's reach.

## What is not modelled

The ECC codecs (bit-level tables without state), the low-level driver below its
interface (registers, DMA chains, timing), hardware copy-back and bad block
revival (switched off in this build), partial-page writes, RFS beyond its glue
(not in the tree), and the third-party code. The request path of the raw block
device turns a request into calls of the interface one after the other and keeps no
state; it drops their errors and answers success, which no comment or test denies,
so there is nothing to relate its answer to. Of the audio driver: volume, mute and
fading, sampling rates, the mixer, power management, recording, the mapping of the
codec's memory, and the error interrupt, which only masks itself. The delays that `fd_bm.c` inserts
before it treats an erase as failed, against false failures while power fades,
are left out: the model lets the power go at any time but not fade.
`FD_Format`, and the look-up and counting in `FD_Open`, run without `UFD_LOCK`. In
the shipped configuration (one processor, no kernel preemption, a driver that
polls) they are not interrupted, and the models run one call at a time.

## Plan

1. *Done*: bad block manager, its abstract promise (formats included), proved
   while map blocks do not fail; physical layer with deferred errors, all its safety
   properties proved but for copies between chips.
2. *Done*: partition tables, device tables and open devices (`LogicalDevice`), all
   safety properties proved.
3. *Done*: audio playback, all its safety properties proved.
4. `PageStore`: the abstract store of pages that `PhysicalDevice` should
   implement, as a refinement; group calls over interleaved partitions.
5. Recording (`oss/stmp37xx_audioin_adc.c`), which shares the ring's structure.
6. Theorems: *done*: all safety properties of the bad block manager, without map
   failures for any table and with them for tables of one page, and its refinement; the
   tables and blocks of the logical devices.
   Next: map failures with several map pages, where a map block is given up with
   segments of different ages in it.
