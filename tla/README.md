# A verification project for ESP-IDF: what survives resets, and what tasks share

ESP-IDF is the development framework for Espressif's microcontrollers: some
seventy components under `components/`, most of them drivers, vendored stacks
and hardware descriptions.  What is both Espressif's own logic and hard to test
is the code that keeps persistent state on raw NOR flash, and the small
concurrent services every application runs on.  This project models that code:
**wear levelling**, **non-volatile storage**, **over-the-air updates** with the
bootloader's choice of an application, and **ring buffers**.

## Inventory

| Component | State | Operations | Interacts with | What is hard | What makes it correct |
|---|---|---|---|---|---|
| `wear_levelling/WL_Flash.cpp` | in flash: data pages, two state sectors (header with CRC + one record per moved page), config sector; in RAM: `state.pos`, `move_count`, `access_count`, `device_id` | `config`, `init` (three repairs, formatting, migration from version 1), `erase_sector`, `erase_range`, `write`, `read`, `flush`; inside them `updateWL`, `recoverPos`, `calcAddr` | calls `Flash_Access` (Partition); called by WL_Ext and the handle table | power loss and errors between any two flash operations; repairs interrupted in turn; wrap-around of two counters | pages read back what was written; the flash alone determines them; a mount does not fail for ever; wear is spread |
| `WL_Ext_Perf.cpp`, `WL_Ext_Safe.cpp` | a RAM buffer; in safety mode a dump sector and a transaction record | `erase_range`, `erase_sector_fit`, `recover` | inherits WL_Flash, overrides its virtual functions | power loss with the only copy of a sector in the dump; ranges at boundaries | the neighbours of an erased 512-byte sector survive |
| `wear_levelling.cpp` | table of 8 instances, a table lock, a lock per entry | `wl_mount`, `wl_unmount`, `wl_erase_range`, `wl_write`, `wl_read`, `wl_size`, `wl_sector_size` | owns the objects above; called by FatFs' `diskio_wl.c` from any task | an entry checked before its lock is taken; entries and heap blocks reused; failing mounts | one task in an instance; the right instance; no leak; no deadlock |
| `nvs_flash/src` | pages of 126 entries with page states and item states, a hash list, namespaces | set, get, erase items; page switch, garbage collection, recovery at load | `esp_partition`; callers under one lock | power loss in the middle of an overwrite, of a blob in several chunks, of a page move | an item is its old or its new value; no item is lost or doubled; a free page is always left |
| `app_update/esp_ota_ops.c` with `bootloader_support` | two `otadata` entries (sequence, state, CRC), ongoing updates | `esp_ota_begin/write/end`, `esp_ota_set_boot_partition`, mark valid, mark invalid and roll back; the bootloader's choice | shared flash between application and bootloader across resets | power loss while an entry is rewritten; resets before an image is confirmed | a bootable image is always chosen; an unconfirmed image is not booted twice |
| `esp_ringbuf/ringbuf.c` | four pointers, free space, item headers | send, acquire/complete, receive, return, for three kinds of buffer | tasks and interrupts | items returned out of order, wrap-around with dummy items, full versus empty | items arrive once and in order; space is never handed out twice |
| `esp_timer/src/esp_timer.c` | ordered list of armed timers, alarm | start, stop, delete, process, ISR dispatch | hardware alarm, timer task | a timer stopped or deleted while it fires; periodic timers that lag | due timers run; a deleted timer does not |
| `esp_event/esp_event.c` | loops, handler lists, queue | register, unregister, post, run, delete | tasks, default loop | handlers changed while they are run | every post is handled by the handlers registered |
| `esp_pm`, `esp_ipc`, task watchdog, `pthread` | counts, per-core requests, subscriber lists, condition variables | | | lock orders, lost wake-ups | later work |
| everything else | | | | | not modelled: see `components` in `PROJECT.json` |

## Plan

Done: wear levelling (`FlashCells`, `Flash_Access`, `WL_Flash`, `WL_FlashInv`,
`WL_FlashProofs`, `WL_Ext`, `WL_ExtProofs`, `WL_Api`, `WL_ApiProofs`), NVS
(`NvsPage`, `Nvs`), OTA (`OtaData`, `Ota`, `OtaInv`, `OtaProofs`,
`OtaImage`, `OtaImageProofs`), ring buffers (`RingBufOps`, `RingFifo`, `RingBuf`,
`RingBufInv`, `RingBufProofs`, `RingBufBytes`, `RingBufBytesProofs`,
`RingBufTasks`, `RingBufTasksProofs`).

Left, in this order:

1. `esp_timer` (the ordered list of armed timers; a timer stopped or deleted
   while it fires) and `esp_event` (handler lists changed while a loop runs them).
2. The namespace table and the old blob format of NVS, the migration from
   version 1 of wear levelling.

## The modules

**`FlashCells`** says what a cell of flash holds: a value, erased, or garbage
after an interrupted operation; `Program` clears bits only.

**`Flash_Access`** is the abstract specification: an array of pages.  A call
works through its range page by page and may be cut short; then the page it was
at is as before or spoiled, and no other page is affected.

**`WL_Flash`** follows `WL_Flash.cpp`.  Its variables `data`, `hdr`, `rec` are
the flash, `pos`, `move_count`, `device_id`, `access_count` the fields of
`state` that change.  `pc` names the next flash operation of the call in
progress: `mv_erase` … `mv_rec2` are the four operations of a move in
`updateWL`, `wrap_*` the rewriting of both headers after a full turn, `sync_*` a
repair in `init`, `fmt_*` formatting in `initSections`, `op_*` the user's own
erase or write.  `job` tells the three repairs apart: "update" when both headers
are valid and differ, "repair2" and "repair1" when one is broken.  A header is
abstracted to its CRC (`ok`), version, `move_count` and `device_id`; a record to
the `device_id` it was made with, because `OkBuffSet` accepts a record exactly
when it carries the CRC over the device id and its index.  `PowerFail` and
`Fault` may strike at any step that `PowerFailAt` and `FaultAt` allow, and leave
what `Interrupted` says.  `expected` is a history variable: what the completed
calls left in each page; `struck` says that power failed while sector 1 was
being replaced.  A flash operation that returns an error has left no effect or a
broken one, never its full effect.

The layout of the partition is computed from the configuration in bytes
(`state_size`, `cfg_size`, `flash_size`), so that the range of the record copy
loops can be compared with the size of the partition (`ScanFits`).  Records past
`max_pos` that these loops read are taken not to be set: they lie in erased
space or in another region, and would need a matching CRC.

`EraseRange` and `WriteRange` are calls for whole pages.  `write` and `read` cut
a range into chunks of a page from where it starts (`WL_Flash.cpp:576`) and
translate the first address of each; the chunks are pages only if the start is
page-aligned.  What a chunk does that runs over the end of a page is not in the
model (see *Not modelled*).

Not in the model either: `updateV1_V2` (a partition whose headers fail the version 2
check is formatted unless it passes the version 1 check), and the contents of
the config sector, which nothing reads.

**`WL_Ext`** follows `WL_Ext_Perf.cpp` and `WL_Ext_Safe.cpp` over the pages that
`Flash_Access` promises; `Mode` chooses the class.  `Pieces` is the arithmetic
of `erase_range`; the other actions are the calls into WL_Flash made by
`erase_sector_fit` and `recover`, in order.  `RecoverClear` is faithful to C++
dispatch: `WL_Flash::erase_range` calls the overridden `erase_sector`.  A write
is one FAT sector, and like the 16-byte transaction record a single step; the
call for several sectors that `diskio_wl.c:55` may make is not in the model.

**`WL_Api`** follows `wear_levelling.cpp`: the table, its lock, the lock per
entry, the heap (blocks are reused at once), tasks as processes.  The client's
rules are marked in the guards.  A mount that waits for the table's lock is a
call that has not begun: it has read and changed nothing that others share.

**`NvsPage`** is `nvs_page.cpp` and `nvs_item_hash_list.cpp` as operators on a
*drive*: the flash pages, the `Page` objects in RAM, the lists of the
PageManager, and the flash operations done so far, in order.  A page has a state,
a sequence number, a table of entry states and entries; an entry keeps only what
can be told from it (an item with a valid checksum, a piece of data, torn,
blank).  `LooksBlank` is why a value of bytes 0xff matters: `mLoadEntryTable`
looks at the first word of an entry to see whether it was written.

**`Nvs`** is `nvs_pagemanager.cpp` and `nvs_storage.cpp` on these pages, and the
device: `Mount` (`Storage::init`), `Set`, `Erase`, `EraseAll`, `PowerOff`.  A call
is one action in which all of the call's flash operations are computed; it either
completes, or the power goes at any of these operations, before it or in its
middle (`CutOutcomes`, `TornPages`), and RAM is gone.  Calls are atomic towards
each other because `nvs_api.cpp` runs them under one lock.  `store` is a history
variable: for each key the values that may be read, one unless a call was
interrupted.  The order of sequence numbers is kept and not their size, and
erased entries are forgotten: so the states are finite with any number of calls.
Findings of a bad checksum inside `findItem` are left out, since loading erases
every such entry and flash does not decay in the model.

**`OtaData`** holds what application and bootloader share: the two entries of
`otadata`, which of them is valid and active, the bootloader's decision
(`BootDecision`, `BootChoice`: `bootloader_utility_get_selected_boot_partition`
and the search of `bootloader_utility_load_boot_image`), the number and sector
of the next entry (`NextSeq`, `RewriteSector`).  **`Ota`** is the device: calls
of `esp_ota_ops.c` in the application, the steps of the bootloader, and resets.
A call that changes flash is a list of operations (`todo`), done one per step; a
reset drops the rest and may tear the one in progress.  An image is its secure
version and whether it verifies.  `Configs` lists builds (slots, factory
application, rollback, anti-rollback) together with the *liberties* an
application takes with the procedure of `ota.rst`: none, or some of
`AllLiberties`.  **`OtaImage`** is the arithmetic of `esp_ota_write`: which
sectors are erased ahead, which units of an encryption block are kept in the
handle.  **`OtaInv`** is what the proofs about `Ota` rest on: the *base*, the
application to go back to, and what each entry and each pending flash operation
may be relative to it.  `RunInv` holds whatever the application does, `PlainInv`
in builds without rollback, `OrderInv` with rollback and an orderly application.
`MCOta` extends it, so that TLC checks these invariants when they are added to
`ota.cfg`.

**`RingBufOps`** is the storage of `ringbuf.c`: the four pointers, the full flag,
`xItemsWaiting`, headers with their flags and the dummy item, as operators on a
buffer record, for the three kinds of buffer.  **`RingFifo`** is what the
documentation promises: a queue of items that are acquired, sent, received and
returned.  **`RingBuf`** runs the operators under users in any order and is shown
to implement `RingFifo` (a configuration says whether items are completed in
order (`inOrder`), whether receivers leave an item until it is complete
(`patient`), and whether the last item of a full buffer is left by who holds
another one (`leavesLast`); `Live` walks the headers from `pucFree` to `pucAcquire`,
`Stored` reads the queue from them).  **`RingBufInv`** is its inductive invariant,
extended by `MCRingBuf` so that TLC checks it when it is added to `rb_items.cfg`.
**`RingBufBytes`** runs byte buffers, with numbered bytes.
**`RingBufTasks`** adds the two binary semaphores: a call takes its semaphore,
tries in a critical section, and gives afterwards, each in a step of its own,
with an interrupt that sends and calls that time out.

**`MC*`** modules only define constant values for TLC; `MCRingBuf` also has
TLC check that its buffers satisfy the hypothesis of the proofs.  Operators commented
"Mutant" are wrong variants of the definition that follows them; each property of
a passing run is shown to reject one.  `TypeOK` documents the variables of each
module and can be added to any cfg; most of the inductive invariants have it as a
conjunct.

## What the runs show

| Run | Instance | Result |
|---|---|---|
| `wl_safe` | 3 physical pages, 3 power failures outside the replacement of state sector 1, one retried flash error; the copy loop leaves the partition | `ReadBack`, `Recoverable`, `IInv`, `ImplementsFlashAccess`, `InitFailsOnce` hold |
| `wl_any` | 3 pages, one power failure and one error anywhere, fairness; the copy loop stays inside | `ReadBackOnce`, `WearSpreads` hold |
| `wl_ext` | performance mode: 3 flash sectors of 2 FAT sectors, one failing call; safety mode: 2 user sectors and the two reserved ones, one power failure | `KeepsOtherData`, `TransactionClosed` hold |
| `wl_ext_recover` | the safety mode of `wl_ext` | `KeepsData` fails |
| `wl_api` | 3 tasks, 3 partitions, 2 entries, 3 heap blocks, one failure, fairness | `OneDriver`, `RightInstance`, `NoLeak`, `CallsReturn` hold |
| `nvs` | 3 pages of 4 entries; an integer with a string (2 power failures), an integer with a blob (1), a blob and `nvs_erase_all` (2) | `ReadsBack`, `NoDuplicates`, `MountSucceeds`, `PagesSettled`, `RefusedOnlyWhenFull`, `NoOrphans` hold |
| `nvs_blob` | an integer and a blob, no power failure | `RefusalHarmless` fails |
| `ota` | 7 builds, with 2 or 3 slots; resets and torn operations anywhere, fairness | `AlwaysBootable`, `SetBootTakesEffect`, `AtomicSwitch`, `RollsBack`, `ValidMeansConfirmed`, `VersionsHold`, `NoSecondTrial`, `ComesUp` hold |
| `img` | 2 or 3 sectors, encrypted or not, erased ahead or at once | `ImageComplete`, `NotRefused` hold |
| `rb_items` | no-split buffer of 20 bytes, with items completed in any order and in order, allow-split one of 18; 4 items, up to 3 held, full buffers too | `Intact`, `AvailableExactly`, `CurFreeSizeTrue`, `ImplementsFifo` hold |
| `rb_bytes` | byte buffer of 5 bytes | `SpaceExact`, `FitsExactly`, `ByteOrder` hold |
| `rb_tasks` | 2 senders and a receiver, a sender and 2 receivers, one of each with a time-out; an interrupt; fairness | `NoItemMissed`, `NoSpaceMissed`, `SendsEnd` hold |

The two violations are errors of the code:

* **Clearing the transaction** (`wl_ext_recover`).  `WL_Ext_Safe::recover` passes
  a flash sector number to a function that, being virtual, expects a FAT sector
  number.  A FAT sector of the user is erased.  `KeepsOtherData` leaves out that
  one sector, so that `wl_ext` still says what safety mode achieves for all the
  others.
* **Taking back a blob** (`nvs_blob`).  When `writeMultiPageBlob` finds no room
  for the second chunk, it erases the chunks with the numbers 0, 1, ... on the
  pages it used, not `chunkStart`, `chunkStart + 1`, ...  If the value being
  replaced has version 0, its own chunk may be on such a page, and is erased; the
  call returns `ESP_ERR_NVS_NOT_ENOUGH_SPACE` and the old value is gone.  In
  `nvs` a blob of which a set was refused is not set again and its value is not
  looked at (`refused`).

### Known deviations

Other places where the code does not do what a document or comment says.  The
models contain this behaviour; the passing runs leave it out by a constant or by
a condition in the property, as given here.

* `WL_Flash.cpp:212`, **the position after a repair of sector 1**.  Power is lost
  while sector 1 is replaced after a full turn.  `init` takes the header from
  sector 2 and sets the position to the last page, but copies no record, because
  `OkBuffSet` compares with the device id of the broken sector.  The next reset
  finds no records and concludes that the position is 0: all pages are shifted by
  one.  `wl_sw_structure.rst:64` says that the broken copy is overwritten by the
  other.  (`wl_safe` with `PowerFailAt <- AllPcs`, `MaxPowerFails = 2`
  and the layout of `wl_any`: `ReadBack` fails.)
* `WL_Flash.cpp:190`, **the range of the copy loops**.  With 4096-byte sectors and
  16-byte records the loop leaves the partition from 48 sectors on (32 for a copy
  from sector 2).  A mount that needs a repair then fails once: the header is
  copied before the loop, so that the next mount finds nothing to repair.  But no
  record was copied.  If sector 1 was repaired from sector 2, the next mount takes
  position 0, and a single loss of power has shifted all pages.  `InitFailsOnce`
  states the first half, in the layout of `wl_safe`; `ReadBackOnce` excepts the
  second.  (`wl_any` with `SectorSize = 32`, `WrSize = 4` and without
  `struck => ScanFits(2)` in `ReadBackOnce`: it fails.)
* `WL_Ext_Safe.cpp:103`, a second loss of power while `recover` clears the
  transaction finds the dump overwritten under a record that is still valid: the
  restored sector is lost.  (`Config("safe", 4, 2, 0)`: `KeepsOtherData` fails.)
* `ringbuf.c:659`, a full buffer all of whose items were received: returning any
  of them clears the full flag, and a send overwrites an item in a receiver's
  hands.  `freertos_additions.rst:272` allows several items to be
  retrieved and returned in any order.
  (`Config("nosplit", 20, {0, 1, 3, 6}, FALSE, 2, TRUE, FALSE, FALSE)`: `Intact`
  fails.)
* `ringbuf.c:525`, items completed out of order: `xItemsWaiting` counts them
  wherever they are, and in a full buffer `pucRead` = `pucWrite` does not tell
  that the oldest one is missing.  It is offered before it is complete, against
  `freertos_additions.rst:216` ("not calling `SendComplete` for the earliest
  acquired item will prevent the subsequent items from being received").  So
  `AvailableExactly` says that what is offered is complete only of items completed
  in order, and the rest of it in any order.  (Without `InOrder` in its third
  conjunct it fails in `rb_items`; with `inOrder` and `patient` FALSE a receiver
  gets the item and `Intact` fails.)
* `ringbuf.c:1059`, a send that times out after it took the semaphore does not
  give it back; the next send waits although its item fits.  (`NoSpaceMissed`
  without `timeouts = 0`, with `Size = 10`, `Lengths = {1, 3}`, `MaxSends = 4`.)
* `ringbuf.c:1297`, byte buffers with two receivers: the return of the first
  one's bytes gives `TransSem` only and does not wake the second.
  (`rb_tasks` with `Kind = "byte"`: `NoItemMissed` fails.)
* `esp_ota_ops.c:732`, confirming after another partition was set marks that one,
  which never ran, VALID.  (`ValidMeansConfirmed` without `Orderly`, with the
  liberty `confirm_late`.)
* `esp_ota_ops.c:125`, `esp_ota_begin` replaces the image of a slot and leaves its
  VALID entry; after a rollback the new image boots unmonitored.
  (`ValidMeansConfirmed` without `Orderly`, with `rewrite` and `invalidate`.)
* `esp_ota_ops.c:431`, setting the boot partition twice leaves it NEW in both
  entries: an application gets two attempts, against `ota.rst:61`.
  (`NoSecondTrial` without `Orderly`, with `set_again`.)  And if power fails while
  the bootloader marks one of the two PENDING_VERIFY, the other, older one is
  selected; with rollback, `AtomicSwitch` is therefore about orderly applications.
* `esp_ota_ops.c:459`, a power failure between the two erases that select the
  factory application boots whatever the other entry names.  (`AtomicSwitch` with
  `factory` allowed.)
* `bootloader_utility.c:424`, the bootloader burns the secure version of an image
  it has not verified; with an incomplete image the eFuse then passes every image
  that works.
  (`Config(2, FALSE, TRUE, TRUE, {"confirm_late", "rewrite"}, 1, 4)`:
  `NeverBricked` fails; `VersionsHold` asks for an orderly application.)
* `esp_ota_ops.c:344`, with sequential erasing and encryption the last, incomplete
  block may go to a sector that was not erased.
  (`Config(3, TRUE, TRUE, FALSE, 23, 9)`: `ImageComplete` fails.)
* `esp_ota_ops.c:201`, with sequential erasing an image that fills the partition
  exactly is refused.  (`Config(3, FALSE, TRUE, FALSE, 24, 9)`: `NotRefused`
  fails.)
* `nvs_page.cpp:686`, loading takes two items with equal 24-bit hashes for
  duplicates.  (`hash` the same for both keys: `ReadsBack` fails.)
* `nvs_storage.cpp:489`, the assertion returns before the "cleanup if a chunk is
  not found" two lines below, so that a blob whose chunks an interrupted
  `nvs_erase_all` took stays unreadable.  (`EraseAll` lets it be `Damaged`.)
* `nvs_flash.rst:41` says that setting a key with another type is an error;
  `Storage::writeItem` stores it beside the old value.  (Keys have one type in
  the model.)

### Bounds

*Wear levelling.*  The dummy page needs several full turns for `move_count` to
wrap: with `UpdateRate = 2` and 3 pages all values of `pos` and `move_count` are
reached, with every repair.  A third power failure lets a repair of a repair be
interrupted.  One value per cell suffices because values are only copied and
compared with erased and garbage.  `FullSectors`, `SectorSize`, `WrSize`,
`StateLen`, `CfgLen` are scaled down so that the regions keep their proportions;
with `SectorSize = 16`, `WrSize = 2` the copy loops of `init` stay inside the
partition as they do below 32 sectors, with 32 and 4 they leave it (`wl_safe`).
In `WL_Ext`, three flash sectors are needed for a range with a first, a whole and
a last part.  In performance mode a flash error and a loss of power leave the
same flash; the run uses the error, after which the old buffer is still there.
In `WL_Api` three tasks and two entries make entries scarce and reused.

*NVS.*  Three pages are the least the code accepts.  Four entries of two units
and two entry states to a word are enough for items that cross words and fill
pages, and for values of one and of two chunks (sizes 3 and 2, `SmallTail` 2).
Two values per key, one of them of bytes 0xff.  The number of calls is not
bounded, only that of calls cut short (`maxCuts`); two let the recovery of a
recovery be interrupted.

*OTA.*  `MaxSeq` lets every slot be selected at least twice; sequence numbers
only matter modulo the number of slots and by their order.  `MaxVersion` 2 gives
an older, an equal and a newer image.  Resets are not bounded.  `OtaImage` scales
a sector to 8 units and a block to 4, with calls of up to 9 units, so that a call
may end in, at and after the next sector.

*Ring buffers.*  The sizes make items wrap at every aligned place, split with an
empty first or second part, and leave a dummy of any length.  Four items fill the
buffer, and three may be held of a full one.  Byte numbers are taken modulo 11, more than twice the buffer.  In
`RingBufTasks` at most three sends and one time-out; three sends fill the buffer
and make a sender wait twice.

### Fairness

`wl_any`: a call that has entered the library goes on while there is power
(`WF_vars(Step)`): the code never waits.  Nothing is assumed of the user;
`WearSpreads` is conditional on erases going on.  `wl_api`: weak fairness for
steps that need no lock and strong fairness for taking a lock: the mutexes of
FreeRTOS are handed to the longest waiting task of a priority.  `rb_tasks`: weak
fairness of the whole (`GoesOn`): some task that can take a step does; receivers
keep receiving and returning.  `ota`: weak fairness of the flash operations, the
bootloader and the start of an application; `ComesUp` is conditional on resets
ending.

## What is proved

`WL_FlashProofs`, for every partition size, update rate and number of failures:

* `TypeCorrect`: `Spec => []TypeOK`.
* `AlwaysReadsBack`, `AlwaysRecoverable`: `ReadBack` and `Recoverable` always hold.
* `RefinesFlashAccess`: `Spec => Device!Spec`, with the refinement mapping
  `contents <- StoredContents`, what the flash alone says the pages hold.
* `RepairFailsOnce`: `Spec => InitFailsOnce`, with no condition: when the copy loop
  leaves the partition and `init` fails, the two headers are valid and equal, so
  that the next `init` does not come to the loop.
* `SafeInvariant`: `Spec => []IInv`, the inductive invariant itself.
* `AlwaysReadsBackOnce`: `Spec => []ReadBackOnce`, with no condition: one loss of
  power at any operation leaves every page readable, on a partition of any size;
  a loss while sector 1 is replaced (`struck`) if the copy from sector 2 fits
  (`ScanFits(2)`).

`AlwaysReadsBack`, `AlwaysRecoverable`, `RefinesFlashAccess` and `SafeInvariant`
assume `SafeWindows`: power does not fail in `wrap_erase1` and `wrap_header1`, and
no flash operation fails where `updateWL` has already recorded the move or in the
unchecked read of `init`.  The first of the known deviations shows that the first
part is needed, the second that `ReadBackOnce` must ask for `ScanFits(2)`.

`Recoverable` is not inductive: whether a step preserves what the flash says
depends on what the two sectors may hold at that step.  `IInv` adds, per phase of
the code: while mounted both headers equal the RAM state and sector 1 holds
exactly `pos` records (`MountedInv`; the last page may be recorded already);
the copy about to be recorded is complete (`MoveInv`); during the replacement of
the headers sector 2 keeps the old state until sector 1 has the new one, and
page 0 equals the last page, so that both layouts read the same (`WrapInv`);
repairs copy a state without moves (`SyncInv`); formatting leaves no accepted
header before sector 1 has it (`FormatInv`).  Two facts about `calcAddr` carry
the argument: moving the dummy by one page changes one page's address
(`CalcAddrMove`), and a full turn with `NextMoveCount` changes only the address
of the page copied last (`CalcAddrWrap`).  `calcAddr` is also shown to be
injective and never to hit the dummy (`CalcAddrInjective`, `CalcAddrRange`).

For `AlwaysReadsBackOnce` the step lemma of `IInv` only asks that *this* step is
outside the windows (`OutsideWindows`).  The one loss inside them leads to
`Torn`: sector 1 is broken or repaired from sector 2 without its records, and
while the device stays mounted RAM has the last page as position; the next full
turn writes both headers again and leads back to the invariant.

`WL_ExtProofs`, for every number of sectors and every ratio of their sizes:

* `TypeCorrect`.
* `AlwaysKeepsOtherData`: in performance mode with any number of losses of power
  and flash errors; in safety mode without flash errors (`NoFaultsWhenSafe`,
  `WL_Ext_Safe.cpp:139`) and with one loss of power (`OneLossWhenSafe`, needed
  because of `WL_Ext_Safe.cpp:103`).
* `AlwaysTransactionClosed`: with any number of losses of power, without errors in
  safety mode.

The pieces into which `erase_range` splits a range cover exactly the range
(`PiecesFacts`).  The invariant `MInv` follows each FAT sector: what it must hold
is in the flash, in the buffer while its flash sector is rewritten, or, after a
loss of power, in the dump under a valid record; and a sector that a piece has
still to erase was asked for.

`WL_ApiProofs`, for any tasks, entries, heap and number of failing mounts:
`TypeCorrect`, `AlwaysOneDriver`, `AlwaysRightInstance`, `AlwaysNoLeak`.  The
invariant says that every object on the heap is in exactly one entry or in the
hands of one mount in progress; that an entry is empty exactly when the client
has no handle for it, and its object, until `wl_unmount` has destroyed it, drives
the partition mounted there; and that only data calls share a handle.

`OtaProofs`, for any number of slots and of sequence numbers (`OtaAssumption`;
there are at least as many numbers as slots, as each slot must be selectable):

* `TypeCorrect`, `AlwaysSetBootTakesEffect`, `AlwaysRunnable`: whatever the
  application does.
* `AlwaysBoots`, `AlwaysAtomicSwitch`, `AlwaysRollsBack`,
  `AlwaysValidMeansConfirmed`, `AlwaysVersionsHold`, and the action property
  `NeverSecondTrial`, from `AlwaysInvariant` (the invariants of `OtaInv`).  The
  properties themselves say which applications they are about.

None of these properties is inductive, because a reset may strike between any two
operations of a list and the bootloader then decides from both entries.
`OrderInv` holds one entry fixed, the base: it is confirmed and can be booted.
Every operation of a list leaves the base alone and kills the other entry, puts
an application on trial in it, settles one, burns the eFuse, or wipes an image
that is not the base (`KillOp`, `TrialOp`, `SettleOp`, `BurnOp`, `WipeOp`); only
settling moves the base, to an application confirmed before.  Then any prefix of
a list, with its last operation torn, still boots the base or the trial.

`OtaImageProofs`, for any sizes of sectors, blocks, partitions, images and calls
(`ImageAssumption`: a sector is a whole number of blocks):

* `TypeCorrect`.
* `AlwaysImageComplete`, if an encrypted image that is erased ahead is padded
  (`PaddedWhereNeeded`, because of `esp_ota_ops.c:344`).
* `AlwaysNotRefused`, if an image that is erased ahead leaves a unit of the
  partition (`UnitToSpare`, because of `esp_ota_ops.c:201`).

The invariant says that what was written is in place, what is kept in the handle
follows it, and the flash after it is erased, as far as the end of the sector when sectors
are erased as they are reached; packets written at offsets are where they belong.

`RingBufProofs`, for no-split and allow-split buffers of any size, with any
alignment, header size, items and lengths (`HeaderAssumption`, `UseAssumption`: as
`xRingbufferCreate` makes them, with room for two headers; `CellAssumption`: a
header is told from the bytes of an item):

* `Invariant`: `Spec => []IInv`, the invariant of `RingBufInv`.
* `ItemsIntact`, `AvailabilityExact`, `FreeSizeTrue`: `Intact`,
  `AvailableExactly` and `CurFreeSizeTrue` always hold.
* `RefinesFifo`: `Spec => ImplementsFifo`, with the refinement mapping
  `fifo <- Stored`.

All assume `SafeUse`, which excludes two things and nothing else: that the last
item of a full buffer is received by who holds another one (`ringbuf.c:659`;
`xRingbufferReceiveSplit` itself hands out two parts), and, if items are completed
out of order, that one is received before it is complete (`ringbuf.c:525`).  Full
buffers, several items held of them, and completion in any order are covered.
Without it TLC finds the properties violated; `MCRingBuf` states that the
instances of `rb_items` satisfy it.

None of the properties is inductive: that a send does not touch a received item
follows from where all the others lie.  `IInv` measures every place by its distance
from `pucFree`.  `Layout` says that the headers follow each other at growing
distances up to `pucAcquire` and that none overlaps the next; `WrapInv` that a
dummy or the first part of a split item is followed by an item at the head;
`EntryInv`, `WriteInv` and `ReadInv` which items may be incomplete, unread, received
or returned relative to `pucWrite` and `pucRead`: `pucWrite` is at an item that is
not complete, or at `pucAcquire`, where in a buffer that was full it may have left
incomplete items behind, and `pucRead` has not passed it (`NotPast`).  Where items
are completed in order, `OrderInv` adds that the incomplete ones are the last.  Of
a full buffer received to the end at most one item is held (`UseInv`): returning it
rightly clears the flag.  In a full buffer the same offset
is distance 0 and distance `size`, so the distance of `pucRead` cannot be computed
from the pointers: the invariant says that there is one.

The loops of `prvSendItemDoneNoSplit` and `prvReturnItemDefault` are walks along
this chain; what they stop at is proved by induction on sets of numbers
(`Induction`, from `WFMin`).  For the refinement, `Live` is shown to be *the*
ascending enumeration of the items not returned, so that each operation need only
say which items it adds, removes or gives another status; each critical section is
then one step of `RingFifo` or none.

`RingBufTasksProofs`, for any tasks, lengths, sizes and number of sends:

* `AlwaysNoItemMissed`, for buffers of items (`Kind # "byte"`, because of
  `ringbuf.c:1297`), with interrupts and time-outs.
* `AlwaysNoSpaceMissed`, for the three kinds, as long as nothing timed out
  (`ringbuf.c:1059`).

The invariant `WakeInv`: an item that can be received, or space that the waiting
sender could use, is announced by the semaphore, by a task or interrupt about to
give it, or, for an item, by a receiver that has taken it and
will look.  Of the storage it needs only when a step can make space or items
available; the loop that advances `pucFree` over returned
items is a recursive function, about which the few facts needed are proved by
induction on sets of numbers (`Induction`, from `WFMin`).

`RingBufBytesProofs`, for every size of a byte buffer (`BytesAssumption`: it is
a byte buffer, and the numbers given to bytes exceed twice its size):

* `TypeCorrect`, `AlwaysSpaceExact`, `AlwaysByteOrder`, `AlwaysFitsExactly`.

They follow from `Inductive`, `Spec => []IInv`.  `SpaceExact` alone is not
inductive for the contents: `IInv` adds that the bytes from `free` to `write` are
the consecutive numbers up to the last one sent (`Filled`).  Modular arithmetic
is kept out of the solver's way by `Plus` and `Ahead`, which add and subtract
once; lemmas say how the stored cells shift when a pointer moves.

Only model-checked: the liveness properties and everything under fairness, which
the prover does not treat; `Nvs`, whose loop over chunks is a recursive operator and
whose other loops are folds of operators, which the provers cannot instantiate.
Wear levelling with an error after a recorded move, or with further losses of
power after one in the excluded windows, is not claimed: there the pages do get
lost.

## Not modelled

* *Wear levelling*: writes and reads from the middle of a page, and of several FAT
  sectors at once, the largest omission.  `WL_Flash.cpp:576` translates the start of
  each page-sized chunk only, so that a chunk from the middle of a page goes on in
  the next physical page, whatever logical page that is; `diskio_wl.c:55` makes
  such calls with 512-byte sectors.  `ReadBack`, `KeepsOtherData` and the
  refinement say nothing of them (listed as a hazard).  Also the migration from
  version 1; errors after a move was recorded (listed as a hazard); flash
  operations that take full effect and return an error; a torn transaction record;
  a partition mounted twice.
* *NVS*: the table of namespaces (a key stands for namespace and key), blobs in
  the format without index, encryption, iterators, errors of flash and memory,
  wrap-around of sequence numbers, the format version, the lock of the handles.  A
  torn erase of a page leaves one that does not load, never a valid header with
  entries missing; words of the table of entry states are written whole.
* *OTA*: several handles at a time, the test partition, factory reset by pin,
  fast boot from deep sleep, `esp_ota_get_last_invalid_partition`, revocation of
  secure boot keys.  Erasing an image and burning the eFuse are single
  operations; a torn erase of an entry leaves its checksum broken.
* *Ring buffers*: queue sets, creation that fails, deletion.
* The other components: see `components` in `PROJECT.json`.  Most of the
  repository is register definitions, vendored stacks, drivers and generated
  tables, in which there is no protocol to check.
