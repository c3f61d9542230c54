# A TLA+ model of yaffs2

yaffs is a log-structured file system for raw NAND flash. This directory holds
TLA+ specifications of its parts, the TLC configurations that check them on
small instances, and theorems that the TLA+ proof system checks for every size.
`src/...` below is the repository; `G` stands for `src/core/yaffs_guts.c`, `Y`
for `src/core/yaffs_yaffs2.c`, `C` for `src/core/yaffs_cache.c`, `K` for
`src/core/yaffs_checkptrw.c`, `D` for `src/direct/yaffsfs.c` and `L` for
`src/linux/yaffs_vfs_multi.c`.

## The system

### Parts, their state and what they do

| Part | State | Operations | What makes it correct | Module |
|---|---|---|---|---|
| Block and chunk manager (G, Y) | `struct yaffs_dev`: `block_info[]`, `chunk_bits`, `n_free_chunks`, `n_erased_blocks`, the allocating block, the oldest dirty sequence number | allocate a chunk, write with retries, delete, soft-delete, strike, retire, erase | one allocating block; exact bitmaps and counters; a live block is never erased; the caches of "oldest" and "dirtiest" block are sound | YaffsDevice, YaffsBlocks |
| Garbage collector (G 2215-2740) | `gc_block`, `gc_chunk`, `gc_dirtiest`, pacing counters | select a block, copy some of its chunks, delete the originals, resume later; foreground and background | it loses nothing, always has room for its copies, ends; a shrink header outlives what it hides | YaffsBlocks, YaffsLog |
| File data and headers (G 2743-3621) | `file_size`, `stored_size`, the tnode tree, `hdr_chunk` | read, write, fill or mark a hole, truncate, extend, flush | what is written is found again after a power failure; sizes on flash match what was stored | YaffsLog |
| Mount scan (Y 1089-1713) | none of its own; rebuilds all the above | read blocks newest first, keep the first chunk of each id, obey shrink headers, erase stale blocks | it finds the file as the last flash operation left it, and may itself be cut off | YaffsLog, YaffsObjects |
| Short-operation cache (C) | `n_caches` chunk buffers with dirty, locked and last-use marks | read, write, flush, invalidate, choose a victim | a chunk is in one buffer at most; dirty data reaches flash before the buffer is reused | YaffsCache |
| Checkpoint (K, Y 195-999) | blocks in state CHECKPOINT, `is_checkpointed` | save, restore, invalidate | an old checkpoint is never restored over newer data | YaffsCheckpt |
| Objects (G 1269-1500, 3622-4440) | the object hash, directories, hard links, shadows, the unlinked and deleted directories | create, rename, link, unlink, delete, look up | a rename over a name leaves one of the two under it; nothing is lost or named twice | YaffsObjects |
| Names and details (G 667-760, 3008-3042, 4190-4345, 4895-5017) | short name, sum, `lazy_loaded`; times and sizes in one or two words | set a name, load details, find, list | memory and flash tell the same, however much of an object is in memory | YaffsHeaders |
| Tnode tree (G 776-1250, 1540-1623) | internal and level-0 tnodes, chunk groups, the free list | find, add, prune, save, restore | a bounded radix tree is a map from chunk ids to chunk groups; no tnode is lost | YaffsTnodes |
| Extended attributes (`yaffs_nameval.c`, G 2880-3006) | records in the header chunk | set, remove, get, list | what was set is read | YaffsXattr |
| Summaries (`yaffs_summary.c`) | `sum_tags`, `chunks_per_summary` | gather, write, read | a summary that is believed is true | YaffsSummary |
| Tags and ECC (`yaffs_tagsmarshall.c`, `yaffs_packedtags*.c`, `yaffs_tagscompat.c`, `yaffs_ecc.c`, `yaffs_endian.c`) | bytes of the spare area | pack, unpack, correct | what is packed reads back, with one flipped bit too | YaffsTags, YaffsEcc |
| yaffs1 mode (`yaffs_yaffs1.c`, G) | the older on-flash format: deletion marks and serial numbers | the same calls; a forward scan | the newest copy of everything is chosen, and nothing deleted comes back | YaffsOne |
| Start and end (G 4409-4840) | derived geometry, allocations, temporary buffers | initialise, format, deinitialise | whole or not at all | YaffsStart |
| Yaffs Direct (D) | inodes, file descriptors, handles, searches, one lock | the POSIX calls | a handle never leads to a deleted object; a path leads where it says | YaffsHandles, YaffsPaths |
| Linux glue (L) | the kernel's inodes, dentries, pages, super block; a background thread | the VFS calls | kernel objects and yaffs objects agree; a sync writes all | YaffsVfs, YaffsPages, YaffsSuper |
| MTD and RTEMS glue, utilities, tests | none | translate calls, make images | | not modelled |

### How they interact

The layers call downwards: a POSIX call takes the lock, the file layer writes
through the cache or past it, every write of data or of a header first gives the
collector a turn (`yaffs_check_gc`), and every flash program, erasure and read
error changes the block table. The collector calls upwards: it moves a chunk and
then fixes the pointer in the tnode tree or in `hdr_chunk`. Deleting a chunk may
erase its block in the middle of any of these. `gc_disable` and the single lock
keep collections from nesting, so at most one call is in progress in the core;
what interleaves there is the *parts of a collection* with other calls, since a
passive collection copies a few chunks and goes on at some later write. Above the
core, calls interleave wherever a layer lets the lock go: between the pieces of a
read or write (D 1180-1420), before the kernel is entered to get an inode or to
hand out a directory entry (L 1230-1290, 1860-1930), and around everything the
kernel does by itself: pages, evictions, syncs.

### What is hard

* A collection is spread over many calls, and keeps a block, a cursor and a
  remembered candidate between them.
* Sequence numbers order blocks, and the whole meaning of the log at a mount;
  a chunk may be moved to a newer place long after it was written. In yaffs1 mode
  two bits of serial number have to do.
* Deletions are in RAM only until the block is erased; a shrink header must stay
  on flash until the chunks it hides are gone.
* The power can fail between any two flash operations, in the scan too; a rename
  over a name takes three of them.
* A failed program is retried elsewhere, and may retire or even erase a block on
  its way; a failed copy leaves a hole in a collection.
* The last blocks are a reserve for headers and for the collector itself; every
  counter that guards it is kept by increments in a dozen functions.
* Caches upon caches: buffers over chunks, pages over buffers, inodes over
  objects, short names over headers, each with a time at which it is stale.
* Formats without slack: entries of 17 or 18 bits across words, tags whose code
  must tell one flipped bit from two.

PROJECT.json lists these hazards with the line where each bites and the
properties that look for it.

## Modules

```
YaffsDevice         block table and the functions that update it (operators)
  YaffsBlocks       the block manager and collector as a state machine
    MCYaffsBlocks          a bound for TLC
    YaffsBlocksProofs      the inductive invariant and the theorems
  YaffsLog          one file on the flash, with power failure and mount
    MCYaffsLoad            two kinds of load for TLC
    YaffsLogProofs         flash, device and file agree, whatever a mount finds
      YaffsScanProofs      a scan finds the file; the refinement of YaffsStore
  YaffsDeviceLemmas what each operator of YaffsDevice preserves, for both
YaffsStore          the abstract file that YaffsLog implements
YaffsCache          the buffers between the calls on a file and the flash
    MCYaffsCache           instances for TLC
    YaffsCacheProofs       the invariant of its calls, the room, the refinement
YaffsBytes          the abstract files that YaffsCache implements
YaffsCheckpt        checkpoints between writes, power failures and mounts
    MCYaffsCheckpt         instances for TLC
YaffsObjects        objects and names as sequences of headers
    MCYaffsObjects         the bounds, and the refinement
YaffsNames          the abstract name space that YaffsObjects implements
YaffsOne            yaffs1 mode
    MCYaffsOne             symmetry for TLC
YaffsFiles          the abstract flat file system that YaffsOne implements
YaffsHandles        the tables of Yaffs Direct
    MCYaffsHandles         orderly callers
YaffsVfs            inodes and dentries of Linux over objects
    YaffsVfsProofs         the inductive invariant and the theorems for inodes and names
YaffsPages          the page cache of Linux over one file
    MCYaffsVfs             both for TLC, one at a time
    YaffsPagesProofs       the inductive invariant and the theorem for pages
YaffsSuper          sync, background thread, mount, remount, unmount
    MCYaffsSuper           instances for TLC
    YaffsSuperProofs       the inductive invariant and the theorems for syncs
YaffsTnodes, YaffsXattr, YaffsSummary, YaffsTags (with YaffsEcc),
YaffsPaths, YaffsHeaders, YaffsStart
    MCYaffsParts           the seven for TLC, one at a time
```

Definitions named `slip_...` stand beside the definition they are a slip of. No
specification uses them. They record, for each property, a mistake in the code
that the property notices.

### The log

**YaffsDevice** has one operator for each C function that updates the block
table, under the same name, from a device record to the next: `chunk_del`,
`block_became_dirty`, `find_alloc_block`, `handle_chunk_wr_error`,
`find_oldest_dirty_seq` and so on. A block's bitmap is a set of pages. The block
states that only pass within one function (SCANNING, NEEDS_SCAN, DIRTY) and
CHECKPOINT do not occur; the blocks a checkpoint will need are the constant
`CheckptBlocks`. `alloc_page` is kept when there is no allocating block, as in
the code.

**YaffsBlocks** is the manager. `dev` is the record, `op` the call in progress
with the locals that live across its flash operations (`attempts`,
`max_copies`, `max_tries`, `aggressive`), so that `yaffs_check_gc` may turn a second
time. The files above are reduced to `held`,
the chunks a tree or an object points at, and `softs`, the data chunks of
soft-deleted files. `debts` is a history variable: which block has a shrink header
that hides chunks in which older block; a pair is settled when the *older* one is erased.

| Actions | Code |
|---|---|
| `StartWrite`, `DeleteChunk`, `SoftDelete`, `ReadError`, `BgGc` | calls of the layer above |
| `GcResume`, `GcRefresh`, `GcSelect`, `GcRemember`, `GcPass` | `yaffs_check_gc`, `yaffs_find_gc_block`, `yaffs2_find_refresh_block` |
| `GcDropSoft`, `GcCopy`, `GcEnd` | the page loop of `yaffs_gc_block` |
| `WriteNoSpace`, `WriteNotErased`, `WriteError`, `WriteOk`, `CopyOk` | one turn of `yaffs_write_new_chunk`, and what its caller does with the chunk |

The counters that pace passive collection (`gc_skip`, `gc_not_done`,
`refresh_skip`, thresholds) are left open: whenever the collector runs, it may do
nothing, remember a candidate, or collect one. This allows every choice the code
makes and some it does not, so what holds here holds there. Flash failures are
choices, at most `MaxFaults` of them.

**YaffsLog** puts records on the flash. `nand` maps each chunk to what its tags
say, `file` is `struct yaffs_file_var` with the tree, and a call is a list of
jobs (`HoleJob`, `DataJob`, `PruneJob`, `GrowJob`, `HdrJob`, `GcJob`), each done
in steps of at most one flash operation; `Crash` may come between any two and
leaves `nand` alone. `Mount` computes the file and the device from `nand` as the
backwards scan does (`FoundFile`, `FoundDev`), after `ScanErase` has erased stale
blocks one at a time. The operators on the device are those of YaffsDevice.
**YaffsStore** says what an application may rely on: a chunk changes only when it
is written; a truncation puts chunks in doubt until its header is written, and a
refused write past the end the chunk refused; a mount decides about chunks in doubt
and about nothing else, and a hole it finds there stays in doubt. `ImplementsStore`
checks that YaffsLog implements it, with `content` and `doubt` kept by the log as
history variables.

**YaffsCache** is about bytes, which the two above leave out: chunks written in
part, what is behind the end of a file, and which of buffer and flash is newer.
`cache` is the array of buffers, `flash` the data each chunk of each file has on
flash, `file` the two sizes and the dirty flag. A call is a list of jobs again,
each turn of whose loops is a step with at most one flash write, which may fail.
The failure of a flush goes unnoticed, as in the code; the chunk is then in
`doubt`. Free space is a number: what the block manager does with it is shown
above, and neither a collection nor a header that replaces another changes it.

| Actions | Code |
|---|---|
| `ReadFile`, `WriteFile`, `ResizeFile`, `FlushFile`, `FlushWholeCache`, `UpdateHeader` | the calls |
| `HandleHole`, `FillHole`, `Failed` | `yaffs2_handle_hole` |
| `WriteDirect`, `WriteLoad`, `WriteCached`, `WriteRefused` | the branches of `yaffs_do_file_wr` |
| `FlushBuffer`, `FlushEnd`, `ResizeDown`, `Grow`, `WriteHdr` | `yaffs_flush_file_cache`, `yaffs_resize_file`, `yaffs_update_oh` |

**YaffsBytes** says what remains when the buffers are hidden: the bytes of a file
change only as the request in progress asks, but for chunks that the flash has
refused, and for a whole chunk whose write is refused. A file that is made longer shows
what lies beyond its end: zeros, unless a truncation was refused its last write.

**YaffsCheckpt** is about the state that outlives an unmount. Its log keeps only the
newest chunk of each id, and a write programs one chunk and erases the block it
leaves empty; what matters is that each of these must find the checkpoint gone.
`cp` is the stream (`checkpt_cur_block`, `checkpt_cur_chunk`, the buffer, the
running checksum), `dev` the device with its block states and counters. A
checkpoint is five pages; a page records what the device says when it is filled,
which is after the pages before it have taken their blocks. `lost` tells that a page of
the stream is not on flash, `spoilt` that a save which was refused has written into the
log. A mount reads it page by
page and falls back on a scan.

| Actions | Code |
|---|---|
| `WriteChunk`, `Program`, `ProgramRefused`, `BecameDirty` | `yaffs_write_new_chunk`, `yaffs_alloc_chunk`, `yaffs_block_became_dirty` |
| `EraseCheckpt`, `MarkBad`, `EraseEnd` | `yaffs_checkpt_erase`, one block, or the mark of a bad one, a step |
| `Save`, `Open`, `FillBuffer`, `FlushPage`, `CloseFlush`, `SaveEnd`, `Unmount` | `yaffs_checkpoint_save`, the stream for writing, `yaffs_deinitialise` |
| `Mount`, `Read`, `CloseRead`, `Scan`, `Sweep`, `SweepEnd` | `yaffs_guts_initialise`, the stream for reading, `yaffs2_scan_backwards` |

### Objects

**YaffsObjects** has the objects in memory (`objs`: type, parent, name, equivalent
object) and the `log` of their headers, oldest first, each as if in a block of its
own. A call puts the headers it will write on a list (`todo`), and each step writes
one of them with the changes in memory that go with it; `Crash` leaves the log, and
the collector may copy a header to the end or erase one that is out of date, as far
as the shrink headers allow.

| Actions | Code |
|---|---|
| `Create`, `yaffs_link_obj`, `yaffs_unlinker`, `RenameFree`, `RenameOver`, `Touch`, `Open`, `yaffsfs_ReleaseInode` | the calls, with the checks Yaffs Direct makes before them |
| `DoCreate`, `DoUpdateParent`, `DoRename`, `DoDelete`, `UnlinkNow`, `UnlinkOpen`, `UnlinkLinked` | one header of `yaffs_create_obj`, `yaffs_change_obj_name`, `yaffs_unlink_worker`, `yaffs_generic_obj_del` |
| `yaffs_gc_process_chunk`, `yaffs_block_became_dirty` | what a collection does to headers |
| `Mount`, `yaffs_strip_deleted_objs`, `yaffs_fix_hanging_objs` | `yaffs2_scan_backwards` with `yaffs_link_fixup`, then `yaffs_guts_cleanup` |

**YaffsNames** is what calls promise: names change one call at a time, and a power
failure, a mount or a collection changes none.

**YaffsOne** is the yaffs1 mode: pages can be programmed twice, so a chunk that is
replaced is marked deleted where it lies, and two-bit serial numbers tell which of
two unmarked copies is the newer. A call is an operator on the device record that
programs, marks and erases in the order of the code, and the record collects
in `past` the flash as it was before each of these; `PowerFail` leaves one of them
for the next mount. `Create`, `Write`, `Truncate`, `Rename`, `Delete` and `Collect`
are the actions; the mount is `yaffs1_scan` with the shadow fixer and the clean-up.
**YaffsFiles** is the flat file system it implements.

**YaffsHeaders** follows one object through names of all lengths (`Rename`), its
times (`Touch`), mounts that load all of it or its number only (`MountAgain`), and
the loading of what is missing (`Load`, and inside every operation that needs it).

### The parts

**YaffsTnodes** has the tree with its words, bit by bit: `WrDataObj` and
`WrDataObjFails` (no tnode left), `ResizeDown`, `DelFile`, and `Remount` over a
checkpoint that saves the tree and builds it anew. **YaffsXattr** has `SetXattrib`,
`RemoveXattrib`, `FetchXattrib` and `ReloadObject` over the records of a header, which
may fail to be written or read, and the updates of the header for other reasons
(`ChangeMode`, `UpdateUnread`), which have to carry the records over. **YaffsSummary** has `WriteChunk` (with the summary when the
block is full, and failures), `CollectBlock`, `MountScan` and `MountCheckpt`.
**YaffsTags** writes one page in either format, flips bits of it (`FlipBit`), lets the
driver report (`DriverSays`), moves it to a processor of the other byte order
(`MoveMedium`), reads it (`ReadChunk`, with the strikes of `yaffs_handle_chunk_error`) and
erases its block (`BlockBecameDirty`); **YaffsEcc** has the codes. **YaffsPaths** has the walk
along a path and every call by path or handle with its checks in their order; its
actions make, remove, mark and mount over two devices. **YaffsStart** has
`Initialise`, `FormatDev` and `Deinitialise` with an allocation that fails, the first
time or the second after an aborted checkpoint, and the temporary buffers (`GetTemp`, `ReleaseTemp`).

### The interfaces

**YaffsHandles** has the tables of Yaffs Direct in `fs` (handles, descriptors,
inodes, searches, directories), the state of each device, and `io`, the read or
write each thread has in progress. One lock makes every call a step but these two,
which let it go after every piece (`Read`, `Write`, `NextPiece`). `orphan` is a history
variable of such a call: its use of the handle has been taken back. All calls that open,
close, duplicate, move, unlink, rename, search, mount, remount, unmount or format are
actions of their own.

**YaffsVfs** has the kernel's inodes and dentries beside the objects, for the calls of
L: `Lookup`, `Mknod` with its three parts `Iget`, `Fill` and `Add`, `Link`, `Unlink`,
`Rename`, `OpenFile`, `CloseFile`, `Shrink` (a dentry is dropped), `Evict` with
`DelObj` and `Unstitch`, `ReaddirBegin` and `ReaddirNext`. What the kernel does between
is external: it holds the mutex of the directory, makes `iget` wait for an inode that
is new or freeing, and may evict what nobody uses.

**YaffsPages** has the pages of one file: `readpage`, `Store` into a mapped page,
`write_begin`, `WriteCopy`, `write_end`, `writepage` and `writepage_wr`, the three
parts of a change of size (`setattr`, `truncate_pages`, `set_attribs`), `Reclaim` and
`EvictInode`. Writes may fail part of the way. `past` is a history variable: the cells of
an old tail that a read has brought in while the file was being cut (`Overtaken`), and
whether a failed write has left the file longer than the inode.

**YaffsSuper** has what is dirty, the super block's flag, syncs that look at the flag,
and at `yaffs_auto_checkpoint`, before they take the lock (`Look`), the background thread with its timer (`BgTop`, `BgWork`,
`BgSleep`), and mounting, remounting and unmounting in steps.


## What is checked

All runs pass. Those of a run's properties that are temporal formulas or
refinements are marked *.

| Run | Instance | Properties | Shows |
|---|---|---|---|
| `blocks_gc` | 6 blocks of 2 chunks, at most 4 allocations and faults together when a call begins, 1 flash fault anywhere | OneAllocatingBlock, OldestDirtySound, SequenceNumbersDistinct, ChunksOwned, CountersExact, ShrinkHeaderOutlivesData\*, NoLiveBlockErased\* | block states, pointers and sequence numbers agree; bitmaps, page counts and both counters stay exact through retries, retired blocks and abandoned collections; neither a live block nor a needed shrink header is erased |
| `blocks_returns` | 3 calls, no limit of attempts, any number of faults in the second, fairness | CallReturns\* | every call and every background collection ends, because failures use up blocks |
| `log_crash` | 2 file chunks, 4 allocations, 1 power failure | ScanFindsFile, Accounted, ImplementsStore\* | the scan finds the file at every step; the device a mount builds accounts for every chunk; the log implements YaffsStore |
| `log_load` | 3 chunks with holes of both kinds, or a file of 5 that fills the partition; 1 power failure | ScanFindsContent, ReserveSuffices | no collection or erasure brings truncated chunks back; headers and copies always find a chunk |
| `cache` | 2 buffers, 3 chunks of 2 bytes, 4 chunks of room, 1 flash fault | BuffersSound, ReserveOverdraft, ImplementsBytes\* | one buffer to a chunk, what is clean is stored, zeros behind the end of a file; a bounded loan from the reserve; the cache implements YaffsBytes |
| `checkpt` | 4 blocks, 3 writes to 2 ids, 2 power failures, 1 failed program or erasure | RestoredIsCurrent, BlocksCounted, SavedIsReadable, GoneBeforeChange\* | a mount from a checkpoint finds what a scan would; the checkpoint is gone before the log changes; the counts survive saves and mounts; a device that takes itself for saved is, unless a flush failed that nobody looked at |
| `objects` | 3 objects, 2 names, 4 calls and copies, 1 power failure | MemorySound, ScanTells, ImplementsNames\* | a rename, link or removal is whole or not at all at a mount; no link is left without its object, no object without a place; the headers implement YaffsNames |
| `handles` | 1 device, 2 objects and names, 2 handles, 1 search, 1 thread between pieces | TablesAgree, CallKeepsFile, EntriesOnce | the tables count each other; a call comes back to the file it began with while it has its handle; a search returns each entry that stays once |
| `vfs` | 3 inode numbers, 2 processes, a file in one directory and two in another; or one file of 3 cells in pages of 2 | CachesTell, SearchStandsOnEntry, PagesTell | inodes and dentries tell what the objects are, whatever comes between; pages have what was written, but for a tail that a read overtook |
| `super` | 1 file, 1 directory, 2 syncing processes, 3 calls | FlagTellsAll, SyncWritesAll, WorkGetsDone\* | a sync misses nothing; put-off headers get written; mount, remount and unmount end |
| `one` | 2 files, chunk 1 of each, 2 names and values, 5 blocks of 2 pages, 5 calls, 1 power failure | Referenced, CallsAreAtomic\* | a mount of a yaffs1 device finds every call done or not begun |
| `parts` | one part at a time, see below | TreeSound, AttributesKept, SummariesTrue, FormsTold, PathCallsAnswer, StartSound | each structure tells what was put into it |

`parts` takes one of seven modules and its steps only: trees of four levels with
entries of 3 bits in words of 4, and a chunk id that is too large; records of three attributes in 24 bytes; two blocks
of six pages with summaries; tags of both formats, each with every single flipped bit
and chosen pairs; paths of up to four names and one of six over two mounted devices
with links of every kind; names of 1 to 255 characters about the 15 that are kept in
memory; seven geometries, one with chunk groups larger than a block, with an allocation
that fails at every place. It is one run
because these modules share no state and no run of them would be interesting with
another.

### Bounds and why they are enough

*The log.* Six blocks is the least a device with two reserved blocks may have
(`yaffs_guts_ll_init`), so every run is about to run out of blocks after a few
writes: aggressive collection, the reserve and refusal are reached by all of them.
Two chunks to a block is the least the code accepts and gives every case of a block:
untouched, half written, full, partly and wholly discarded, partly collected.
`MaxSeq` bounds how many blocks have been allocated (and, in `blocks_gc`, how many
faults there were) when a *call* starts; calls in progress always end. `blocks_returns`
is bounded by its three calls only: the second may use up every block by its retries,
and the third may find fewer erased blocks than are reserved, where `yaffs_check_gc` turns
once more. It makes the
state spaces finite, and it is why runs are told not to look for deadlock: past it no
call is accepted. `GcMaxCopies = 1` makes a passive collection of a two-chunk block
stop half-way, as 5 does for one of 64. `SmallHole` 2 or 1 stands for
`YAFFS_SMALL_HOLE_THRESHOLD`: below 2 every hole is a large one. One value in `Vals`
is enough, since `ScanFindsFile` compares the chunk found with the chunk pointed at and
not only what is in it; zeros written into holes are a second one. `log_load` and
`cache` restrict the calls to reach further. In `log_load` the file
that grows allocates up to seven blocks, so that one has been collected, erased and used
again. By then the partition is full, writes are refused, and there have been as few as
six erased chunks when a header or a copy needed one, before a power failure and after
one; one allocation more (`MaxSeq = 7`) does not make them fewer.

*The cache.* Three chunks do not fit into two buffers; two bytes give a chunk a first
part and a last, three bytes are the longest small hole and four the shortest large
one. The room of four is the least in which a small hole is filled (`SmallHole + 1`
must be left over), and others can take all of it.

*Checkpoints.* A checkpoint of five pages needs three blocks of two, and ends in the
middle or at the end of its last page; on four blocks, one reserved, a save finds room for
all of it, for its first blocks only, or for none. The list of a restore has just room for
three (`ListDivisor` stands for the 16 of the code), and one failed operation is enough for
a page that is not there and for a block that is lost. Nothing is claimed of a device that
a refused save has spoilt, and `NotSpoilt` does not follow it. The code saves checkpoints
only on partitions of sixty blocks or more; nothing else in it depends on that size.

*Objects.* A rename over a name needs two objects and a link to one of them a third;
two names are a source and a target. Four calls are enough to make, link, rename and
remove; `MaxCopies` is a header that the collector has moved to the end of the log,
which is all that a collection can change in an order of headers. The one power failure
may come in a call or in a mount; two, the second in the mount after the first, are
beyond the bound.

*Handles.* Two objects and two handles give sharing, the reuse of a slot, and a name
whose object was replaced. One thread between two pieces is enough, as every other
call is a step. Modes are a sharing writer and an appender who shares for reading only.
A read-only device refuses what would change it, and a write in progress ends there as it
does without room, so no table gets into a state that it does not get into on a writable
one; `Apart` keeps such a device, searches, and calls that have lost their handle from each
other.

*Linux.* With three numbers an object can be removed and its number be given to
another while its inode is still there; two processes are the most a directory's mutex
and an inode's states can be between. Pages of two cells over three cells give a whole
page and a last one that is used in part; the theorem below is for all sizes.
`HZ = 1` tells a timer that has run down from one that is about to; `AutoCheckpoint = 5`
has the bit of every sync and the bit of one shot.

*yaffs1.* The serial number has two bits, so five calls let it pass every value; five
blocks of two pages are full after a few calls, and the collector has to find the
deletion marks of every kind of call. `Roomy` keeps a call from running out of space,
as it is not about that.

*Parts.* The constants of each are the least that have an entry across two words, a
level to add and to prune, an attribute that does not fit, a summary that is not
written, a link to a link (`MaxDereferences = 1` for the 5 of the code), and so on.

### What the runs leave out

These are cases that the code has and a run does not, because what it checks fails or
is meaningless in them. Each is excluded by a named definition, and what happens
instead is under *Known defects*.

* `Sheltered` (MCYaffsObjects): no call takes the name of a file that has hard links;
  the power does not fail while a link whose name its file has taken is yet to be
  deleted; nothing is collected while a mount cleans up. `FullSpec` is without it.
* `OrderlySpec` (MCYaffsHandles): callers do not `lseek` in a directory, do not rewind
  one that has been removed; a device is unmounted only with no search open on it, and by
  force only with no handle of another device open.
* YaffsPages: stores past the end of the file, in the rest of its last page.
* YaffsOne: collections are not cut into parts (`GcMaxCopies >= PagesPerBlock`), no open
  file is unlinked, and chunks are whole.
* YaffsTags: of the pairs of flipped bits those of `PairBits`; three and more are not
  told by any code.
* YaffsXattr: `xspoilt` tells a record that just fills the header, or a header made from
  one that could not be read; `xlost` that the last attribute was removed from a header that
  could then not be written. YaffsSummary: `shalf` a summary of which the first
  part only could be read.
* YaffsHeaders: names that do not fit (`Fits`), headers that cannot be written or read,
  `lost+found` before its first sum (`Unsummed`).
* YaffsPaths: creating calls whose last name is "." or "..", hard links to
  directories, a rename of one name of a file over another (`SelfLink`), and walks through
  more links than the code follows (`Shallow`).
* YaffsStart: what a device does whose start has gone on without its directories (`wild`).
* YaffsVfs: a rename of a link over its own file.

### Fairness

`CallsSpec` of MCYaffsBlocks: weak fairness of the steps of the call in progress. The call
runs in one thread that holds the lock, never waits, and is scheduled. Nothing is
assumed of the environment: calls need not come, and in the second call every flash
operation may fail (`MaxFaults` is more than there can be). That a flash which fails for
ever does not keep a call without a limit on attempts going is what the run shows: each
failure gives up a block, and the blocks run out.

`SuperSpec`: weak fairness of the background thread, of the steps of a mount, remount
or unmount that has begun, of a sync that has begun, and of time. Kernel threads are
scheduled, and jiffies go on. Calls need not come.

## What is proved

`YaffsBlocksProofs` proves, for every number of blocks, chunks per block, reserved
blocks, attempts and faults allowed by `GeometryAssumption` and `BoundsAssumption`:

| Theorem | Statement |
|---|---|
| `Invariance` | `Spec => []IInv` |
| `TypeCorrect` | `Spec => []TypeOK` |
| `AllocationSafe` | `Spec => []OneAllocatingBlock` |
| `OldestDirtyCorrect` | `Spec => []OldestDirtySound` |
| `SequencesDistinct` | `Spec => []SequenceNumbersDistinct` |
| `OwnershipCorrect` | `Spec => []ChunksOwned` |
| `LiveBlocksKept` | `Spec => NoLiveBlockErased` |
| `CountersCorrect` | `Spec => []CountersExact` |
| `ShrinkHeadersKept` | `Spec => ShrinkHeaderOutlivesData` |

`GeometryAssumption` is what `yaffs_guts_ll_init` checks before it accepts a
device. `BoundedSpec`, which `blocks_gc` checks, only adds a conjunct to `Spec`.

None of these invariants is inductive alone. `OldestDirtySound`, for example,
needs to know that no two blocks in use share a sequence number (or
`clear_oldest_dirty_seq` could clear the wrong entry), that needs the
allocating block to be the newest, and that in turn that only EMPTY blocks are
allocated and have an empty bitmap. `IInv` is their conjunction with

* `BlockInv(d, b)`, for one block: EMPTY and DEAD blocks have an empty bitmap and
  are pointed at by nothing, a block in use has a sequence number between 1 and
  the device's, the allocating block is `alloc_block`, and a full block with
  discarded pages is not older than a known `oldest_dirty_seq`;
* `PointerInv(d)`, for the pointers: where `gc_block`, `gc_dirtiest` and
  `oldest_dirty_block` may point;
* `Distinct(d)`, for pairs of blocks;
* the ownership of chunks, and that the chunk a copy is being made of is held.

The split is what makes the proof go through in small pieces. An operator of
YaffsDevice changes one block; YaffsDeviceLemmas shows once for each what it does
to that block and that it leaves the others' `BlockInv` alone. YaffsBlocksProofs
then has one lemma for each action, composed of those, and a theorem by cases on
`Next`. `LiveBlocksKept` follows from `IInv` and `IInv'`: an erased block has an
empty bitmap afterwards, and the bitmap holds every chunk of a live file.

The last two theorems need more, in the second half of the module. The counters are kept
by increments, so the proof follows the increments. `Count(d, H, S)` says that the
counters of a device agree with its blocks when files own the chunks in `H` and
soft-deleted files those in `S`; it holds within a step too, between one operator of
YaffsDevice and the next, with the `H` and `S` of that moment (a chunk just allocated is
already owned; one whose write failed is, until it is deleted). Each operator has a lemma
that says which chunks it makes free: none, one, or, where a block goes, all those of a
block in which nothing is in use. No sum over the blocks is needed.

`ShrinkHeaderOutlivesData` speaks of `debts`, pairs of a block with a shrink header and an
older one that holds what it hides. It holds because of `DebtInv`: the older block of a
debt still is older, whole and has discarded pages, so that an oldest dirty sequence
number that is found or known is no greater than its own; the block being collected has no
shrink header; and the remembered `gc_dirtiest`, if it has one, owes it to no block. The
last two are what makes it right that the collector takes a block it has begun, or
remembers, without `yaffs_block_ok_for_gc`. `Moved` says of each operator what that needs:
a block in use keeps its sequence number and its shrink header, has no more data than
before, and the collector's pointers turn to no other block. And the block of the header
itself is not erased: `yaffs_chunk_del` does not when `has_shrink_hdr` is set, and the
collector comes only to blocks that owe nothing.

`YaffsPagesProofs` proves `PagesCorrect`, `PagesSpec => []PagesTell`, for files and
pages of every size (`PagesAssumption`). `PagesTell` does not say what holds while a
write-back or a change of size is under way; the invariant `PagesInv` does:

* `CallerInv` and `BackInv`: the page being written, or written back, is up to date and
  has all the cells; the cells of a write-back lie below the end of the inode, except
  from `truncate_setsize`'s change of the size to its wait for the page;
* `SizeInv`: but within a `setattr` the sizes of inode and file are the same, or the file is
  the longer one after a failed write past the end;
* `CellInv(c)`: past the end of the inode nothing but zeros was written; a page that is
  up to date has what was written (below the end only, until the pages are cut), but for
  what is `stale`; what is in no dirty page and in no write-back is in the file. What a write
  is about to put into the file is not stale.

Where pages end is arithmetic (`Division`, `PageBounds`), what a write does to a file
one lemma (`Written`), and what a read brings into a page another (`ReadTells`), which is
where a read that overtakes a cut makes cells stale. Then each action has its lemma.

`YaffsSuperProofs` proves `FlagIsRight`, `SuperSpec => []FlagTellsAll`, and
`SyncsWriteAll`, `SuperSpec => []SyncWritesAll`, for any files, directories and syncing
processes. A sync looks at `s_dirt` before it has the lock and goes away if it is clear, so
the flag has to be right between any two steps of the others. Its invariant is

* `ReachInv`: a flush gets to an object that is not yet saved only through its inode or
  the list of dirty directories, so every such object has the one or is on the other, or is
  one of `stray`, which nobody can reach any more (see the known defects);
* `MountInv` and `ThreadInv`: what a mount, remount or unmount has done so far, and whether
  the background thread runs, step by step, since others come between the steps;
* `FlagInv`: on a device that is mounted, and is not just being mounted, a clear flag means
  that nothing has to be written;
* `SyncInv`: a sync that has found the flag clear, or has returned, has nothing left of what
  it had to write as it was called.

`YaffsCacheProofs` is about the cache between the calls on files and the flash, for any
number of files, buffers and chunks, chunks of any length, and any number of failed writes
(`CacheAssumption`):

| Theorem | Statement |
|---|---|
| `CacheInvariance` | `Spec => []CacheInv` |
| `BuffersKnown` | `Spec => []BuffersSound` |
| `ReserveTaken` | `Spec => []ReserveOverdraft` |
| `BytesImplemented` | `Spec => ImplementsBytes` |

A call is a queue of jobs, and others come between them, so what makes a step right was
often established by a job long done. `CacheInv` is the conjunction of

* `CacheType`: the types, and the jobs there are;
* `DataInv`, between any two jobs: a chunk has one buffer at most (`OneBuffer`), a clean
  one is as on flash (`CleanInv`); chunks that begin beyond the end of a file are blank
  whatever is refused (`Beyond`), and so is the rest of the last one until a write is
  (`PastEnd`); and what is on flash or will be when the cache is flushed leaves the reserve
  alone but for one chunk less than there are buffers (`Overdraft`);
* `QueueInv`: which jobs may be left, by the job at hand;
* `FillInv`, `FillWriteInv` and `HoleInv`, while a hole is filled: what lies beyond its
  beginning is blank or in dirty buffers, so that a failure can be undone by a truncation
  that reads no old data; the first piece reaches the end of its chunk, or all of the hole;
* `LoadedInv`: a chunk that was loaded for a write is in the cache and there still is room,
  which was asked for before the buffer was taken;
* `DownInv`: as a truncation reaches its last steps, no buffer holds data beyond its end,
  because the call has flushed and given up the buffers, or because it undoes a hole.

Without the last four, a state can be written down from which one step brings old bytes
back behind the end of a file, or turns a buffer dirty for which there is no room.
`Overdraft` counts chunks, not buffers, so a flush does not change it, nor an eviction; the
lemmas about `Claimed` say so. The refinement has one lemma for each kind of step: those
that leave the bytes of all files alone (loads, flushes, evictions, headers, the steps of a
hole), and those that do what was asked for, to one chunk (`WriteDirect`, `WriteCached`),
to the size (`Grow`), or to both (`ResizeDown`). A step where the flash refuses a write is
a step of YaffsBytes too, with the chunk added to `doubt`.

`YaffsLogProofs` and `YaffsScanProofs` are about one file on the flash, with power
failures and mounts, for every geometry, size of file, threshold for small holes, and any
number of power failures (`GeometryAssumption`, `LogAssumption`):

| Theorem | Statement |
|---|---|
| `LogInvariance` | `Spec => []IInv` |
| `LogTypeCorrect` | `Spec => []TypeOK` |
| `LogAccounted` | `Spec => []Accounted` |
| `LogScanInvariance` | `Spec => []ScanInv` |
| `LogScanFindsContent` | `Spec => []ScanFindsContent` |
| `LogScanFindsFile` | `Spec => []ScanFindsFile` |
| `LogImplementsStore` | `Spec => ImplementsStore` |

The first module says how flash, block table and file belong together. `IInv` is the
conjunction of the types and of

* `FlashInv(nand)`, with the power on or off: the pages of a block are programmed in
  order, under a sequence number that no other block has, and there is a header;
* `Sane(dev, InUse)`, while mounted: the invariants of the block table (`DevInv`, `Owned`,
  `Count`, from YaffsDeviceLemmas), for the chunks that tree, `hdr_chunk` and a pending
  deletion point at, on a device without bad blocks;
* `FlashMatches`: what is programmed is in a block in use that bears its sequence number,
  and before `alloc_page` if that is the allocating block, where there is no gap;
* `FileMatches` and `OldInv`: tree and `hdr_chunk` point at chunks of their kind, and a
  replaced chunk is not in the file any more.

After a mount all of this has to be true of what the scan has computed, so the proof also
follows `FoundFile` and `FoundDev` (`FoundFileIs`, `FoundDevSane`).

The second module says that the scan and RAM agree on the file. The scan goes by what is
newer than what, so `NewerOrder` shows that this orders the chunks on flash; RAM goes by the
tree. `ScanInv` is, while mounted, the conjunction of

* `FileSound`: `hdr_chunk` is the newest header; no header cuts a chunk of the file off; the
  other chunks of each id are older than the one in the tree, or, if there is none, each is
  cut off by a header; the history `content` is what the chunks say; and the scan comes to no
  larger size. Chunks in `doubt` are excepted;
* `SettledTo`: up to the end of the file, each chunk is there or all its copies are cut off
  by *shrink* headers, which, unlike the newest header, go on saying so when the file grows;
* `Guarded`: a block in use that is not marked `has_shrink_hdr`, and every block the
  collector has begun or remembers, is `Clear`: what its shrink headers cut off is in the same
  block. So whatever is erased, nothing comes back;
* `JobsLead`: if a job of the call makes the file grow over a chunk, that chunk is settled,
  or a job before it will settle it (the header of a large hole, the zeros of a small one).
  `JobsShape`, `JobDone` and `CutsAhead` say which jobs may be left, and that chunks beyond
  the end are in doubt only until the header that follows a truncation.

With the power off, `DownInv` keeps what a mount needs: a scan finds `content`, and what it
finds is settled. What makes this inductive is `oldest_dirty_seq`: the collector may take
a block with a shrink header only when no older block is dirty, and chunks that are cut off
make their block dirty (`NoOlderClear`). `BlankedSound`, `DataSound`, `HdrSound` and
`CutSound` say what an erasure, a chunk of data, a header, and a cut in RAM do to `FileSound`
on any flash; each action has a lemma that puts them together. `FoundSound` shows that what
the scan computes is sound, with nothing in doubt, and `SoundUnique` that there is only one
such file for a flash; this is how `ScanFindsFile` follows from the invariant, and a mount
after a power failure keeps it.

`YaffsVfsProofs` is about the inodes and dentries of Linux over the objects of the core,
for any number of inode numbers, names, directories and processes (`VfsAssumption`):

| Theorem | Statement |
|---|---|
| `VfsInvariance` | `Spec => []IInv` |
| `VfsCachesTell` | `Spec => []CachesTell` |
| `VfsSearchStands` | `Spec => []SearchStandsOnEntry` |

`CachesTell` alone does not say why the lists of the core are right, nor what a process
that has let the lock go may still rely on when it comes back. `IInv` is the types and

* `CoreSound(core)`: the list of a directory holds its entries, the list of a file the links
  to it, each once; a file without a name has no links and is there for its inode; all that
  a name leads to is one file, and a file has a name once only;
* `CallInv`: a lookup or a creation in progress has its directory for itself, the name it is
  about still leads to the number it found, and no two of them fill one inode;
* `InodeInv`: where an inode is between `iget`, where only the number is known, and the end
  of its eviction, and that it counts the same links as the object while it is live;
* `DentryInv`: a cached name leads to a live inode, the one of its file, and a name cached as
  absent leads nowhere, but for the one that is being created;
* `Stands(call, core)`: each search stands on an entry of its directory.

The actions see the core through few predicates, most of all `Leads(c, n, f)`, the name `n`
leads to the file `f`. Each operation of the core has a lemma that says what becomes of
these: what an unlink leaves (`UnlinkSound`; when a file loses its own name and has links,
it takes the name of one of them and the link goes), what a rename does to the two names
(`RenameSound`), what a creation adds (`CreateSound`), and what the end of an eviction does
(`MarkedSound`, `GoneSound`). `Movers` are the objects that such an unlink takes from their
lists, the link as well as the file; `UnlinkedSearches` shows that the searches have been
driven off all of them. `UnseenKeeps` says that no cached name, open file or call in
progress is about an inode that is neither new nor live, which is what lets an eviction go
on although the lock is let go between its two halves. Then each action has its lemma.

### Model-checked only

* Liveness (`CallReturns`, `WorkGetsDone`): outside the prover's reach.
* The refinements `ImplementsNames` and `CallsAreAtomic`, `ReserveSuffices`, which is about
  how many chunks a collection needs, and the invariants of the other modules. YaffsTnodes
  and YaffsPaths use recursive operators, which the prover does not take.

## Known defects

Writing the models down showed what follows. The properties above are checked in
instances without these cases; where the text names a definition, a run without it shows
the case. Line numbers are those of this copy of the code.

### Core

* `gc_dirtiest` survives a format of the mounted device (G 2572): an EMPTY block is
  "collected" and counted as erased twice.
* A truncation cut off by a power failure can leave a hole with no shrink header before
  it: deleting chunks "backwards" (G 3505) does not prevent it, since what reaches the
  flash is the erasure of blocks. The next header can bring chunks of an earlier
  truncation back into the hole. In a small partition this passes with the erasure of
  the old header's block; where that holds other live data, it lasts.
* `yaffs_wr_data_obj` moves `stored_size` before it knows that its write succeeds (G 2869).
  After a write past the end that was refused, the next header claims a size the file does not
  have, and a chunk of that id that an earlier truncation has cut off may be in the file after
  a mount (`DataRefused` puts it in `doubt`, `Refuse` of YaffsStore says so).
* A file extended by `ftruncate` is shorter again after a mount by scan: no header
  is written for a growth without data (G 3583).
* When the write of a whole chunk past the cache is refused for lack of space, the
  buffer with what an earlier write left there is dropped (G 3455).
* `yaffs_resize_file_down` ignores whether the write that pads the last chunk with zeros
  succeeded (G 3553): if it was refused, the old data stays on flash behind the new end,
  and a later growth of the file brings it out (`Resize` of YaffsBytes says so).
* `yaffs_do_file_wr` takes 0 for success, and `yaffs_wr_data_obj` returns 0 when it has
  no tnode (G 3458).
* A save that finds no room for a checkpoint (K 223) leaves the stream of the last
  restore in place, for writing; its close flushes the old buffer into a block that is
  EMPTY by then or holds data (`spoilt`), also after a restore that was complete, since
  `checkpt_byte_offs` and `checkpt_cur_block` stay those of the last read. And the close
  ignores a failed flush (K 442): `is_checkpointed` is set for a stream without an end, and
  the next mount scans (`lost`). So it is with a program that fails (K 317).
* A rename over a target that has hard links, cut off by a power failure, makes the next
  mount delete the target and leave its links dangling (`Sheltered`).
* A power failure while an object with links has taken the name of one of them, and the
  link is yet to be deleted, leaves two entries for it (G 3866, `Sheltered`).
* A collection during `yaffs_strip_deleted_objs` may copy a header that shadows another
  without its mark (`Sheltered`).
* Renaming a hard link to the name of the file it is a link to (G 3969) unlinks the
  file, which takes the link's name, its own (G 3866), so the link survives: two entries
  of a directory have one name, which `yaffs_create_obj` is at pains to prevent (G 1956).
* `pages_in_use` and `soft_del_pages` have ten signed bits (`yaffs_guts.h` 304): a block
  of 512 chunks or more overflows them.
* yaffs1: a collection cut into parts leaves unmarked copies for longer than the two-bit
  serial number can tell (`GcMaxCopies < PagesPerBlock` in YaffsOne); `n_clean_ups` is
  reset when a block is chosen, so a list of soft-deleted files gathered before is lost
  (G 2691); a truncation within a chunk that is cut off leaves the old size, with zeros
  behind the new one.
* A name of exactly `YAFFS_MAX_NAME_LENGTH` characters is accepted (D 447, L 1591,
  G 3951), but one less is stored, 253 of two bytes where the encoding is chosen by the
  name: it is never found and can be created again. A rename to a long name whose header
  cannot be written leaves an object that is found under neither name.
* `lost+found`, before it has a header, gets the sum 0 with its first update: it is listed
  but not found until the next mount. Times before 1970 read back as 32 bits.
* While details are loaded, a header that cannot be read counts as one of zeros
  (`yaffs_update_oh` may then write it); where the old header cannot be read, what is
  written comes from a buffer nobody has filled. The length of a symbolic link that was
  not loaded is 0. `yaffs_verify_oh` is called after the byte order was changed (G 3178).
* An attribute record that fills the header exactly is accepted, never seen, and
  overwritten by the next; `has_xattr` is changed before the header is written, which may
  fail (G 2927), and the attribute whose removal failed is then not found any more; a header
  made although the old one could not be read has no attributes (G 3089); `nval_del` copies overlapping ranges with `memcpy`.
* Summaries: a header's `block` is not checked; one that can be read in part counts its
  chunks twice, and `chunks_used` is over-estimated; a failed write of the last chunk it
  covers is believed after a power failure.
* Tags: the code of yaffs2 tags is not in `stored_endian` order; in yaffs1 a flipped bit
  of the code itself is answered by changing a bit of the tags;
  `yaffs_tags_marshall_query_block` uses tags it has not read when the driver fails.
* `yaffs_guts_initialise`: "chunk group too large" fails with `is_mounted` set
  (G 4611, 4667), so the next start returns at once, and an end of such a device is a
  `BUG()`; `yaffs_guts_cleanup` runs with directories that a second failure left NULL
  (G 4763-4779; `wild` in YaffsStart, where `StartsWhole` says that nothing else leads
  there); `yaffs_guts_ll_init`
  that fails after the temporary buffers leaks them; some tnodes leak with a tree that
  could not be made taller.

### Yaffs Direct

* A device unmounted by force while a call is between two pieces lets its handles be
  given to files of others, which the call then goes on with, and so does a handle that is
  closed once more than it was opened; the use it gives back at its end is the other's
  (`orphan` in YaffsHandles).
* Paths: the depth of links does not count links on the way, only the last of each level;
  `yaffsfs_CheckPath` refuses to pass through a directory whose name has the greatest
  length; a bad directory inside a link's target is reported as `ENOENT`; a hard link to a
  relative link is resolved from the directory of the original; hard links to directories
  are allowed; `open` with `O_CREAT` on a dangling link says `ENOSPC`; `mkdir`, `link` and
  `rename` accept "." and ".." as a last name; `readlink` does not check the path,
  `setxattr` and `removexattr` do not check for a read-only device, `truncate` does twice; a
  rename or unlink that the core refuses sets no error; `max_objects` may be exceeded by one.

### Linux

* `yaffs_remount_fs` makes the device read-only before it stops the thread (L 2796, 2804),
  whose last work is then refused; `kthread_stop` may be called for a thread that has
  ended by itself.
* A sync that finds a checkpoint but dirty data leaves none; the put-off header of an inode
  that was evicted is not written by a sync.
* `readdir` may skip or repeat entries when a file with several links is unlinked.
* A stale NFS handle makes an inode without an object, whose number may be used again.
* `yaffs_hold_space` sets nothing aside: a `write_end` that fails leaves its data in a page
  that is up to date. When `yaffs_wr_file` has filled the gap before a write past the end,
  and the write fails, the file is longer than its inode (`past.longer` in YaffsPages).
* A page read between `truncate_setsize` and `yaffs_resize_file` at the new end keeps the
  old tail, which a later extension brings out (`Overtaken`).

## What is not modelled, and why

* In all models of the log but YaffsBlocks and YaffsCache a flash operation succeeds or the
  power fails; programs are atomic. Pages that a power failure leaves torn are left out, as
  is what the code does on tags with errors it cannot correct.
* Files and their data are in YaffsLog one at a time, in whole chunks; the order of data of
  several files is in no module, the scan looks at each by itself. In YaffsCache there is no
  mount, in YaffsCheckpt no collection; a checkpoint with more than it describes
  (objects, in particular) is reduced to what a mount must find.
* The time-dependent parts: the block-refresh period, the choice of a cache victim by
  age, `gc_control_fn`, urgency of background collection. Each is an arbitrary choice.
* Inband tags but for their packing: they go past the cache or through it in other chunks.
* Symbolic links and special files in YaffsObjects, attributes and owners everywhere: no
  property depends on them.
* `yaffs_vfs_single.c` is superseded by the version for several kernels. It does not
  compile: `yaffs_flush_inodes` (1487-1519) uses a variable it does not declare, and gives
  an inode back before it goes on from it; where it differs otherwise, it is by what the
  newer one has put right (the super block's flag cleared after the lock is let go, a
  remount that sets one field, a lookup without the lock inside `filldir`).
* In L: NFS handles, options of a mount, `/proc`, extended attributes, translations of
  types.
* The MTD drivers and the RTEMS glue translate calls; utilities make images; tests are
  read for what they expect.

## Plan

1. Theorems: `TablesAgree` of YaffsHandles for the callers of `OrderlySpec`; that the
   reserve of YaffsLog suffices.
2. YaffsLog with two files, for the order of their data under one collection, and with torn
   pages.
3. YaffsCheckpt over the blocks of YaffsDevice, so that a collection meets a checkpoint.
4. YaffsOne with collections in parts, once the serial numbers have been dealt with.
