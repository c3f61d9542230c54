----------------------------- MODULE YaffsCheckpt -----------------------------
(***************************************************************************)
(* Checkpoints: core/yaffs_checkptrw.c and the calls of                    *)
(* core/yaffs_yaffs2.c that save, restore and invalidate them, with the    *)
(* writes, erasures, mounts and power failures that a checkpoint must      *)
(* survive or must not.                                                    *)
(*                                                                         *)
(* The log is reduced to the newest chunk of each id: a write puts a chunk *)
(* with a number on flash, and a scan finds the chunk of an id that has    *)
(* the highest.  A checkpoint is a stream of five pages: the device        *)
(* values, the states of the first half of the blocks and of the others,   *)
(* the tree, and the end marker with the checksum.  What a page says is    *)
(* what held when it was filled, after the page before it had been         *)
(* written.  Checksums are taken to tell any two streams apart.  One step  *)
(* does at most one flash program, erasure or marking of a bad block.      *)
(***************************************************************************)
EXTENDS Integers, FiniteSets, Sequences, TLC

CONSTANTS
    NBlocks,          \* blocks 1 .. NBlocks
    ChunksPerBlock,   \* param.chunks_per_block
    NReservedBlocks,  \* param.n_reserved_blocks
    CheckptBlocks,    \* checkpoint_blocks_required
    ListDivisor,      \* the 16 in the size of checkpt_block_list
    Ids,              \* the chunks of files
    None,             \* no chunk
    MaxWrites,        \* bound: data chunks written
    MaxCrashes,       \* bound: power failures
    MaxFaults         \* bound: checkpoint pages, and erasures, that fail

ASSUME CheckptAssumption ==
    /\ {NBlocks, ChunksPerBlock, NReservedBlocks, ListDivisor} \subseteq Nat \ {0}
    /\ {CheckptBlocks, MaxWrites, MaxCrashes, MaxFaults} \subseteq Nat

VARIABLES
    nand,    \* what is on each page
    bad,     \* blocks with a bad block marker
    dev,     \* struct yaffs_dev and the tree, in RAM
    cp,      \* the checkpt_... fields of struct yaffs_dev
    op,      \* the call in progress
    lost,    \* history: a page of the stream did not get to flash
    spoilt,  \* history: a save that was refused has written to flash
    writes, crashes, faults

vars == <<nand, bad, dev, cp, op, lost, spoilt, writes, crashes, faults>>

Blocks == 1 .. NBlocks
Pages == 0 .. ChunksPerBlock - 1
States == {"EMPTY", "ALLOCATING", "FULL", "CHECKPOINT", "DEAD"}

Blank == [kind |-> "blank"]
Torn == [kind |-> "torn"]
DataPage(i, n) == [kind |-> "data", id |-> i, n |-> n]

BlocksIn(d, state) == {b \in Blocks : d.state[b] = state}

ChunksInUse(d) == {d.tree[i] : i \in Ids} \ {None}

InUse(d, b) == {c \in ChunksInUse(d) : c[1] = b}

\* A page is programmed once.
Programmed(b, p, x) ==
    [nand EXCEPT ![b][p] = IF @ = Blank THEN x ELSE Torn]

Fault(ok) == \/ ok /\ faults' = faults
             \/ ~ok /\ faults < MaxFaults /\ faults' = faults + 1

\* A block whose erasure fails is as it was, and is to get a marker.
EraseBlock(b, ok) ==
    /\ op.mark = 0
    /\ Fault(ok)
    /\ nand' = IF ok THEN [nand EXCEPT ![b] = [p \in Pages |-> Blank]] ELSE nand

Goto(pc) == op' = [op EXCEPT !.pc = pc]

-----------------------------------------------------------------------------
(* The stream.                                                             *)

StreamPages == 5

Lower == 1 .. NBlocks \div 2

\* What page k of the stream says now.
Content(d, k) ==
    CASE k = 1 -> [n_erased_blocks |-> d.n_erased_blocks,
                   n_free_chunks |-> d.n_free_chunks,
                   alloc_block |-> d.alloc_block, alloc_page |-> d.alloc_page]
      [] k = 2 -> [state |-> [b \in Lower |-> d.state[b]]]
      [] k = 3 -> [state |-> [b \in Blocks \ Lower |-> d.state[b]]]
      [] k = 4 -> [tree |-> d.tree]
      [] k = 5 -> [end |-> TRUE]

\* The device when page k has been read.
Loaded(d, k, content) ==
    CASE k = 1 -> [d EXCEPT !.n_erased_blocks = content.n_erased_blocks,
                            !.n_free_chunks = content.n_free_chunks,
                            !.alloc_block = content.alloc_block,
                            !.alloc_page = content.alloc_page]
      [] k \in 2 .. 3 -> [d EXCEPT !.state = content.state @@ @]
      [] k = 4 -> [d EXCEPT !.tree = content.tree]
      [] k = 5 -> d

\* A page of the stream: the header in the buffer is the stream's unless the
\* buffer is one that the last mount has read.
CpPage(c, content) ==
    [kind |-> "checkpt", seq |-> c.page_seq + 1, next |-> c.next_block,
     sum |-> IF op.opened THEN c.sum ELSE None, content |-> content]

NoStream == [open_write |-> FALSE, byte_offs |-> "hdr", cur_block |-> -1,
             cur_chunk |-> -1, next_block |-> 1, page_seq |-> 0, sum |-> <<>>,
             buffer |-> [end |-> FALSE], list |-> {}]

blocks_avail(d) == d.n_erased_blocks - NReservedBlocks

slip_find_erased_block(d, c) ==
    LET found == {b \in BlocksIn(d, "EMPTY") : b >= c.next_block}
    IN  IF c.next_block > 0 /\ blocks_avail(d) > 0 /\ found # {}
        THEN LET b == CHOOSE b \in found : \A x \in found : b <= x
             IN  [c EXCEPT !.next_block = b, !.cur_block = b, !.cur_chunk = 0]
        ELSE [c EXCEPT !.next_block = -1, !.cur_block = -1, !.cur_chunk = 0]

\* yaffs2_checkpt_find_erased_block().
find_erased_block(d, c) ==
    LET found == {b \in BlocksIn(d, "EMPTY") : b >= c.next_block}
    IN  IF c.next_block > 0 /\ blocks_avail(d) > 0 /\ found # {}
        THEN LET b == CHOOSE b \in found : \A x \in found : b <= x
             IN  [c EXCEPT !.next_block = b + 1, !.cur_block = b, !.cur_chunk = 0]
        ELSE [c EXCEPT !.next_block = -1, !.cur_block = -1, !.cur_chunk = 0]

checkpt_max_blocks == (NBlocks - 1) \div ListDivisor + 2

slip_find_block(fl, c) ==
    LET found == {b \in Blocks : b >= c.next_block /\ fl[b][0].kind = "checkpt"}
    IN  IF Cardinality(c.list) < checkpt_max_blocks /\ found # {}
        THEN LET b == CHOOSE b \in found : \A x \in found : b <= x
             IN  [c EXCEPT !.next_block = fl[b][0].next, !.cur_block = b,
                           !.cur_chunk = 0, !.list = @ \cup {b}]
        ELSE [c EXCEPT !.next_block = -1, !.cur_block = -1, !.cur_chunk = 0]

\* yaffs2_checkpt_find_block(), in flash fl.
find_block(fl, c) ==
    LET found == {b \in Blocks \ bad : b >= c.next_block /\ fl[b][0].kind = "checkpt"}
    IN  IF Cardinality(c.list) < checkpt_max_blocks /\ found # {}
        THEN LET b == CHOOSE b \in found : \A x \in found : b <= x
             IN  [c EXCEPT !.next_block = fl[b][0].next, !.cur_block = b,
                           !.cur_chunk = 0, !.list = @ \cup {b}]
        ELSE [c EXCEPT !.next_block = -1, !.cur_block = -1, !.cur_chunk = 0]

\* yaffs2_checkpt_flush_buffer(): "at" is the stream with a block to write to,
\* if there is any left.  Whether the page was programmed nobody asks.
flush_buffer(ok) ==
    LET at == IF cp.cur_block < 0 THEN find_erased_block(dev, cp) ELSE cp
        b == at.cur_block
        last == at.cur_chunk + 1 = ChunksPerBlock
    IN  IF b < 0
        THEN ok /\ cp' = at /\ lost' = TRUE /\ UNCHANGED <<nand, dev, faults>>
        ELSE /\ Fault(ok)
             /\ lost' = (lost \/ ~ok)
             /\ nand' = Programmed(b, at.cur_chunk,
                                   IF ok THEN CpPage(at, at.buffer) ELSE Torn)
             /\ dev' = IF at.cur_chunk = 0
                       THEN [dev EXCEPT !.state[b] = "CHECKPOINT", !.blocks_in_checkpt = @ + 1]
                       ELSE dev
             /\ cp' = [at EXCEPT !.page_seq = @ + 1, !.sum = Append(@, at.buffer),
                                 !.cur_chunk = IF last THEN 0 ELSE @ + 1,
                                 !.cur_block = IF last THEN -1 ELSE @,
                                 !.byte_offs = "hdr"]

\* yaffs2_checkpt_rd() up to the end of the next page: the stream after it,
\* and whether the page was one of it.
ReadPage(fl, c) ==
    LET at == IF c.cur_block < 0 THEN find_block(fl, c) ELSE c
        x == fl[at.cur_block][at.cur_chunk]
        next == at.cur_chunk + 1
    IN  IF at.cur_block < 0 \/ at.cur_chunk = ChunksPerBlock
        THEN [ok |-> FALSE, cp |-> at]
        ELSE IF x.kind # "checkpt" THEN [ok |-> FALSE, cp |-> at]
        ELSE IF x.seq # at.page_seq + 1 THEN [ok |-> FALSE, cp |-> at]
        ELSE IF x.sum # at.sum THEN [ok |-> FALSE, cp |-> [at EXCEPT !.byte_offs = "hdr"]]
        ELSE [ok |-> TRUE,
              cp |-> [at EXCEPT !.page_seq = @ + 1, !.sum = Append(@, x.content),
                                !.cur_chunk = next,
                                !.cur_block = IF next = ChunksPerBlock THEN -1 ELSE @,
                                !.byte_offs = IF x.seq = StreamPages THEN "part" ELSE "full",
                                !.buffer = x.content]]

-----------------------------------------------------------------------------
(* Invalidation.                                                           *)

\* yaffs2_checkpt_invalidate(), and then "then".
Invalidate(d, then) ==
    IF d.is_checkpointed \/ d.blocks_in_checkpt > 0
    THEN /\ dev' = [d EXCEPT !.is_checkpointed = FALSE]
         /\ op' = [op EXCEPT !.pc = "erase", !.then = then]
    ELSE dev' = d /\ Goto(then)

\* yaffs_checkpt_erase(), from the first block to the last.
EraseCheckpt ==
    /\ op.pc = "erase"
    /\ \E b \in BlocksIn(dev, "CHECKPOINT"), ok \in BOOLEAN :
        /\ \A x \in BlocksIn(dev, "CHECKPOINT") : b <= x
        /\ EraseBlock(b, ok)
        /\ dev' = IF ok THEN [dev EXCEPT !.state[b] = "EMPTY", !.n_erased_blocks = @ + 1,
                                         !.n_free_chunks = @ + ChunksPerBlock]
                        ELSE dev
        /\ op' = IF ok THEN op ELSE [op EXCEPT !.mark = b]
    /\ UNCHANGED <<bad, cp, lost, spoilt, writes, crashes>>

EraseEnd ==
    /\ op.pc = "erase"
    /\ BlocksIn(dev, "CHECKPOINT") = {}
    /\ dev' = [dev EXCEPT !.blocks_in_checkpt = 0]
    /\ Goto(op.then)
    /\ UNCHANGED <<nand, bad, cp, lost, spoilt, writes, crashes, faults>>

\* The block that was not erased is marked: by yaffs_checkpt_erase(), or by
\* yaffs_retire_block() for a block of the log, whose chunks were free.
MarkBad ==
    /\ op.mark # 0
    /\ LET b == op.mark
       IN  /\ bad' = bad \cup {b}
           /\ dev' = [dev EXCEPT !.state[b] = "DEAD",
                                 !.n_free_chunks =
                                     IF dev.state[b] = "CHECKPOINT" THEN @
                                     ELSE @ - ChunksPerBlock]
    /\ op' = [op EXCEPT !.mark = 0, !.pc = IF @ = "dirty" THEN "idle" ELSE @]
    /\ UNCHANGED <<nand, cp, lost, spoilt, writes, crashes, faults>>

-----------------------------------------------------------------------------
(* Writing data.                                                           *)

\* yaffs_check_alloc_available() for one chunk.
check_alloc_available(d) ==
    LET checkpt == IF CheckptBlocks > d.blocks_in_checkpt
                   THEN CheckptBlocks - d.blocks_in_checkpt ELSE 0
    IN  d.n_free_chunks > (NReservedBlocks + checkpt) * ChunksPerBlock + 1

slip_WriteChunk(i, use_reserver) ==
    /\ op.pc = "idle"
    /\ writes < MaxWrites
    /\ dev' = [dev EXCEPT !.is_checkpointed = FALSE]
    /\ op' = [op EXCEPT !.id = i, !.use_reserver = use_reserver, !.pc = "program"]
    /\ UNCHANGED <<nand, bad, cp, lost, spoilt, writes, crashes, faults>>

\* yaffs_write_new_chunk(): first of all the checkpoint goes.  Object headers
\* and the copies of the collector may use the reserve.
WriteChunk(i, use_reserver) ==
    /\ op.pc = "idle"
    /\ writes < MaxWrites
    /\ LET call == [op EXCEPT !.id = i, !.use_reserver = use_reserver]
       IN  IF dev.is_checkpointed \/ dev.blocks_in_checkpt > 0
           THEN /\ dev' = [dev EXCEPT !.is_checkpointed = FALSE]
                /\ op' = [call EXCEPT !.pc = "erase", !.then = "program"]
           ELSE dev' = dev /\ op' = [call EXCEPT !.pc = "program"]
    /\ UNCHANGED <<nand, bad, cp, lost, spoilt, writes, crashes, faults>>

\* The device with a block to allocate from, if there is one.
WithAllocBlock(d) ==
    IF d.alloc_block # 0 THEN {d}
    ELSE IF d.n_erased_blocks < 1 \/ BlocksIn(d, "EMPTY") = {} THEN {}
    ELSE {[d EXCEPT !.state[b] = "ALLOCATING", !.n_erased_blocks = @ - 1,
                    !.alloc_block = b, !.alloc_page = 0] : b \in BlocksIn(d, "EMPTY")}

Program ==
    /\ op.pc = "program"
    /\ \E d \in WithAllocBlock(dev) :
        /\ op.use_reserver \/ check_alloc_available(d)
        /\ LET b == d.alloc_block
               p == d.alloc_page
               full == p + 1 = ChunksPerBlock
               old == d.tree[op.id]
               taken == [d EXCEPT !.alloc_page = p + 1,
                                  !.state[b] = IF full THEN "FULL" ELSE @,
                                  !.alloc_block = IF full THEN 0 ELSE @,
                                  !.n_free_chunks = IF old = None THEN @ - 1 ELSE @,
                                  !.tree[op.id] = <<b, p>>]
           IN  /\ nand' = Programmed(b, p, DataPage(op.id, writes + 1))
               /\ dev' = taken
               /\ op' = IF old # None /\ InUse(taken, old[1]) = {}
                           /\ taken.state[old[1]] = "FULL"
                        THEN [op EXCEPT !.pc = "dirty", !.block = old[1]]
                        ELSE [op EXCEPT !.pc = "idle"]
    /\ writes' = writes + 1
    /\ UNCHANGED <<bad, cp, lost, spoilt, crashes, faults>>

ProgramRefused ==
    /\ op.pc = "program"
    /\ \/ WithAllocBlock(dev) = {} /\ dev' = dev
       \/ \E d \in WithAllocBlock(dev) :
            ~op.use_reserver /\ ~check_alloc_available(d) /\ dev' = d
    /\ Goto("idle")
    /\ UNCHANGED <<nand, bad, cp, lost, spoilt, writes, crashes, faults>>

\* yaffs_block_became_dirty(), after it has invalidated the checkpoint.
Emptied(d, b, ok) ==
    IF ok THEN [d EXCEPT !.state[b] = "EMPTY", !.n_erased_blocks = @ + 1] ELSE d

BecameDirty ==
    /\ op.pc = "dirty"
    /\ \E ok \in BOOLEAN :
        /\ EraseBlock(op.block, ok)
        /\ dev' = Emptied(dev, op.block, ok)
        /\ op' = IF ok THEN [op EXCEPT !.pc = "idle"] ELSE [op EXCEPT !.mark = op.block]
    /\ UNCHANGED <<bad, cp, lost, spoilt, writes, crashes>>

-----------------------------------------------------------------------------
(* Saving.                                                                 *)

\* yaffs_checkpoint_save(), by sync or before the device is unmounted.
Save(last) ==
    /\ op.pc = "idle"
    /\ ~dev.is_checkpointed
    /\ LET call == [op EXCEPT !.last = last]
       IN  IF dev.blocks_in_checkpt > 0
           THEN op' = [call EXCEPT !.pc = "erase", !.then = "open"]
           ELSE op' = [call EXCEPT !.pc = "open"]
    /\ UNCHANGED <<nand, bad, dev, cp, lost, spoilt, writes, crashes, faults>>

\* yaffs2_checkpt_open() for writing: without room for a block nothing is
\* prepared, except that the stream is one for writing.
Open ==
    /\ op.pc = "open"
    /\ IF blocks_avail(dev) <= 0
       THEN /\ cp' = [cp EXCEPT !.open_write = TRUE]
            /\ op' = [op EXCEPT !.pc = "close", !.ok = FALSE, !.opened = FALSE]
       ELSE /\ cp' = [NoStream EXCEPT !.open_write = TRUE]
            /\ op' = [op EXCEPT !.pc = "erase", !.then = "stream", !.ok = TRUE,
                                !.opened = TRUE]
    /\ lost' = FALSE
    /\ UNCHANGED <<nand, bad, dev, spoilt, writes, crashes, faults>>

\* yaffs2_checkpt_wr(): bytes fill the buffer, up to the end of a page or of
\* the stream, which may be the end of a page too.
FillBuffer ==
    /\ op.pc = "stream" /\ cp.byte_offs = "hdr"
    /\ LET k == cp.page_seq + 1
       IN  \E offs \in IF k = StreamPages THEN {"part", "full"} ELSE {"full"} :
               /\ cp' = [cp EXCEPT !.buffer = Content(dev, k), !.byte_offs = offs]
               /\ Goto(IF offs = "part" THEN "close" ELSE "stream")
    /\ UNCHANGED <<nand, bad, dev, lost, spoilt, writes, crashes, faults>>

\* The buffer is full.  A flush that finds no block ends the saving, unless it
\* was for the last byte of an item: yaffs2_checkpt_wr() has then written all
\* it was asked to, and it is the next item that fails, if there is one.
FlushPage ==
    /\ op.pc = "stream" /\ cp.byte_offs = "full"
    /\ \E ok \in BOOLEAN : flush_buffer(ok)
    /\ LET end == cp.page_seq + 1 = StreamPages
       IN  IF cp'.byte_offs = "hdr" \/ end
           THEN Goto(IF end THEN "close" ELSE "stream")
           ELSE op' \in {op, [op EXCEPT !.pc = "close", !.ok = FALSE]}
    /\ UNCHANGED <<bad, spoilt, writes, crashes>>

\* yaffs_checkpt_close() after writing: what is in the buffer is flushed, and
\* the result ignored.  After a save that was refused the buffer and the page
\* may be those that the last mount read, and the page one of the log by now.
CloseFlush ==
    /\ op.pc = "close" /\ cp.open_write
    /\ IF cp.byte_offs = "hdr" THEN UNCHANGED <<nand, dev, cp, lost, faults>>
                               ELSE \E ok \in BOOLEAN : flush_buffer(ok)
    /\ spoilt' = (spoilt \/ (nand' # nand /\ ~op.opened))
    /\ Goto("closed")
    /\ UNCHANGED <<bad, writes, crashes>>

slip_Closed(d, ok) ==
    [d EXCEPT !.n_free_chunks = @ - d.blocks_in_checkpt * ChunksPerBlock,
              !.is_checkpointed = ok]

\* The rest of it: the blocks of the checkpoint are taken off the counts.
Closed(d, ok) ==
    [d EXCEPT !.n_free_chunks = @ - d.blocks_in_checkpt * ChunksPerBlock,
              !.n_erased_blocks = @ - d.blocks_in_checkpt,
              !.is_checkpointed = ok]

NoDev == [state |-> [b \in Blocks |-> "EMPTY"], n_erased_blocks |-> 0,
          n_free_chunks |-> 0, alloc_block |-> 0, alloc_page |-> 0,
          blocks_in_checkpt |-> 0, is_checkpointed |-> FALSE,
          tree |-> [i \in Ids |-> None]]

Off == [pc |-> "off", then |-> "idle", last |-> "idle", id |-> None, block |-> 0,
        mark |-> 0, use_reserver |-> FALSE, ok |-> TRUE, opened |-> FALSE]

SaveEnd ==
    /\ op.pc = "closed" /\ cp.open_write
    /\ IF op.last = "off"
       THEN dev' = NoDev /\ cp' = NoStream /\ op' = Off
       ELSE /\ dev' = Closed(dev, op.ok)
            /\ cp' = [cp EXCEPT !.sum = <<>>]
            /\ op' = [Off EXCEPT !.pc = "idle"]
    /\ UNCHANGED <<nand, bad, lost, spoilt, writes, crashes, faults>>

\* yaffs_deinitialise() of a device that has been saved already.
Unmount ==
    /\ op.pc = "idle"
    /\ dev.is_checkpointed
    /\ dev' = NoDev /\ cp' = NoStream /\ op' = Off
    /\ UNCHANGED <<nand, bad, lost, spoilt, writes, crashes, faults>>

-----------------------------------------------------------------------------
(* Mounting.                                                               *)

\* yaffs_guts_initialise() up to the opening of the checkpoint.
Mount ==
    /\ op.pc = "off"
    /\ cp' = [NoStream EXCEPT !.byte_offs = "full"]
    /\ op' = [op EXCEPT !.pc = "read"]
    /\ lost' = FALSE
    /\ UNCHANGED <<nand, bad, dev, spoilt, writes, crashes, faults>>

Read ==
    /\ op.pc = "read"
    /\ LET r == ReadPage(nand, cp)
       IN  /\ cp' = r.cp
           /\ dev' = IF r.ok THEN Loaded(dev, r.cp.page_seq, r.cp.buffer) ELSE dev
           /\ op' = IF ~r.ok THEN [op EXCEPT !.pc = "close", !.ok = FALSE]
                    ELSE IF r.cp.page_seq = StreamPages THEN [op EXCEPT !.pc = "close"]
                    ELSE op
    /\ UNCHANGED <<nand, bad, lost, spoilt, writes, crashes, faults>>

\* yaffs_checkpt_close() after reading: the blocks that were read were empty
\* when the checkpoint was written.
Restored(d, c) ==
    Closed([d EXCEPT !.state = [b \in Blocks |->
                        IF b \in c.list /\ @[b] = "EMPTY" THEN "CHECKPOINT" ELSE @[b]],
                     !.blocks_in_checkpt = Cardinality(c.list)], TRUE)

\* What a restore that failed has left is cleared before the scan.
CloseRead ==
    /\ op.pc = "close" /\ ~cp.open_write
    /\ dev' = IF op.ok THEN Restored(dev, cp) ELSE NoDev
    /\ op' = [Off EXCEPT !.pc = IF op.ok THEN "idle" ELSE "scan"]
    /\ cp' = [cp EXCEPT !.sum = <<>>, !.list = {}]
    /\ UNCHANGED <<nand, bad, lost, spoilt, writes, crashes, faults>>

\* The data on flash, and the newest of each id.
DataChunks == {c \in Blocks \X Pages : c[1] \notin bad /\ nand[c[1]][c[2]].kind = "data"}

NumberOf(c) == nand[c[1]][c[2]].n

Newest(i) ==
    LET copies == {c \in DataChunks : nand[c[1]][c[2]].id = i}
    IN  IF copies = {} THEN None
        ELSE CHOOSE c \in copies : \A x \in copies : NumberOf(x) <= NumberOf(c)

FoundTree == [i \in Ids |-> Newest(i)]

\* yaffs2_scan_backwards(): a block is what its first page says it is, and
\* one that was only partly written is full.
FoundState(b) ==
    IF b \in bad THEN "DEAD"
    ELSE IF nand[b][0].kind = "blank" THEN "EMPTY"
    ELSE IF nand[b][0].kind = "checkpt" THEN "CHECKPOINT"
    ELSE "FULL"

FoundDev ==
    LET d == [NoDev EXCEPT !.state = [b \in Blocks |-> FoundState(b)], !.tree = FoundTree]
        gone == BlocksIn(d, "DEAD") \cup BlocksIn(d, "CHECKPOINT")
    IN  [d EXCEPT !.n_erased_blocks = Cardinality(BlocksIn(d, "EMPTY")),
                  !.blocks_in_checkpt = Cardinality(BlocksIn(d, "CHECKPOINT")),
                  !.n_free_chunks = (NBlocks - Cardinality(gone)) * ChunksPerBlock
                                        - Cardinality(ChunksInUse(d))]

\* What is left of a checkpoint goes, with the first block that is found to
\* hold nothing or else when the mount ends.
Scan ==
    /\ op.pc = "scan"
    /\ Invalidate(FoundDev, "sweep")
    /\ UNCHANGED <<nand, bad, cp, lost, spoilt, writes, crashes, faults>>

Sweepable == {b \in BlocksIn(dev, "FULL") : InUse(dev, b) = {}}

Sweep ==
    /\ op.pc = "sweep"
    /\ \E b \in Sweepable, ok \in BOOLEAN :
        /\ EraseBlock(b, ok)
        /\ dev' = Emptied(dev, b, ok)
        /\ op' = IF ok THEN op ELSE [op EXCEPT !.mark = b]
    /\ UNCHANGED <<bad, cp, lost, spoilt, writes, crashes>>

SweepEnd ==
    /\ op.pc = "sweep"
    /\ Sweepable = {}
    /\ Goto("idle")
    /\ UNCHANGED <<nand, bad, dev, cp, lost, spoilt, writes, crashes, faults>>

\* The power fails.
Crash ==
    /\ op.pc # "off"
    /\ crashes < MaxCrashes
    /\ crashes' = crashes + 1
    /\ dev' = NoDev /\ cp' = NoStream /\ op' = Off
    /\ UNCHANGED <<nand, bad, lost, spoilt, writes, faults>>

-----------------------------------------------------------------------------
Init ==
    /\ nand = [b \in Blocks |-> [p \in Pages |-> Blank]]
    /\ bad = {}
    /\ dev = NoDev /\ cp = NoStream /\ op = Off
    /\ lost = FALSE /\ spoilt = FALSE
    /\ writes = 0 /\ crashes = 0 /\ faults = 0

Calls ==
    \/ \E i \in Ids, use_reserver \in BOOLEAN : WriteChunk(i, use_reserver)
    \/ \E last \in {"idle", "off"} : Save(last)
    \/ Unmount
    \/ Mount

Next ==
    \/ Calls
    \/ EraseCheckpt \/ EraseEnd \/ MarkBad
    \/ Program \/ ProgramRefused \/ BecameDirty
    \/ Open \/ FillBuffer \/ FlushPage \/ CloseFlush \/ SaveEnd
    \/ Read \/ CloseRead \/ Scan \/ Sweep \/ SweepEnd
    \/ Crash

Spec == Init /\ [][Next]_vars

-----------------------------------------------------------------------------
(* Properties.                                                             *)

\* Device and stream keep their types; no counter leaves its range.
TypeOK ==
    /\ dev.state \in [Blocks -> States]
    /\ dev.n_erased_blocks \in 0 .. NBlocks
    /\ dev.n_free_chunks \in 0 .. NBlocks * ChunksPerBlock
    /\ dev.alloc_block \in 0 .. NBlocks
    /\ dev.tree \in [Ids -> (Blocks \X Pages) \cup {None}]
    /\ cp.cur_block \in Blocks \cup {-1}
    /\ cp.page_seq \in 0 .. StreamPages + 1

\* A mounted device has the newest chunk of each id: a mount from a checkpoint
\* finds what a scan would (yaffs2_checkpt_restore).  This is so until a save
\* that was refused has written into the log.
RestoredIsCurrent == op.pc = "idle" /\ ~spoilt => dev.tree = FoundTree

\* The counts that the checkpoint saves before its own blocks are taken, and
\* its closing corrects, agree with the blocks after every save and mount
\* (yaffs_verify_blocks, yaffs_verify_free_chunks).  A mounted device knows
\* every block with a page of a checkpoint, or it would not erase it when the
\* checkpoint is to go, and a block it takes for empty is blank.
BlocksCounted ==
    /\ spoilt \/ TypeOK
    /\ op.pc = "idle" /\ ~spoilt =>
        LET gone == BlocksIn(dev, "DEAD") \cup BlocksIn(dev, "CHECKPOINT")
        IN  /\ \A b \in Blocks, p \in Pages :
                  /\ nand[b][p].kind = "checkpt" =>
                        dev.state[b] = "CHECKPOINT" \/ b \in bad
                  /\ dev.state[b] = "EMPTY" => nand[b][p] = Blank
            /\ dev.n_erased_blocks = Cardinality(BlocksIn(dev, "EMPTY"))
            /\ dev.blocks_in_checkpt = Cardinality(BlocksIn(dev, "CHECKPOINT"))
            /\ dev.n_free_chunks = (NBlocks - Cardinality(gone)) * ChunksPerBlock
                                       - Cardinality(ChunksInUse(dev))

\* The checkpoint on flash is complete: a mount would be from it.
Restorable(fl) ==
    LET walk[k \in 0 .. StreamPages] ==
            IF k = 0 THEN [ok |-> TRUE, cp |-> NoStream]
            ELSE IF walk[k - 1].ok THEN ReadPage(fl, walk[k - 1].cp) ELSE walk[k - 1]
    IN  walk[StreamPages].ok

\* Nothing is written to the log, and nothing of it erased, while there is a
\* checkpoint on flash that a mount would take for the state of the device
\* (yaffs2_checkpt_invalidate).
GoneBeforeChange ==
    [][\A b \in Blocks, p \in Pages :
        nand'[b][p] # nand[b][p] /\ "data" \in {nand[b][p].kind, nand'[b][p].kind}
            => ~Restorable(nand) \/ spoilt']_vars

\* The flush that closes a checkpoint may find no block, and its result is
\* ignored (yaffs_checkpt_close): the device then takes itself for saved
\* although the stream has no end, and so it does when a page failed to be
\* programmed.  In any other case what it takes for saved is on flash, in
\* blocks that the next mount finds one after the other and has room for in
\* its list; and a stream that lost a page is never taken for a whole one.
SavedIsReadable ==
    op.pc = "idle" /\ dev.is_checkpointed /\ ~spoilt => (Restorable(nand) <=> ~lost)
=============================================================================
