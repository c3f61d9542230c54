----------------------------- MODULE YaffsBlocks -----------------------------
(***************************************************************************)
(* The block and chunk manager of yaffs (core/yaffs_guts.c): the write     *)
(* retry loop, chunk deletion and soft deletion, read and write errors,    *)
(* and the selection and incremental collection of blocks by the garbage   *)
(* collector, over the device of YaffsDevice.                              *)
(*                                                                         *)
(* "dev" is the part of struct yaffs_dev the manager owns.  "op" is the    *)
(* call in progress: the code runs under one lock, so at most one call is. *)
(* The files above are the set "held" of chunks that a tnode tree or an    *)
(* object's hdr_chunk points at, and the set "softs" of the data chunks of *)
(* soft-deleted files.                                                     *)
(***************************************************************************)
EXTENDS YaffsDevice

CONSTANTS
    WrAttempts,      \* yaffs_wr_attempts, 0 for no limit
    AlwaysCheckErased, \* param.always_check_erased
    GcMaxCopies,     \* copies of a passive collection, 5 in the code
    MaxSeq,          \* bound: no write starts once this many blocks were allocated
    MaxFaults        \* bound: flash failures in a behaviour

ASSUME BoundsAssumption ==
    /\ WrAttempts \in Nat /\ AlwaysCheckErased \in BOOLEAN
    /\ MaxSeq \in Nat /\ MaxFaults \in Nat
    /\ GcMaxCopies \in Nat /\ GcMaxCopies >= 1

VARIABLES
    dev,     \* struct yaffs_dev
    op,      \* the call in progress
    held,    \* chunks of live files and objects
    softs,   \* data chunks of soft-deleted files
    debts,   \* history: <<o, b>>, block o still holds chunks that a shrink
             \* header in block b makes the scan ignore
    faults   \* flash failures so far

vars == <<dev, op, held, softs, debts, faults>>

-----------------------------------------------------------------------------
(* Initial state: a mount has scanned an erased flash.  Blocks that were   *)
(* not erased by this mount have skip_erased_check clear.                  *)

Idle == [pc |-> "idle", replace |-> FALSE, reserve |-> FALSE, shrink |-> FALSE,
         background |-> FALSE, attempts |-> 0, aggressive |-> FALSE,
         max_copies |-> 0, max_tries |-> 0]

Init ==
    /\ dev = ErasedDevice
    /\ op = Idle
    /\ held = {} /\ softs = {} /\ debts = {}
    /\ faults = 0

\* Of the flash operations of a step, n fail, of the failures still allowed.
Faults(n) == faults + n <= MaxFaults /\ faults' = faults + n

\* One flash operation either works or uses up one of the allowed faults.
Fault(ok) == Faults(IF ok THEN 0 ELSE 1)

\* A debt is settled when the older block of the pair, that holds the chunks
\* the shrink header hides, is gone.
Settle(p, e) == {x \in p : x[1] \notin Erased(dev, e)}

-----------------------------------------------------------------------------
(* Calls of the file layer.  Each write first runs yaffs_check_gc().       *)

\* yaffs_update_oh() and yaffs_wr_data_obj(): write a new chunk, or one that
\* replaces another.  Which one is looked up after the collection, that may
\* move it.  A data write uses the reserve when its caller says so (a flush of
\* the cache does, of a new chunk too), a header when it replaces one; a
\* shrink header always does.
StartWrite(replace, reserve, shrink) ==
    /\ op.pc = "idle"
    /\ dev.seq_number < MaxSeq
    /\ replace => held # {}
    /\ shrink => replace /\ reserve
    /\ op' = [Idle EXCEPT !.pc = "check", !.replace = replace,
                          !.reserve = reserve, !.shrink = shrink]
    /\ UNCHANGED <<dev, held, softs, debts, faults>>

\* yaffs_chunk_del() of a chunk nothing points at any more.
DeleteChunk(c) ==
    /\ op.pc = "idle"
    /\ \E eraseOk \in BOOLEAN :
        /\ Fault(eraseOk)
        /\ dev' = chunk_del(dev, c, eraseOk)
    /\ held' = held \ {c}
    /\ debts' = Settle(debts, dev')
    /\ UNCHANGED <<op, softs>>

\* yaffs_soft_del_chunk(): the chunk leaves the tnode tree, not the block.
SoftDelete(c) ==
    /\ op.pc = "idle"
    /\ dev' = soft_del_chunk(dev, c)
    /\ held' = held \ {c}
    /\ softs' = softs \cup {c}
    /\ UNCHANGED <<op, debts, faults>>

\* yaffs_rd_chunk_tags_nand() reports an ECC error.
ReadError(c) ==
    /\ op.pc = "idle"
    /\ Fault(FALSE)
    /\ dev' = handle_chunk_error(dev, c[1])
    /\ UNCHANGED <<op, held, softs, debts>>

\* yaffs_bg_gc(): a round of collection with no write to follow.
BgGc ==
    /\ op.pc = "idle"
    /\ dev.seq_number < MaxSeq
    /\ op' = [Idle EXCEPT !.pc = "check", !.background = TRUE]
    /\ UNCHANGED <<dev, held, softs, debts, faults>>

-----------------------------------------------------------------------------
(* yaffs_check_gc().  The counters that pace passive collection            *)
(* (gc_skip, gc_not_done, refresh_skip and the dirtiness threshold) are    *)
(* left open: a passive round may do nothing, remember a candidate in      *)
(* gc_dirtiest or collect.                                                 *)

Aggressive == op.aggressive \/ dev.n_erased_blocks < min_erased

CollectBlock(d, b) ==
    /\ \E eraseOk \in BOOLEAN :
        /\ Fault(eraseOk)
        /\ dev' = GcBlockEntry(d, b, eraseOk)
    /\ op' = [op EXCEPT !.pc = "collect",
                        !.aggressive = Aggressive,
                        !.max_copies = IF Aggressive THEN ChunksPerBlock
                                                     ELSE GcMaxCopies,
                        !.max_tries = @ + 1]
    /\ debts' = Settle(debts, dev')
    /\ UNCHANGED <<held, softs>>

\* yaffs_check_gc() returns, to the write it was called for if there is one.
AfterGc ==
    IF op.background
    THEN Idle
    ELSE [Idle EXCEPT !.pc = "write", !.replace = op.replace,
                      !.reserve = op.reserve, !.shrink = op.shrink]

\* Resume the block of an earlier partial collection.
GcResume ==
    /\ op.pc = "check"
    /\ dev.gc_block # NoBlock
    /\ CollectBlock(dev, dev.gc_block)

\* Refresh the oldest full block, dirty or not.
GcRefresh ==
    /\ op.pc = "check"
    /\ dev.gc_block = NoBlock
    /\ ~Aggressive
    /\ \E b \in RefreshBlocks(dev) : CollectBlock([dev EXCEPT !.gc_chunk = 0], b)

\* Select a block and start on it.  Looking at a block with a shrink header
\* makes the oldest dirty sequence number known; gc_dirtiest is not looked at
\* again.
GcSelect ==
    /\ op.pc = "check"
    /\ dev.gc_block = NoBlock
    /\ \E b \in Selectable(dev, Aggressive) :
        \E d \in {dev, find_oldest_dirty_seq(dev)} :
            /\ dev.bi[b].has_shrink_hdr /\ b # dev.gc_dirtiest =>
                    d = find_oldest_dirty_seq(dev)
            /\ CollectBlock([d EXCEPT !.gc_dirtiest = NoBlock, !.gc_chunk = 0], b)

\* A passive search that selects no block.  It keeps the best one it has seen,
\* or the one remembered before, which a search for prioritised blocks drops.
GcRemember ==
    /\ op.pc = "check"
    /\ dev.gc_block = NoBlock
    /\ ~Aggressive
    /\ \E d \in {dev, find_oldest_dirty_seq(dev)},
           b \in Candidates(dev) \cup {dev.gc_dirtiest, NoBlock} :
        /\ b \notin {dev.gc_dirtiest, NoBlock} /\ dev.bi[b].has_shrink_hdr =>
                d = find_oldest_dirty_seq(dev)
        /\ dev' = [d EXCEPT !.gc_dirtiest = b, !.gc_chunk = 0]
    /\ op' = AfterGc
    /\ UNCHANGED <<held, softs, debts, faults>>

\* Nothing to do: there are erased blocks enough and the round is skipped, or
\* an aggressive search has found that no block can be collected.
GcPass ==
    /\ op.pc = "check"
    /\ \/ ~Aggressive /\ dev' = dev
       \/ /\ Aggressive
          /\ dev.gc_block = NoBlock /\ Selectable(dev, TRUE) = {}
          /\ dev' = [dev EXCEPT !.gc_chunk = 0]
    /\ op' = AfterGc
    /\ UNCHANGED <<held, softs, debts, faults>>

-----------------------------------------------------------------------------
(* The loop of yaffs_gc_block() over the pages of the block, from          *)
(* gc_chunk on.                                                            *)

\* gc_block is cleared as soon as the block is erased.
Collecting ==
    /\ Unfinished(dev)
    /\ op.max_copies > 0
    /\ UsedPages(dev) # {}

\* Slip: the chunk stays counted among the soft-deleted ones of its block.
slip_StopCounting(d, c) ==
    [d EXCEPT !.n_free_chunks = @ - 1, !.gc_chunk = c[2] + 1]

\* The page of a soft-deleted chunk is no longer counted as free, before it is
\* deleted and counted again.
StopCounting(d, c) ==
    [d EXCEPT !.n_free_chunks = @ - 1,
              !.bi[c[1]].soft_del_pages = @ - 1,
              !.gc_chunk = c[2] + 1]

\* yaffs_gc_process_chunk() of a chunk of a soft-deleted file.
GcDropSoft ==
    /\ op.pc = "collect" /\ Collecting
    /\ LET c == <<dev.gc_block, GcPage(dev)>>
       IN  /\ c \in softs
           /\ softs' = softs \ {c}
           /\ \E eraseOk \in BOOLEAN :
                /\ Fault(eraseOk)
                /\ dev' = chunk_del(StopCounting(dev, c), c, eraseOk)
    /\ debts' = Settle(debts, dev')
    /\ op' = [op EXCEPT !.max_copies = @ - 1]
    /\ UNCHANGED held

\* yaffs_gc_process_chunk() of any other chunk: copy it, with the reserve.
GcCopy ==
    /\ op.pc = "collect" /\ Collecting
    /\ <<dev.gc_block, GcPage(dev)>> \notin softs
    /\ dev' = [dev EXCEPT !.gc_chunk = GcPage(dev)]
    /\ op' = [op EXCEPT !.pc = "copy", !.attempts = 0, !.max_copies = @ - 1]
    /\ UNCHANGED <<held, softs, debts, faults>>

\* Slip: the tries of yaffs_check_gc() counted from the start in each turn.
slip_FinishGc(d) ==
    LET again == d.n_erased_blocks < NReservedBlocks /\ Unfinished(d)
    IN  /\ dev' = GcBlockExit(d)
        /\ op' = IF again
                 THEN [op EXCEPT !.pc = "check", !.attempts = 0,
                                 !.max_copies = 0, !.max_tries = 0]
                 ELSE AfterGc

\* The end of yaffs_gc_block() and of the loop of yaffs_check_gc().
FinishGc(d) ==
    LET again == /\ d.n_erased_blocks < NReservedBlocks
                 /\ Unfinished(d)
                 /\ op.max_tries < 2
    IN  /\ dev' = GcBlockExit(d)
        /\ op' = IF again
                 THEN [op EXCEPT !.pc = "check", !.attempts = 0, !.max_copies = 0]
                 ELSE AfterGc

GcEnd ==
    /\ op.pc = "collect" /\ ~Collecting
    /\ FinishGc(IF Unfinished(dev) /\ UsedPages(dev) = {}
                THEN [dev EXCEPT !.gc_chunk = ChunksPerBlock] ELSE dev)
    /\ UNCHANGED <<held, softs, debts, faults>>

-----------------------------------------------------------------------------
(* yaffs_write_new_chunk(): one action per turn of its retry loop.  It is  *)
(* entered from the file layer (pc "write") and from the collector (pc     *)
(* "copy").                                                                *)

Writing == op.pc \in {"write", "copy"}

UseReserver == op.pc = "copy" \/ op.reserve

\* The page a turn takes.  Its block is checked on every write if the device
\* is so configured.
TakePage(d) ==
    IF AlwaysCheckErased THEN check_again(take_page(d), d.alloc_block)
                         ELSE take_page(d)

\* The write is given up: chunk = -1.  A copy that fails ends the turn of
\* the collector, whose loop has already stepped past the chunk.
WriteFailed(d) ==
    IF op.pc = "copy"
    THEN FinishGc([d EXCEPT !.gc_chunk = @ + 1])
    ELSE dev' = d /\ op' = Idle

WriteNoSpace ==
    /\ Writing
    /\ LET d == with_alloc_block(dev)
       IN  ~CanAlloc(d, UseReserver) /\ WriteFailed(d)
    /\ UNCHANGED <<held, softs, debts, faults>>

\* After a failed turn: "attempts <= yaffs_wr_attempts".
RetryOrFail(d) ==
    IF WrAttempts = 0 \/ op.attempts + 1 <= WrAttempts
    THEN /\ dev' = d
         /\ op' = [op EXCEPT !.attempts = @ + 1]
    ELSE WriteFailed(d)

\* The block of the page is erased with it, if this was the last page and
\* nothing is in use; that may fail too.
FailedTurn(eraseOk) == Faults(IF eraseOk THEN 1 ELSE 2)

\* The page to be written does not read back as erased.
WriteNotErased ==
    /\ Writing
    /\ LET d == with_alloc_block(dev)
           c == NextChunk(d)
           e == TakePage(d)
       IN  /\ CanAlloc(d, UseReserver)
           /\ ~e.bi[c[1]].skip_erased_check
           /\ \E eraseOk \in BOOLEAN :
                /\ FailedTurn(eraseOk)
                /\ RetryOrFail(skip_rest_of_block(chunk_del(e, c, eraseOk)))
    /\ debts' = Settle(debts, dev')
    /\ UNCHANGED <<held, softs>>

\* The write, or reading it back, fails.
WriteError ==
    /\ Writing
    /\ LET d == with_alloc_block(dev)
           c == NextChunk(d)
           e == TakePage(d)
       IN  /\ CanAlloc(d, UseReserver)
           /\ \E eraseOk \in BOOLEAN :
                /\ FailedTurn(eraseOk)
                /\ RetryOrFail(handle_chunk_wr_error(e, c,
                                  ~e.bi[c[1]].skip_erased_check, eraseOk))
    /\ debts' = Settle(debts, dev')
    /\ UNCHANGED <<held, softs>>

\* Older full blocks with discarded pages, when a shrink header goes to b.
NewDebts(d, b) == {<<o, b>> : o \in {x \in DirtyBlocks(d) : Older(d, x, b)}}

\* The chunk is written; the caller points at it and deletes the chunk it
\* replaces; a shrink header marks its block.
WriteOk ==
    /\ op.pc = "write"
    /\ LET d == with_alloc_block(dev)
           c == NextChunk(d)
           e == mark_written(TakePage(d), c[1])
       IN  /\ CanAlloc(d, UseReserver)
           /\ \E old \in IF op.replace THEN held ELSE {NoChunk}, eraseOk \in BOOLEAN :
                LET f == IF op.replace THEN chunk_del(e, old, eraseOk) ELSE e
                IN  /\ Fault(eraseOk)
                    /\ held' = (held \ {old}) \cup {c}
                    /\ dev' = IF op.shrink THEN mark_shrink_hdr(f, c[1]) ELSE f
                    /\ debts' = Settle(debts, f)
                                  \cup (IF op.shrink THEN NewDebts(f, c[1]) ELSE {})
    /\ op' = Idle
    /\ UNCHANGED softs

\* The collector's copy is written: fix up the pointer, delete the original.
CopyOk ==
    /\ op.pc = "copy"
    /\ LET d == with_alloc_block(dev)
           c == NextChunk(d)
           old == <<dev.gc_block, dev.gc_chunk>>
           e == [mark_written(TakePage(d), c[1]) EXCEPT !.gc_chunk = @ + 1]
       IN  /\ CanAlloc(d, TRUE)
           /\ held' = (held \ {old}) \cup {c}
           /\ \E eraseOk \in BOOLEAN :
                /\ Fault(eraseOk)
                /\ dev' = chunk_del(e, old, eraseOk)
    /\ debts' = Settle(debts, dev')
    /\ op' = [op EXCEPT !.pc = "collect", !.attempts = 0]
    /\ UNCHANGED softs

-----------------------------------------------------------------------------
FileLayer ==
    \/ \E replace, reserve, shrink \in BOOLEAN : StartWrite(replace, reserve, shrink)
    \/ \E c \in held : DeleteChunk(c)
    \/ \E c \in held : SoftDelete(c)
    \/ \E c \in held : ReadError(c)
    \/ BgGc

CheckGc == GcResume \/ GcRefresh \/ GcSelect \/ GcRemember \/ GcPass

GcBlock == GcDropSoft \/ GcCopy \/ GcEnd

WriteNewChunk == WriteNoSpace \/ WriteNotErased \/ WriteError \/ WriteOk \/ CopyOk

Next == FileLayer \/ CheckGc \/ GcBlock \/ WriteNewChunk

Spec == Init /\ [][Next]_vars

-----------------------------------------------------------------------------
(* Properties.                                                             *)

Operation ==
    [pc : {"idle", "check", "collect", "copy", "write"},
     replace : BOOLEAN, reserve : BOOLEAN, shrink : BOOLEAN,
     background : BOOLEAN, attempts : Nat,
     aggressive : BOOLEAN, max_copies : Nat, max_tries : Nat]

\* Every field of the device and of the call in progress keeps its type: no
\* block or page number leaves the partition.
TypeOK ==
    /\ dev \in Device
    /\ op \in Operation
    /\ held \subseteq Chunks
    /\ softs \subseteq Chunks
    /\ debts \subseteq Blocks \X Blocks
    /\ faults \in Nat

\* The chunk bitmaps record exactly the chunks the files and the
\* soft-deleted files own: no live chunk is ever in a block that was erased,
\* retired or handed out again, and no chunk is lost to the collector
\* (yaffs_chunk_del, yaffs_gc_process_chunk, yaffs_write_new_chunk).
ChunksOwned ==
    /\ held \cap softs = {}
    /\ \A b \in Blocks : dev.chunk_bits[b] = PagesOf(held \cup softs, b)

\* What yaffs_verify_blk() reports: pages_in_use is the population count of
\* the bitmap, and soft_del_pages counts the soft-deleted chunks among them.
BlockCountersExact ==
    \A b \in Blocks :
        /\ dev.bi[b].pages_in_use = Cardinality(dev.chunk_bits[b])
        /\ dev.bi[b].soft_del_pages = Cardinality(PagesOf(softs, b))

\* Chunks that can be, or after collection could be, written.
FreeSlots ==
    {c \in Chunks : /\ dev.bi[c[1]].block_state \in Counted
                    /\ c \notin held}

\* n_free_chunks, kept by increments in a dozen functions, is the number of
\* free chunks yaffs_count_free_chunks() would count (yaffs_verify_free_chunks).
FreeChunksExact == dev.n_free_chunks = Cardinality(FreeSlots)

\* n_erased_blocks is the number of EMPTY blocks (yaffs_verify_blocks).
ErasedBlocksExact == dev.n_erased_blocks = Cardinality(EmptyBlocks(dev))

\* The three counts that the collector, the allocator and the checkpoint go by
\* agree with the blocks, through failed writes and retired blocks.
CountersExact == BlockCountersExact /\ FreeChunksExact /\ ErasedBlocksExact

\* There is never more than one allocating block, and it is alloc_block; the
\* pages from alloc_page on have not been written since the last erasure.
OneAllocatingBlock ==
    /\ \A b \in Blocks :
        dev.bi[b].block_state = "ALLOCATING" <=> b = dev.alloc_block
    /\ dev.alloc_block # NoBlock =>
        /\ dev.alloc_page < ChunksPerBlock
        /\ dev.bi[dev.alloc_block].seq_number = dev.seq_number
        /\ \A p \in dev.chunk_bits[dev.alloc_block] : p < dev.alloc_page

\* A known oldest_dirty_seq really is the oldest: no full block with
\* discarded pages is older, and oldest_dirty_block, which the collector
\* selects unchecked, is the full (or now collected) block that bears it.
OldestDirtySound ==
    dev.oldest_dirty_seq # 0 =>
        /\ \A b \in DirtyBlocks(dev) :
              dev.oldest_dirty_seq <= dev.bi[b].seq_number
        /\ dev.oldest_dirty_block # NoBlock
        /\ dev.bi[dev.oldest_dirty_block].seq_number = dev.oldest_dirty_seq
        /\ dev.bi[dev.oldest_dirty_block].block_state \in {"FULL", "COLLECTING"}

\* Distinct blocks in use have distinct sequence numbers, none beyond the
\* device's: the scan that sorts blocks by them sees the order of writing.
SequenceNumbersDistinct ==
    \A a, b \in Blocks :
        /\ dev.bi[a].block_state \in {"ALLOCATING", "FULL", "COLLECTING"}
        /\ dev.bi[b].block_state \in {"ALLOCATING", "FULL", "COLLECTING"}
        /\ a # b
        => /\ dev.bi[a].seq_number # dev.bi[b].seq_number
           /\ dev.bi[a].seq_number \in 1 .. dev.seq_number

\* Every write ends, in success or failure: the retry loop of
\* yaffs_write_new_chunk() and the loop of yaffs_check_gc() do not spin.
CallReturns == op.pc # "idle" ~> op.pc = "idle"

\* A shrink header outlives the chunks it hides: its block is erased, retired
\* or collected, and drops has_shrink_hdr, only when every older block that
\* had discarded pages as the header was written has been erased.  Otherwise a
\* scan would bring the truncated data back.  A deletion of the last chunk of
\* the block must not erase it (yaffs_chunk_del), and the collector may not
\* start on it (yaffs_block_ok_for_gc and the ways round it).
ShrinkHeaderOutlivesData ==
    [][\A x \in debts' :
        /\ x[2] \notin Erased(dev, dev')
        /\ dev.bi[x[2]].has_shrink_hdr => dev'.bi[x[2]].has_shrink_hdr]_vars

\* A block that holds a chunk of a live file is never erased or retired: the
\* chunk has been copied, or given up by its file, in an earlier step or in
\* this one.
NoLiveBlockErased ==
    [][\A b \in Erased(dev, dev') : PagesOf(held', b) = {}]_vars
=============================================================================
