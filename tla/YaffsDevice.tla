----------------------------- MODULE YaffsDevice -----------------------------
(***************************************************************************)
(* The data of struct yaffs_dev that describe blocks and chunks, and the   *)
(* functions of core/yaffs_guts.c and core/yaffs_yaffs2.c that update      *)
(* them: the oldest dirty sequence number, erasure and retirement, chunk   *)
(* deletion, error handling, allocation, and what the garbage collector    *)
(* may select.                                                             *)
(*                                                                         *)
(* Each operator takes a device "d" and returns the next one, as the C     *)
(* function updates *dev.  The state machines that call them are in        *)
(* YaffsBlocks and YaffsLog.                                               *)
(*                                                                         *)
(* The operators named slip_... are small slips a programmer could make in *)
(* the operator below them; no specification uses them.  They show what    *)
(* the properties catch.                                                   *)
(***************************************************************************)
EXTENDS Integers, FiniteSets

CONSTANTS
    NBlocks,         \* internal_start_block .. internal_end_block is 1 .. NBlocks
    ChunksPerBlock,
    NReservedBlocks,
    CheckptBlocks    \* yaffs_calc_checkpt_blocks_required(), taken as fixed

ASSUME GeometryAssumption ==
    /\ NBlocks \in Nat /\ ChunksPerBlock \in Nat /\ NReservedBlocks \in Nat
    /\ ChunksPerBlock >= 2
    /\ NReservedBlocks >= 2
    /\ NBlocks > NReservedBlocks + 3
    /\ CheckptBlocks \in Nat

Blocks  == 1 .. NBlocks
Pages   == 0 .. ChunksPerBlock - 1
Chunks  == Blocks \X Pages
NoBlock == 0
NoChunk == <<0, 0>>

\* The pages of block b that are in the set S of chunks.
PagesOf(S, b) == {c[2] : c \in {x \in S : x[1] = b}}

BlockStates == {"EMPTY", "ALLOCATING", "FULL", "COLLECTING", "DEAD"}
\* The states whose free chunks yaffs_count_free_chunks() counts.
Counted     == {"EMPTY", "ALLOCATING", "FULL", "COLLECTING"}

BlockInfo ==
    [block_state : BlockStates, pages_in_use : Int, soft_del_pages : Int,
     needs_retiring : BOOLEAN, gc_prioritise : BOOLEAN,
     chunk_error_strikes : Nat, skip_erased_check : BOOLEAN,
     has_shrink_hdr : BOOLEAN, seq_number : Nat]

Device ==
    [bi : [Blocks -> BlockInfo], chunk_bits : [Blocks -> SUBSET Pages],
     n_free_chunks : Int, n_erased_blocks : Int,
     alloc_block : Blocks \cup {NoBlock}, alloc_page : Nat,
     alloc_block_finder : Blocks \cup {0}, seq_number : Nat,
     gc_block : Blocks \cup {NoBlock}, gc_chunk : Nat,
     gc_dirtiest : Blocks \cup {NoBlock},
     oldest_dirty_seq : Nat, oldest_dirty_block : Blocks \cup {NoBlock}]

\* A block no mount has written or erased yet.
EmptyBlockInfo ==
    [block_state |-> "EMPTY", pages_in_use |-> 0, soft_del_pages |-> 0,
     needs_retiring |-> FALSE, gc_prioritise |-> FALSE,
     chunk_error_strikes |-> 0, skip_erased_check |-> FALSE,
     has_shrink_hdr |-> FALSE, seq_number |-> 0]

\* What a mount makes of a partition that is all erased.
ErasedDevice ==
    [bi |-> [b \in Blocks |-> EmptyBlockInfo], chunk_bits |-> [b \in Blocks |-> {}],
     n_free_chunks |-> NBlocks * ChunksPerBlock, n_erased_blocks |-> NBlocks,
     alloc_block |-> NoBlock, alloc_page |-> 0,
     alloc_block_finder |-> 0, seq_number |-> 0,
     gc_block |-> NoBlock, gc_chunk |-> 0, gc_dirtiest |-> NoBlock,
     oldest_dirty_seq |-> 0, oldest_dirty_block |-> NoBlock]

-----------------------------------------------------------------------------
(* Oldest dirty sequence number.                                           *)

\* Pages of b that hold current data.
PagesUsed(d, b) == d.bi[b].pages_in_use - d.bi[b].soft_del_pages

\* FULL blocks with discarded pages.
DirtyBlocks(d) ==
    {b \in Blocks : /\ d.bi[b].block_state = "FULL"
                    /\ PagesUsed(d, b) < ChunksPerBlock}

Older(d, a, b) == d.bi[a].seq_number < d.bi[b].seq_number

find_oldest_dirty_seq(d) ==
    IF d.oldest_dirty_seq # 0 \/ DirtyBlocks(d) = {}
    THEN d
    ELSE LET b == CHOOSE x \in DirtyBlocks(d) :
                    \A y \in DirtyBlocks(d) : ~Older(d, y, x)
         IN  [d EXCEPT !.oldest_dirty_seq   = d.bi[b].seq_number,
                       !.oldest_dirty_block = b]

clear_oldest_dirty_seq(d, b) ==
    IF d.bi[b].seq_number = d.oldest_dirty_seq
    THEN [d EXCEPT !.oldest_dirty_seq = 0, !.oldest_dirty_block = NoBlock]
    ELSE d

\* Slip: the comparison turned round.
slip_update_oldest_dirty_seq(d, b) ==
    IF d.oldest_dirty_seq # 0 /\ d.oldest_dirty_seq < d.bi[b].seq_number
    THEN [d EXCEPT !.oldest_dirty_seq   = d.bi[b].seq_number,
                   !.oldest_dirty_block = b]
    ELSE d

update_oldest_dirty_seq(d, b) ==
    IF d.oldest_dirty_seq # 0 /\ d.oldest_dirty_seq > d.bi[b].seq_number
    THEN [d EXCEPT !.oldest_dirty_seq   = d.bi[b].seq_number,
                   !.oldest_dirty_block = b]
    ELSE d

\* Slip: an oldest dirty sequence number that is not known taken for none.
slip_block_ok_for_gc(d, b) ==
    \/ ~d.bi[b].has_shrink_hdr
    \/ d.oldest_dirty_seq = 0
    \/ d.bi[b].seq_number <= d.oldest_dirty_seq

\* A block with a shrink header may be collected only when it is not newer
\* than the oldest block with discarded pages.
block_ok_for_gc(d, b) ==
    \/ ~d.bi[b].has_shrink_hdr
    \/ d.bi[b].seq_number <= find_oldest_dirty_seq(d).oldest_dirty_seq

-----------------------------------------------------------------------------
(* Erasing and retiring.  eraseOk is the answer of drv_erase_fn.           *)

\* A block marked bad.
DeadInfo(r) ==
    [r EXCEPT !.block_state = "DEAD", !.gc_prioritise = FALSE,
              !.needs_retiring = FALSE]

retire_block(d, b) ==
    [clear_oldest_dirty_seq(d, b) EXCEPT !.bi[b] = DeadInfo(@)]

\* An erased block.  Its strikes and needs_retiring survive the erasure.
CleanInfo(r) ==
    [r EXCEPT !.block_state = "EMPTY", !.seq_number = 0,
              !.pages_in_use = 0, !.soft_del_pages = 0,
              !.has_shrink_hdr = FALSE, !.skip_erased_check = TRUE,
              !.gc_prioritise = FALSE]

block_became_dirty(d, b, eraseOk) ==
    LET c == [clear_oldest_dirty_seq(d, b) EXCEPT
                !.gc_block    = IF @ = b THEN NoBlock ELSE @,
                !.gc_dirtiest = IF @ = b THEN NoBlock ELSE @]
    IN  IF d.bi[b].needs_retiring \/ ~eraseOk
        THEN [retire_block(c, b) EXCEPT !.n_free_chunks = @ - ChunksPerBlock]
        ELSE [c EXCEPT
                !.bi[b] = CleanInfo(@),
                !.chunk_bits[b] = {},
                !.n_erased_blocks = @ + 1]

\* Slip: the block taken for empty one chunk early.
slip_chunk_del(d, c, eraseOk) ==
    LET e == [update_oldest_dirty_seq(d, c[1]) EXCEPT
                !.n_free_chunks = @ + 1,
                !.chunk_bits[c[1]] = @ \ {c[2]},
                !.bi[c[1]].pages_in_use = @ - 1]
    IN  IF /\ e.bi[c[1]].pages_in_use <= 1
           /\ ~e.bi[c[1]].has_shrink_hdr
           /\ e.bi[c[1]].block_state # "ALLOCATING"
        THEN block_became_dirty(e, c[1], eraseOk)
        ELSE e

\* Slip: a block erased with its last chunk, shrink header or not.
slip_shrink_chunk_del(d, c, eraseOk) ==
    LET e == [update_oldest_dirty_seq(d, c[1]) EXCEPT
                !.n_free_chunks = @ + 1,
                !.chunk_bits[c[1]] = @ \ {c[2]},
                !.bi[c[1]].pages_in_use = @ - 1]
    IN  IF e.bi[c[1]].pages_in_use = 0 /\ e.bi[c[1]].block_state # "ALLOCATING"
        THEN block_became_dirty(e, c[1], eraseOk)
        ELSE e

chunk_del(d, c, eraseOk) ==
    LET b == c[1]
        e == [update_oldest_dirty_seq(d, b) EXCEPT
                !.n_free_chunks = @ + 1,
                !.chunk_bits[b] = @ \ {c[2]},
                !.bi[b].pages_in_use = @ - 1]
    IN  IF /\ e.bi[b].pages_in_use = 0
           /\ ~e.bi[b].has_shrink_hdr
           /\ e.bi[b].block_state # "ALLOCATING"
        THEN block_became_dirty(e, b, eraseOk)
        ELSE e

soft_del_chunk(d, c) ==
    update_oldest_dirty_seq([d EXCEPT !.bi[c[1]].soft_del_pages = @ + 1,
                                      !.n_free_chunks = @ + 1], c[1])

\* The blocks of d that are erased or retired in e.
Erased(d, e) == {b \in Blocks : /\ d.bi[b].block_state \notin {"EMPTY", "DEAD"}
                                /\ e.bi[b].block_state \in {"EMPTY", "DEAD"}}

-----------------------------------------------------------------------------
(* Errors.                                                                 *)

\* "Too many strikes" retires the block when it is next erased.
StruckInfo(r) ==
    [r EXCEPT !.gc_prioritise = TRUE,
              !.chunk_error_strikes = @ + 1,
              !.needs_retiring = @ \/ r.chunk_error_strikes + 1 > 3]

handle_chunk_error(d, b) ==
    IF d.bi[b].gc_prioritise THEN d ELSE [d EXCEPT !.bi[b] = StruckInfo(@)]

skip_rest_of_block(d) ==
    IF d.alloc_block # NoBlock /\ d.bi[d.alloc_block].block_state = "ALLOCATING"
    THEN [d EXCEPT !.bi[d.alloc_block].block_state = "FULL",
                   !.alloc_block = NoBlock]
    ELSE d

\* Slip: the chunk that could not be written stays allocated.
slip_handle_chunk_wr_error(d, c, erasedOk, eraseOk) ==
    LET e == handle_chunk_error(d, c[1])
    IN  skip_rest_of_block([e EXCEPT !.bi[c[1]].needs_retiring = @ \/ erasedOk])

\* erasedOk: the chunk had been read back as erased before the write.
handle_chunk_wr_error(d, c, erasedOk, eraseOk) ==
    LET e == handle_chunk_error(d, c[1])
        f == [e EXCEPT !.bi[c[1]].needs_retiring = @ \/ erasedOk]
    IN  skip_rest_of_block(chunk_del(f, c, eraseOk))

-----------------------------------------------------------------------------
(* Allocation.                                                             *)

check_alloc_available(d, n) ==
    d.n_free_chunks > (NReservedBlocks + CheckptBlocks) * ChunksPerBlock + n

EmptyBlocks(d) == {b \in Blocks : d.bi[b].block_state = "EMPTY"}

\* How far the round-robin search goes before it looks at block b.
SearchDistance(finder, b) == (b - finder - 1) % NBlocks

\* Slip: the device's sequence number not advanced.
slip_find_alloc_block(d) ==
    IF d.n_erased_blocks < 1 \/ EmptyBlocks(d) = {}
    THEN d
    ELSE LET b == CHOOSE x \in EmptyBlocks(d) : TRUE
         IN  [d EXCEPT !.bi[b] = [@ EXCEPT !.block_state = "ALLOCATING",
                                           !.seq_number  = d.seq_number + 1],
                       !.n_erased_blocks    = @ - 1,
                       !.alloc_block_finder = b,
                       !.alloc_block        = b]

find_alloc_block(d) ==
    IF d.n_erased_blocks < 1 \/ EmptyBlocks(d) = {}
    THEN d
    ELSE LET b == CHOOSE x \in EmptyBlocks(d) :
                    \A y \in EmptyBlocks(d) :
                        SearchDistance(d.alloc_block_finder, x)
                            <= SearchDistance(d.alloc_block_finder, y)
         IN  [d EXCEPT !.bi[b] = [@ EXCEPT !.block_state = "ALLOCATING",
                                           !.seq_number  = d.seq_number + 1],
                       !.seq_number         = @ + 1,
                       !.n_erased_blocks    = @ - 1,
                       !.alloc_block_finder = b,
                       !.alloc_block        = b]

\* The first half of yaffs_alloc_chunk(): get a block to allocate from.
with_alloc_block(d) ==
    IF d.alloc_block = NoBlock
    THEN [find_alloc_block(d) EXCEPT !.alloc_page = 0]
    ELSE d

\* Slip: the reserve kept from those it is for.
slip_CanAlloc(d, use_reserver) ==
    check_alloc_available(d, 1) /\ d.alloc_block # NoBlock

CanAlloc(d, use_reserver) ==
    /\ use_reserver \/ check_alloc_available(d, 1)
    /\ d.alloc_block # NoBlock

\* A block with one more page in use, the last one if filled.
TakenInfo(r, filled) ==
    [r EXCEPT !.pages_in_use = @ + 1,
              !.block_state  = IF filled THEN "FULL" ELSE @]

\* Slip: allocation goes on in a block whose last page is taken.
slip_take_page(d) ==
    LET b == d.alloc_block
        p == d.alloc_page
    IN  [d EXCEPT !.bi[b]         = TakenInfo(d.bi[b], p + 1 >= ChunksPerBlock),
                  !.chunk_bits[b] = d.chunk_bits[b] \cup {p},
                  !.alloc_page    = p + 1,
                  !.n_free_chunks = d.n_free_chunks - 1]

\* The second half: take its next page.
take_page(d) ==
    LET b == d.alloc_block
        p == d.alloc_page
        filled == p + 1 >= ChunksPerBlock
    IN  [d EXCEPT !.bi[b]         = TakenInfo(d.bi[b], filled),
                  !.chunk_bits[b] = d.chunk_bits[b] \cup {p},
                  !.alloc_page    = p + 1,
                  !.n_free_chunks = d.n_free_chunks - 1,
                  !.alloc_block   = IF filled THEN NoBlock ELSE b]

NextChunk(d) == <<d.alloc_block, d.alloc_page>>

\* "OK, the data has been written": later pages need no check for erasure.
mark_written(d, b) == [d EXCEPT !.bi[b].skip_erased_check = TRUE]

\* "always_check_erased" forgets that.
check_again(d, b) == [d EXCEPT !.bi[b].skip_erased_check = FALSE]

\* The block holds a shrink header from now on.
mark_shrink_hdr(d, b) == [d EXCEPT !.bi[b].has_shrink_hdr = TRUE]

-----------------------------------------------------------------------------
(* What the garbage collector selects, and how it starts on it.            *)

min_erased == NReservedBlocks + CheckptBlocks + 1

\* What yaffs_find_gc_block() accepts when it looks at block b.
Candidates(d) == {b \in DirtyBlocks(d) : block_ok_for_gc(d, b)}

PrioritisedBlocks(d) ==
    {b \in Blocks : /\ d.bi[b].block_state = "FULL"
                    /\ d.bi[b].gc_prioritise
                    /\ block_ok_for_gc(d, b)}

\* yaffs2_find_refresh_block(): the oldest full block, dirty or not.
RefreshBlocks(d) ==
    {b \in Blocks :
        /\ d.bi[b].block_state = "FULL"
        /\ \A o \in Blocks : d.bi[o].block_state = "FULL" => ~Older(d, o, b)}

\* The blocks yaffs_find_gc_block() may return.  gc_dirtiest was a candidate
\* when it was remembered; it is not looked at again.
Selectable(d, aggressive) ==
    Candidates(d)
      \cup ({d.gc_dirtiest, find_oldest_dirty_seq(d).oldest_dirty_block} \ {NoBlock})
      \cup (IF aggressive THEN {} ELSE PrioritisedBlocks(d))

\* A full block is marked, and has_shrink_hdr dropped "so that the block can
\* erase".
CollectedInfo(r) ==
    [r EXCEPT !.block_state = IF @ = "FULL" THEN "COLLECTING" ELSE @,
              !.has_shrink_hdr = FALSE]

\* The head of yaffs_gc_block(): a block in which nothing is in use is erased
\* at once.
GcBlockEntry(d, b, eraseOk) ==
    LET e == [d EXCEPT !.bi[b] = CollectedInfo(@), !.gc_block = b]
    IN  IF d.chunk_bits[b] = {} THEN block_became_dirty(e, b, eraseOk) ELSE e

\* The collection of gc_block has begun, and has not erased it.
Unfinished(d) ==
    d.gc_block # NoBlock /\ d.bi[d.gc_block].block_state = "COLLECTING"

\* The end of yaffs_gc_block().  An unfinished block is full again "because
\* checkpointing does not restore gc".
GcBlockExit(d) ==
    IF Unfinished(d)
    THEN [d EXCEPT !.bi[d.gc_block].block_state = "FULL"]
    ELSE [d EXCEPT !.gc_block = NoBlock, !.gc_chunk = 0]

UsedPages(d) == {p \in d.chunk_bits[d.gc_block] : p >= d.gc_chunk}

\* The next page the loop has to deal with.
GcPage(d) == CHOOSE p \in UsedPages(d) : \A q \in UsedPages(d) : p <= q
=============================================================================
