----------------------------- MODULE YaffsSummary -----------------------------
(***************************************************************************)
(* Block summaries: the tags of the chunks of a block, gathered in         *)
(* dev->sum_tags while the block is filled and written to its last pages,  *)
(* so that a mount reads them instead of every chunk.  The same array is   *)
(* the read buffer of the scan, and a mount from a checkpoint goes on in a *)
(* half-filled block whose first tags were never gathered.                 *)
(*                                                                         *)
(* A chunk that was written stays in use until its block is collected; no  *)
(* two chunks are written with the same tags, so that they are named by    *)
(* the filling of the block and the page.                                  *)
(***************************************************************************)
EXTENDS Integers, FiniteSets, FiniteSetsExt, TLC

CONSTANTS
    SumBlocks,            \* the blocks, as numbers
    SumPages,             \* chunks_per_block
    SumDataBytes,         \* data_bytes_per_chunk
    SumTagBytes,          \* sizeof(struct yaffs_summary_tags)
    SumHdrBytes,          \* sizeof(struct yaffs_summary_header)
    NoTags,               \* tags with obj_id 0
    MaxSumSeq             \* bound: the last sequence number given to a block

VARIABLES
    sflash,               \* block -> page -> what is written there
    sdev,                 \* sum_tags, allocation and block information
    shalf                 \* a mount has read part of a summary and then rejected it

summaryVars == <<sflash, sdev, shalf>>

chunks_used == (SumPages * SumTagBytes + SumDataBytes - 1) \div (SumDataBytes - SumHdrBytes)
chunks_per_summary == SumPages - chunks_used

PageNumbers == 0 .. SumPages - 1
Summarised == 0 .. chunks_per_summary - 1
SummaryPages == chunks_per_summary .. SumPages - 1

\* The pages that the tags of chunks_per_summary chunks take: fewer than chunks_used
\* for some sizes, and then the scan counts the last pages of a block neither as used
\* nor as free.
pages_written ==
    (SumTagBytes * chunks_per_summary + SumDataBytes - SumHdrBytes - 1)
      \div (SumDataBytes - SumHdrBytes)

Blank == [kind |-> "blank"]
Written(tag, ok) == [kind |-> "data", tag |-> tag, ok |-> ok]
SummaryPage(tags, seq, i) == [kind |-> "summary", chunk_id |-> i, tags |-> tags, seq |-> seq]
BlankBlock == [p \in PageNumbers |-> Blank]

NoSummary == [c \in Summarised |-> NoTags]
NoBlock == -1
EmptyInfo == [state |-> "empty", seq |-> 0, in_use |-> {}, has_summary |-> FALSE]

SummaryInit ==
    /\ sflash = [b \in SumBlocks |-> BlankBlock]
    /\ sdev = [sum_tags |-> NoSummary, alloc_block |-> NoBlock, alloc_page |-> 0, seq |-> 0,
               n_free |-> Cardinality(SumBlocks) * SumPages,
               info |-> [b \in SumBlocks |-> EmptyInfo]]
    /\ shalf = FALSE

(***************************************************************************)
(* Writing                                                                 *)
(***************************************************************************)
\* The block that is being filled, or the first erased one with the next number.
Allocated(b) ==
    IF sdev.alloc_block = b THEN sdev
    ELSE [sdev EXCEPT !.alloc_block = b, !.alloc_page = 0, !.seq = @ + 1,
                      !.info[b] = [EmptyInfo EXCEPT !.state = "allocating", !.seq = sdev.seq + 1]]

CanTake(b) ==
    IF sdev.alloc_block # NoBlock THEN b = sdev.alloc_block
    ELSE /\ sdev.info[b].state = "empty"
         /\ \A o \in SumBlocks : sdev.info[o].state = "empty" => b <= o
         /\ sdev.seq < MaxSumSeq

SkipRest(d) ==
    IF d.alloc_block = NoBlock THEN d
    ELSE [d EXCEPT !.info[d.alloc_block].state = "full", !.alloc_block = NoBlock]

\* The first n pages of the summary are written, and the next one, if any, fails.
SummaryWrite(d, b, n) ==
    [d EXCEPT !.info[b].in_use = @ \cup {chunks_per_summary + i - 1 : i \in 1 .. n},
              !.info[b].has_summary = (n = pages_written),
              !.n_free = @ - n]

SummaryOnFlash(f, tags, seq, n) ==
    [p \in PageNumbers |->
       LET i == p - chunks_per_summary + 1
       IN IF i < 1 \/ i > n + 1 THEN f[p]
          ELSE IF i <= n THEN SummaryPage(tags, seq, i) ELSE Written(NoTags, FALSE)]

\* yaffs_wr_chunk_tags_nand() for a new chunk: a write that fails is in the summary
\* like one that succeeds, and ends the block.
WriteChunk(b, ok, n) ==
    LET d == Allocated(b)
        c == d.alloc_page
        tag == <<d.info[b].seq, c>>
        added == [d EXCEPT !.sum_tags[c] = tag, !.alloc_page = @ + 1]
        used == IF ok THEN [added EXCEPT !.info[b].in_use = @ \cup {c}, !.n_free = @ - 1]
                ELSE added
        last == c = chunks_per_summary - 1
        page == [sflash[b] EXCEPT ![c] = Written(tag, ok)]
    IN /\ CanTake(b)
       /\ ~last => n = pages_written
       /\ sdev' = IF last
                    THEN SkipRest([SummaryWrite(used, b, n) EXCEPT !.sum_tags = NoSummary])
                  ELSE IF ok THEN used ELSE SkipRest(used)
       /\ sflash' = [sflash EXCEPT ![b] =
                       IF last THEN SummaryOnFlash(page, added.sum_tags, d.info[b].seq, n)
                       ELSE page]
       /\ UNCHANGED shalf

\* A collected block: what was in use has moved or died, the summary is given up, and
\* the block is erased.
summary_gc(d, b) ==
    LET freed == d.info[b].in_use \cap SummaryPages
    IN IF ~d.info[b].has_summary THEN d
       ELSE [d EXCEPT !.info[b].in_use = @ \ freed, !.n_free = @ + Cardinality(freed)]

\* yaffs_gc_process_chunk() for the pages of a summary that was written in part: they
\* belong to no object and are deleted like any other.
gc_rest(d, b) == [d EXCEPT !.info[b].in_use = {}, !.n_free = @ + Cardinality(d.info[b].in_use)]

CollectBlock(b) ==
    LET dead == [sdev EXCEPT !.info[b].in_use = @ \ Summarised,
                             !.n_free = @ + Cardinality(sdev.info[b].in_use \cap Summarised)]
        gone == gc_rest(summary_gc(dead, b), b)
    IN /\ sdev.info[b].state = "full"
       /\ sdev' = [gone EXCEPT !.info[b] = EmptyInfo]
       /\ sflash' = [sflash EXCEPT ![b] = BlankBlock]
       /\ UNCHANGED shalf

(***************************************************************************)
(* Mounting                                                                *)
(***************************************************************************)
\* The pages of the summary that are read before the first that is none.
SummaryRead(b, seq) ==
    LET right == {i \in 0 .. pages_written : \A j \in 1 .. i :
                    LET page == sflash[b][chunks_per_summary + j - 1]
                    IN page.kind = "summary" /\ page.chunk_id = j}
        n == Max(right)
    IN [pages |-> n,
        ok |-> n = pages_written /\ sflash[b][chunks_per_summary + n - 1].seq = seq,
        tags |-> IF n = 0 THEN NoSummary ELSE sflash[b][chunks_per_summary].tags]

\* yaffs_summary_fetch(), with a sequence number nobody sets: all ones stand for an
\* unused chunk, and the tags are empty.
summary_fetch(tags, c) == {tags[c], NoTags}

ReadTags(b, c) ==
    LET page == sflash[b][c]
    IN IF page.kind = "data" /\ page.ok THEN page.tag ELSE NoTags

\* What yaffs2_scan_chunk() takes for the tags of a chunk: those of the summary, or
\* where they name no object those on flash.
ScannedTags(b, seq, c) ==
    LET s == SummaryRead(b, seq)
    IN IF ~s.ok THEN {ReadTags(b, c)}
       ELSE {IF t = NoTags THEN ReadTags(b, c) ELSE t : t \in summary_fetch(s.tags, c)}

BlockSeq(b) == sdev.info[b].seq

\* Information of a block after the scan, and the pages it counts as free.
ScannedInfo(b) ==
    LET s == SummaryRead(b, BlockSeq(b))
        data == {c \in Summarised : \A t \in ScannedTags(b, BlockSeq(b), c) : t # NoTags}
        sums == {chunks_per_summary + i - 1 : i \in 1 .. s.pages}
        scanned == IF s.ok THEN Summarised ELSE PageNumbers
    IN IF sflash[b] = BlankBlock THEN [info |-> EmptyInfo, free |-> SumPages]
       ELSE [info |-> [state |-> "full", seq |-> BlockSeq(b), in_use |-> data \cup sums,
                       has_summary |-> s.ok],
             free |-> Cardinality(scanned \ data)]

\* sum_tags after a scan, which goes back from the newest block: what the last summary
\* held of which a page could be read.
LastRead ==
    LET read == {b \in SumBlocks : SummaryRead(b, BlockSeq(b)).pages > 0}
        last == CHOOSE b \in read : \A o \in read : BlockSeq(b) <= BlockSeq(o)
    IN IF read = {} THEN NoSummary ELSE SummaryRead(last, BlockSeq(last)).tags

slip_MountScan ==
    LET scan == [b \in SumBlocks |-> ScannedInfo(b)]
        goOn == sdev.alloc_block
    IN /\ sdev' = [sdev EXCEPT
                     !.sum_tags = LastRead,
                     !.n_free = MapThenSumSet(LAMBDA b : scan[b].free, SumBlocks),
                     !.info = [b \in SumBlocks |->
                                 IF b = goOn THEN [scan[b].info EXCEPT !.state = "allocating"]
                                 ELSE scan[b].info]]
       /\ shalf' = (shalf \/ \E b \in SumBlocks : LET s == SummaryRead(b, BlockSeq(b))
                                                  IN s.pages > 0 /\ ~s.ok)
       /\ UNCHANGED sflash

\* Power fails and the mount scans: the rest of the newest block is not used.
MountScan ==
    LET scan == [b \in SumBlocks |-> ScannedInfo(b)]
    IN /\ sdev' = [sdev EXCEPT
                     !.sum_tags = LastRead,
                     !.alloc_block = NoBlock,
                     !.n_free = MapThenSumSet(LAMBDA b : scan[b].free, SumBlocks),
                     !.info = [b \in SumBlocks |-> scan[b].info]]
       /\ shalf' = (shalf \/ \E b \in SumBlocks : LET s == SummaryRead(b, BlockSeq(b))
                                                  IN s.pages > 0 /\ ~s.ok)
       /\ UNCHANGED sflash

\* A checkpoint restores everything but sum_tags, which starts empty.
MountCheckpt ==
    /\ sdev' = [sdev EXCEPT !.sum_tags = NoSummary]
    /\ UNCHANGED <<sflash, shalf>>

SummaryNext ==
    \/ \E b \in SumBlocks, ok \in BOOLEAN, n \in 0 .. pages_written : WriteChunk(b, ok, n)
    \/ \E b \in SumBlocks : CollectBlock(b)
    \/ MountScan
    \/ MountCheckpt

(***************************************************************************)
(* The property                                                            *)
(***************************************************************************)
\* A scan takes for every chunk the tags that it was written with, whether they come
\* from a summary or from the chunk: no summary of another block, of an earlier filling
\* of the block or with an entry that was never gathered is believed.  Pages and free
\* pages are counted so that they add up, unless a mount met a summary whose first
\* page is there and a later one is not (that page counts as used and as free) or a
\* summary takes fewer pages than are kept for it.
SummariesTrue ==
    /\ \A b \in SumBlocks, c \in Summarised :
         LET page == sflash[b][c]
         IN page.kind = "data" /\ page.ok => ScannedTags(b, BlockSeq(b), c) = {page.tag}
    /\ ~shalf /\ pages_written = chunks_used =>
         sdev.n_free =
           MapThenSumSet(LAMBDA b : SumPages - Cardinality(sdev.info[b].in_use), SumBlocks)
=============================================================================
