------------------------------- MODULE YaffsLog -------------------------------
(***************************************************************************)
(* One file on the flash: writes, holes, truncation, header updates and    *)
(* garbage collection as the sequence of flash programs and erasures they  *)
(* are (core/yaffs_guts.c), a power failure between any two of them, and   *)
(* the mount that rebuilds everything from what it finds                   *)
(* (yaffs2_scan_backwards() of core/yaffs_yaffs2.c).                       *)
(*                                                                         *)
(* The file is written and resized in whole chunks, past the cache         *)
(* (n_caches = 0).  "op.jobs" is what the call in progress has still to    *)
(* do; one step of a job is at most one flash operation.                   *)
(***************************************************************************)
EXTENDS YaffsDevice, Sequences

CONSTANTS
    MaxId,      \* bound: the file's chunks are 1 .. MaxId
    Vals,       \* what the application writes to a chunk
    Zero,       \* a chunk of zeros, as a small hole is filled with
    Hole,       \* no chunk
    SmallHole,  \* YAFFS_SMALL_HOLE_THRESHOLD, 4 in the code
    GcMaxCopies,
    MaxSeq,     \* bound: no call starts once this many blocks were allocated
    MaxCrashes  \* bound: power failures

ASSUME LogAssumption ==
    /\ MaxId \in Nat /\ SmallHole \in Nat /\ MaxSeq \in Nat /\ MaxCrashes \in Nat
    /\ GcMaxCopies \in Nat /\ GcMaxCopies >= 1
    /\ Hole \notin Vals \cup {Zero}

VARIABLES
    dev,      \* struct yaffs_dev
    nand,     \* the flash: the record in each chunk, tags included
    file,     \* struct yaffs_file_var and hdr_chunk of the file
    op,       \* the call in progress
    content,  \* history: what the calls so far have made of each chunk
    doubt,    \* history: chunks cut off by a truncation that is not on flash,
              \* the holes one that never got there has left, and chunks past
              \* the end that there was no room for
    crashes

history == <<content, doubt>>
vars == <<dev, nand, file, op, content, doubt, crashes>>

Ids == 1 .. MaxId
Data == Vals \cup {Zero}

\* What a chunk's tags and data say.  seq is tags.seq_number, the sequence
\* number of the block when it was allocated.
Blank == [kind |-> "blank"]
DataChunk(i, v, s) == [kind |-> "data", id |-> i, val |-> v, seq |-> s]
HdrChunk(n, shrink, s) ==
    [kind |-> "hdr", size |-> n, is_shrink |-> shrink, seq |-> s]

-----------------------------------------------------------------------------
(* The scan.  It reads the blocks by descending sequence number and the    *)
(* pages of each backwards, so it meets newer chunks first.  "n" is the    *)
(* flash it reads.                                                         *)

OfKind(n, k) == {c \in Chunks : n[c].kind = k}

Newer(n, a, b) ==
    \/ n[a].seq > n[b].seq
    \/ n[a].seq = n[b].seq /\ a[2] > b[2]

\* The first header met is the one used: hdr_chunk.
FoundHdr(n) ==
    LET hdrs == OfKind(n, "hdr")
    IN  CHOOSE h \in hdrs : \A g \in hdrs \ {h} : Newer(n, h, g)

\* The headers whose size lowers shrink_size: the one used, and any shrink
\* header.
Cutting(n, top) == {h \in OfKind(n, "hdr") : h = top \/ n[h].is_shrink}

\* The chunks of the file the scan puts in its tree: those no header in
\* "cutting" met before them cuts off (chunk_base < shrink_size), and of these
\* the first of each id.  shrink_size only decreases, so a duplicate of a
\* chunk that was cut off is cut off as well.
Kept(n, cutting) ==
    LET data == OfKind(n, "data")
    IN  {c \in data :
            /\ \A h \in cutting : Newer(n, h, c) => n[c].id <= n[h].size
            /\ \A d \in data \ {c} : n[d].id = n[c].id => Newer(n, c, d)}

TreeOf(n, kept) == [i \in Ids |->
    IF \E c \in kept : n[c].id = i
    THEN CHOOSE c \in kept : n[c].id = i
    ELSE NoChunk]

\* The size is that of the header, or of the data written since.
SizeOf(n, kept, top) ==
    LET ends == {n[top].size} \cup {n[c].id : c \in {x \in kept : Newer(n, x, top)}}
    IN  CHOOSE e \in ends : \A m \in ends : m <= e

\* What the scan makes of the file.
FoundFile(n) ==
    LET top  == FoundHdr(n)
        kept == Kept(n, Cutting(n, top))
        size == SizeOf(n, kept, top)
    IN  [tree |-> TreeOf(n, kept), hdr_chunk |-> top,
         file_size |-> size, stored_size |-> size]

FoundContent(n) ==
    LET tree == FoundFile(n).tree
    IN  [i \in Ids |-> IF tree[i] = NoChunk THEN Hole ELSE n[tree[i]].val]

\* Slip: the chunk of the header not entered in the bitmap.
slip_UsedBy(f, b) == {p \in Pages : \E i \in Ids : f.tree[i] = <<b, p>>}

\* The chunks of file f in block b.
UsedBy(f, b) ==
    {p \in Pages : <<b, p>> = f.hdr_chunk \/ \E i \in Ids : f.tree[i] = <<b, p>>}

SeqOf(n, b) == IF n[<<b, 0>>] = Blank THEN 0 ELSE n[<<b, 0>>].seq

HighestSeq(n) ==
    LET seqs == {SeqOf(n, b) : b \in Blocks}
    IN  CHOOSE s \in seqs : \A t \in seqs : t <= s

\* The block the scan would go on allocating from, had it not called
\* yaffs_skip_rest_of_block() at its end.
HalfWritten(n, b) ==
    /\ SeqOf(n, b) = HighestSeq(n)
    /\ n[<<b, ChunksPerBlock - 1>>] = Blank

HasShrink(n, b) == \E h \in OfKind(n, "hdr") : h[1] = b /\ n[h].is_shrink

\* The blocks the scan erases once it has read them.
Stale(n) ==
    LET f == FoundFile(n)
    IN  {b \in Blocks : /\ SeqOf(n, b) # 0
                        /\ UsedBy(f, b) = {}
                        /\ ~HasShrink(n, b)
                        /\ ~HalfWritten(n, b)}

FoundInfo(n, f, b) ==
    [EmptyBlockInfo EXCEPT
        !.block_state    = IF SeqOf(n, b) = 0 THEN "EMPTY" ELSE "FULL",
        !.seq_number     = SeqOf(n, b),
        !.pages_in_use   = Cardinality(UsedBy(f, b)),
        !.has_shrink_hdr = HasShrink(n, b)]

\* What the scan makes of the device, when it finds file f.
FoundDev(n, f) ==
    [bi |-> [b \in Blocks |-> FoundInfo(n, f, b)],
     chunk_bits |-> [b \in Blocks |-> UsedBy(f, b)],
     n_free_chunks |-> Cardinality({c \in Chunks : c[2] \notin UsedBy(f, c[1])}),
     n_erased_blocks |-> Cardinality({b \in Blocks : SeqOf(n, b) = 0}),
     alloc_block |-> NoBlock, alloc_page |-> 0,
     alloc_block_finder |-> IF \E b \in Blocks : HalfWritten(n, b)
                            THEN CHOOSE b \in Blocks : HalfWritten(n, b) ELSE 0,
     seq_number |-> HighestSeq(n),
     gc_block |-> NoBlock, gc_chunk |-> 0, gc_dirtiest |-> NoBlock,
     oldest_dirty_seq |-> 0, oldest_dirty_block |-> NoBlock]

-----------------------------------------------------------------------------
(* Jobs.                                                                   *)

\* yaffs_wr_data_obj(); "base" is the size of the file before the hole that
\* the write helps to fill, -1 if it does not.
DataJob(i, v, base) == [do |-> "data", id |-> i, val |-> v, base |-> base]
HdrJob(shrink) == [do |-> "hdr", is_shrink |-> shrink]   \* yaffs_update_oh()
GcJob == [do |-> "gc"]                                   \* yaffs_check_gc()
HoleJob(n)  == [do |-> "hole", size |-> n]               \* yaffs2_handle_hole()
GrowJob(n)  == [do |-> "grow", size |-> n]               \* file_size = n
PruneJob(n) == [do |-> "prune", size |-> n]              \* yaffs_resize_file_down()

Idle == [pc |-> "idle", jobs |-> <<>>, old |-> NoChunk,
         aggressive |-> FALSE, max_copies |-> 0, max_tries |-> 0]

Job == Head(op.jobs)

\* The call goes on with these jobs.
Continue(jobs) ==
    op' = IF jobs = <<>> THEN Idle ELSE [Idle EXCEPT !.pc = "start", !.jobs = jobs]

NextJob == Continue(Tail(op.jobs))

\* The flash after the blocks the device has just erased are blank.
Erase(n, d, e) == [c \in Chunks |-> IF c[1] \in Erased(d, e) THEN Blank ELSE n[c]]

-----------------------------------------------------------------------------
(* Init: a formatted partition with one empty file.                        *)

FirstDev == take_page(with_alloc_block(ErasedDevice))

Init ==
    /\ dev = FirstDev
    /\ nand = [c \in Chunks |-> IF c = <<1, 0>> THEN HdrChunk(0, FALSE, 1) ELSE Blank]
    /\ file = [tree |-> [i \in Ids |-> NoChunk], hdr_chunk |-> <<1, 0>>,
               file_size |-> 0, stored_size |-> 0]
    /\ op = Idle
    /\ content = [i \in Ids |-> Hole]
    /\ doubt = {}
    /\ crashes = 0

-----------------------------------------------------------------------------
(* Calls.                                                                  *)

Call(jobs) ==
    /\ op.pc = "idle"
    /\ dev.seq_number < MaxSeq
    /\ Continue(jobs)
    /\ UNCHANGED <<dev, nand, file, history, crashes>>

\* yaffs_wr_file() of one chunk.
WriteFile(i, v) == Call(<<HoleJob(i - 1), DataJob(i, v, -1)>>)

\* yaffs_resize_file().
ResizeFile(n) ==
    /\ n # file.file_size
    /\ Call(<<GcJob>>
              \o (IF n > file.file_size THEN <<HoleJob(n), GrowJob(n)>>
                                        ELSE <<PruneJob(n)>>)
              \o <<HdrJob(FALSE)>>)

\* yaffs_flush_file() of a dirty file, or a change of its attributes.
FlushFile == Call(<<HdrJob(FALSE)>>)

-----------------------------------------------------------------------------
(* Jobs that leave the flash alone.                                        *)

At(do) == op.pc = "start" /\ Job.do = do

\* Slip: the header before a large hole is an ordinary one.
slip_HandleHole ==
    /\ At("hole")
    /\ Continue((IF Job.size > file.file_size THEN <<HdrJob(FALSE)>> ELSE <<>>)
                  \o Tail(op.jobs))
    /\ UNCHANGED <<dev, nand, file, history, crashes>>

\* A small hole is filled with zeros, a large one marked by a header with the
\* size before the hole.
HandleHole ==
    /\ At("hole")
    /\ LET old == file.file_size
           new == Job.size
           fill == [k \in 1 .. new - old |-> DataJob(old + k, Zero, old)]
       IN  Continue((IF new <= old THEN <<>>
                     ELSE IF new - old < SmallHole
                             /\ check_alloc_available(dev, SmallHole + 1)
                     THEN fill
                     ELSE <<HdrJob(TRUE)>>) \o Tail(op.jobs))
    /\ UNCHANGED <<dev, nand, file, history, crashes>>

Grow ==
    /\ At("grow")
    /\ file' = [file EXCEPT !.file_size = Job.size]
    /\ NextJob
    /\ UNCHANGED <<dev, nand, history, crashes>>

-----------------------------------------------------------------------------
(* yaffs_resize_file_down(): the chunks go one by one, the last first, and  *)
(* a block that is left empty is erased at once.                           *)

ToPrune == {i \in Ids : i > Job.size /\ file.tree[i] # NoChunk}

PruneChunk ==
    /\ At("prune")
    /\ ToPrune # {}
    /\ LET i == CHOOSE x \in ToPrune : \A y \in ToPrune : y <= x
       IN  /\ dev' = chunk_del(dev, file.tree[i], TRUE)
           /\ file' = [file EXCEPT !.tree[i] = NoChunk]
    /\ nand' = Erase(nand, dev, dev')
    /\ doubt' = doubt \cup {i \in Ids : i > Job.size}
    /\ UNCHANGED <<op, content, crashes>>

PruneEnd ==
    /\ At("prune")
    /\ ToPrune = {}
    /\ file' = [file EXCEPT !.file_size = Job.size, !.stored_size = Job.size]
    /\ doubt' = doubt \cup {i \in Ids : i > Job.size}
    /\ NextJob
    /\ UNCHANGED <<dev, nand, content, crashes>>

-----------------------------------------------------------------------------
(* Garbage collection before a write.                                      *)

Aggressive == op.aggressive \/ dev.n_erased_blocks < min_erased

GcDue == op.pc = "start" /\ Job.do \in {"data", "hdr", "gc"}

CollectBlock(d, b) ==
    /\ dev' = GcBlockEntry(d, b, TRUE)
    /\ nand' = Erase(nand, dev, dev')
    /\ op' = [op EXCEPT !.pc = "collect",
                        !.aggressive = Aggressive,
                        !.max_copies = IF Aggressive THEN ChunksPerBlock
                                                     ELSE GcMaxCopies,
                        !.max_tries = @ + 1]
    /\ UNCHANGED <<file, history, crashes>>

GcResume ==
    /\ GcDue
    /\ dev.gc_block # NoBlock
    /\ CollectBlock(dev, dev.gc_block)

GcRefresh ==
    /\ GcDue
    /\ dev.gc_block = NoBlock
    /\ ~Aggressive
    /\ \E b \in RefreshBlocks(dev) : CollectBlock([dev EXCEPT !.gc_chunk = 0], b)

GcSelect ==
    /\ GcDue
    /\ dev.gc_block = NoBlock
    /\ \E b \in Selectable(dev, Aggressive) :
        \E d \in {dev, find_oldest_dirty_seq(dev)} :
            /\ dev.bi[b].has_shrink_hdr /\ b # dev.gc_dirtiest =>
                    d = find_oldest_dirty_seq(dev)
            /\ CollectBlock([d EXCEPT !.gc_dirtiest = NoBlock, !.gc_chunk = 0], b)

\* yaffs_check_gc() returns to the write it was called for.
AfterGc == [Idle EXCEPT !.pc = "program", !.jobs = op.jobs]

\* A passive search that selects no block: gc_dirtiest is a block it has seen,
\* the one remembered before, or none.
GcRemember ==
    /\ GcDue
    /\ dev.gc_block = NoBlock
    /\ ~Aggressive
    /\ \E d \in {dev, find_oldest_dirty_seq(dev)},
           b \in Candidates(dev) \cup {dev.gc_dirtiest, NoBlock} :
        /\ b \notin {dev.gc_dirtiest, NoBlock} /\ dev.bi[b].has_shrink_hdr =>
                d = find_oldest_dirty_seq(dev)
        /\ dev' = [d EXCEPT !.gc_dirtiest = b, !.gc_chunk = 0]
    /\ op' = AfterGc
    /\ UNCHANGED <<nand, file, history, crashes>>

GcPass ==
    /\ GcDue
    /\ \/ ~Aggressive /\ dev' = dev
       \/ /\ Aggressive
          /\ dev.gc_block = NoBlock /\ Selectable(dev, TRUE) = {}
          /\ dev' = [dev EXCEPT !.gc_chunk = 0]
    /\ op' = AfterGc
    /\ UNCHANGED <<nand, file, history, crashes>>

Collecting ==
    /\ Unfinished(dev)
    /\ op.max_copies > 0
    /\ UsedPages(dev) # {}

\* Slip: the copy of a header keeps the size it was written with.
slip_Copied(r, s) ==
    IF r.kind = "hdr" THEN HdrChunk(r.size, FALSE, s) ELSE [r EXCEPT !.seq = s]

\* A header copied by the collector has done its shrinking, and takes the
\* size the file has now.
Copied(r, s) ==
    IF r.kind = "hdr" THEN HdrChunk(file.stored_size, FALSE, s)
                      ELSE [r EXCEPT !.seq = s]

\* The file with record r now in chunk c.
Located(r, c) ==
    IF r.kind = "hdr" THEN [file EXCEPT !.hdr_chunk = c]
                      ELSE [file EXCEPT !.tree[r.id] = c]

\* Put record r, its tags aside, into the next chunk.
Program(d, r) ==
    LET c == NextChunk(d)
    IN  /\ dev' = mark_written(take_page(d), c[1])
        /\ nand' = [nand EXCEPT ![c] = [r EXCEPT !.seq = d.bi[c[1]].seq_number]]

\* yaffs_gc_process_chunk(): the copy is written and pointed at ...
GcCopy ==
    /\ op.pc = "collect" /\ Collecting
    /\ LET d == with_alloc_block([dev EXCEPT !.gc_chunk = GcPage(dev)])
           old == <<dev.gc_block, GcPage(dev)>>
       IN  /\ CanAlloc(d, TRUE)
           /\ Program(d, Copied(nand[old], 0))
           /\ file' = Located(nand[old], NextChunk(d))
           /\ op' = [op EXCEPT !.pc = "copied", !.old = old, !.max_copies = @ - 1]
    /\ UNCHANGED <<history, crashes>>

\* ... and the original deleted.
GcDelete ==
    /\ op.pc = "copied"
    /\ dev' = chunk_del([dev EXCEPT !.gc_chunk = @ + 1], op.old, TRUE)
    /\ nand' = Erase(nand, dev, dev')
    /\ op' = [op EXCEPT !.pc = "collect", !.old = NoChunk]
    /\ UNCHANGED <<file, history, crashes>>

\* The end of yaffs_gc_block(); yaffs_check_gc() makes another turn if that
\* has gained nothing and the reserve is not full.
GcEnd ==
    /\ op.pc = "collect" /\ ~Collecting
    /\ dev' = GcBlockExit(dev)
    /\ LET again == /\ dev.n_erased_blocks < NReservedBlocks
                    /\ Unfinished(dev)
                    /\ op.max_tries < 2
       IN  op' = IF again THEN [op EXCEPT !.pc = "start"] ELSE AfterGc
    /\ UNCHANGED <<nand, file, history, crashes>>

-----------------------------------------------------------------------------
(* Writing.                                                                *)

Stored(i) == IF i > file.stored_size THEN i ELSE file.stored_size
Size(i) == IF i > file.file_size THEN i ELSE file.file_size

\* resize_file() runs the collector once more than its header update does.
GcOnly ==
    /\ op.pc = "program" /\ Job.do = "gc"
    /\ NextJob
    /\ UNCHANGED <<dev, nand, file, history, crashes>>

\* yaffs_wr_data_obj(), and the data is on flash from here on ...
DataWritten(d) ==
    /\ LET r == DataChunk(Job.id, Job.val, 0)
       IN  /\ Program(d, r)
           /\ file' = [Located(r, NextChunk(d)) EXCEPT !.stored_size = Stored(Job.id),
                                                       !.file_size = Size(Job.id)]
    /\ content' = [content EXCEPT ![Job.id] = Job.val]
    /\ doubt' = doubt \ {Job.id}
    /\ op' = [op EXCEPT !.pc = "delete", !.old = file.tree[Job.id]]
    /\ UNCHANGED crashes

\* ... or there is no room.  stored_size has moved already: the next header takes
\* the chunk, or an old one with its id, for a part of the file.  A hole that
\* cannot be filled, its writes come first, is cut off again and marked by a
\* header.
DataRefused(d) ==
    /\ dev' = d
    /\ file' = [file EXCEPT !.stored_size = Stored(Job.id)]
    /\ doubt' = IF Job.id > file.stored_size THEN doubt \cup {Job.id} ELSE doubt
    /\ IF Job.base = -1
       THEN NextJob
       ELSE LET filling == {k \in DOMAIN op.jobs :
                               op.jobs[k].do = "data" /\ op.jobs[k].base # -1}
                rest == SubSeq(op.jobs, Cardinality(filling) + 1, Len(op.jobs))
            IN  Continue(<<PruneJob(Job.base), HdrJob(TRUE)>> \o rest)
    /\ UNCHANGED <<nand, content, crashes>>

WriteData ==
    /\ op.pc = "program" /\ Job.do = "data"
    /\ LET d == with_alloc_block(dev)
       IN  IF CanAlloc(d, FALSE) THEN DataWritten(d) ELSE DataRefused(d)

\* yaffs_update_oh().
WriteHdr ==
    /\ op.pc = "program" /\ Job.do = "hdr"
    /\ LET d == with_alloc_block(dev)
           r == HdrChunk(file.stored_size, Job.is_shrink, 0)
       IN  /\ CanAlloc(d, TRUE)
           /\ Program(d, r)
           /\ file' = Located(r, NextChunk(d))
    /\ doubt' = {i \in doubt : i <= file.stored_size}
    /\ content' = [i \in Ids |-> IF i \in doubt \ doubt' THEN Hole ELSE content[i]]
    /\ op' = [op EXCEPT !.pc = "delete", !.old = file.hdr_chunk]
    /\ UNCHANGED crashes

\* The chunk that was replaced is deleted; a shrink header marks its block.
DeleteOld ==
    /\ op.pc = "delete"
    /\ LET d == IF op.old = NoChunk THEN dev ELSE chunk_del(dev, op.old, TRUE)
       IN  dev' = IF Job.do = "hdr" /\ Job.is_shrink
                  THEN mark_shrink_hdr(d, file.hdr_chunk[1]) ELSE d
    /\ nand' = Erase(nand, dev, dev')
    /\ NextJob
    /\ UNCHANGED <<file, history, crashes>>

-----------------------------------------------------------------------------
(* Power failure and mount.                                                *)

\* Nothing is left in RAM.
Crash ==
    /\ op.pc # "down"
    /\ crashes < MaxCrashes
    /\ crashes' = crashes + 1
    /\ op' = [Idle EXCEPT !.pc = "down"]
    /\ dev' = FirstDev
    /\ file' = [tree |-> [i \in Ids |-> NoChunk], hdr_chunk |-> NoChunk,
                file_size |-> 0, stored_size |-> 0]
    /\ UNCHANGED <<nand, history>>

\* The scan erases stale blocks as it goes, newest first; power may fail
\* in between.
ScanErase ==
    /\ op.pc = "down"
    /\ \E b \in Stale(nand) :
        /\ \A a \in Stale(nand) : SeqOf(nand, a) <= SeqOf(nand, b)
        /\ nand' = [c \in Chunks |-> IF c[1] = b THEN Blank ELSE nand[c]]
    /\ UNCHANGED <<dev, file, op, history, crashes>>

Mount ==
    /\ op.pc = "down"
    /\ Stale(nand) = {}
    /\ file' = FoundFile(nand)
    /\ dev' = FoundDev(nand, file')
    /\ op' = Idle
    /\ content' = FoundContent(nand)
    /\ doubt' = {i \in doubt : content'[i] = Hole /\ i <= file'.stored_size}
    /\ UNCHANGED <<nand, crashes>>

-----------------------------------------------------------------------------
Calls ==
    \/ \E i \in Ids, v \in Vals : WriteFile(i, v)
    \/ \E n \in 0 .. MaxId : ResizeFile(n)
    \/ FlushFile

Gc == GcResume \/ GcRefresh \/ GcSelect \/ GcRemember \/ GcPass
        \/ GcCopy \/ GcDelete \/ GcEnd

Resizing == HandleHole \/ Grow \/ PruneChunk \/ PruneEnd

Writing == GcOnly \/ WriteData \/ WriteHdr \/ DeleteOld

Power == Crash \/ ScanErase \/ Mount

Next == Calls \/ Gc \/ Resizing \/ Writing \/ Power

Spec == Init /\ [][Next]_vars

-----------------------------------------------------------------------------
(* Properties.                                                             *)

Record ==
    {Blank}
      \cup [kind : {"data"}, id : Ids, val : Data, seq : Nat]
      \cup [kind : {"hdr"}, size : 0 .. MaxId, is_shrink : BOOLEAN, seq : Nat]

\* Every field of the device, the flash and the file keeps its type: no chunk
\* id or size leaves the file's bounds.
TypeOK ==
    /\ dev \in Device
    /\ nand \in [Chunks -> Record]
    /\ file.tree \in [Ids -> Chunks \cup {NoChunk}]
    /\ {file.file_size, file.stored_size} \subseteq 0 .. MaxId
    /\ op.pc \in {"down", "idle", "start", "collect", "copied", "program", "delete"}
    /\ doubt \subseteq Ids

Up == op.pc # "down"

\* Whatever was written is on flash: a scan made at any moment, in the middle
\* of a write, a truncation, a collection or another scan, finds in every
\* chunk of the file what the calls have made of it, chunks cut off by an
\* unfinished truncation and chunks past the end that there was no room for aside
\* (yaffs2_scan_chunk against yaffs_wr_data_obj, yaffs_update_oh and
\* yaffs_gc_process_chunk).
ScanFindsContent ==
    LET found == FoundContent(nand)
    IN  \A i \in Ids \ doubt : found[i] = content[i]

\* From the first chunk a truncation deletes to the header it ends with.
Shortening ==
    \/ \E k \in DOMAIN op.jobs : op.jobs[k].do = "prune"
    \/ \E i \in doubt : i > file.stored_size

\* ... and finds it in the chunks that the tree and hdr_chunk point at, and
\* comes to the size that the file has on flash, or to a smaller one when the last
\* chunk of that size was refused.
ScanFindsFile ==
    Up => LET f == FoundFile(nand)
          IN  /\ f.hdr_chunk = file.hdr_chunk
              /\ \A i \in Ids \ doubt : f.tree[i] = file.tree[i]
              /\ ~Shortening => \/ f.stored_size = file.stored_size
                                \/ /\ f.stored_size < file.stored_size
                                   /\ file.stored_size \in doubt

\* The chunks the tree, the header and a pending deletion refer to.
InUse == ({file.tree[i] : i \in Ids} \cup {file.hdr_chunk, op.old}) \ {NoChunk}

\* Chunk bitmaps and free counts agree with the file, after a mount as before
\* the power failed; and what is taken for erased, whole blocks and the pages
\* left in the allocating one, is blank.
Accounted ==
    /\ TypeOK
    /\ Up => /\ \A b \in Blocks : dev.chunk_bits[b] = {c[2] : c \in {x \in InUse : x[1] = b}}
             /\ dev.n_free_chunks = Cardinality(Chunks \ InUse)
             /\ dev.n_erased_blocks = Cardinality(EmptyBlocks(dev))
             /\ \A c \in Chunks :
                   \/ dev.bi[c[1]].block_state = "EMPTY"
                   \/ c[1] = dev.alloc_block /\ c[2] >= dev.alloc_page
                   => nand[c] = Blank

\* The log implements the abstract file of YaffsStore.
Store == INSTANCE YaffsStore
ImplementsStore == Store!Spec

\* The reserve lets a header update and the collector's copy find a chunk even
\* when there is no room for data, and after a power failure has left blocks
\* half written (yaffs_check_alloc_available, yaffs_alloc_chunk).  This is why
\* GcCopy and WriteHdr need no branch for a failed allocation.
ReserveSuffices ==
    \/ op.pc = "program" /\ Job.do = "hdr"
    \/ op.pc = "collect" /\ Collecting
    => CanAlloc(with_alloc_block(dev), TRUE)
=============================================================================
