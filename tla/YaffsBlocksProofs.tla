-------------------------- MODULE YaffsBlocksProofs --------------------------
(***************************************************************************)
(* Theorems about YaffsBlocks, for every geometry the mount accepts.       *)
(***************************************************************************)
EXTENDS YaffsBlocks, YaffsDeviceLemmas

-----------------------------------------------------------------------------
(* The inductive invariant.                                                *)

IInv ==
    /\ DevInv(dev)
    /\ op \in Operation
    /\ held \subseteq Chunks /\ softs \subseteq Chunks /\ held \cap softs = {}
    /\ Owned(dev, held \cup softs)
    /\ debts \subseteq Blocks \X Blocks
    /\ faults \in Nat
    /\ op.pc = "copy" => dev.gc_block # NoBlock /\ <<dev.gc_block, dev.gc_chunk>> \in held

\* Settling debts leaves a set of pairs of blocks.
LEMMA SettleType ==
    ASSUME NEW P \in SUBSET (Blocks \X Blocks), NEW e
    PROVE  Settle(P, e) \in SUBSET (Blocks \X Blocks)
BY DEF Settle

\* The count of faults stays a number.
LEMMA FaultType ==
    ASSUME NEW ok \in BOOLEAN, faults \in Nat, Fault(ok) \/ FailedTurn(ok)
    PROVE  faults' \in Nat
BY DEF Fault, FailedTurn, Faults

\* yaffs_gc_process_chunk() stops counting a soft-deleted page as free.
LEMMA DropSoftInv ==
    ASSUME NEW d, DevInv(d), NEW c \in Chunks,
           NEW e, e = StopCounting(d, c)
    PROVE  /\ DevInv(e) /\ e.chunk_bits = d.chunk_bits
           /\ e.gc_block = d.gc_block
<1> DEFINE b == c[1]
           n == c[2] + 1
           s == d.bi[b].soft_del_pages - 1
           m == d.n_free_chunks - 1
           r == [d.bi[b] EXCEPT !.soft_del_pages = s]
           f == [d.bi EXCEPT ![b] = r]
<1>1. /\ d \in Device /\ PointerInv(d) /\ \A x \in Blocks : BlockInv(d, x)
      /\ Distinct(d) /\ b \in Blocks /\ n \in Nat
  BY ChunkParts DEF DevInv, Pages
<1>2. e = [d EXCEPT !.n_free_chunks = m, !.bi = f, !.gc_chunk = n]
  BY DEF StopCounting
<1> HIDE DEF b, n
<1>3. d.bi[b] \in BlockInfo /\ s \in Int /\ m \in Int /\ s < d.bi[b].soft_del_pages
  BY <1>1 DEF Device, BlockInfo
<1> HIDE DEF s, m
<1>4. /\ r \in BlockInfo /\ r.pages_in_use = d.bi[b].pages_in_use
      /\ r.block_state = d.bi[b].block_state
      /\ r.seq_number = d.bi[b].seq_number
      /\ r.soft_del_pages = s
  <2> DEFINE q == d.bi[b]
  <2>1. q \in BlockInfo
    BY <1>3
  <2> HIDE DEF q
  <2>2. [q EXCEPT !.soft_del_pages = s] \in
           {t \in BlockInfo : /\ t.pages_in_use = q.pages_in_use
                              /\ t.block_state = q.block_state
                              /\ t.seq_number = q.seq_number
                              /\ t.soft_del_pages = s}
    BY <1>3, <2>1 DEF BlockInfo
  <2> QED BY <2>2 DEF q
<1> HIDE DEF r
<1>5. /\ f \in [Blocks -> BlockInfo] /\ f[b] = r
      /\ \A x \in Blocks \ {b} : f[x] = d.bi[x]
  BY <1>1, <1>4 DEF Device
<1> HIDE DEF f
<1>6. /\ e \in Device /\ e.bi = f /\ e.chunk_bits = d.chunk_bits
      /\ e.alloc_block = d.alloc_block /\ e.alloc_page = d.alloc_page
      /\ e.seq_number = d.seq_number
      /\ e.gc_block = d.gc_block
      /\ e.gc_dirtiest = d.gc_dirtiest
      /\ e.oldest_dirty_seq = d.oldest_dirty_seq
      /\ e.oldest_dirty_block = d.oldest_dirty_block
  BY <1>1, <1>2, <1>3, <1>5 DEF Device
<1>7. ASSUME NEW x \in Blocks
      PROVE  BlockInv(e, x)
  <2>1. BlockInv(d, x)
    BY <1>1
  <2>2. CASE x = b
    <3>1. HasDiscarded(e, x) => HasDiscarded(d, x)
      <4>1. /\ e.bi[b] = r /\ s \in Int /\ d.bi[b].soft_del_pages \in Int
            /\ d.bi[b].pages_in_use \in Int /\ ChunksPerBlock \in Int
        BY <1>1, <1>3, <1>5, <1>6, FieldTypes, GeometryAssumption
      <4>2. d.bi[b].pages_in_use - d.bi[b].soft_del_pages
              < d.bi[b].pages_in_use - s
        BY <1>3, <4>1
      <4>3. PagesUsed(d, b) < PagesUsed(e, b)
        BY <1>4, <4>1, <4>2 DEF PagesUsed
      <4>4. PagesUsed(d, b) \in Int /\ PagesUsed(e, b) \in Int
        BY <1>4, <4>1 DEF PagesUsed
      <4> QED BY <1>4, <2>2, <4>1, <4>3, <4>4 DEF HasDiscarded
    <3> QED BY <1>4, <1>5, <1>6, <2>1, <2>2, <3>1 DEF BlockInv
  <2>3. CASE x # b
    BY <1>5, <1>6, <2>1, <2>3 DEF BlockInv, HasDiscarded, PagesUsed
  <2> QED BY <2>2, <2>3
<1>8. \A x \in Blocks : /\ e.bi[x].block_state = d.bi[x].block_state
                        /\ e.bi[x].seq_number = d.bi[x].seq_number
  BY <1>4, <1>5, <1>6
<1>9. PointerInv(e)
  BY <1>1, <1>6, <1>8, FieldTypes DEF PointerInv
<1>10. Distinct(e)
  BY <1>1, <1>8 DEF Distinct
<1> QED BY <1>6, <1>7, <1>9, <1>10 DEF DevInv

-----------------------------------------------------------------------------
(* The steps.                                                              *)

\* The start of yaffs_write_new_chunk() keeps the invariant.
LEMMA StartWriteStep ==
    ASSUME IInv, NEW replace \in BOOLEAN, NEW reserve \in BOOLEAN,
           NEW shrink \in BOOLEAN, StartWrite(replace, reserve, shrink)
    PROVE  IInv'
<1>1. op' \in Operation /\ op'.pc = "check"
  BY DEF StartWrite, Idle, Operation
<1> QED BY <1>1 DEF StartWrite, IInv

\* So does the start of yaffs_bg_gc().
LEMMA BgGcStep ==
    ASSUME IInv, BgGc
    PROVE  IInv'
<1>1. op' \in Operation /\ op'.pc = "check"
  BY DEF BgGc, Idle, Operation
<1> QED BY <1>1 DEF BgGc, IInv

\* yaffs_chunk_del() from the file layer keeps the invariant.
LEMMA DeleteChunkStep ==
    ASSUME IInv, NEW c \in held, DeleteChunk(c)
    PROVE  IInv'
<1>1. /\ DevInv(dev) /\ c \in Chunks /\ c[2] \in dev.chunk_bits[c[1]]
      /\ held \cup softs \in SUBSET Chunks /\ c \notin softs
      /\ op.pc = "idle"
  BY OwnedBit DEF IInv, DeleteChunk
<1>2. PICK eraseOk \in BOOLEAN : Fault(eraseOk) /\ dev' = chunk_del(dev, c, eraseOk)
  BY DEF DeleteChunk
<1>3. /\ DevInv(dev') /\ dev' \in Device
      /\ dev'.chunk_bits[c[1]] = dev.chunk_bits[c[1]] \ {c[2]}
      /\ \A x \in Blocks \ {c[1]} : dev'.chunk_bits[x] = dev.chunk_bits[x]
  BY <1>1, <1>2, ChunkDelInv DEF Elsewhere, DevInv
<1>4. Owned(dev', (held \cup softs) \ {c})
  BY <1>1, <1>3, OwnedDel DEF IInv
<1>5. held' \cup softs' = (held \cup softs) \ {c}
  BY <1>1 DEF DeleteChunk
<1>6. faults' \in Nat /\ debts' \in SUBSET (Blocks \X Blocks)
  BY <1>2, FaultType, SettleType DEF DeleteChunk, IInv
<1> QED BY <1>1, <1>3, <1>4, <1>5, <1>6 DEF DeleteChunk, IInv

\* yaffs_soft_del_chunk() keeps the invariant.
LEMMA SoftDeleteStep ==
    ASSUME IInv, NEW c \in held, SoftDelete(c)
    PROVE  IInv'
<1>1. /\ DevInv(dev) /\ c \in Chunks /\ c[2] \in dev.chunk_bits[c[1]]
      /\ held \cup softs \in SUBSET Chunks
  BY OwnedBit DEF IInv
<1>2. DevInv(dev') /\ dev'.chunk_bits = dev.chunk_bits
  BY <1>1, SoftDelInv DEF SoftDelete
<1>3. held' \cup softs' = held \cup softs
  BY DEF SoftDelete
<1>4. Owned(dev', held' \cup softs')
  BY <1>2, <1>3 DEF IInv, Owned
<1> QED BY <1>1, <1>2, <1>4 DEF SoftDelete, IInv

\* A read error keeps the invariant.
LEMMA ReadErrorStep ==
    ASSUME IInv, NEW c \in held, ReadError(c)
    PROVE  IInv'
<1>1. DevInv(dev) /\ c[1] \in Blocks
  BY ChunkParts DEF IInv
<1>2. DevInv(dev') /\ dev'.chunk_bits = dev.chunk_bits
  BY <1>1, ChunkErrorInv DEF ReadError
<1>3. Owned(dev', held' \cup softs')
  BY <1>2 DEF IInv, Owned, ReadError
<1>4. faults' \in Nat
  BY FaultType DEF ReadError, IInv
<1> QED BY <1>2, <1>3, <1>4 DEF ReadError, IInv

\* Starting on a full block of a device that is as good as the current one.
LEMMA CollectBlockStep ==
    ASSUME IInv, NEW d, DevInv(d), d.chunk_bits = dev.chunk_bits,
           NEW b \in Blocks, d.gc_block \in {NoBlock, b},
           d.bi[b].block_state \in Whole,
           CollectBlock(d, b)
    PROVE  IInv'
<1>1. PICK eraseOk \in BOOLEAN : Fault(eraseOk) /\ dev' = GcBlockEntry(d, b, eraseOk)
  BY DEF CollectBlock
<1>2. DevInv(dev') /\ dev'.chunk_bits = dev.chunk_bits
  BY <1>1, GcEntryInv
<1>3. faults' \in Nat /\ debts' \in SUBSET (Blocks \X Blocks)
  BY <1>1, FaultType, SettleType DEF CollectBlock, IInv
<1>4. op' \in Operation /\ op'.pc = "collect"
  <2>1. Aggressive \in BOOLEAN /\ op \in Operation /\ op.max_tries + 1 \in Nat
    BY DEF Aggressive, IInv, Operation
  <2>2. (IF Aggressive THEN ChunksPerBlock ELSE GcMaxCopies) \in Nat
    BY GeometryAssumption, BoundsAssumption
  <2> QED BY <2>1, <2>2 DEF CollectBlock, Operation
<1>5. Owned(dev', held' \cup softs')
  BY <1>2 DEF IInv, Owned, CollectBlock
<1> QED BY <1>2, <1>3, <1>4, <1>5 DEF CollectBlock, IInv

\* Resuming the block of a partial collection keeps the invariant.
LEMMA GcResumeStep ==
    ASSUME IInv, GcResume
    PROVE  IInv'
<1>1. DevInv(dev) /\ dev \in Device /\ dev.gc_block # NoBlock
  BY DEF IInv, DevInv, GcResume
<1>2. dev.gc_block \in Blocks /\ dev.bi[dev.gc_block].block_state \in Whole
  BY <1>1, FieldTypes DEF DevInv, PointerInv
<1> QED BY <1>1, <1>2, CollectBlockStep DEF GcResume

\* Refreshing a block keeps the invariant: it is full.
LEMMA GcRefreshStep ==
    ASSUME IInv, GcRefresh
    PROVE  IInv'
<1> DEFINE e == [dev EXCEPT !.gc_chunk = 0]
<1>1. DevInv(dev) /\ dev.gc_block = NoBlock /\ dev \in Device /\ 0 \in Nat
  BY DEF IInv, DevInv, GcRefresh
<1>2. PICK b \in RefreshBlocks(dev) : CollectBlock(e, b)
  BY DEF GcRefresh
<1>3. b \in Blocks /\ dev.bi[b].block_state \in Whole
  BY DEF RefreshBlocks, Whole
<1>4. e.bi = dev.bi /\ e.gc_block = dev.gc_block
  BY <1>1 DEF Device
<1>5. DevInv(e) /\ e.chunk_bits = dev.chunk_bits
  BY <1>1, CursorOnlyInv
<1> HIDE DEF e
<1> QED BY <1>1, <1>2, <1>3, <1>4, <1>5, CollectBlockStep

\* gc_dirtiest may be forgotten at any time.
LEMMA ForgetInv ==
    ASSUME NEW d, DevInv(d), NEW e, e = [d EXCEPT !.gc_dirtiest = NoBlock, !.gc_chunk = 0]
    PROVE  /\ DevInv(e) /\ e.bi = d.bi /\ e.chunk_bits = d.chunk_bits
           /\ e.gc_block = d.gc_block
<1>1. d \in Device /\ NoBlock \in Blocks \cup {NoBlock}
  BY DEF DevInv
<1>2. /\ e \in Device /\ e.bi = d.bi /\ e.chunk_bits = d.chunk_bits
      /\ e.alloc_block = d.alloc_block /\ e.alloc_page = d.alloc_page
      /\ e.seq_number = d.seq_number
      /\ e.gc_block = d.gc_block /\ e.gc_dirtiest = NoBlock
      /\ e.oldest_dirty_seq = d.oldest_dirty_seq
      /\ e.oldest_dirty_block = d.oldest_dirty_block
  BY <1>1 DEF Device
<1> QED BY <1>2, AlikeInv

\* Selecting a block and starting on it keeps the invariant, also when the block
\* is gc_dirtiest or oldest_dirty_block, which are not looked at again.
LEMMA GcSelectStep ==
    ASSUME IInv, GcSelect
    PROVE  IInv'
<1>1. DevInv(dev) /\ dev.gc_block = NoBlock /\ Aggressive \in BOOLEAN
  BY DEF IInv, GcSelect, Aggressive, Operation
<1>2. PICK b \in Selectable(dev, Aggressive), d \in {dev, find_oldest_dirty_seq(dev)} :
          CollectBlock([d EXCEPT !.gc_dirtiest = NoBlock, !.gc_chunk = 0], b)
  BY DEF GcSelect
<1>3. b \in Blocks /\ dev.bi[b].block_state \in Whole
  BY <1>1, SelectableFull
<1>4. /\ DevInv(d) /\ d.bi = dev.bi /\ d.chunk_bits = dev.chunk_bits
      /\ d.gc_block = NoBlock
  BY <1>1, FindOldestInv
<1> DEFINE e == [d EXCEPT !.gc_dirtiest = NoBlock, !.gc_chunk = 0]
<1>5. /\ DevInv(e) /\ e.bi = d.bi /\ e.chunk_bits = d.chunk_bits
      /\ e.gc_block = d.gc_block
  <2> HIDE DEF e
  <2> QED BY <1>4, ForgetInv DEF e
<1>6. CollectBlock(e, b)
  BY <1>2
<1> HIDE DEF e
<1>7. e.gc_block \in {NoBlock, b} /\ e.bi[b].block_state \in Whole
        /\ e.chunk_bits = dev.chunk_bits
  BY <1>3, <1>4, <1>5
<1> QED BY <1>3, <1>5, <1>6, <1>7, CollectBlockStep

\* What yaffs_check_gc() returns to is a call in progress, or none.
LEMMA AfterGcType ==
    ASSUME IInv
    PROVE  AfterGc \in Operation /\ AfterGc.pc # "copy"
BY DEF AfterGc, Idle, IInv, Operation

\* A passive search that selects nothing keeps the invariant, whatever it
\* remembers in gc_dirtiest.
LEMMA GcRememberStep ==
    ASSUME IInv, GcRemember
    PROVE  IInv'
<1>1. DevInv(dev) /\ dev.gc_block = NoBlock
  BY DEF IInv, GcRemember
<1>2. PICK d \in {dev, find_oldest_dirty_seq(dev)},
           b \in Candidates(dev) \cup {dev.gc_dirtiest, NoBlock} :
        dev' = [d EXCEPT !.gc_dirtiest = b, !.gc_chunk = 0]
  BY DEF GcRemember
<1>3. DevInv(d) /\ d.bi = dev.bi /\ d.chunk_bits = dev.chunk_bits
  BY <1>1, FindOldestInv
<1>4. DevInv(dev') /\ dev'.chunk_bits = dev.chunk_bits
  <2>1. CASE b = NoBlock
    BY <1>2, <1>3, <2>1, ForgetInv
  <2>2. CASE b # NoBlock
    <3>1. b \in Blocks /\ dev.bi[b].block_state \in Whole
      BY <1>1, <2>2, FieldTypes DEF Candidates, DirtyBlocks, Whole, DevInv, PointerInv
    <3> QED  BY <1>2, <1>3, <3>1, RememberInv
  <2> QED  BY <2>1, <2>2
<1>5. op' \in Operation /\ op'.pc # "copy"
  BY AfterGcType DEF GcRemember
<1>6. Owned(dev', held' \cup softs')
  BY <1>4 DEF IInv, Owned, GcRemember
<1> QED BY <1>4, <1>5, <1>6 DEF GcRemember, IInv

\* So does a round that does nothing, or finds nothing.
LEMMA GcPassStep ==
    ASSUME IInv, GcPass
    PROVE  IInv'
<1>1. op' \in Operation /\ op'.pc # "copy"
  BY AfterGcType DEF GcPass
<1>2. DevInv(dev) /\ (dev' = dev \/ dev' = [dev EXCEPT !.gc_chunk = 0])
  BY DEF GcPass, IInv
<1>3. DevInv(dev') /\ dev'.chunk_bits = dev.chunk_bits
  BY <1>2, CursorOnlyInv
<1>4. Owned(dev', held' \cup softs')
  BY <1>3 DEF IInv, Owned, GcPass
<1> QED BY <1>1, <1>3, <1>4 DEF GcPass, IInv

-----------------------------------------------------------------------------
(* The loop of yaffs_gc_block().                                           *)

\* Dropping a soft-deleted chunk keeps the invariant.
LEMMA GcDropSoftStep ==
    ASSUME IInv, GcDropSoft
    PROVE  IInv'
<1> DEFINE b == dev.gc_block
           p == GcPage(dev)
           c == <<b, p>>
           d == StopCounting(dev, c)
<1>1. /\ DevInv(dev) /\ dev \in Device /\ b # NoBlock /\ UsedPages(dev) # {}
      /\ op \in Operation /\ op.max_copies > 0
  BY DEF IInv, DevInv, GcDropSoft, Collecting, Unfinished
<1>2. b \in Blocks /\ p \in Pages /\ p \in dev.chunk_bits[b] /\ p + 1 \in Nat
  BY <1>1, GcPageUsed DEF Pages
<1>3. PICK eraseOk \in BOOLEAN : Fault(eraseOk) /\ dev' = chunk_del(d, c, eraseOk)
  BY DEF GcDropSoft
<1>4. c \in softs /\ softs' = softs \ {c} /\ held' = held
  BY DEF GcDropSoft
<1>5. c \in Chunks /\ c[1] = b /\ c[2] = p
  BY <1>2 DEF Chunks
<1> HIDE DEF b, p, c, d
<1>6. DevInv(d) /\ d.chunk_bits = dev.chunk_bits
  BY <1>1, <1>5, DropSoftInv DEF d
<1>7. /\ DevInv(dev') /\ dev' \in Device
      /\ dev'.chunk_bits[c[1]] = dev.chunk_bits[c[1]] \ {c[2]}
      /\ \A x \in Blocks \ {c[1]} : dev'.chunk_bits[x] = dev.chunk_bits[x]
  <2>1. c[2] \in d.chunk_bits[c[1]]
    BY <1>2, <1>5, <1>6
  <2>2. /\ DevInv(dev') /\ Elsewhere(d, dev', c[1])
        /\ dev'.chunk_bits[c[1]] = d.chunk_bits[c[1]] \ {c[2]}
    BY <1>3, <1>5, <1>6, <2>1, ChunkDelInv
  <2> QED BY <1>5, <1>6, <2>2 DEF Elsewhere, DevInv
<1>8. held \cup softs \in SUBSET Chunks
  BY DEF IInv
<1>9. Owned(dev', (held \cup softs) \ {c})
  BY <1>5, <1>7, <1>8, OwnedDel DEF IInv
<1>10. held' \cup softs' = (held \cup softs) \ {c}
  BY <1>4 DEF IInv
<1>11. faults' \in Nat /\ debts' \in SUBSET (Blocks \X Blocks)
  BY <1>3, FaultType, SettleType DEF GcDropSoft, IInv
<1>12. op' \in Operation /\ op'.pc = "collect"
  <2>1. op.max_copies - 1 \in Nat
    BY <1>1 DEF Operation
  <2> QED BY <1>1, <2>1 DEF GcDropSoft, Operation
<1> QED BY <1>4, <1>7, <1>9, <1>10, <1>11, <1>12 DEF IInv

\* Stepping to a chunk that has to be copied keeps the invariant.
LEMMA GcCopyStep ==
    ASSUME IInv, GcCopy
    PROVE  IInv'
<1> DEFINE b == dev.gc_block
           p == GcPage(dev)
<1>1. /\ DevInv(dev) /\ dev \in Device /\ b # NoBlock /\ UsedPages(dev) # {}
      /\ op \in Operation /\ op.max_copies > 0
  BY DEF IInv, DevInv, GcCopy, Collecting, Unfinished
<1>2. b \in Blocks /\ p \in Pages /\ p \in dev.chunk_bits[b] /\ p \in Nat
  BY <1>1, GcPageUsed DEF Pages
<1>3. <<b, p>> \in held
  BY <1>2 DEF IInv, Owned, GcCopy
<1>4. dev' = [dev EXCEPT !.gc_chunk = p]
  BY DEF GcCopy
<1> HIDE DEF b, p
<1>5. /\ DevInv(dev') /\ dev'.chunk_bits = dev.chunk_bits
      /\ dev'.gc_block = b /\ dev'.gc_chunk = p
  BY <1>1, <1>2, <1>4, CursorOnlyInv DEF b
<1>6. Owned(dev', held' \cup softs')
  BY <1>5 DEF IInv, Owned, GcCopy
<1>7. op' \in Operation
  <2>1. op.max_copies - 1 \in Nat
    BY <1>1 DEF Operation
  <2> QED BY <1>1, <2>1 DEF GcCopy, Operation
<1> QED BY <1>1, <1>3, <1>5, <1>6, <1>7 DEF GcCopy, IInv

\* The end of a turn of the collector.
LEMMA FinishGcInv ==
    ASSUME IInv, NEW d, DevInv(d), FinishGc(d)
    PROVE  /\ DevInv(dev') /\ dev'.chunk_bits = d.chunk_bits
           /\ op' \in Operation /\ op'.pc # "copy"
<1>1. DevInv(dev') /\ dev'.chunk_bits = d.chunk_bits
  <2>1. CASE Unfinished(d)
    <3>1. dev' = [d EXCEPT !.bi[d.gc_block].block_state = "FULL"] /\ d.gc_block # NoBlock
      BY <2>1 DEF FinishGc, GcBlockExit, Unfinished
    <3> QED BY <3>1, FullAgainInv
  <2>2. CASE ~Unfinished(d)
    <3>1. dev' = [d EXCEPT !.gc_block = NoBlock, !.gc_chunk = 0]
      BY <2>2 DEF FinishGc, GcBlockExit
    <3> QED BY <2>2, <3>1, NoneCollectedInv
  <2> QED BY <2>1, <2>2
<1>2. op' \in Operation /\ op'.pc # "copy"
  BY AfterGcType DEF FinishGc, IInv, Operation
<1> QED BY <1>1, <1>2

\* The end of a collection keeps the invariant.
LEMMA GcEndStep ==
    ASSUME IInv, GcEnd
    PROVE  IInv'
<1> DEFINE d == IF Unfinished(dev) /\ UsedPages(dev) = {}
                THEN [dev EXCEPT !.gc_chunk = ChunksPerBlock] ELSE dev
<1>1. DevInv(dev) /\ ChunksPerBlock \in Nat
  BY GeometryAssumption DEF IInv
<1>2. DevInv(d) /\ d.chunk_bits = dev.chunk_bits
  <2>1. CASE d = dev
    BY <1>1, <2>1
  <2>2. CASE d = [dev EXCEPT !.gc_chunk = ChunksPerBlock]
    <3> HIDE DEF d
    <3> QED BY <1>1, <2>2, CursorOnlyInv
  <2> QED BY <2>1, <2>2
<1>3. FinishGc(d) /\ UNCHANGED <<held, softs, debts, faults>>
  BY DEF GcEnd
<1> HIDE DEF d
<1>4. /\ DevInv(dev') /\ dev'.chunk_bits = dev.chunk_bits
      /\ op' \in Operation /\ op'.pc # "copy"
  BY <1>2, <1>3, FinishGcInv
<1> QED BY <1>3, <1>4 DEF IInv, Owned

-----------------------------------------------------------------------------
(* The turns of yaffs_write_new_chunk().                                   *)

\* Giving up leaves a device that is as good as the one it is given.
LEMMA WriteFailedInv ==
    ASSUME IInv, NEW d, DevInv(d), WriteFailed(d)
    PROVE  /\ DevInv(dev') /\ dev'.chunk_bits = d.chunk_bits
           /\ op' \in Operation /\ op'.pc # "copy"
<1>1. CASE op.pc = "copy"
  <2> DEFINE e == [d EXCEPT !.gc_chunk = @ + 1]
             n == d.gc_chunk + 1
  <2>1. n \in Nat /\ e = [d EXCEPT !.gc_chunk = n]
    BY FieldTypes DEF DevInv
  <2>2. FinishGc(e)
    BY <1>1 DEF WriteFailed
  <2> HIDE DEF e, n
  <2>3. DevInv(e) /\ e.chunk_bits = d.chunk_bits
    BY <2>1, CursorOnlyInv
  <2> QED BY <2>2, <2>3, FinishGcInv
<1>2. CASE op.pc # "copy"
  <2>1. Idle \in Operation /\ Idle.pc = "idle"
    BY DEF Idle, Operation
  <2>2. dev' = d /\ op' = Idle
    BY <1>2 DEF WriteFailed
  <2> QED BY <2>1, <2>2
<1> QED BY <1>1, <1>2

\* A write that finds no room keeps the invariant.
LEMMA WriteNoSpaceStep ==
    ASSUME IInv, WriteNoSpace
    PROVE  IInv'
<1> DEFINE d == with_alloc_block(dev)
<1>1. DevInv(dev)
  BY DEF IInv
<1>2. WriteFailed(d) /\ UNCHANGED <<held, softs, debts, faults>>
  BY DEF WriteNoSpace
<1> HIDE DEF d
<1>3. DevInv(d) /\ d.chunk_bits = dev.chunk_bits
  BY <1>1, WithAllocInv DEF d
<1>4. /\ DevInv(dev') /\ dev'.chunk_bits = dev.chunk_bits
      /\ op' \in Operation /\ op'.pc # "copy"
  BY <1>2, <1>3, WriteFailedInv
<1> QED BY <1>2, <1>4 DEF IInv, Owned

\* A failed turn, after which d holds the same chunks as before it: it is
\* retried, a copy from the same page of the same block.
LEMMA RetryStep ==
    ASSUME IInv, NEW d, DevInv(d), d.chunk_bits = dev.chunk_bits,
           d.gc_block = dev.gc_block, d.gc_chunk = dev.gc_chunk,
           RetryOrFail(d), UNCHANGED <<held, softs>>,
           faults' \in Nat, debts' = Settle(debts, dev')
    PROVE  IInv'
<1>1. debts' \in SUBSET (Blocks \X Blocks)
  BY SettleType DEF IInv
<1>2. CASE WrAttempts = 0 \/ op.attempts + 1 <= WrAttempts
  <2>1. dev' = d /\ op' = [op EXCEPT !.attempts = @ + 1]
    BY <1>2 DEF RetryOrFail
  <2>2. op' \in Operation /\ op'.pc = op.pc
    BY <2>1 DEF IInv, Operation
  <2> QED BY <1>1, <2>1, <2>2 DEF IInv, Owned
<1>3. CASE ~(WrAttempts = 0 \/ op.attempts + 1 <= WrAttempts)
  <2>1. WriteFailed(d)
    BY <1>3 DEF RetryOrFail
  <2>2. /\ DevInv(dev') /\ dev'.chunk_bits = dev.chunk_bits
        /\ op' \in Operation /\ op'.pc # "copy"
    BY <2>1, WriteFailedInv
  <2> QED BY <1>1, <2>2 DEF IInv, Owned
<1> QED BY <1>2, <1>3

\* A set that gains an element and loses it again.
LEMMA SameBits ==
    ASSUME NEW d \in Device, NEW e \in Device, NEW f \in Device, NEW c \in Chunks,
           c[2] \notin d.chunk_bits[c[1]],
           e.chunk_bits[c[1]] = d.chunk_bits[c[1]] \cup {c[2]},
           \A x \in Blocks \ {c[1]} : e.chunk_bits[x] = d.chunk_bits[x],
           f.chunk_bits[c[1]] = e.chunk_bits[c[1]] \ {c[2]},
           \A x \in Blocks \ {c[1]} : f.chunk_bits[x] = e.chunk_bits[x]
    PROVE  f.chunk_bits = d.chunk_bits
<1>1. \A x \in Blocks : f.chunk_bits[x] = d.chunk_bits[x]
  OBVIOUS
<1>2. /\ f.chunk_bits \in [Blocks -> SUBSET Pages]
      /\ d.chunk_bits \in [Blocks -> SUBSET Pages]
  BY DEF Device
<1> QED BY <1>1, <1>2

\* Whether a block needs checks for erasure counts for nothing.
LEMMA SkipMarkInv ==
    ASSUME NEW d, DevInv(d), NEW b \in Blocks,
           NEW e, e = mark_written(d, b) \/ e = check_again(d, b)
    PROVE  /\ DevInv(e) /\ Elsewhere(d, e, b) /\ e.chunk_bits = d.chunk_bits
           /\ Level(d, e)
<1>1. PICK v \in BOOLEAN : e = [d EXCEPT !.bi[b].skip_erased_check = v]
  BY DEF mark_written, check_again
<1> DEFINE q == d.bi[b]
           r == [q EXCEPT !.skip_erased_check = v]
<1>2. q \in BlockInfo /\ d \in Device
  BY FieldTypes DEF DevInv
<1>3. e = [d EXCEPT !.bi[b] = r]
  BY <1>1
<1>4. q = d.bi[b]
  OBVIOUS
<1> HIDE DEF q
<1>5. /\ r \in BlockInfo
      /\ r.block_state = q.block_state /\ r.pages_in_use = q.pages_in_use
      /\ r.soft_del_pages = q.soft_del_pages /\ r.seq_number = q.seq_number
      /\ r.has_shrink_hdr = q.has_shrink_hdr
  BY <1>2 DEF BlockInfo
<1> HIDE DEF r
<1> QED BY <1>2, <1>3, <1>4, <1>5, EntryInv, EntryLevel

\* The page a turn takes, of a block that may be checked again.
LEMMA TakenPageInv ==
    ASSUME NEW d, DevInv(d), d.alloc_block # NoBlock,
           NEW c, c = NextChunk(d), NEW t, t = take_page(d), NEW e, e = TakePage(d)
    PROVE  /\ DevInv(t) /\ DevInv(e) /\ Level(t, e) /\ c \in Chunks /\ c[1] # d.gc_block
           /\ c[2] \notin d.chunk_bits[c[1]]
           /\ e.chunk_bits[c[1]] = d.chunk_bits[c[1]] \cup {c[2]}
           /\ \A x \in Blocks \ {c[1]} : e.chunk_bits[x] = d.chunk_bits[x]
           /\ e.chunk_bits = t.chunk_bits
           /\ e.gc_block = d.gc_block /\ e.gc_chunk = d.gc_chunk
<1>1. /\ DevInv(t) /\ c \in Chunks /\ c[1] # d.gc_block
      /\ c[2] \notin d.chunk_bits[c[1]]
      /\ t.chunk_bits[c[1]] = d.chunk_bits[c[1]] \cup {c[2]}
      /\ \A x \in Blocks \ {c[1]} : t.chunk_bits[x] = d.chunk_bits[x]
      /\ t.gc_block = d.gc_block /\ t.gc_chunk = d.gc_chunk
  BY TakePageInv
<1>2. CASE e = t
  BY <1>1, <1>2 DEF Level
<1>3. CASE e # t
  <2>1. e = check_again(t, c[1]) /\ c[1] \in Blocks
    BY <1>1, <1>3, ChunkParts DEF TakePage, NextChunk
  <2>2. DevInv(e) /\ Elsewhere(t, e, c[1]) /\ e.chunk_bits = t.chunk_bits /\ Level(t, e)
    BY <1>1, <2>1, SkipMarkInv
  <2>3. e.gc_block = t.gc_block /\ e.gc_chunk = t.gc_chunk
    BY <1>1, <2>2 DEF Elsewhere, SameElsewhere
  <2> QED  BY <1>1, <2>2, <2>3
<1> QED  BY <1>2, <1>3

\* A page found not to be erased, given up with the rest of its block, keeps the
\* invariant.
LEMMA WriteNotErasedStep ==
    ASSUME IInv, WriteNotErased
    PROVE  IInv'
<1> DEFINE d == with_alloc_block(dev)
           c == NextChunk(d)
           e == TakePage(d)
<1>0. PICK eraseOk \in BOOLEAN :
        /\ FailedTurn(eraseOk)
        /\ RetryOrFail(skip_rest_of_block(chunk_del(e, c, eraseOk)))
  BY DEF WriteNotErased
<1> DEFINE f == chunk_del(e, c, eraseOk)
           g == skip_rest_of_block(f)
<1>1. DevInv(dev)
  BY DEF IInv
<1>2. /\ CanAlloc(d, UseReserver) /\ RetryOrFail(g)
      /\ faults' \in Nat /\ debts' = Settle(debts, dev')
      /\ UNCHANGED <<held, softs>>
  BY <1>0, FaultType DEF WriteNotErased, IInv
<1> HIDE DEF g
<1>3. g = skip_rest_of_block(f)
  BY DEF g
<1> HIDE DEF f
<1>4. f = chunk_del(e, c, eraseOk)
  BY DEF f
<1> HIDE DEF e, c
<1>5. e = TakePage(d) /\ c = NextChunk(d)
  BY DEF e, c
<1> HIDE DEF d
<1>6. /\ DevInv(d) /\ d.chunk_bits = dev.chunk_bits
      /\ d.gc_block = dev.gc_block /\ d.gc_chunk = dev.gc_chunk
  BY <1>1, WithAllocInv DEF d
<1>7. d.alloc_block # NoBlock
  BY <1>2 DEF CanAlloc
<1>8. /\ DevInv(e) /\ c \in Chunks /\ c[1] # d.gc_block
      /\ c[2] \notin d.chunk_bits[c[1]]
      /\ e.chunk_bits[c[1]] = d.chunk_bits[c[1]] \cup {c[2]}
      /\ \A x \in Blocks \ {c[1]} : e.chunk_bits[x] = d.chunk_bits[x]
      /\ e.gc_block = d.gc_block /\ e.gc_chunk = d.gc_chunk
  BY <1>5, <1>6, <1>7, TakenPageInv
<1>9. /\ DevInv(f) /\ Elsewhere(e, f, c[1])
      /\ f.chunk_bits[c[1]] = e.chunk_bits[c[1]] \ {c[2]}
  <2>1. c[2] \in e.chunk_bits[c[1]]
    BY <1>8
  <2> QED BY <1>4, <1>8, <2>1, ChunkDelInv
<1>10. f.chunk_bits = d.chunk_bits
  BY <1>6, <1>8, <1>9, SameBits DEF DevInv, Elsewhere
<1>11. /\ DevInv(g) /\ g.chunk_bits = f.chunk_bits
       /\ g.gc_block = f.gc_block /\ g.gc_chunk = f.gc_chunk
  BY <1>3, <1>9, SkipRestInv
<1>12. g.gc_block = dev.gc_block /\ g.gc_chunk = dev.gc_chunk
  BY <1>6, <1>8, <1>9, <1>11 DEF Elsewhere, SameElsewhere
<1> QED BY <1>2, <1>6, <1>10, <1>11, <1>12, RetryStep

\* A write that fails keeps the invariant.
LEMMA WriteErrorStep ==
    ASSUME IInv, WriteError
    PROVE  IInv'
<1> DEFINE d == with_alloc_block(dev)
           c == NextChunk(d)
           e == TakePage(d)
           ok == ~e.bi[c[1]].skip_erased_check
<1>0. PICK eraseOk \in BOOLEAN :
        /\ FailedTurn(eraseOk)
        /\ RetryOrFail(handle_chunk_wr_error(e, c, ok, eraseOk))
  BY DEF WriteError
<1> DEFINE g == handle_chunk_wr_error(e, c, ok, eraseOk)
<1>1. DevInv(dev)
  BY DEF IInv
<1>2. /\ CanAlloc(d, UseReserver) /\ RetryOrFail(g)
      /\ faults' \in Nat /\ debts' = Settle(debts, dev')
      /\ UNCHANGED <<held, softs>>
  BY <1>0, FaultType DEF WriteError, IInv
<1> HIDE DEF g
<1>3. g = handle_chunk_wr_error(e, c, ok, eraseOk)
  BY DEF g
<1>4. ok \in BOOLEAN
  BY DEF ok
<1> HIDE DEF ok
<1> HIDE DEF e, c
<1>5. e = TakePage(d) /\ c = NextChunk(d)
  BY DEF e, c
<1> HIDE DEF d
<1>6. /\ DevInv(d) /\ d.chunk_bits = dev.chunk_bits
      /\ d.gc_block = dev.gc_block /\ d.gc_chunk = dev.gc_chunk
  BY <1>1, WithAllocInv DEF d
<1>7. d.alloc_block # NoBlock
  BY <1>2 DEF CanAlloc
<1>8. /\ DevInv(e) /\ c \in Chunks /\ c[1] # d.gc_block
      /\ c[2] \notin d.chunk_bits[c[1]]
      /\ e.chunk_bits[c[1]] = d.chunk_bits[c[1]] \cup {c[2]}
      /\ \A x \in Blocks \ {c[1]} : e.chunk_bits[x] = d.chunk_bits[x]
      /\ e.gc_block = d.gc_block /\ e.gc_chunk = d.gc_chunk
  BY <1>5, <1>6, <1>7, TakenPageInv
<1>9. /\ DevInv(g)
      /\ g.chunk_bits[c[1]] = e.chunk_bits[c[1]] \ {c[2]}
      /\ \A x \in Blocks \ {c[1]} : g.chunk_bits[x] = e.chunk_bits[x]
      /\ g.gc_block # e.gc_block => e.gc_block = c[1] /\ g.gc_block = NoBlock
      /\ g.gc_chunk = e.gc_chunk
  <2>1. c[2] \in e.chunk_bits[c[1]]
    BY <1>8
  <2> QED BY <1>3, <1>4, <1>8, <2>1, WrErrorInv
<1>10. g.chunk_bits = d.chunk_bits
  BY <1>6, <1>8, <1>9, SameBits DEF DevInv
<1>11. g.gc_block = dev.gc_block /\ g.gc_chunk = dev.gc_chunk
  BY <1>6, <1>8, <1>9
<1> QED BY <1>2, <1>6, <1>9, <1>10, <1>11, RetryStep

\* Marking the block of a shrink header keeps the device invariant.
LEMMA MarkShrinkInv ==
    ASSUME NEW d, DevInv(d), NEW b \in Blocks,
           NEW e, e = mark_shrink_hdr(d, b)
    PROVE  DevInv(e) /\ Elsewhere(d, e, b) /\ e.chunk_bits = d.chunk_bits
<1> DEFINE q == d.bi[b]
           r == [q EXCEPT !.has_shrink_hdr = TRUE]
<1>1. q \in BlockInfo
  BY FieldTypes DEF DevInv
<1>2. e = [d EXCEPT !.bi[b] = r]
  BY DEF mark_shrink_hdr
<1> HIDE DEF q
<1>3. /\ r \in BlockInfo
      /\ r.block_state = q.block_state /\ r.pages_in_use = q.pages_in_use
      /\ r.soft_del_pages = q.soft_del_pages /\ r.seq_number = q.seq_number
  BY <1>1 DEF BlockInfo
<1> HIDE DEF r
<1> QED BY <1>2, <1>3, EntryInv DEF q

\* A successful turn: the new chunk is on a page that nobody owned.
LEMMA WrittenInv ==
    ASSUME IInv, NEW d, d = with_alloc_block(dev), d.alloc_block # NoBlock,
           NEW c, c = NextChunk(d),
           NEW e, e = mark_written(TakePage(d), c[1])
    PROVE  /\ DevInv(e) /\ c \in Chunks /\ c \notin held \cup softs
           /\ c[1] # dev.gc_block
           /\ Owned(e, held \cup softs \cup {c})
           /\ e.gc_block = dev.gc_block /\ e.gc_chunk = dev.gc_chunk
<1> DEFINE t == TakePage(d)
<1>1. DevInv(dev)
  BY DEF IInv
<1>2. /\ DevInv(d) /\ d.chunk_bits = dev.chunk_bits
      /\ d.gc_block = dev.gc_block /\ d.gc_chunk = dev.gc_chunk
  BY <1>1, WithAllocInv
<1>3. /\ DevInv(t) /\ c \in Chunks /\ c[1] # d.gc_block
      /\ c[2] \notin d.chunk_bits[c[1]]
      /\ t.chunk_bits[c[1]] = d.chunk_bits[c[1]] \cup {c[2]}
      /\ \A x \in Blocks \ {c[1]} : t.chunk_bits[x] = d.chunk_bits[x]
      /\ t.gc_block = d.gc_block /\ t.gc_chunk = d.gc_chunk
  <2> HIDE DEF t
  <2> QED BY <1>2, TakenPageInv DEF t
<1>4. e = mark_written(t, c[1]) /\ c[1] \in Blocks
  BY <1>3, ChunkParts
<1> HIDE DEF t
<1>5. /\ DevInv(e) /\ Elsewhere(t, e, c[1]) /\ e.chunk_bits = t.chunk_bits
  BY <1>3, <1>4, SkipMarkInv
<1>6. held \cup softs \in SUBSET Chunks /\ Owned(dev, held \cup softs)
  BY DEF IInv
<1>7. c \notin held \cup softs
  BY <1>2, <1>3, <1>6, OwnedBit
<1>8. Owned(e, (held \cup softs) \cup {c})
  BY <1>2, <1>3, <1>5, <1>6, OwnedAdd DEF DevInv
<1>9. e.gc_block = dev.gc_block /\ e.gc_chunk = dev.gc_chunk
  BY <1>2, <1>3, <1>4, <1>5 DEF Elsewhere, SameElsewhere
<1> QED BY <1>2, <1>3, <1>5, <1>7, <1>8, <1>9

\* A write that works, with the deletion of what it replaces, keeps the invariant.
LEMMA WriteOkStep ==
    ASSUME IInv, WriteOk
    PROVE  IInv'
<1> DEFINE d == with_alloc_block(dev)
           c == NextChunk(d)
           e == mark_written(TakePage(d), c[1])
<1>1. PICK old \in IF op.replace THEN held ELSE {NoChunk}, eraseOk \in BOOLEAN :
        LET f == IF op.replace THEN chunk_del(e, old, eraseOk) ELSE e
        IN  /\ Fault(eraseOk)
            /\ held' = (held \ {old}) \cup {c}
            /\ dev' = IF op.shrink THEN mark_shrink_hdr(f, c[1]) ELSE f
            /\ debts' = Settle(debts, f)
                          \cup (IF op.shrink THEN NewDebts(f, c[1]) ELSE {})
  BY DEF WriteOk
<1>2. d.alloc_block # NoBlock /\ op' = Idle /\ softs' = softs
  BY DEF WriteOk, CanAlloc
<1> DEFINE f == IF op.replace THEN chunk_del(e, old, eraseOk) ELSE e
<1>3. /\ Fault(eraseOk)
      /\ held' = (held \ {old}) \cup {c}
      /\ dev' = IF op.shrink THEN mark_shrink_hdr(f, c[1]) ELSE f
      /\ debts' = Settle(debts, f)
                    \cup (IF op.shrink THEN NewDebts(f, c[1]) ELSE {})
  BY <1>1
<1> HIDE DEF e
<1>4. e = mark_written(TakePage(d), c[1])
  BY DEF e
<1> HIDE DEF c
<1>5. c = NextChunk(d)
  BY DEF c
<1> HIDE DEF d
<1>6. d = with_alloc_block(dev)
  BY DEF d
<1>7. /\ DevInv(e) /\ c \in Chunks /\ c \notin held \cup softs
      /\ Owned(e, held \cup softs \cup {c})
  BY <1>2, <1>4, <1>5, <1>6, WrittenInv
<1>8. held \cup softs \cup {c} \in SUBSET Chunks /\ c[1] \in Blocks
  BY <1>7, ChunkParts DEF IInv
<1>9. /\ DevInv(f) /\ Owned(f, held' \cup softs)
  <2>1. CASE op.replace
    <3>1. old \in held /\ f = chunk_del(e, old, eraseOk)
      BY <2>1
    <3> HIDE DEF f
    <3>2. old \in Chunks /\ old[2] \in e.chunk_bits[old[1]]
      BY <1>7, <1>8, <3>1, OwnedBit
    <3>3. /\ DevInv(f) /\ Elsewhere(e, f, old[1])
          /\ f.chunk_bits[old[1]] = e.chunk_bits[old[1]] \ {old[2]}
      BY <1>7, <3>1, <3>2, ChunkDelInv
    <3>4. Owned(f, (held \cup softs \cup {c}) \ {old})
      BY <1>7, <1>8, <3>2, <3>3, OwnedDel DEF Elsewhere, DevInv
    <3>5. (held \cup softs \cup {c}) \ {old} = held' \cup softs
      BY <1>3, <1>7, <3>1 DEF IInv
    <3> QED BY <3>3, <3>4, <3>5
  <2>2. CASE ~op.replace
    <3>1. f = e /\ old \notin held
      BY <2>2 DEF IInv, NoChunk, Chunks, Blocks
    <3>2. held \cup softs \cup {c} = held' \cup softs
      BY <1>3, <3>1
    <3> QED BY <1>7, <3>1, <3>2
  <2> QED BY <2>1, <2>2
<1> HIDE DEF f
<1>10. DevInv(dev') /\ dev'.chunk_bits = f.chunk_bits
  <2>1. CASE op.shrink
    BY <1>3, <1>8, <1>9, <2>1, MarkShrinkInv
  <2>2. CASE ~op.shrink
    BY <1>3, <1>9, <2>2
  <2> QED BY <2>1, <2>2
<1>11. Owned(dev', held' \cup softs')
  BY <1>2, <1>9, <1>10 DEF Owned
<1>12. faults' \in Nat
  BY <1>3, FaultType DEF IInv
<1>13. debts' \in SUBSET (Blocks \X Blocks)
  <2>1. Settle(debts, f) \in SUBSET (Blocks \X Blocks)
    BY SettleType DEF IInv
  <2>2. NewDebts(f, c[1]) \in SUBSET (Blocks \X Blocks)
    BY <1>8 DEF NewDebts, DirtyBlocks
  <2> QED BY <1>3, <2>1, <2>2
<1>14. op' \in Operation /\ op'.pc = "idle"
  BY <1>2 DEF Idle, Operation
<1>15. held' \in SUBSET Chunks /\ held' \cap softs = {}
  BY <1>3, <1>7 DEF IInv
<1> QED BY <1>2, <1>10, <1>11, <1>12, <1>13, <1>14, <1>15 DEF IInv

\* The collector's copy, with the deletion of the original, keeps the invariant.
LEMMA CopyOkStep ==
    ASSUME IInv, CopyOk
    PROVE  IInv'
<1> DEFINE d == with_alloc_block(dev)
           c == NextChunk(d)
           old == <<dev.gc_block, dev.gc_chunk>>
           w == mark_written(TakePage(d), c[1])
           n == w.gc_chunk + 1
           e == [w EXCEPT !.gc_chunk = n]
<1>1. PICK eraseOk \in BOOLEAN : Fault(eraseOk) /\ dev' = chunk_del(e, old, eraseOk)
  BY DEF CopyOk
<1>2. /\ d.alloc_block # NoBlock /\ softs' = softs /\ op.pc = "copy"
      /\ held' = (held \ {old}) \cup {c}
      /\ debts' = Settle(debts, dev')
      /\ op' = [op EXCEPT !.pc = "collect", !.attempts = 0]
  BY DEF CopyOk, CanAlloc
<1>3. old \in held
  BY <1>2 DEF IInv
<1> HIDE DEF e, n, old
<1>4. e = [w EXCEPT !.gc_chunk = n] /\ n = w.gc_chunk + 1
  BY DEF e, n
<1> HIDE DEF w
<1>5. w = mark_written(TakePage(d), c[1])
  BY DEF w
<1> HIDE DEF c
<1>6. c = NextChunk(d)
  BY DEF c
<1> HIDE DEF d
<1>7. d = with_alloc_block(dev)
  BY DEF d
<1>8. /\ DevInv(w) /\ c \in Chunks /\ c \notin held \cup softs
      /\ Owned(w, held \cup softs \cup {c})
  BY <1>2, <1>5, <1>6, <1>7, WrittenInv
<1>9. n \in Nat
  BY <1>4, <1>8, FieldTypes DEF DevInv
<1>10. DevInv(e) /\ e.chunk_bits = w.chunk_bits
  BY <1>4, <1>8, <1>9, CursorOnlyInv
<1>11. held \cup softs \cup {c} \in SUBSET Chunks /\ Owned(e, held \cup softs \cup {c})
  BY <1>8, <1>10 DEF IInv, Owned
<1>12. old \in Chunks /\ old[2] \in e.chunk_bits[old[1]]
  BY <1>3, <1>11, OwnedBit
<1>13. /\ DevInv(dev') /\ Elsewhere(e, dev', old[1])
       /\ dev'.chunk_bits[old[1]] = e.chunk_bits[old[1]] \ {old[2]}
  BY <1>1, <1>10, <1>12, ChunkDelInv
<1>14. Owned(dev', (held \cup softs \cup {c}) \ {old})
  BY <1>11, <1>12, <1>13, OwnedDel DEF Elsewhere, DevInv
<1>15. /\ (held \cup softs \cup {c}) \ {old} = held' \cup softs'
       /\ held' \in SUBSET Chunks /\ held' \cap softs' = {}
  BY <1>2, <1>3, <1>8 DEF IInv
<1>16. faults' \in Nat /\ debts' \in SUBSET (Blocks \X Blocks)
  BY <1>1, <1>2, FaultType, SettleType DEF IInv
<1>17. op' \in Operation /\ op'.pc = "collect"
  BY <1>2 DEF IInv, Operation
<1> QED BY <1>2, <1>13, <1>14, <1>15, <1>16, <1>17 DEF IInv

-----------------------------------------------------------------------------
(* The theorems.                                                           *)

\* A freshly formatted device satisfies the inductive invariant.
LEMMA InitInv ==
    ASSUME Init
    PROVE  IInv
<1>1. EmptyBlockInfo \in BlockInfo
  BY DEF EmptyBlockInfo, BlockInfo, BlockStates
<1>2. NBlocks * ChunksPerBlock \in Int /\ NBlocks \in Int
  BY GeometryAssumption
<1>3. \A b \in Blocks :
        /\ dev.bi[b] = EmptyBlockInfo /\ dev.chunk_bits[b] = {}
  BY DEF Init, ErasedDevice
<1>4. dev \in Device
  BY <1>1, <1>2 DEF Init, ErasedDevice, Device
<1>5. /\ dev.alloc_block = NoBlock /\ dev.gc_block = NoBlock
      /\ dev.gc_dirtiest = NoBlock /\ dev.oldest_dirty_seq = 0
      /\ dev.oldest_dirty_block = NoBlock
  BY DEF Init, ErasedDevice
<1>6. /\ EmptyBlockInfo.block_state = "EMPTY" /\ EmptyBlockInfo.pages_in_use = 0
  BY DEF EmptyBlockInfo
<1>7. \A b \in Blocks : BlockInv(dev, b)
  BY <1>3, <1>5, <1>6, FS_EmptySet, SMTT(30)
     DEF BlockInv, HasDiscarded, Whole, InUseStates, NoBlock, Blocks
<1>8. PointerInv(dev)
  BY <1>5 DEF PointerInv
<1>9. Distinct(dev)
  BY <1>3, <1>6 DEF Distinct, InUseStates
<1>10. Owned(dev, held \cup softs)
  BY <1>3 DEF Owned, Init
<1>11. op \in Operation /\ op.pc = "idle"
  BY DEF Init, Idle, Operation
<1> QED BY <1>4, <1>7, <1>8, <1>9, <1>10, <1>11 DEF Init, IInv, DevInv

\* Every step keeps the invariant: one case per action.
LEMMA NextInv ==
    ASSUME IInv, [Next]_vars
    PROVE  IInv'
<1>1. ASSUME NEW replace \in BOOLEAN, NEW reserve \in BOOLEAN, NEW shrink \in BOOLEAN,
             StartWrite(replace, reserve, shrink)
      PROVE  IInv'
  BY <1>1, StartWriteStep
<1>2. ASSUME NEW c \in held, DeleteChunk(c)
      PROVE  IInv'
  BY <1>2, DeleteChunkStep
<1>3. ASSUME NEW c \in held, SoftDelete(c)
      PROVE  IInv'
  BY <1>3, SoftDeleteStep
<1>4. ASSUME NEW c \in held, ReadError(c)
      PROVE  IInv'
  BY <1>4, ReadErrorStep
<1>5. CASE CheckGc
  BY <1>5, GcResumeStep, GcRefreshStep, GcSelectStep, GcRememberStep, GcPassStep DEF CheckGc
<1>6. CASE GcBlock
  BY <1>6, GcDropSoftStep, GcCopyStep, GcEndStep DEF GcBlock
<1>7. CASE WriteNewChunk
  BY <1>7, WriteNoSpaceStep, WriteNotErasedStep, WriteErrorStep, WriteOkStep, CopyOkStep
     DEF WriteNewChunk
<1>8. CASE BgGc
  BY <1>8, BgGcStep
<1>9. CASE UNCHANGED vars
  BY <1>9 DEF vars, IInv
<1> QED BY <1>1, <1>2, <1>3, <1>4, <1>5, <1>6, <1>7, <1>8, <1>9 DEF Next, FileLayer

\* The inductive invariant holds in every reachable state: the block states,
\* counters and pointers of struct yaffs_dev agree between the steps of every
\* call of yaffs_guts.c that allocates, deletes, collects or erases.
THEOREM Invariance == Spec => []IInv
<1>1. Init => IInv
  BY InitInv
<1>2. IInv /\ [Next]_vars => IInv'
  BY NextInv
<1> QED BY <1>1, <1>2, PTL DEF Spec

\* No block or page number leaves the partition, whatever the order of
\* writes, deletions, collections and flash failures.
THEOREM TypeCorrect == Spec => []TypeOK
<1>1. IInv => TypeOK
  BY DEF IInv, DevInv, TypeOK
<1> QED BY <1>1, Invariance, PTL

\* yaffs_alloc_chunk() and yaffs_skip_rest_of_block(): one allocating block,
\* whose pages from alloc_page on are unwritten.
THEOREM AllocationSafe == Spec => []OneAllocatingBlock
<1>1. IInv => OneAllocatingBlock
  <2> SUFFICES ASSUME IInv PROVE OneAllocatingBlock
    OBVIOUS
  <2>1. DevInv(dev) /\ PointerInv(dev) /\ \A b \in Blocks : BlockInv(dev, b)
    BY DEF IInv, DevInv
  <2>2. dev.alloc_block # NoBlock => dev.alloc_page < ChunksPerBlock
    BY <2>1, GeometryAssumption DEF PointerInv, Pages
  <2> QED BY <2>1, <2>2 DEF OneAllocatingBlock, BlockInv, PointerInv
<1> QED BY <1>1, Invariance, PTL

\* yaffs_calc_oldest_dirty_seq() and its two updates: the cached number is
\* never stale.
THEOREM OldestDirtyCorrect == Spec => []OldestDirtySound
<1>1. IInv => OldestDirtySound
  BY DEF IInv, DevInv, PointerInv, BlockInv, OldestDirtySound, DirtyBlocks,
         HasDiscarded, Whole
<1> QED BY <1>1, Invariance, PTL

\* The scan can order the blocks in use by their sequence numbers.
THEOREM SequencesDistinct == Spec => []SequenceNumbersDistinct
<1>1. IInv => SequenceNumbersDistinct
  BY DEF IInv, DevInv, Distinct, BlockInv, InUseStates, SequenceNumbersDistinct
<1> QED BY <1>1, Invariance, PTL

\* The bitmap of a block is the set of the pages of the owned chunks in it.
LEMMA OwnedPages ==
    ASSUME NEW d \in Device, NEW S \in SUBSET Chunks, Owned(d, S), NEW b \in Blocks
    PROVE  d.chunk_bits[b] = PagesOf(S, b)
<1>1. d.chunk_bits[b] \in SUBSET Pages
  BY FieldTypes
<1>2. ASSUME NEW p \in PagesOf(S, b)
      PROVE  p \in d.chunk_bits[b]
  <2>1. PICK c \in S : c[1] = b /\ c[2] = p
    BY DEF PagesOf
  <2> QED BY <2>1, OwnedBit
<1>3. ASSUME NEW p \in d.chunk_bits[b]
      PROVE  p \in PagesOf(S, b)
  <2>1. <<b, p>> \in S
    BY <1>1 DEF Owned
  <2>2. <<b, p>>[1] = b /\ <<b, p>>[2] = p
    OBVIOUS
  <2> QED BY <2>1, <2>2 DEF PagesOf
<1> QED BY <1>2, <1>3

\* The chunks of the bitmaps are those the files own, across every copy,
\* retry and failed write.
THEOREM OwnershipCorrect == Spec => []ChunksOwned
<1>1. IInv => ChunksOwned
  <2> SUFFICES ASSUME IInv PROVE ChunksOwned
    OBVIOUS
  <2>1. dev \in Device /\ held \cup softs \in SUBSET Chunks
          /\ Owned(dev, held \cup softs) /\ held \cap softs = {}
    BY DEF IInv, DevInv
  <2> QED BY <2>1, OwnedPages DEF ChunksOwned
<1> QED BY <1>1, Invariance, PTL

\* No step erases or retires a block that holds a chunk a file still points at.
THEOREM LiveBlocksKept == Spec => NoLiveBlockErased
<1>1. ASSUME IInv', NEW b \in Erased(dev, dev')
      PROVE  PagesOf(held', b) = {}
  <2>1. /\ dev' \in Device /\ b \in Blocks
        /\ dev'.bi[b].block_state \in {"EMPTY", "DEAD"}
        /\ held' \cup softs' \in SUBSET Chunks
        /\ Owned(dev', held' \cup softs')
    BY <1>1 DEF IInv, DevInv, Erased
  <2>2. dev'.chunk_bits[b] = {}
    BY <1>1, <2>1 DEF IInv, DevInv, BlockInv, InUseStates
  <2>3. PagesOf(held' \cup softs', b) = {}
    BY <2>1, <2>2, OwnedPages
  <2> QED BY <2>3 DEF PagesOf
<1>2. IInv' => [\A b \in Erased(dev, dev') : PagesOf(held', b) = {}]_vars
  BY <1>1
<1> QED BY <1>2, Invariance, PTL DEF NoLiveBlockErased

-----------------------------------------------------------------------------
(* That the counts of YaffsBlocks agree with its blocks (CountersExact),    *)
(* and that a shrink header outlives the chunks it hides                    *)
(* (ShrinkHeaderOutlivesData).  Both follow an operator of YaffsDevice       *)
(* through what it makes of a block: each operator has a lemma that says     *)
(* which chunks become free and which blocks are erased, and which stay      *)
(* what they are.                                                           *)

\* The collector takes a soft-deleted chunk back before it deletes it.
LEMMA StopCountingCount ==
    ASSUME NEW d, DevInv(d), NEW c \in Chunks,
           NEW H \in SUBSET Chunks, NEW S \in SUBSET Chunks,
           c \in S, c \notin H, Count(d, H, S), Owned(d, H \cup S),
           NEW e, e = StopCounting(d, c)
    PROVE  /\ Count(e, H \cup {c}, S \ {c})
           /\ \A x \in Blocks \ {c[1]} : e.bi[x] = d.bi[x]
           /\ e.bi[c[1]].block_state = d.bi[c[1]].block_state
           /\ e.bi[c[1]].seq_number = d.bi[c[1]].seq_number
           /\ e.bi[c[1]].has_shrink_hdr = d.bi[c[1]].has_shrink_hdr
           /\ PagesUsed(e, c[1]) = PagesUsed(d, c[1]) + 1
           /\ e.gc_block = d.gc_block /\ e.gc_dirtiest = d.gc_dirtiest
<1> DEFINE b == c[1]
           n == c[2] + 1
           s == d.bi[b].soft_del_pages - 1
           m == d.n_free_chunks - 1
           r == [d.bi[b] EXCEPT !.soft_del_pages = s]
           f == [d.bi EXCEPT ![b] = r]
<1>1. d \in Device /\ b \in Blocks /\ c[2] \in d.chunk_bits[b]
  BY OwnedBit, ChunkParts DEF DevInv
<1>2. e = [d EXCEPT !.n_free_chunks = m, !.bi = f, !.gc_chunk = n]
  BY DEF StopCounting
<1>3. d.bi[b].block_state \in InUseStates
  BY <1>1 DEF DevInv, BlockInv
<1>4. /\ d.bi[b] \in BlockInfo /\ d.bi[b].soft_del_pages \in Int /\ s \in Int /\ m \in Int
      /\ s = d.bi[b].soft_del_pages - 1 /\ m = d.n_free_chunks - 1
  BY <1>1 DEF Device, BlockInfo
<1>5. b = c[1]
  OBVIOUS
<1> HIDE DEF b, n, s, m
<1>6. /\ r.pages_in_use = d.bi[b].pages_in_use
      /\ r.soft_del_pages = s /\ r.block_state = d.bi[b].block_state
      /\ r.seq_number = d.bi[b].seq_number
      /\ r.has_shrink_hdr = d.bi[b].has_shrink_hdr
  <2> DEFINE q == d.bi[b]
  <2>1. q \in BlockInfo
    BY <1>4
  <2> HIDE DEF q
  <2>2. [q EXCEPT !.soft_del_pages = s] \in
           {t \in BlockInfo : /\ t.pages_in_use = q.pages_in_use
                              /\ t.soft_del_pages = s
                              /\ t.block_state = q.block_state
                              /\ t.seq_number = q.seq_number
                              /\ t.has_shrink_hdr = q.has_shrink_hdr}
    BY <1>4, <2>1 DEF BlockInfo
  <2> QED  BY <2>2 DEF q
<1> HIDE DEF r
<1>7. f[b] = r /\ \A x \in Blocks \ {b} : f[x] = d.bi[x]
  BY <1>1 DEF Device
<1> HIDE DEF f
<1>8. /\ e.bi = f /\ e.n_free_chunks = m /\ e.n_erased_blocks = d.n_erased_blocks
      /\ e.gc_block = d.gc_block /\ e.gc_dirtiest = d.gc_dirtiest
  BY <1>1, <1>2 DEF Device
<1>9. e.bi[b] = r /\ \A x \in Blocks \ {b} : e.bi[x] = d.bi[x]
  BY <1>7, <1>8
<1>10. Count(e, H \cup {c}, S \ {c})
  <2>1. Cardinality(FreeOf(d, H \cup {c})) = Cardinality(FreeOf(d, H)) - 1
    BY <1>3, <1>5, FreeMoves DEF Counted, InUseStates
  <2>2. FreeOf(e, H \cup {c}) = FreeOf(d, H \cup {c}) /\ EmptyBlocks(e) = EmptyBlocks(d)
    BY <1>6, <1>9, AlikeCounts
  <2>3. SoftCounted(e, S \ {c})
    <3>1. ASSUME NEW x \in Blocks
          PROVE  e.bi[x].soft_del_pages = Cardinality(PagesOf(S \ {c}, x))
      <4>1. d.bi[x].soft_del_pages = Cardinality(PagesOf(S, x))
        BY DEF Count, SoftCounted
      <4> QED  BY <1>4, <1>5, <1>6, <1>9, <4>1, SoftMoves
    <3> QED  BY <3>1 DEF SoftCounted
  <2> QED  BY <1>4, <1>8, <2>1, <2>2, <2>3 DEF Count
<1>11. PagesUsed(e, b) = PagesUsed(d, b) + 1
  <2> DEFINE w == d.bi[b].pages_in_use
             v == d.bi[b].soft_del_pages
  <2>1. w \in Int /\ v \in Int
    BY <1>1, FieldTypes
  <2>2. e.bi[b].pages_in_use = w /\ e.bi[b].soft_del_pages = v - 1
    BY <1>4, <1>6, <1>9
  <2>3. PagesUsed(e, b) = w - (v - 1) /\ PagesUsed(d, b) = w - v
    BY <2>2 DEF PagesUsed
  <2> HIDE DEF w, v
  <2> QED  BY <2>1, <2>3
<1> QED  BY <1>5, <1>6, <1>8, <1>9, <1>10, <1>11

-----------------------------------------------------------------------------
(* What the steps do to the counts.                                        *)

Books == Count(dev, held, softs)

\* No block that holds the data of a debt is erased or retired.
Carried == \A x \in debts' : /\ x \in debts
                             /\ dev.bi[x[1]].block_state \in InUseStates =>
                                   dev'.bi[x[1]].block_state \in InUseStates

\* The owners of the invariant, as the lemmas on the operators want them.
LEMMA OwnersHeld ==
    ASSUME IInv
    PROVE  /\ DevInv(dev) /\ dev \in Device
           /\ held \in SUBSET Chunks /\ softs \in SUBSET Chunks
           /\ held \cap softs = {} /\ Owned(dev, held \cup softs)
BY DEF IInv, DevInv

\* Settling leaves the debts whose data are still there.
LEMMA SettleCarries ==
    ASSUME NEW P \in SUBSET (Blocks \X Blocks), NEW e \in Device, NEW x \in Settle(P, e)
    PROVE  /\ x \in P
           /\ dev.bi[x[1]].block_state \in InUseStates => e.bi[x[1]].block_state \in InUseStates
<1>1. x \in P /\ x[1] \in Blocks /\ x[1] \notin Erased(dev, e)
  BY DEF Settle
<1>2. e.bi[x[1]].block_state \in BlockStates
  BY <1>1, FieldTypes
<1> QED  BY <1>1, <1>2 DEF Erased, InUseStates, BlockStates

\* Where no block goes, nothing has to be settled.
LEMMA NoneGoneCarries ==
    ASSUME debts \in SUBSET (Blocks \X Blocks), debts' = debts, NoneGone(dev, dev')
    PROVE  Carried
<1>1. \A x \in debts : x[1] \in Blocks
  OBVIOUS
<1> QED  BY <1>1 DEF Carried, NoneGone

\* The steps that change neither the device nor the files.
LEMMA IdleCount ==
    ASSUME IInv, Books, UNCHANGED <<dev, held, softs, debts>>
    PROVE  Books' /\ Moved(dev, dev') /\ Carried
<1>1. Level(dev, dev) /\ dev \in Device
  BY OwnersHeld DEF Level
<1>2. Moved(dev, dev) /\ NoneGone(dev, dev)
  BY <1>1, LevelKeeps
<1>3. Carried
  BY <1>2, NoneGoneCarries DEF IInv
<1> QED  BY <1>2, <1>3 DEF Books

\* yaffs_chunk_del() from the file layer.
LEMMA DeleteChunkCount ==
    ASSUME IInv, IInv', Books, NEW c \in held, DeleteChunk(c)
    PROVE  Books' /\ Moved(dev, dev') /\ Carried
<1>1. /\ DevInv(dev) /\ held \in SUBSET Chunks /\ softs \in SUBSET Chunks
      /\ c \in Chunks /\ c \notin softs /\ Owned(dev, held \cup softs)
  BY OwnersHeld
<1>2. PICK eraseOk \in BOOLEAN : dev' = chunk_del(dev, c, eraseOk)
  BY DEF DeleteChunk
<1>3. Count(dev', held \ {c}, softs) /\ Moved(dev, dev')
  BY <1>1, <1>2, ChunkDelCount DEF Books
<1>4. Carried
  BY SettleCarries DEF DeleteChunk, Carried, IInv, DevInv
<1> QED  BY <1>3, <1>4 DEF DeleteChunk, Books

\* yaffs_soft_del_chunk().
LEMMA SoftDeleteCount ==
    ASSUME IInv, Books, NEW c \in held, SoftDelete(c)
    PROVE  Books' /\ Moved(dev, dev') /\ Carried
<1>1. /\ DevInv(dev) /\ held \in SUBSET Chunks /\ softs \in SUBSET Chunks
      /\ c \in Chunks /\ c \notin softs /\ Owned(dev, held \cup softs)
  BY OwnersHeld
<1>2. /\ Count(dev', held \ {c}, softs \cup {c}) /\ Moved(dev, dev') /\ NoneGone(dev, dev')
  BY <1>1, SoftDelCount DEF Books, SoftDelete
<1>3. Carried
  BY <1>2, NoneGoneCarries DEF IInv, SoftDelete
<1> QED  BY <1>2, <1>3 DEF SoftDelete, Books

\* A read error.
LEMMA ReadErrorCount ==
    ASSUME IInv, IInv', Books, NEW c \in held, ReadError(c)
    PROVE  Books' /\ Moved(dev, dev') /\ Carried
<1>1. dev \in Device /\ dev' \in Device /\ c[1] \in Blocks
  BY OwnersHeld, ChunkParts DEF IInv, DevInv
<1>2. Level(dev, dev')
  BY <1>1, ChunkErrorLevel DEF ReadError
<1>3. Count(dev', held, softs) /\ Moved(dev, dev') /\ NoneGone(dev, dev')
  BY <1>1, <1>2, LevelKeeps DEF Books
<1>4. Carried
  BY <1>3, NoneGoneCarries DEF IInv, ReadError
<1> QED  BY <1>3, <1>4 DEF ReadError, Books

\* yaffs_gc_process_chunk() of a chunk of a soft-deleted file.
LEMMA GcDropSoftCount ==
    ASSUME IInv, IInv', Books, GcDropSoft
    PROVE  Books' /\ Moved(dev, dev') /\ Carried
<1> DEFINE c == <<dev.gc_block, GcPage(dev)>>
           d == StopCounting(dev, c)
<1>1. /\ DevInv(dev) /\ held \in SUBSET Chunks /\ softs \in SUBSET Chunks
      /\ dev \in Device /\ held \cap softs = {} /\ Owned(dev, held \cup softs)
  BY OwnersHeld
<1>2. PICK eraseOk \in BOOLEAN : dev' = chunk_del(d, c, eraseOk)
  BY DEF GcDropSoft
<1>3. /\ c \in softs /\ softs' = softs \ {c} /\ held' = held
      /\ debts' = Settle(debts, dev')
  BY DEF GcDropSoft
<1> HIDE DEF c
<1>4. c \in Chunks /\ c \notin held /\ c[1] \in Blocks
  BY <1>1, <1>3, ChunkParts
<1> HIDE DEF d
<1>5. DevInv(d) /\ d \in Device /\ d.chunk_bits = dev.chunk_bits
  BY <1>1, <1>4, DropSoftInv DEF d, DevInv
<1>6. /\ Count(d, held \cup {c}, softs \ {c})
      /\ \A x \in Blocks \ {c[1]} : d.bi[x] = dev.bi[x]
      /\ d.bi[c[1]].block_state = dev.bi[c[1]].block_state
      /\ d.bi[c[1]].seq_number = dev.bi[c[1]].seq_number
      /\ d.bi[c[1]].has_shrink_hdr = dev.bi[c[1]].has_shrink_hdr
      /\ PagesUsed(d, c[1]) = PagesUsed(dev, c[1]) + 1
      /\ d.gc_block = dev.gc_block /\ d.gc_dirtiest = dev.gc_dirtiest
  BY <1>1, <1>3, <1>4, StopCountingCount DEF Books, d
<1>7. (held \cup {c}) \cup (softs \ {c}) = held \cup softs
  BY <1>3
<1>8. Owned(d, (held \cup {c}) \cup (softs \ {c}))
  BY <1>1, <1>5, <1>7 DEF Owned
<1>9. held \cup {c} \in SUBSET Chunks /\ softs \ {c} \in SUBSET Chunks
  BY <1>1, <1>4
<1>10. /\ Count(dev', (held \cup {c}) \ {c}, softs \ {c})
       /\ Moved(d, dev') /\ NoneNew(d, dev')
       /\ dev'.bi[c[1]].block_state \in InUseStates =>
            PagesUsed(dev', c[1]) = PagesUsed(d, c[1]) - 1
  <2> DEFINE H == held \cup {c}
             S == softs \ {c}
  <2>1. /\ H \in SUBSET Chunks /\ S \in SUBSET Chunks /\ c \in H /\ c \notin S
        /\ Count(d, H, S) /\ Owned(d, H \cup S)
    BY <1>6, <1>8, <1>9
  <2> HIDE DEF H, S
  <2>2. /\ Count(dev', H \ {c}, S) /\ Moved(d, dev') /\ NoneNew(d, dev')
        /\ dev'.bi[c[1]].block_state \in InUseStates =>
             PagesUsed(dev', c[1]) = PagesUsed(d, c[1]) - 1
    BY <1>2, <1>4, <1>5, <2>1, ChunkDelCount
  <2> QED  BY <2>2 DEF H, S
<1>11. (held \cup {c}) \ {c} = held
  BY <1>4
<1>12. Books'
  BY <1>3, <1>10, <1>11 DEF Books
<1>13. Moved(dev, dev')
  <2>1. ASSUME NEW x \in Blocks, dev.bi[x].block_state \in InUseStates,
               dev'.bi[x].block_state \in InUseStates
        PROVE  /\ dev'.bi[x].seq_number = dev.bi[x].seq_number
               /\ dev'.bi[x].has_shrink_hdr = dev.bi[x].has_shrink_hdr
               /\ dev.bi[x].block_state \in Whole =>
                     /\ dev'.bi[x].block_state \in Whole
                     /\ PagesUsed(dev', x) <= PagesUsed(dev, x)
    <3>1. /\ d.bi[x].block_state = dev.bi[x].block_state
          /\ d.bi[x].seq_number = dev.bi[x].seq_number
          /\ d.bi[x].has_shrink_hdr = dev.bi[x].has_shrink_hdr
      BY <1>6
    <3>2. /\ dev'.bi[x].seq_number = dev.bi[x].seq_number
          /\ dev'.bi[x].has_shrink_hdr = dev.bi[x].has_shrink_hdr
          /\ dev.bi[x].block_state \in Whole =>
                dev'.bi[x].block_state \in Whole /\ PagesUsed(dev', x) <= PagesUsed(d, x)
      BY <1>10, <2>1, <3>1 DEF Moved
    <3>3. CASE x = c[1]
      <4>1. PagesUsed(dev, x) \in Int
        BY <1>1, FieldTypes DEF PagesUsed
      <4>2. PagesUsed(dev', x) = (PagesUsed(dev, x) + 1) - 1
        BY <1>6, <1>10, <2>1, <3>3
      <4> QED  BY <3>2, <4>1, <4>2
    <3>4. CASE x # c[1]
      <4>1. PagesUsed(d, x) = PagesUsed(dev, x)
        BY <1>6, <3>4 DEF PagesUsed
      <4> QED  BY <3>2, <4>1
    <3> QED  BY <3>3, <3>4
  <2>2. ShrinksStay(dev, dev')
    <3>1. \A x \in Blocks : /\ d.bi[x].block_state = dev.bi[x].block_state
                             /\ d.bi[x].has_shrink_hdr = dev.bi[x].has_shrink_hdr
      BY <1>6
    <3> QED  BY <1>10, <3>1 DEF Moved, ShrinksStay
  <2> QED  BY <1>6, <1>10, <2>1, <2>2 DEF Moved
<1>14. Carried
  BY <1>3, SettleCarries DEF Carried, IInv, DevInv
<1> QED  BY <1>12, <1>13, <1>14

\* Stepping to a chunk that has to be copied.
LEMMA GcCopyCount ==
    ASSUME IInv, IInv', Books, GcCopy
    PROVE  Books' /\ Moved(dev, dev') /\ Carried
<1>1. dev \in Device /\ dev' \in Device
  BY DEF IInv, DevInv
<1>2. Level(dev, dev')
  BY <1>1, CursorLevel DEF GcCopy
<1>3. Count(dev', held, softs) /\ Moved(dev, dev') /\ NoneGone(dev, dev')
  BY <1>1, <1>2, LevelKeeps DEF Books
<1>4. Carried
  BY <1>3, NoneGoneCarries DEF IInv, GcCopy
<1> QED  BY <1>3, <1>4 DEF GcCopy, Books

\* The end of a turn of the collector: a cursor and then a state that count
\* for nothing.
LEMMA FinishCount ==
    ASSUME NEW d \in Device, dev' \in Device, NEW n, NEW e \in Device,
           e = d \/ e = [d EXCEPT !.gc_chunk = n], FinishGc(e)
    PROVE  /\ Moved(d, dev') /\ NoneNew(d, dev') /\ NoneGone(d, dev')
           /\ \A H, S : Count(d, H, S) => Count(dev', H, S)
<1>1. Level(d, d)
  BY DEF Level
<1>2. Level(d, e)
  BY <1>1, CursorLevel
<1>3. Level(e, dev')
  BY ExitLevel DEF FinishGc
<1>4. /\ Moved(d, e) /\ NoneNew(d, e) /\ NoneGone(d, e)
      /\ \A H, S : Count(d, H, S) => Count(e, H, S)
  BY <1>2, LevelKeeps
<1>5. /\ Moved(e, dev') /\ NoneNew(e, dev') /\ NoneGone(e, dev')
      /\ \A H, S : Count(e, H, S) => Count(dev', H, S)
  BY <1>3, LevelKeeps
<1>6. Moved(d, dev') /\ NoneNew(d, dev')
  BY <1>4, <1>5, MovedOn
<1>7. NoneGone(d, dev')
  BY <1>4, <1>5 DEF NoneGone
<1> QED  BY <1>4, <1>5, <1>6, <1>7

\* The end of a collection.
LEMMA GcEndCount ==
    ASSUME IInv, IInv', Books, GcEnd
    PROVE  Books' /\ Moved(dev, dev') /\ Carried
<1> DEFINE n == ChunksPerBlock
           d == IF Unfinished(dev) /\ UsedPages(dev) = {}
                THEN [dev EXCEPT !.gc_chunk = n] ELSE dev
<1>1. dev \in Device /\ dev' \in Device /\ n \in Nat
  BY GeometryAssumption DEF IInv, DevInv
<1>2. d = dev \/ d = [dev EXCEPT !.gc_chunk = n]
  OBVIOUS
<1>3. FinishGc(d) /\ UNCHANGED <<held, softs, debts>>
  BY DEF GcEnd
<1> HIDE DEF d, n
<1>4. d \in Device
  BY <1>1, <1>2 DEF Device
<1>5. /\ Moved(dev, dev') /\ NoneGone(dev, dev')
      /\ \A H, S : Count(dev, H, S) => Count(dev', H, S)
  BY <1>1, <1>2, <1>3, <1>4, FinishCount
<1>6. Carried
  BY <1>3, <1>5, NoneGoneCarries DEF IInv
<1> QED  BY <1>3, <1>5, <1>6 DEF Books

\* What a failed turn goes back to counts as the device it is given.
LEMMA FailedCount ==
    ASSUME NEW d \in Device, dev' \in Device, WriteFailed(d) \/ RetryOrFail(d)
    PROVE  /\ Moved(d, dev') /\ NoneNew(d, dev') /\ NoneGone(d, dev')
           /\ \A H, S : Count(d, H, S) => Count(dev', H, S)
<1>1. CASE dev' = d
  <2>1. Level(d, dev')
    BY <1>1 DEF Level
  <2> QED  BY <2>1, LevelKeeps
<1>2. CASE dev' # d
  <2>1. WriteFailed(d) /\ op.pc = "copy"
    BY <1>2 DEF RetryOrFail, WriteFailed
  <2> DEFINE n == d.gc_chunk + 1
             e == [d EXCEPT !.gc_chunk = n]
  <2>2. FinishGc(e)
    BY <2>1 DEF WriteFailed
  <2>3. n \in Nat
    BY FieldTypes
  <2> HIDE DEF n
  <2>4. e \in Device
    BY <2>3 DEF Device
  <2>5. e = [d EXCEPT !.gc_chunk = n]
    OBVIOUS
  <2> HIDE DEF e
  <2> QED  BY <2>2, <2>4, <2>5, FinishCount
<1> QED  BY <1>1, <1>2

\* A page that is taken for the file layer, or for a copy.
LEMMA TookCount ==
    ASSUME IInv, Books, NEW d, d = with_alloc_block(dev), d.alloc_block # NoBlock,
           NEW c, c = NextChunk(d), NEW e, e = TakePage(d)
    PROVE  /\ DevInv(e) /\ e \in Device /\ c \in Chunks /\ c \notin held \cup softs
           /\ Owned(e, (held \cup {c}) \cup softs)
           /\ Count(e, held \cup {c}, softs) /\ Moved(dev, e)
           /\ e.gc_block # c[1] /\ e.gc_dirtiest # c[1]
<1> DEFINE t == take_page(d)
<1>1. /\ DevInv(dev) /\ dev \in Device /\ Owned(dev, held \cup softs)
      /\ held \in SUBSET Chunks /\ softs \in SUBSET Chunks
  BY OwnersHeld
<1>2. /\ DevInv(d) /\ d \in Device /\ d.chunk_bits = dev.chunk_bits
  BY <1>1, WithAllocInv DEF DevInv
<1>3. Count(d, held, softs) /\ Moved(dev, d)
  BY <1>1, WithAllocCount DEF Books
<1>0. t = take_page(d)
  OBVIOUS
<1> HIDE DEF t
<1>4. /\ DevInv(e) /\ e \in Device /\ c \in Chunks
      /\ DevInv(t) /\ t \in Device /\ Level(t, e)
      /\ c[2] \notin d.chunk_bits[c[1]]
      /\ e.chunk_bits[c[1]] = d.chunk_bits[c[1]] \cup {c[2]}
      /\ \A x \in Blocks \ {c[1]} : e.chunk_bits[x] = d.chunk_bits[x]
  BY <1>0, <1>2, TakenPageInv DEF DevInv
<1>5. Owned(d, held \cup softs) /\ held \cup softs \in SUBSET Chunks
  BY <1>1, <1>2 DEF Owned
<1>6. c \notin held \cup softs
  BY <1>4, <1>5, OwnedBit
<1>7. Owned(e, (held \cup softs) \cup {c})
  BY <1>4, <1>5, OwnedAdd
<1>8. (held \cup softs) \cup {c} = (held \cup {c}) \cup softs
  OBVIOUS
<1>9. /\ Count(t, held \cup {c}, softs) /\ Moved(d, t) /\ NoneNew(d, t)
      /\ d.bi[c[1]].block_state = "ALLOCATING"
  BY <1>0, <1>1, <1>2, <1>3, <1>6, TakePageCount
<1>12. Count(e, held \cup {c}, softs) /\ Moved(t, e) /\ NoneNew(t, e)
  BY <1>4, <1>9, LevelKeeps
<1>10. Moved(dev, e)
  <2>1. Moved(dev, t)
    BY <1>1, <1>2, <1>3, <1>4, <1>9, MovedOn
  <2> QED  BY <1>1, <1>4, <1>12, <2>1, MovedOn
<1>11. e.gc_block # c[1] /\ e.gc_dirtiest # c[1]
  <2>1. c[1] \in Blocks /\ c[1] # NoBlock
    BY <1>4, ChunkParts DEF Blocks, NoBlock
  <2>2. d.gc_block # c[1] /\ d.gc_dirtiest # c[1]
    BY <1>2, <1>9, <2>1 DEF DevInv, PointerInv, Whole
  <2> QED  BY <1>9, <1>12, <2>1, <2>2 DEF Moved
<1> QED  BY <1>4, <1>6, <1>7, <1>8, <1>10, <1>11, <1>12

\* A page that is written.
LEMMA WrittenCount ==
    ASSUME IInv, Books, NEW d, d = with_alloc_block(dev), d.alloc_block # NoBlock,
           NEW c, c = NextChunk(d), NEW e, e = mark_written(TakePage(d), c[1])
    PROVE  /\ DevInv(e) /\ e \in Device /\ c \in Chunks /\ c \notin held \cup softs
           /\ Owned(e, (held \cup {c}) \cup softs)
           /\ Count(e, held \cup {c}, softs) /\ Moved(dev, e)
           /\ e.gc_block # c[1] /\ e.gc_dirtiest # c[1]
<1> DEFINE t == TakePage(d)
<1>1. /\ DevInv(t) /\ t \in Device /\ c \in Chunks /\ c \notin held \cup softs
      /\ Owned(t, (held \cup {c}) \cup softs)
      /\ Count(t, held \cup {c}, softs) /\ Moved(dev, t)
      /\ t.gc_block # c[1] /\ t.gc_dirtiest # c[1]
  <2> HIDE DEF t
  <2> QED  BY TookCount DEF t
<1>2. e = mark_written(t, c[1])
  OBVIOUS
<1> HIDE DEF t
<1>3. c[1] \in Blocks /\ dev \in Device /\ c[1] # NoBlock
  BY <1>1, ChunkParts, OwnersHeld DEF Blocks, NoBlock
<1>4. DevInv(e) /\ e \in Device /\ e.chunk_bits = t.chunk_bits /\ Level(t, e)
  BY <1>1, <1>2, <1>3, SkipMarkInv DEF DevInv
<1>6. /\ Count(e, held \cup {c}, softs) /\ Moved(t, e) /\ NoneNew(t, e)
  BY <1>1, <1>4, LevelKeeps
<1>7. Moved(dev, e)
  BY <1>1, <1>3, <1>4, <1>6, MovedOn
<1>8. Owned(e, (held \cup {c}) \cup softs)
  BY <1>1, <1>4 DEF Owned
<1>9. e.gc_block # c[1] /\ e.gc_dirtiest # c[1]
  BY <1>1, <1>3, <1>6 DEF Moved
<1> QED  BY <1>1, <1>4, <1>6, <1>7, <1>8, <1>9

\* A write that finds no room.
LEMMA WriteNoSpaceCount ==
    ASSUME IInv, IInv', Books, WriteNoSpace
    PROVE  Books' /\ Moved(dev, dev') /\ Carried
<1> DEFINE d == with_alloc_block(dev)
<1>1. DevInv(dev) /\ dev \in Device /\ dev' \in Device
  BY DEF IInv, DevInv
<1>2. WriteFailed(d) /\ UNCHANGED <<held, softs, debts>>
  BY DEF WriteNoSpace
<1> HIDE DEF d
<1>3. /\ Count(d, held, softs) /\ Moved(dev, d) /\ NoneGone(dev, d) /\ d \in Device
  BY <1>1, WithAllocCount, WithAllocType DEF d, Books
<1>4. /\ Moved(d, dev') /\ NoneNew(d, dev') /\ NoneGone(d, dev')
      /\ Count(dev', held, softs)
  BY <1>1, <1>2, <1>3, FailedCount
<1>5. Moved(dev, dev')
  BY <1>1, <1>3, <1>4, MovedOn
<1>6. Carried
  BY <1>2, <1>3, <1>4, NoneGoneCarries DEF IInv, NoneGone
<1> QED  BY <1>2, <1>4, <1>5, <1>6 DEF Books

\* After a failed turn that has given its chunk up, the books are right.
LEMMA RetryCount ==
    ASSUME IInv, IInv', NEW d \in Device, Count(d, held, softs), Moved(dev, d),
           RetryOrFail(d), UNCHANGED <<held, softs>>, debts' = Settle(debts, dev')
    PROVE  Books' /\ Moved(dev, dev') /\ Carried
<1>1. dev \in Device /\ dev' \in Device
  BY DEF IInv, DevInv
<1>2. Moved(d, dev') /\ NoneNew(d, dev') /\ Count(dev', held, softs)
  BY <1>1, FailedCount
<1>3. Moved(dev, dev')
  BY <1>1, <1>2, MovedOn
<1>4. Carried
  BY <1>1, SettleCarries DEF Carried, IInv
<1> QED  BY <1>2, <1>3, <1>4 DEF Books

\* A page found not to be erased.
LEMMA WriteNotErasedCount ==
    ASSUME IInv, IInv', Books, WriteNotErased
    PROVE  Books' /\ Moved(dev, dev') /\ Carried
<1> DEFINE d == with_alloc_block(dev)
           c == NextChunk(d)
           e == TakePage(d)
<1>0. PICK eraseOk \in BOOLEAN :
        RetryOrFail(skip_rest_of_block(chunk_del(e, c, eraseOk)))
  BY DEF WriteNotErased
<1> DEFINE f == chunk_del(e, c, eraseOk)
           g == skip_rest_of_block(f)
<1>1. /\ d.alloc_block # NoBlock /\ RetryOrFail(g)
      /\ debts' = Settle(debts, dev') /\ UNCHANGED <<held, softs>>
  BY <1>0 DEF WriteNotErased, CanAlloc
<1> HIDE DEF g
<1>2. g = skip_rest_of_block(f)
  BY DEF g
<1> HIDE DEF f
<1>3. f = chunk_del(e, c, eraseOk)
  BY DEF f
<1> HIDE DEF e, c, d
<1>4. /\ DevInv(e) /\ e \in Device /\ c \in Chunks /\ c \notin held \cup softs
      /\ Owned(e, (held \cup {c}) \cup softs)
      /\ Count(e, held \cup {c}, softs) /\ Moved(dev, e)
  BY <1>1, TookCount DEF d, e, c
<1>5. /\ held \in SUBSET Chunks /\ softs \in SUBSET Chunks /\ dev \in Device
  BY OwnersHeld
<1> DEFINE H == held \cup {c}
<1>6. H \in SUBSET Chunks /\ c \in H /\ H \ {c} = held
  BY <1>4, <1>5
<1>7. Count(e, H, softs) /\ Owned(e, H \cup softs)
  BY <1>4
<1> HIDE DEF H
<1>8. /\ Count(f, held, softs) /\ Moved(e, f) /\ NoneNew(e, f)
  BY <1>3, <1>4, <1>5, <1>6, <1>7, ChunkDelCount
<1>9. f \in Device /\ g \in Device /\ Level(f, g)
  BY <1>2, <1>3, <1>4, ChunkDelType, SkipRestType, SkipRestLevel
<1>10. /\ Count(g, held, softs) /\ Moved(f, g) /\ NoneNew(f, g)
  BY <1>8, <1>9, LevelKeeps
<1>11. Moved(dev, g)
  <2>1. Moved(dev, f)
    BY <1>4, <1>5, <1>8, <1>9, MovedOn
  <2> QED  BY <1>5, <1>9, <1>10, <2>1, MovedOn
<1> QED  BY <1>1, <1>9, <1>10, <1>11, RetryCount

\* A write that fails.
LEMMA WriteErrorCount ==
    ASSUME IInv, IInv', Books, WriteError
    PROVE  Books' /\ Moved(dev, dev') /\ Carried
<1> DEFINE d == with_alloc_block(dev)
           c == NextChunk(d)
           e == TakePage(d)
           ok == ~e.bi[c[1]].skip_erased_check
<1>0. PICK eraseOk \in BOOLEAN : RetryOrFail(handle_chunk_wr_error(e, c, ok, eraseOk))
  BY DEF WriteError
<1> DEFINE g == handle_chunk_wr_error(e, c, ok, eraseOk)
<1>1. /\ d.alloc_block # NoBlock /\ RetryOrFail(g)
      /\ debts' = Settle(debts, dev') /\ UNCHANGED <<held, softs>>
  BY <1>0 DEF WriteError, CanAlloc
<1> HIDE DEF g
<1>2. g = handle_chunk_wr_error(e, c, ok, eraseOk)
  BY DEF g
<1>3. ok \in BOOLEAN
  BY DEF ok
<1> HIDE DEF ok, e, c, d
<1>4. /\ DevInv(e) /\ e \in Device /\ c \in Chunks /\ c \notin held \cup softs
      /\ Owned(e, (held \cup {c}) \cup softs)
      /\ Count(e, held \cup {c}, softs) /\ Moved(dev, e)
  BY <1>1, TookCount DEF d, e, c
<1>5. /\ held \in SUBSET Chunks /\ softs \in SUBSET Chunks /\ dev \in Device
  BY OwnersHeld
<1> DEFINE H == held \cup {c}
<1>6. H \in SUBSET Chunks /\ c \in H /\ H \ {c} = held
  BY <1>4, <1>5
<1>7. Count(e, H, softs) /\ Owned(e, H \cup softs)
  BY <1>4
<1> HIDE DEF H
<1>8. /\ Count(g, held, softs) /\ Moved(e, g) /\ NoneNew(e, g)
  BY <1>2, <1>3, <1>4, <1>5, <1>6, <1>7, WrErrorCount
<1>9. g \in Device
  BY <1>2, <1>3, <1>4, WrErrorType
<1>10. Moved(dev, g)
  BY <1>4, <1>5, <1>8, <1>9, MovedOn
<1> QED  BY <1>1, <1>8, <1>9, <1>10, RetryCount

\* The collector's copy, with the deletion of the original.
LEMMA CopyOkCount ==
    ASSUME IInv, IInv', Books, CopyOk
    PROVE  Books' /\ Moved(dev, dev') /\ Carried
<1> DEFINE d == with_alloc_block(dev)
           c == NextChunk(d)
           old == <<dev.gc_block, dev.gc_chunk>>
           w == mark_written(TakePage(d), c[1])
           n == w.gc_chunk + 1
           e == [w EXCEPT !.gc_chunk = n]
<1>1. PICK eraseOk \in BOOLEAN : dev' = chunk_del(e, old, eraseOk)
  BY DEF CopyOk
<1>2. /\ d.alloc_block # NoBlock /\ softs' = softs /\ op.pc = "copy"
      /\ held' = (held \ {old}) \cup {c} /\ debts' = Settle(debts, dev')
  BY DEF CopyOk, CanAlloc
<1>3. old \in held
  BY <1>2 DEF IInv
<1> HIDE DEF e, n, old
<1>4. e = [w EXCEPT !.gc_chunk = n] /\ n = w.gc_chunk + 1
  BY DEF e, n
<1> HIDE DEF w, c, d
<1>5. /\ DevInv(w) /\ w \in Device /\ c \in Chunks /\ c \notin held \cup softs
      /\ Owned(w, (held \cup {c}) \cup softs)
      /\ Count(w, held \cup {c}, softs) /\ Moved(dev, w)
  BY <1>2, WrittenCount DEF w, c, d
<1>6. /\ held \in SUBSET Chunks /\ softs \in SUBSET Chunks /\ dev \in Device
      /\ held \cap softs = {}
  BY OwnersHeld
<1>7. n \in Nat
  BY <1>4, <1>5, FieldTypes
<1>8. DevInv(e) /\ e \in Device /\ e.chunk_bits = w.chunk_bits
  BY <1>4, <1>5, <1>7, CursorOnlyInv DEF DevInv
<1>9. Level(w, e)
  BY <1>4, <1>5, CursorLevel
<1> DEFINE H == held \cup {c}
<1>10. /\ H \in SUBSET Chunks /\ old \in H /\ old \notin softs /\ old \in Chunks
       /\ H \ {old} = held'
  BY <1>2, <1>3, <1>5, <1>6
<1>11. Count(w, H, softs) /\ Owned(w, H \cup softs)
  BY <1>5
<1> HIDE DEF H
<1>12. /\ Count(e, H, softs) /\ Owned(e, H \cup softs) /\ Moved(w, e) /\ NoneNew(w, e)
  BY <1>5, <1>8, <1>9, <1>11, LevelKeeps DEF Owned
<1>13. /\ Count(dev', held', softs) /\ Moved(e, dev') /\ NoneNew(e, dev')
  BY <1>1, <1>6, <1>8, <1>10, <1>12, ChunkDelCount
<1>14. Moved(dev, dev')
  <2>1. Moved(dev, e)
    BY <1>5, <1>6, <1>8, <1>12, MovedOn
  <2>2. dev' \in Device
    BY DEF IInv, DevInv
  <2> QED  BY <1>6, <1>8, <1>13, <2>1, <2>2, MovedOn
<1>15. Carried
  BY <1>2, SettleCarries DEF Carried, IInv, DevInv
<1> QED  BY <1>2, <1>13, <1>14, <1>15 DEF Books

\* A write that works: before a shrink header marks the block of the new chunk,
\* the device is f.
LEMMA WriteOkCount ==
    ASSUME IInv, IInv', Books, WriteOk
    PROVE  /\ Books'
           /\ \E f \in Device, b \in Blocks :
                /\ Moved(dev, f) /\ f.bi[b].block_state \in InUseStates
                /\ f.gc_block # b /\ f.gc_dirtiest # b
                /\ dev' = IF op.shrink THEN mark_shrink_hdr(f, b) ELSE f
                /\ debts' = Settle(debts, f) \cup (IF op.shrink THEN NewDebts(f, b) ELSE {})
<1> DEFINE d == with_alloc_block(dev)
           c == NextChunk(d)
           e == mark_written(TakePage(d), c[1])
<1>1. PICK old \in IF op.replace THEN held ELSE {NoChunk}, eraseOk \in BOOLEAN :
        LET f == IF op.replace THEN chunk_del(e, old, eraseOk) ELSE e
        IN  /\ held' = (held \ {old}) \cup {c}
            /\ dev' = IF op.shrink THEN mark_shrink_hdr(f, c[1]) ELSE f
            /\ debts' = Settle(debts, f)
                          \cup (IF op.shrink THEN NewDebts(f, c[1]) ELSE {})
  BY DEF WriteOk
<1>2. d.alloc_block # NoBlock /\ softs' = softs
  BY DEF WriteOk, CanAlloc
<1> DEFINE f == IF op.replace THEN chunk_del(e, old, eraseOk) ELSE e
<1>3. /\ held' = (held \ {old}) \cup {c}
      /\ dev' = IF op.shrink THEN mark_shrink_hdr(f, c[1]) ELSE f
      /\ debts' = Settle(debts, f) \cup (IF op.shrink THEN NewDebts(f, c[1]) ELSE {})
  BY <1>1
<1> HIDE DEF e, c, d
<1>4. /\ DevInv(e) /\ e \in Device /\ c \in Chunks /\ c \notin held \cup softs
      /\ Owned(e, (held \cup {c}) \cup softs)
      /\ Count(e, held \cup {c}, softs) /\ Moved(dev, e)
      /\ e.gc_block # c[1] /\ e.gc_dirtiest # c[1]
  BY <1>2, WrittenCount DEF e, c, d
<1>5. /\ held \in SUBSET Chunks /\ softs \in SUBSET Chunks /\ dev \in Device
      /\ held \cap softs = {} /\ c[1] \in Blocks /\ c[1] # NoBlock
  BY <1>4, OwnersHeld, ChunkParts DEF Blocks, NoBlock
<1> DEFINE H == held \cup {c}
<1>6. H \in SUBSET Chunks /\ Count(e, H, softs) /\ Owned(e, H \cup softs)
  BY <1>4, <1>5
<1>7. /\ f \in Device /\ DevInv(f) /\ Count(f, held', softs)
      /\ Owned(f, held' \cup softs) /\ Moved(dev, f)
      /\ f.gc_block # c[1] /\ f.gc_dirtiest # c[1]
  <2>1. CASE op.replace
    <3>1. old \in held /\ f = chunk_del(e, old, eraseOk)
      BY <2>1
    <3>2. old \in H /\ old \notin softs /\ old \in Chunks /\ H \ {old} = held'
      BY <1>3, <1>4, <1>5, <3>1
    <3> HIDE DEF f, H
    <3>3. Count(f, held', softs) /\ Moved(e, f) /\ NoneNew(e, f)
      BY <1>4, <1>5, <1>6, <3>1, <3>2, ChunkDelCount
    <3>4. H \cup softs \in SUBSET Chunks /\ old[2] \in e.chunk_bits[old[1]]
      BY <1>5, <1>6, <3>2, OwnedBit
    <3>5. /\ DevInv(f) /\ f \in Device /\ Elsewhere(e, f, old[1])
          /\ f.chunk_bits[old[1]] = e.chunk_bits[old[1]] \ {old[2]}
      BY <1>4, <3>1, <3>2, <3>4, ChunkDelInv DEF DevInv
    <3>6. Owned(f, (H \cup softs) \ {old})
      BY <1>6, <3>2, <3>4, <3>5, OwnedDel DEF Elsewhere
    <3>7. (H \cup softs) \ {old} = held' \cup softs
      BY <3>2
    <3>8. Moved(dev, f)
      BY <1>4, <1>5, <3>3, <3>5, MovedOn
    <3>9. f.gc_block # c[1] /\ f.gc_dirtiest # c[1]
      BY <1>4, <1>5, <3>3 DEF Moved
    <3> QED  BY <3>3, <3>5, <3>6, <3>7, <3>8, <3>9
  <2>2. CASE ~op.replace
    <3>1. f = e /\ old \notin held
      BY <1>5, <2>2 DEF NoChunk, Chunks, Blocks
    <3>2. held' = H
      BY <1>3, <3>1
    <3> QED  BY <1>4, <1>6, <3>1, <3>2
  <2> QED  BY <2>1, <2>2
<1> HIDE DEF f, H
<1>8. f.bi[c[1]].block_state \in InUseStates
  <2>1. held' \cup softs \in SUBSET Chunks /\ c \in held' \cup softs
    BY <1>3, <1>4, <1>5
  <2>2. c[2] \in f.chunk_bits[c[1]]
    BY <1>7, <2>1, OwnedBit
  <2> QED  BY <1>5, <1>7, <2>2 DEF DevInv, BlockInv
<1>9. Books'
  <2>1. CASE op.shrink
    <3>1. dev' = mark_shrink_hdr(f, c[1])
      BY <1>3, <2>1
    <3>2. Count(dev', held', softs)
      BY <1>5, <1>7, <3>1, MarkShrinkCount
    <3> QED  BY <1>2, <3>2 DEF Books
  <2>2. CASE ~op.shrink
    BY <1>2, <1>3, <1>7, <2>2 DEF Books
  <2> QED  BY <2>1, <2>2
<1> QED  BY <1>3, <1>5, <1>7, <1>8, <1>9

\* Starting on a full block of a device that counts as the current one.
LEMMA CollectBlockCount ==
    ASSUME IInv, Books, NEW d, DevInv(d), d.chunk_bits = dev.chunk_bits,
           Level(dev, d), NEW b \in Blocks, d.bi[b].block_state \in Whole,
           CollectBlock(d, b)
    PROVE  /\ Books'
           /\ \A x \in Blocks \ {b} : dev'.bi[x] = d.bi[x]
           /\ dev'.bi[b].block_state \in InUseStates =>
                /\ dev'.bi[b].block_state \in Whole
                /\ dev'.bi[b].seq_number = d.bi[b].seq_number
                /\ PagesUsed(dev', b) = PagesUsed(d, b)
                /\ ~dev'.bi[b].has_shrink_hdr
           /\ dev'.gc_block # NoBlock =>
                dev'.gc_block = b /\ dev'.bi[b].block_state \in InUseStates
           /\ dev'.gc_dirtiest \in {d.gc_dirtiest, NoBlock}
<1>1. PICK eraseOk \in BOOLEAN : dev' = GcBlockEntry(d, b, eraseOk)
  BY DEF CollectBlock
<1>2. /\ dev \in Device /\ held \in SUBSET Chunks /\ softs \in SUBSET Chunks
      /\ Owned(dev, held \cup softs)
  BY OwnersHeld
<1>3. d \in Device /\ Owned(d, held \cup softs)
  BY <1>2 DEF DevInv, Owned
<1>4. Count(d, held, softs)
  BY <1>2, <1>3, LevelKeeps DEF Books
<1>5. UNCHANGED <<held, softs>>
  BY DEF CollectBlock
<1> QED  BY <1>1, <1>2, <1>3, <1>4, <1>5, GcEntryCount DEF Books

-----------------------------------------------------------------------------
(* The debts.                                                              *)

\* Block a has discarded pages, and is older than block b, that bears a shrink
\* header and is in use.
Owing(d, a, b) ==
    /\ HasDiscarded(d, a)
    /\ d.bi[b].block_state \in InUseStates /\ d.bi[b].has_shrink_hdr
    /\ Older(d, a, b)

DebtInv ==
    /\ \A x \in debts : Owing(dev, x[1], x[2])
    /\ dev.gc_block # NoBlock => ~dev.bi[dev.gc_block].has_shrink_hdr
    /\ dev.gc_dirtiest # NoBlock /\ dev.bi[dev.gc_dirtiest].has_shrink_hdr =>
            \A x \in debts : x[2] # dev.gc_dirtiest

\* A debt whose data are still there stays one: nothing else erases the block of
\* its shrink header.
LEMMA OwingMoved ==
    ASSUME NEW d \in Device, NEW e \in Device, Moved(d, e),
           NEW a \in Blocks, NEW b \in Blocks, Owing(d, a, b),
           e.bi[a].block_state \in InUseStates
    PROVE  Owing(e, a, b)
<1>1. d.bi[a].block_state \in Whole /\ d.bi[a].block_state \in InUseStates
  BY DEF Owing, HasDiscarded, Whole, InUseStates
<1>2. e.bi[b].block_state \in InUseStates
  BY DEF Owing, Moved, ShrinksStay
<1>3. /\ e.bi[a].block_state \in Whole /\ PagesUsed(e, a) <= PagesUsed(d, a)
      /\ e.bi[a].seq_number = d.bi[a].seq_number
      /\ e.bi[b].seq_number = d.bi[b].seq_number
      /\ e.bi[b].has_shrink_hdr
  BY <1>1, <1>2 DEF Moved, Owing
<1>4. /\ PagesUsed(d, a) \in Int /\ PagesUsed(e, a) \in Int /\ ChunksPerBlock \in Int
  BY FieldTypes, GeometryAssumption DEF PagesUsed
<1> QED  BY <1>2, <1>3, <1>4 DEF Owing, HasDiscarded, Older

\* A device that has moved on keeps its debts, unless their data are gone.
LEMMA DebtsKept ==
    ASSUME IInv, IInv', DebtInv, Moved(dev, dev'), Carried
    PROVE  DebtInv'
<1>1. /\ dev \in Device /\ dev' \in Device /\ PointerInv(dev) /\ PointerInv(dev')
      /\ debts \in SUBSET (Blocks \X Blocks)
  BY DEF IInv, DevInv
<1>2. ASSUME NEW x \in debts'
      PROVE  /\ x \in debts /\ x[1] \in Blocks /\ x[2] \in Blocks
             /\ Owing(dev', x[1], x[2])
  <2>1. x \in debts /\ x[1] \in Blocks /\ x[2] \in Blocks
    BY <1>1, <1>2 DEF Carried
  <2>2. Owing(dev, x[1], x[2])
    BY <2>1 DEF DebtInv
  <2>3. dev.bi[x[1]].block_state \in InUseStates
    BY <2>2 DEF Owing, HasDiscarded, Whole, InUseStates
  <2>4. dev'.bi[x[1]].block_state \in InUseStates
    BY <1>2, <2>3 DEF Carried
  <2> QED  BY <1>1, <2>1, <2>2, <2>3, <2>4, OwingMoved
<1>3. ASSUME NEW y \in Blocks, dev.bi[y].block_state \in InUseStates,
             dev'.bi[y].block_state \in InUseStates
      PROVE  dev'.bi[y].has_shrink_hdr = dev.bi[y].has_shrink_hdr
  BY <1>3 DEF Moved
<1>4. dev'.gc_block # NoBlock => ~dev'.bi[dev'.gc_block].has_shrink_hdr
  <2>1. dev'.gc_block # NoBlock =>
          /\ dev'.gc_block = dev.gc_block /\ dev.gc_block \in Blocks
          /\ dev.bi[dev.gc_block].block_state \in InUseStates
          /\ dev'.bi[dev.gc_block].block_state \in InUseStates
    BY <1>1, FieldTypes DEF Moved, PointerInv, Whole, InUseStates
  <2> QED  BY <1>3, <2>1 DEF DebtInv
<1>5. dev'.gc_dirtiest # NoBlock /\ dev'.bi[dev'.gc_dirtiest].has_shrink_hdr =>
            \A x \in debts' : x[2] # dev'.gc_dirtiest
  <2>1. dev'.gc_dirtiest # NoBlock =>
          /\ dev'.gc_dirtiest = dev.gc_dirtiest /\ dev.gc_dirtiest \in Blocks
          /\ dev.bi[dev.gc_dirtiest].block_state \in InUseStates
          /\ dev'.bi[dev.gc_dirtiest].block_state \in InUseStates
    BY <1>1, FieldTypes DEF Moved, PointerInv, Whole, InUseStates
  <2> QED  BY <1>2, <1>3, <2>1 DEF DebtInv
<1> QED  BY <1>2, <1>4, <1>5 DEF DebtInv

\* A shrink header that is written makes its debts good ones.
LEMMA WriteOkDebts ==
    ASSUME IInv, IInv', Books, DebtInv, WriteOk
    PROVE  DebtInv'
<1>1. PICK f \in Device, b \in Blocks :
        /\ Moved(dev, f) /\ f.bi[b].block_state \in InUseStates
        /\ f.gc_block # b /\ f.gc_dirtiest # b
        /\ dev' = IF op.shrink THEN mark_shrink_hdr(f, b) ELSE f
        /\ debts' = Settle(debts, f) \cup (IF op.shrink THEN NewDebts(f, b) ELSE {})
  BY WriteOkCount
<1>2. /\ dev \in Device /\ dev' \in Device /\ debts \in SUBSET (Blocks \X Blocks)
      /\ PointerInv(dev) /\ PointerInv(dev')
  BY DEF IInv, DevInv
<1>3. CASE ~op.shrink
  <2>1. dev' = f /\ debts' = Settle(debts, f)
    BY <1>1, <1>3
  <2>2. Carried
    BY <1>2, <2>1, SettleCarries DEF Carried
  <2> QED  BY <1>1, <2>1, <2>2, DebtsKept
<1>4. CASE op.shrink
  <2>1. dev' = mark_shrink_hdr(f, b) /\ debts' = Settle(debts, f) \cup NewDebts(f, b)
    BY <1>1, <1>4
  <2>3. /\ \A x \in Blocks \ {b} : dev'.bi[x] = f.bi[x]
        /\ dev'.bi[b].block_state = f.bi[b].block_state
        /\ dev'.bi[b].seq_number = f.bi[b].seq_number
        /\ PagesUsed(dev', b) = PagesUsed(f, b)
        /\ dev'.bi[b].has_shrink_hdr
        /\ dev'.gc_block = f.gc_block /\ dev'.gc_dirtiest = f.gc_dirtiest
    BY <2>1, MarkShrinkIs
  <2>4. ASSUME NEW x \in Blocks
        PROVE  /\ dev'.bi[x].block_state = f.bi[x].block_state
               /\ dev'.bi[x].seq_number = f.bi[x].seq_number
               /\ PagesUsed(dev', x) = PagesUsed(f, x)
    BY <2>3 DEF PagesUsed
  <2>5. ASSUME NEW x \in Settle(debts, f)
        PROVE  /\ x \in debts /\ x[1] \in Blocks /\ x[2] \in Blocks
               /\ Owing(f, x[1], x[2])
    <3>1. x \in debts /\ x[1] \in Blocks /\ x[2] \in Blocks
      BY <1>2, SettleCarries
    <3>2. Owing(dev, x[1], x[2])
      BY <3>1 DEF DebtInv
    <3>3. dev.bi[x[1]].block_state \in InUseStates
      BY <3>2 DEF Owing, HasDiscarded, Whole, InUseStates
    <3>4. f.bi[x[1]].block_state \in InUseStates
      BY <1>2, <3>3, SettleCarries
    <3> QED  BY <1>1, <1>2, <3>1, <3>2, <3>3, <3>4, OwingMoved
  <2>6. ASSUME NEW x \in NewDebts(f, b)
        PROVE  /\ x[1] \in Blocks /\ x[2] = b /\ HasDiscarded(f, x[1])
               /\ f.bi[b].block_state \in InUseStates /\ Older(f, x[1], x[2])
    BY <1>1 DEF NewDebts, DirtyBlocks, HasDiscarded, Whole
  <2>7. \A x \in debts' : Owing(dev', x[1], x[2])
    <3> SUFFICES ASSUME NEW x \in debts'
                 PROVE  Owing(dev', x[1], x[2])
      OBVIOUS
    <3>1. /\ x[1] \in Blocks /\ x[2] \in Blocks
          /\ HasDiscarded(f, x[1]) /\ Older(f, x[1], x[2])
          /\ f.bi[x[2]].block_state \in InUseStates
          /\ x[2] = b \/ f.bi[x[2]].has_shrink_hdr
      BY <1>1, <2>1, <2>5, <2>6 DEF Owing
    <3>2. dev'.bi[x[2]].has_shrink_hdr
      BY <2>3, <3>1
    <3> QED  BY <2>4, <3>1, <3>2 DEF Owing, HasDiscarded, Older
  <2>8. ASSUME NEW y \in Blocks, y # b, dev.bi[y].block_state \in InUseStates,
               f.bi[y].block_state \in InUseStates
        PROVE  dev'.bi[y].has_shrink_hdr = dev.bi[y].has_shrink_hdr
    BY <1>1, <2>3, <2>8 DEF Moved
  <2>9. dev'.gc_block # NoBlock => ~dev'.bi[dev'.gc_block].has_shrink_hdr
    <3>1. dev'.gc_block # NoBlock =>
            /\ dev'.gc_block = dev.gc_block /\ dev.gc_block \in Blocks /\ dev.gc_block # b
            /\ dev.bi[dev.gc_block].block_state \in InUseStates
            /\ f.bi[dev.gc_block].block_state \in InUseStates
      BY <1>1, <1>2, <2>3, <2>4, FieldTypes DEF Moved, PointerInv, Whole, InUseStates
    <3> QED  BY <2>8, <3>1 DEF DebtInv
  <2>10. dev'.gc_dirtiest # NoBlock /\ dev'.bi[dev'.gc_dirtiest].has_shrink_hdr =>
              \A x \in debts' : x[2] # dev'.gc_dirtiest
    <3>1. dev'.gc_dirtiest # NoBlock =>
            /\ dev'.gc_dirtiest = dev.gc_dirtiest /\ dev.gc_dirtiest \in Blocks
            /\ dev.gc_dirtiest # b
            /\ dev.bi[dev.gc_dirtiest].block_state \in InUseStates
            /\ f.bi[dev.gc_dirtiest].block_state \in InUseStates
      BY <1>1, <1>2, <2>3, <2>4, FieldTypes DEF Moved, PointerInv, Whole, InUseStates
    <3> QED  BY <2>1, <2>5, <2>6, <2>8, <3>1 DEF DebtInv
  <2> QED  BY <2>7, <2>9, <2>10 DEF DebtInv
<1> QED  BY <1>3, <1>4

\* A block no newer than the oldest dirty one owes its shrink header to none:
\* yaffs_block_ok_for_gc() refuses the others.
LEMMA NotOldestOk ==
    ASSUME IInv, DebtInv, dev.gc_block = NoBlock, NEW b \in Blocks,
           dev.bi[b].block_state \in InUseStates,
           dev.bi[b].seq_number <= find_oldest_dirty_seq(dev).oldest_dirty_seq
    PROVE  \A x \in debts : x[2] # b
<1> DEFINE e == find_oldest_dirty_seq(dev)
<1>1. DevInv(dev) /\ dev \in Device /\ debts \in SUBSET (Blocks \X Blocks)
  BY DEF IInv, DevInv
<1>2. DevInv(e) /\ e.bi = dev.bi
  BY <1>1, FindOldestInv
<1>3. dev.bi[b].seq_number <= e.oldest_dirty_seq
  OBVIOUS
<1> HIDE DEF e
<1>4. e.oldest_dirty_seq \in Nat /\ dev.bi[b].seq_number \in Nat /\ dev.bi[b].seq_number >= 1
  BY <1>1, <1>2, FieldTypes DEF DevInv, BlockInv
<1> SUFFICES ASSUME NEW x \in debts, x[2] = b
             PROVE  FALSE
  OBVIOUS
<1>5. x[1] \in Blocks /\ Owing(dev, x[1], b)
  BY <1>1 DEF DebtInv
<1>6. HasDiscarded(e, x[1]) /\ dev.bi[x[1]].seq_number < dev.bi[b].seq_number
  BY <1>2, <1>5 DEF Owing, HasDiscarded, Older, PagesUsed
<1>7. e.oldest_dirty_seq <= dev.bi[x[1]].seq_number
  BY <1>2, <1>3, <1>4, <1>5, <1>6 DEF DevInv, BlockInv
<1>8. dev.bi[x[1]].seq_number \in Nat
  BY <1>1, <1>5, FieldTypes
<1> QED  BY <1>3, <1>4, <1>6, <1>7, <1>8

\* The block of a collection may owe its shrink header to none.
LEMMA CollectDebts ==
    ASSUME IInv, IInv', Books, DebtInv, NEW d, DevInv(d), d.chunk_bits = dev.chunk_bits,
           d.bi = dev.bi, Level(dev, d), d.gc_dirtiest \in {dev.gc_dirtiest, NoBlock},
           NEW b \in Blocks, dev.bi[b].block_state \in Whole, CollectBlock(d, b),
           dev.bi[b].has_shrink_hdr => \A x \in debts : x[2] # b
    PROVE  Books' /\ DebtInv'
<1>1. /\ Books'
      /\ \A x \in Blocks \ {b} : dev'.bi[x] = dev.bi[x]
      /\ dev'.bi[b].block_state \in InUseStates =>
           /\ dev'.bi[b].block_state \in Whole
           /\ dev'.bi[b].seq_number = dev.bi[b].seq_number
           /\ PagesUsed(dev', b) = PagesUsed(d, b)
           /\ ~dev'.bi[b].has_shrink_hdr
      /\ dev'.gc_block # NoBlock =>
           dev'.gc_block = b /\ dev'.bi[b].block_state \in InUseStates
      /\ dev'.gc_dirtiest \in {d.gc_dirtiest, NoBlock}
  BY CollectBlockCount
<1>2. /\ dev \in Device /\ dev' \in Device /\ debts \in SUBSET (Blocks \X Blocks)
      /\ PointerInv(dev) /\ PointerInv(dev') /\ debts' = Settle(debts, dev')
  BY DEF IInv, DevInv, CollectBlock
<1>3. ASSUME NEW x \in debts'
      PROVE  x \in debts /\ Owing(dev', x[1], x[2])
  <2>1. x \in debts /\ x[1] \in Blocks /\ x[2] \in Blocks
    BY <1>2, <1>3, SettleCarries
  <2>2. Owing(dev, x[1], x[2])
    BY <2>1 DEF DebtInv
  <2>3. dev.bi[x[1]].block_state \in InUseStates
    BY <2>2 DEF Owing, HasDiscarded, Whole, InUseStates
  <2>4. dev'.bi[x[1]].block_state \in InUseStates
    BY <1>2, <1>3, <2>3, SettleCarries
  <2>6. x[2] # b
    BY <2>1, <2>2 DEF Owing
  <2>7. dev'.bi[x[2]] = dev.bi[x[2]]
    BY <1>1, <2>1, <2>6
  <2>5. ASSUME NEW y \in Blocks, dev'.bi[y].block_state \in InUseStates
        PROVE  /\ dev'.bi[y].seq_number = dev.bi[y].seq_number
               /\ PagesUsed(dev', y) = PagesUsed(dev, y)
               /\ dev.bi[y].block_state \in Whole => dev'.bi[y].block_state \in Whole
    BY <1>1, <2>5 DEF PagesUsed
  <2> QED  BY <2>1, <2>2, <2>4, <2>5, <2>7 DEF Owing, HasDiscarded, Older
<1>4. dev'.gc_block # NoBlock => ~dev'.bi[dev'.gc_block].has_shrink_hdr
  BY <1>1
<1>5. dev'.gc_dirtiest # NoBlock /\ dev'.bi[dev'.gc_dirtiest].has_shrink_hdr =>
            \A x \in debts' : x[2] # dev'.gc_dirtiest
  <2> SUFFICES ASSUME dev'.gc_dirtiest # NoBlock,
                      dev'.bi[dev'.gc_dirtiest].has_shrink_hdr
               PROVE  \A x \in debts' : x[2] # dev'.gc_dirtiest
    OBVIOUS
  <2> DEFINE g == dev'.gc_dirtiest
  <2>1. g \in Blocks /\ g = dev.gc_dirtiest /\ dev'.bi[g].block_state \in InUseStates
    BY <1>1, <1>2, FieldTypes DEF PointerInv, Whole, InUseStates
  <2>2. g # b /\ dev'.bi[g] = dev.bi[g]
    BY <1>1, <2>1
  <2> QED  BY <1>3, <2>1, <2>2 DEF DebtInv
<1> QED  BY <1>1, <1>3, <1>4, <1>5 DEF DebtInv

\* The block of an earlier turn lost its shrink header as that turn began.
LEMMA GcResumeBooks ==
    ASSUME IInv, IInv', Books, DebtInv, GcResume
    PROVE  Books' /\ DebtInv'
<1> DEFINE b == dev.gc_block
<1>1. DevInv(dev) /\ dev \in Device /\ b # NoBlock /\ CollectBlock(dev, b)
  BY DEF IInv, DevInv, GcResume
<1>2. b \in Blocks /\ dev.bi[b].block_state \in Whole
  BY <1>1, FieldTypes DEF DevInv, PointerInv
<1>3. ~dev.bi[b].has_shrink_hdr
  BY <1>1 DEF DebtInv
<1>4. Level(dev, dev)
  BY DEF Level
<1> HIDE DEF b
<1> QED  BY <1>1, <1>2, <1>3, <1>4, CollectDebts

\* The oldest full block owes its shrink header to no older one.
LEMMA GcRefreshBooks ==
    ASSUME IInv, IInv', Books, DebtInv, GcRefresh
    PROVE  Books' /\ DebtInv'
<1> DEFINE e == [dev EXCEPT !.gc_chunk = 0]
<1>1. DevInv(dev) /\ dev.gc_block = NoBlock /\ dev \in Device /\ 0 \in Nat
  BY DEF IInv, DevInv, GcRefresh
<1>2. PICK b \in RefreshBlocks(dev) : CollectBlock(e, b)
  BY DEF GcRefresh
<1>3. /\ b \in Blocks /\ dev.bi[b].block_state \in Whole
      /\ \A o \in Blocks : dev.bi[o].block_state = "FULL" => ~Older(dev, o, b)
  BY DEF RefreshBlocks, Whole
<1>4. e.bi = dev.bi /\ e.gc_dirtiest = dev.gc_dirtiest
  BY <1>1 DEF Device
<1>5. DevInv(e) /\ e.chunk_bits = dev.chunk_bits
  BY <1>1, CursorOnlyInv
<1>6. Level(dev, e)
  BY <1>1, CursorLevel
<1>7. ASSUME NEW x \in debts, x[2] = b
      PROVE  FALSE
  <2>1. x[1] \in Blocks /\ Owing(dev, x[1], b)
    BY <1>7 DEF DebtInv, IInv
  <2>2. dev.bi[x[1]].block_state \in Whole /\ Older(dev, x[1], b)
    BY <2>1 DEF Owing, HasDiscarded
  <2>3. dev.bi[x[1]].block_state # "COLLECTING"
    BY <1>1, <2>1 DEF DevInv, BlockInv, NoBlock, Blocks
  <2> QED  BY <1>3, <2>1, <2>2, <2>3 DEF Whole
<1> HIDE DEF e
<1> QED  BY <1>2, <1>3, <1>4, <1>5, <1>6, <1>7, CollectDebts

\* A block that is selected owes its shrink header to none: it was looked at, or
\* was when it was remembered, or is the oldest dirty one.
LEMMA SelectableOk ==
    ASSUME IInv, DebtInv, dev.gc_block = NoBlock, NEW aggressive \in BOOLEAN,
           NEW b \in Selectable(dev, aggressive), dev.bi[b].has_shrink_hdr
    PROVE  \A x \in debts : x[2] # b
<1> DEFINE e == find_oldest_dirty_seq(dev)
<1>1. DevInv(dev) /\ dev \in Device
  BY DEF IInv, DevInv
<1>2. b \in Blocks /\ dev.bi[b].block_state \in InUseStates
  BY <1>1, SelectableFull DEF Whole, InUseStates
<1>3. DevInv(e) /\ e.bi = dev.bi
  BY <1>1, FindOldestInv
<1> HIDE DEF e
<1>4. CASE block_ok_for_gc(dev, b)
  BY <1>2, <1>4, NotOldestOk DEF block_ok_for_gc
<1>5. CASE b = dev.gc_dirtiest /\ b # NoBlock
  BY <1>5 DEF DebtInv
<1>6. CASE b = e.oldest_dirty_block /\ b # NoBlock
  <2>1. dev.bi[b].seq_number = e.oldest_dirty_seq /\ dev.bi[b].seq_number \in Nat
    BY <1>1, <1>2, <1>3, <1>6, FieldTypes DEF DevInv, PointerInv
  <2>2. dev.bi[b].seq_number <= find_oldest_dirty_seq(dev).oldest_dirty_seq
    BY <2>1 DEF e
  <2> QED  BY <1>2, <2>2, NotOldestOk
<1>7. \/ block_ok_for_gc(dev, b)
      \/ b = dev.gc_dirtiest /\ b # NoBlock
      \/ b = e.oldest_dirty_block /\ b # NoBlock
  BY DEF Selectable, Candidates, PrioritisedBlocks, e
<1> QED  BY <1>4, <1>5, <1>6, <1>7

\* Selecting a block and starting on it.
LEMMA GcSelectBooks ==
    ASSUME IInv, IInv', Books, DebtInv, GcSelect
    PROVE  Books' /\ DebtInv'
<1>1. DevInv(dev) /\ dev.gc_block = NoBlock /\ Aggressive \in BOOLEAN /\ dev \in Device
  BY DEF IInv, DevInv, GcSelect, Aggressive, Operation
<1>2. PICK b \in Selectable(dev, Aggressive), d \in {dev, find_oldest_dirty_seq(dev)} :
          CollectBlock([d EXCEPT !.gc_dirtiest = NoBlock, !.gc_chunk = 0], b)
  BY DEF GcSelect
<1>3. b \in Blocks /\ dev.bi[b].block_state \in Whole
  BY <1>1, SelectableFull
<1>4. dev.bi[b].has_shrink_hdr => \A x \in debts : x[2] # b
  BY <1>1, SelectableOk
<1>5. /\ DevInv(d) /\ d.bi = dev.bi /\ d.chunk_bits = dev.chunk_bits
      /\ d.gc_block = NoBlock
  BY <1>1, FindOldestInv
<1>6. Level(dev, d)
  <2>1. Level(dev, dev)
    BY DEF Level
  <2> QED  BY <1>1, <2>1, CursorLevel
<1> DEFINE e == [d EXCEPT !.gc_dirtiest = NoBlock, !.gc_chunk = 0]
<1>7. d \in Device /\ NoBlock \in Blocks \cup {NoBlock}
  BY <1>5 DEF DevInv
<1>8. /\ e \in Device /\ e.bi = d.bi /\ e.chunk_bits = d.chunk_bits
      /\ e.alloc_block = d.alloc_block /\ e.alloc_page = d.alloc_page
      /\ e.seq_number = d.seq_number
      /\ e.gc_block = d.gc_block /\ e.gc_dirtiest = NoBlock
      /\ e.oldest_dirty_seq = d.oldest_dirty_seq
      /\ e.oldest_dirty_block = d.oldest_dirty_block
      /\ e.n_free_chunks = d.n_free_chunks /\ e.n_erased_blocks = d.n_erased_blocks
  BY <1>7 DEF Device
<1>9. CollectBlock(e, b)
  BY <1>2
<1> HIDE DEF e
<1>10. DevInv(e)
  BY <1>5, <1>8, AlikeInv
<1>11. Level(dev, e)
  BY <1>5, <1>6, <1>8 DEF Level
<1> QED  BY <1>3, <1>4, <1>5, <1>8, <1>9, <1>10, <1>11, CollectDebts

\* A block is remembered only after it has been looked at, now or earlier.
LEMMA GcRememberBooks ==
    ASSUME IInv, IInv', Books, DebtInv, GcRemember
    PROVE  Books' /\ DebtInv'
<1>1. DevInv(dev) /\ dev.gc_block = NoBlock /\ dev \in Device
  BY DEF IInv, DevInv, GcRemember
<1>2. PICK d \in {dev, find_oldest_dirty_seq(dev)},
           b \in Candidates(dev) \cup {dev.gc_dirtiest, NoBlock} :
        dev' = [d EXCEPT !.gc_dirtiest = b, !.gc_chunk = 0]
  BY DEF GcRemember
<1>3. DevInv(d) /\ d.bi = dev.bi /\ d.gc_block = dev.gc_block
  BY <1>1, FindOldestInv
<1>4. Level(dev, d)
  <2>1. Level(dev, dev)
    BY DEF Level
  <2> QED  BY <1>1, <2>1, CursorLevel
<1>5. b # NoBlock /\ dev.bi[b].has_shrink_hdr => \A x \in debts : x[2] # b
  <2>1. CASE b \in Candidates(dev)
    <3>1. b \in Blocks /\ dev.bi[b].block_state \in InUseStates
      BY <2>1 DEF Candidates, DirtyBlocks, InUseStates
    <3> QED  BY <1>1, <2>1, <3>1, NotOldestOk DEF Candidates, block_ok_for_gc
  <2>2. CASE b \in {dev.gc_dirtiest, NoBlock}
    BY <2>2 DEF DebtInv
  <2> QED  BY <2>1, <2>2
<1>6. d \in Device /\ UNCHANGED <<held, softs, debts>>
  BY <1>3 DEF DevInv, GcRemember
<1>7. /\ dev'.bi = dev.bi /\ dev'.gc_block = NoBlock /\ dev'.gc_dirtiest = b
      /\ dev'.n_free_chunks = d.n_free_chunks /\ dev'.n_erased_blocks = d.n_erased_blocks
  BY <1>1, <1>2, <1>3, <1>6 DEF Device
<1>8. dev'.n_free_chunks = dev.n_free_chunks /\ dev'.n_erased_blocks = dev.n_erased_blocks
  BY <1>4, <1>7 DEF Level
<1>9. Books'
  BY <1>6, <1>7, <1>8 DEF Books, Count, SoftCounted, FreeOf, EmptyBlocks
<1>10. DebtInv'
  BY <1>5, <1>6, <1>7 DEF DebtInv, Owing, HasDiscarded, Older, PagesUsed
<1> QED  BY <1>9, <1>10

\* A round that does nothing, or finds nothing.
LEMMA GcPassCount ==
    ASSUME IInv, IInv', Books, GcPass
    PROVE  Books' /\ Moved(dev, dev') /\ Carried
<1>1. dev \in Device /\ dev' \in Device /\ UNCHANGED <<held, softs, debts>>
  BY DEF IInv, DevInv, GcPass
<1>2. Level(dev, dev')
  <2>1. Level(dev, dev)
    BY DEF Level
  <2> QED  BY <1>1, <2>1, CursorLevel DEF GcPass
<1>3. Count(dev', held, softs) /\ Moved(dev, dev') /\ NoneGone(dev, dev')
  BY <1>1, <1>2, LevelKeeps DEF Books
<1>4. Carried
  BY <1>1, <1>3, NoneGoneCarries DEF IInv
<1> QED  BY <1>1, <1>3, <1>4 DEF Books

\* A step that leaves device, files and debts alone.
LEMMA IdleBooks ==
    ASSUME IInv, IInv', Books, DebtInv, UNCHANGED <<dev, held, softs, debts>>
    PROVE  Books' /\ DebtInv'
BY IdleCount, DebtsKept

-----------------------------------------------------------------------------
(* The theorems.                                                           *)

\* A freshly formatted device counts its blocks right, and nothing is hidden.
LEMMA BooksInit ==
    ASSUME Init
    PROVE  Books /\ DebtInv
<1>1. /\ \A b \in Blocks : dev.bi[b] = EmptyBlockInfo
      /\ dev.n_free_chunks = NBlocks * ChunksPerBlock /\ dev.n_erased_blocks = NBlocks
      /\ dev.gc_block = NoBlock /\ dev.gc_dirtiest = NoBlock
      /\ held = {} /\ softs = {} /\ debts = {}
  BY DEF Init, ErasedDevice
<1>2. EmptyBlockInfo.block_state = "EMPTY" /\ EmptyBlockInfo.soft_del_pages = 0
  BY DEF EmptyBlockInfo
<1>3. FreeOf(dev, held) = Chunks /\ EmptyBlocks(dev) = Blocks
  BY <1>1, <1>2, ChunkParts DEF FreeOf, EmptyBlocks, Counted
<1>4. \A b \in Blocks : PagesOf(softs, b) = {}
  BY <1>1 DEF PagesOf
<1>5. SoftCounted(dev, softs)
  BY <1>1, <1>2, <1>4, FS_EmptySet DEF SoftCounted
<1> QED  BY <1>1, <1>3, <1>5, ChunksFinite DEF Books, Count, DebtInv

\* Every step keeps the counts and the debts: one case per action.
LEMMA BooksNext ==
    ASSUME IInv, IInv', Books, DebtInv, [Next]_vars
    PROVE  Books' /\ DebtInv'
<1>1. ASSUME NEW replace \in BOOLEAN, NEW reserve \in BOOLEAN, NEW shrink \in BOOLEAN,
             StartWrite(replace, reserve, shrink)
      PROVE  Books' /\ DebtInv'
  BY <1>1, IdleBooks DEF StartWrite
<1>2. ASSUME NEW c \in held, DeleteChunk(c)
      PROVE  Books' /\ DebtInv'
  BY <1>2, DeleteChunkCount, DebtsKept
<1>3. ASSUME NEW c \in held, SoftDelete(c)
      PROVE  Books' /\ DebtInv'
  BY <1>3, SoftDeleteCount, DebtsKept
<1>4. ASSUME NEW c \in held, ReadError(c)
      PROVE  Books' /\ DebtInv'
  BY <1>4, ReadErrorCount, DebtsKept
<1>5. CASE BgGc \/ GcPass
  BY <1>5, IdleBooks, GcPassCount, DebtsKept DEF BgGc
<1>6. CASE GcResume \/ GcRefresh \/ GcSelect \/ GcRemember
  BY <1>6, GcResumeBooks, GcRefreshBooks, GcSelectBooks, GcRememberBooks
<1>7. CASE GcBlock
  BY <1>7, GcDropSoftCount, GcCopyCount, GcEndCount, DebtsKept DEF GcBlock
<1>8. CASE WriteOk
  BY <1>8, WriteOkCount, WriteOkDebts
<1>9. CASE WriteNoSpace \/ WriteNotErased \/ WriteError \/ CopyOk
  BY <1>9, WriteNoSpaceCount, WriteNotErasedCount, WriteErrorCount, CopyOkCount, DebtsKept
<1>10. CASE UNCHANGED vars
  BY <1>10, IdleBooks DEF vars
<1> QED  BY <1>1, <1>2, <1>3, <1>4, <1>5, <1>6, <1>7, <1>8, <1>9, <1>10
         DEF Next, FileLayer, CheckGc, WriteNewChunk

\* The counts and the debts are right in every reachable state.
THEOREM BooksInvariance == Spec => [](IInv /\ Books /\ DebtInv)
<1>1. Init => IInv /\ Books /\ DebtInv
  BY InitInv, BooksInit
<1>2. IInv /\ Books /\ DebtInv /\ [Next]_vars => (IInv /\ Books /\ DebtInv)'
  BY NextInv, BooksNext
<1> QED  BY <1>1, <1>2, PTL DEF Spec

\* What yaffs_verify_blk(), yaffs_verify_free_chunks() and
\* yaffs_verify_blocks() would report never happens: pages_in_use,
\* soft_del_pages, n_free_chunks and n_erased_blocks, each kept by increments in
\* a dozen functions, agree with the bitmaps and the files, through failed
\* writes, retired blocks and interrupted collections.
THEOREM CountersCorrect == Spec => []CountersExact
<1>1. IInv /\ Books => CountersExact
  <2> SUFFICES ASSUME IInv, Books PROVE CountersExact
    OBVIOUS
  <2>1. \A b \in Blocks : dev.bi[b].pages_in_use = Cardinality(dev.chunk_bits[b])
    BY DEF IInv, DevInv, BlockInv
  <2>2. BlockCountersExact
    BY <2>1 DEF BlockCountersExact, Books, Count, SoftCounted
  <2>3. FreeSlots = FreeOf(dev, held)
    BY DEF FreeSlots, FreeOf
  <2> QED  BY <2>2, <2>3 DEF CountersExact, FreeChunksExact, ErasedBlocksExact, Books, Count
<1> QED  BY <1>1, BooksInvariance, PTL

\* yaffs_chunk_del() does not erase a block that bears a shrink header, and
\* yaffs_block_ok_for_gc() keeps the collector off it, also where the collector
\* goes round it (gc_dirtiest and oldest_dirty_block are taken unchecked, as is a
\* block to refresh): the header stays while an older block still holds chunks
\* it hides.
THEOREM ShrinkHeadersKept == Spec => ShrinkHeaderOutlivesData
<1>1. ASSUME DebtInv', NEW x \in debts'
      PROVE  /\ x[2] \notin Erased(dev, dev')
             /\ dev.bi[x[2]].has_shrink_hdr => dev'.bi[x[2]].has_shrink_hdr
  <2>1. Owing(dev', x[1], x[2])
    BY <1>1 DEF DebtInv
  <2> QED  BY <2>1 DEF Owing, Erased, InUseStates
<1>2. DebtInv' =>
        [\A x \in debts' :
            /\ x[2] \notin Erased(dev, dev')
            /\ dev.bi[x[2]].has_shrink_hdr => dev'.bi[x[2]].has_shrink_hdr]_vars
  BY <1>1
<1> QED  BY <1>2, BooksInvariance, PTL DEF ShrinkHeaderOutlivesData
=============================================================================
