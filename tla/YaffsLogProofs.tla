---------------------------- MODULE YaffsLogProofs ----------------------------
(***************************************************************************)
(* Theorems about YaffsLog, for every geometry, every size of file and any  *)
(* number of power failures: every field keeps its type, and the bitmaps    *)
(* and the free counts agree with the file and with the flash, after a      *)
(* mount as before the power failed (Accounted).                            *)
(*                                                                         *)
(* The invariant has one part that a power failure leaves alone, what the   *)
(* chunks on flash have in common whatever RAM says, and one that holds     *)
(* while the device is mounted, between flash and RAM.                      *)
(***************************************************************************)
EXTENDS YaffsLog, YaffsDeviceLemmas, SequenceTheorems

Jobs ==
    [do : {"data"}, id : Ids, val : Data, base : {-1} \cup 0 .. MaxId]
      \cup [do : {"hdr"}, is_shrink : BOOLEAN]
      \cup [do : {"gc"}]
      \cup [do : {"hole", "grow", "prune"}, size : 0 .. MaxId]

Calling == {"start", "collect", "copied", "program", "delete"}

Operation ==
    [pc : Calling \cup {"idle", "down"}, jobs : Seq(Jobs),
     old : Chunks \cup {NoChunk}, aggressive : BOOLEAN, max_copies : Int,
     max_tries : Int]

File ==
    [tree : [Ids -> Chunks \cup {NoChunk}], hdr_chunk : Chunks \cup {NoChunk},
     file_size : 0 .. MaxId, stored_size : 0 .. MaxId]

\* A chunk that has been programmed.
Written(n, c) == n[c] # Blank

\* The pages of a block are programmed in order, under a sequence number of its
\* own.
FlashInv(n) ==
    /\ n \in [Chunks -> Record]
    /\ \A c \in Chunks : Written(n, c) =>
        /\ n[c].seq >= 1
        /\ \A p \in Pages : p < c[2] => Written(n, <<c[1], p>>)
        /\ \A a \in Chunks : Written(n, a) => (n[a].seq = n[c].seq <=> a[1] = c[1])
    /\ OfKind(n, "hdr") # {}
    /\ \E m \in Nat : \A c \in Chunks : Written(n, c) => n[c].seq <= m

\* No block is bad, or about to be.
Healthy(d) ==
    \A b \in Blocks : d.bi[b].block_state # "DEAD" /\ ~d.bi[b].needs_retiring

\* What is programmed is in a block in use, and in the block that is allocated
\* from below the next page; there it leaves no gap.
FlashMatches(n, d) ==
    /\ \A c \in Chunks : Written(n, c) =>
        /\ d.bi[c[1]].block_state \in InUseStates
        /\ n[c].seq = d.bi[c[1]].seq_number
        /\ c[1] = d.alloc_block => c[2] < d.alloc_page
    /\ \A p \in Pages :
        d.alloc_block # NoBlock /\ p < d.alloc_page => Written(n, <<d.alloc_block, p>>)

\* Tree and hdr_chunk point at chunks of their kind.
FileMatches(n, f) ==
    /\ \A i \in Ids : f.tree[i] # NoChunk => n[f.tree[i]].kind = "data" /\ n[f.tree[i]].id = i
    /\ f.hdr_chunk # NoChunk /\ n[f.hdr_chunk].kind = "hdr"

\* A replaced chunk is not in the file any more.
OldInv ==
    /\ op.pc \in {"copied", "delete"} \/ op.old = NoChunk
    /\ op.pc = "copied" => op.old # NoChunk
    /\ op.old # NoChunk =>
        /\ op.old # file.hdr_chunk
        /\ \A i \in Ids : file.tree[i] # op.old

\* A device with no bad block on which the chunks in H are in use.
Sane(d, H) ==
    /\ DevInv(d)
    /\ Healthy(d)
    /\ Owned(d, H)
    /\ Count(d, H, {})

Mounted ==
    /\ Sane(dev, InUse)
    /\ FlashMatches(nand, dev)
    /\ FileMatches(nand, file)

IInv ==
    /\ dev \in Device
    /\ FlashInv(nand)
    /\ file \in File
    /\ op \in Operation
    /\ op.pc \in Calling => op.jobs # <<>>
    /\ OldInv
    /\ doubt \subseteq Ids
    /\ Up => Mounted

-----------------------------------------------------------------------------
(* The flash.                                                              *)

\* What a chunk on flash can be.
LEMMA RecordParts ==
    ASSUME NEW r \in Record
    PROVE  /\ r.kind \in {"blank", "data", "hdr"}
           /\ r = Blank <=> r.kind = "blank"
           /\ r # Blank => r.seq \in Nat
           /\ r.kind = "data" => r.id \in Ids /\ r.val \in Data
           /\ r.kind = "hdr" => r.size \in 0 .. MaxId /\ r.is_shrink \in BOOLEAN
           /\ \A s \in Nat : r # Blank =>
                /\ [r EXCEPT !.seq = s] \in Record
                /\ [r EXCEPT !.seq = s] # Blank
                /\ [r EXCEPT !.seq = s].seq = s
                /\ [r EXCEPT !.seq = s].kind = r.kind
                /\ r.kind = "data" => [r EXCEPT !.seq = s].id = r.id
<1>1. CASE r = Blank
  BY <1>1 DEF Blank
<1>2. CASE r \in [kind : {"data"}, id : Ids, val : Data, seq : Nat]
  BY <1>2 DEF Blank, Record
<1>3. CASE r \in [kind : {"hdr"}, size : 0 .. MaxId, is_shrink : BOOLEAN, seq : Nat]
  BY <1>3 DEF Blank, Record
<1> QED BY <1>1, <1>2, <1>3 DEF Record

\* The pages before a page of a block.
LEMMA PageBefore ==
    ASSUME NEW c \in Chunks, NEW p \in Pages
    PROVE  /\ <<c[1], p>> \in Chunks /\ <<c[1], p>>[1] = c[1] /\ <<c[1], p>>[2] = p
           /\ c[1] \in Blocks /\ c[2] \in Pages /\ c = <<c[1], c[2]>>
BY DEF Chunks

\* Erasing whole blocks leaves the order in which the others were written; one
\* header has to be left.
LEMMA BlankBlocks ==
    ASSUME NEW n, FlashInv(n), NEW B,
           NEW m, m = [c \in Chunks |-> IF c[1] \in B THEN Blank ELSE n[c]],
           NEW h \in OfKind(n, "hdr"), h[1] \notin B
    PROVE  /\ FlashInv(m)
           /\ \A c \in Chunks : c[1] \notin B => m[c] = n[c]
           /\ \A c \in Chunks : Written(m, c) => c[1] \notin B /\ Written(n, c)
<1>1. /\ \A c \in Chunks : c[1] \notin B => m[c] = n[c]
      /\ \A c \in Chunks : Written(m, c) => c[1] \notin B /\ Written(n, c)
  BY DEF Written
<1>2. m \in [Chunks -> Record]
  BY DEF FlashInv, Record
<1>3. ASSUME NEW c \in Chunks, Written(m, c)
      PROVE  /\ m[c].seq >= 1
             /\ \A p \in Pages : p < c[2] => Written(m, <<c[1], p>>)
             /\ \A a \in Chunks : Written(m, a) => (m[a].seq = m[c].seq <=> a[1] = c[1])
  <2>1. m[c] = n[c] /\ Written(n, c) /\ c[1] \notin B
    BY <1>1, <1>3
  <2>2. m[c].seq >= 1
    BY <2>1 DEF FlashInv
  <2>3. ASSUME NEW p \in Pages, p < c[2]
        PROVE  Written(m, <<c[1], p>>)
    BY <1>1, <2>1, <2>3, PageBefore DEF FlashInv, Written
  <2>4. ASSUME NEW a \in Chunks, Written(m, a)
        PROVE  m[a].seq = m[c].seq <=> a[1] = c[1]
    BY <1>1, <2>1, <2>4 DEF FlashInv
  <2> QED BY <2>2, <2>3, <2>4
<1>4. OfKind(m, "hdr") # {}
  BY <1>1 DEF OfKind
<1>5. \E k \in Nat : \A c \in Chunks : Written(m, c) => m[c].seq <= k
  BY <1>1 DEF FlashInv
<1> QED BY <1>1, <1>2, <1>3, <1>4, <1>5 DEF FlashInv

\* What the device has erased is blank, and nothing else.
LEMMA EraseKeeps ==
    ASSUME NEW n, FlashInv(n), NEW d \in Device, NEW e \in Device,
           Healthy(d), Healthy(e), FlashMatches(n, d),
           \A x \in Blocks : e.bi[x].block_state \in InUseStates =>
                /\ d.bi[x].block_state \in InUseStates
                /\ e.bi[x].seq_number = d.bi[x].seq_number,
           e.alloc_block = d.alloc_block, e.alloc_page = d.alloc_page,
           d.alloc_block # NoBlock => e.bi[d.alloc_block].block_state \in InUseStates,
           NEW h \in OfKind(n, "hdr"), e.bi[h[1]].block_state \in InUseStates,
           NEW m, m = Erase(n, d, e)
    PROVE  /\ FlashInv(m) /\ FlashMatches(m, e)
           /\ \A c \in Chunks : e.bi[c[1]].block_state \in InUseStates => m[c] = n[c]
<1> DEFINE B == Erased(d, e)
<1>1. \A x \in Blocks : /\ d.bi[x].block_state \in BlockStates \ {"DEAD"}
                        /\ e.bi[x].block_state \in BlockStates \ {"DEAD"}
  BY FieldTypes DEF Healthy
<1>2. \A x \in Blocks : x \in B <=> /\ d.bi[x].block_state \in InUseStates
                                   /\ e.bi[x].block_state \notin InUseStates
  BY <1>1 DEF Erased, InUseStates, BlockStates
<1>3. h[1] \notin B /\ h \in Chunks /\ h[1] \in Blocks
  BY <1>2, ChunkParts DEF OfKind
<1>4. /\ FlashInv(m)
      /\ \A c \in Chunks : c[1] \notin B => m[c] = n[c]
      /\ \A c \in Chunks : Written(m, c) => c[1] \notin B /\ Written(n, c)
  <2> HIDE DEF B
  <2>1. m = [c \in Chunks |-> IF c[1] \in B THEN Blank ELSE n[c]]
    BY DEF Erase, B
  <2> QED BY <1>3, <2>1, BlankBlocks
<1> HIDE DEF B
<1>5. \A c \in Chunks : e.bi[c[1]].block_state \in InUseStates => m[c] = n[c]
  BY <1>2, <1>4, ChunkParts
<1>6. ASSUME NEW c \in Chunks, Written(m, c)
      PROVE  /\ e.bi[c[1]].block_state \in InUseStates
             /\ m[c].seq = e.bi[c[1]].seq_number
             /\ c[1] = e.alloc_block => c[2] < e.alloc_page
  BY <1>2, <1>4, <1>6, ChunkParts DEF FlashMatches
<1>7. ASSUME NEW p \in Pages, e.alloc_block # NoBlock, p < e.alloc_page
      PROVE  Written(m, <<e.alloc_block, p>>)
  <2> DEFINE c == <<e.alloc_block, p>>
  <2>1. e.alloc_block \in Blocks
    BY <1>7, FieldTypes
  <2>2. c \in Chunks /\ c[1] = e.alloc_block
    BY <2>1 DEF Chunks
  <2>3. Written(n, c)
    BY <1>7 DEF FlashMatches
  <2> QED BY <1>5, <1>7, <2>2, <2>3 DEF Written
<1> QED BY <1>4, <1>5, <1>6, <1>7 DEF FlashMatches

-----------------------------------------------------------------------------
(* What the operators of YaffsDevice do to a device with no bad block.     *)

\* yaffs_block_became_dirty() erases a block that is not to be retired.
LEMMA ErasedIs ==
    ASSUME NEW d \in Device, NEW b \in Blocks, ~d.bi[b].needs_retiring,
           NEW e, e = block_became_dirty(d, b, TRUE)
    PROVE  /\ \A x \in Blocks \ {b} : e.bi[x] = d.bi[x]
           /\ e.bi[b] = CleanInfo(d.bi[b])
<1> DEFINE o == clear_oldest_dirty_seq(d, b)
           gb == IF o.gc_block = b THEN NoBlock ELSE o.gc_block
           gd == IF o.gc_dirtiest = b THEN NoBlock ELSE o.gc_dirtiest
           c == [o EXCEPT !.gc_block = gb, !.gc_dirtiest = gd]
           f == [c.bi EXCEPT ![b] = CleanInfo(c.bi[b])]
           k == [c EXCEPT !.bi = f, !.chunk_bits = [c.chunk_bits EXCEPT ![b] = {}],
                          !.n_erased_blocks = c.n_erased_blocks + 1]
<1>1. o \in Device /\ o.bi = d.bi
  <2> HIDE DEF o
  <2> QED BY ClearOldestEffect, ClearOldestType DEF o
<1>2. e = k
  <2>1. [o EXCEPT !.gc_block    = IF @ = b THEN NoBlock ELSE @,
                  !.gc_dirtiest = IF @ = b THEN NoBlock ELSE @] = c
    OBVIOUS
  <2>2. [c EXCEPT !.bi[b] = CleanInfo(@), !.chunk_bits[b] = {},
                  !.n_erased_blocks = @ + 1] = k
    OBVIOUS
  <2> QED BY <2>1, <2>2, Zenon DEF block_became_dirty
<1> HIDE DEF o, gb, gd
<1>3. c.bi = d.bi /\ DOMAIN c = DOMAIN o
  BY <1>1 DEF Device
<1> HIDE DEF c
<1>4. /\ \A x \in Blocks \ {b} : f[x] = d.bi[x]
      /\ f[b] = CleanInfo(d.bi[b])
  BY <1>3 DEF Device
<1> HIDE DEF f
<1>5. k.bi = f
  BY <1>1, <1>3 DEF Device
<1> QED BY <1>2, <1>4, <1>5

\* ... and no block becomes bad, or more worn.
LEMMA ErasedHealthy ==
    ASSUME NEW d \in Device, NEW b \in Blocks, Healthy(d),
           NEW e, e = block_became_dirty(d, b, TRUE)
    PROVE  Healthy(e)
<1>1. /\ \A x \in Blocks \ {b} : e.bi[x] = d.bi[x]
      /\ e.bi[b] = CleanInfo(d.bi[b])
  BY ErasedIs DEF Healthy
<1>2. d.bi[b] \in BlockInfo
  BY DEF Device
<1>3. \A r \in BlockInfo : CleanInfo(r).block_state = "EMPTY"
                            /\ CleanInfo(r).needs_retiring = r.needs_retiring
  BY DEF CleanInfo, BlockInfo
<1> QED BY <1>1, <1>2, <1>3 DEF Healthy

SameStates(d, m) ==
    \A x \in Blocks : /\ m.bi[x].block_state = d.bi[x].block_state
                      /\ m.bi[x].seq_number = d.bi[x].seq_number
                      /\ m.bi[x].needs_retiring = d.bi[x].needs_retiring

\* The device at the point where yaffs_chunk_del() looks whether the block is
\* to be erased.
Discarded(d, c) ==
    [update_oldest_dirty_seq(d, c[1]) EXCEPT
        !.n_free_chunks = @ + 1,
        !.chunk_bits[c[1]] = @ \ {c[2]},
        !.bi[c[1]].pages_in_use = @ - 1]

\* Up to there no block has changed its state.
LEMMA ChunkDelIs ==
    ASSUME NEW d \in Device, NEW c \in Chunks, NEW e, e = chunk_del(d, c, TRUE)
    PROVE  /\ Discarded(d, c) \in Device /\ SameStates(d, Discarded(d, c))
           /\ \/ e = Discarded(d, c)
              \/ e = block_became_dirty(Discarded(d, c), c[1], TRUE)
<1> DEFINE b == c[1]
           p == c[2]
           u == update_oldest_dirty_seq(d, b)
           i == u.bi[b].pages_in_use - 1
           n == u.n_free_chunks + 1
           r == [u.bi[b] EXCEPT !.pages_in_use = i]
           f == [u.bi EXCEPT ![b] = r]
           g == [u.chunk_bits EXCEPT ![b] = u.chunk_bits[b] \ {p}]
           m == [u EXCEPT !.n_free_chunks = n, !.chunk_bits = g, !.bi = f]
<1>0. b \in Blocks /\ p \in Pages
  BY DEF Chunks
<1>1. u \in Device
  BY <1>0, UpdateOldestType
<1>2. m = Discarded(d, c) /\ e \in {m, block_became_dirty(m, b, TRUE)}
  <2>1. m = Discarded(d, c)
    BY DEF Discarded
  <2>2. e = IF /\ m.bi[b].pages_in_use = 0
               /\ ~m.bi[b].has_shrink_hdr
               /\ m.bi[b].block_state # "ALLOCATING"
            THEN block_became_dirty(m, b, TRUE) ELSE m
    BY <2>1 DEF chunk_del, Discarded
  <2> HIDE DEF m
  <2> QED BY <2>1, <2>2
<1>3. u.bi = d.bi /\ u.chunk_bits = d.chunk_bits
  <2> HIDE DEF u, b
  <2> QED BY <1>0, UpdateOldestEffect DEF u
<1> HIDE DEF b, p, u
<1>4. u.bi[b] \in BlockInfo /\ i \in Int /\ n \in Int
  BY <1>0, <1>1 DEF Device, BlockInfo
<1> HIDE DEF i, n
<1>5. /\ r \in BlockInfo /\ r.block_state = u.bi[b].block_state
      /\ r.seq_number = u.bi[b].seq_number
      /\ r.needs_retiring = u.bi[b].needs_retiring
  <2> DEFINE q == u.bi[b]
  <2> HIDE DEF q
  <2>1. q \in BlockInfo
    BY <1>4 DEF q
  <2>2. [q EXCEPT !.pages_in_use = i] \in
           {t \in BlockInfo : /\ t.block_state = q.block_state
                              /\ t.seq_number = q.seq_number
                              /\ t.needs_retiring = q.needs_retiring}
    BY <1>4, <2>1 DEF BlockInfo
  <2> QED BY <2>2 DEF q
<1> HIDE DEF r
<1>6. /\ f \in [Blocks -> BlockInfo] /\ f[b] = r
      /\ \A x \in Blocks \ {b} : f[x] = u.bi[x]
  BY <1>0, <1>1, <1>5 DEF Device
<1>7. g \in [Blocks -> SUBSET Pages]
  BY <1>1 DEF Device
<1> HIDE DEF f, g
<1>8. m \in Device /\ m.bi = f
  BY <1>1, <1>4, <1>6, <1>7 DEF Device
<1> HIDE DEF m
<1>9. SameStates(d, m)
  BY <1>3, <1>5, <1>6, <1>8 DEF SameStates
<1> QED BY <1>2, <1>8, <1>9 DEF b

\* yaffs_chunk_del() leaves no block bad.
LEMMA ChunkDelHealthy ==
    ASSUME NEW d \in Device, NEW c \in Chunks, Healthy(d),
           NEW e, e = chunk_del(d, c, TRUE)
    PROVE  Healthy(e)
<1> DEFINE m == Discarded(d, c)
<1>1. m \in Device /\ SameStates(d, m) /\ (e = m \/ e = block_became_dirty(m, c[1], TRUE))
  BY ChunkDelIs
<1> HIDE DEF m
<1>2. Healthy(m) /\ c[1] \in Blocks
  BY <1>1, ChunkParts DEF Healthy, SameStates
<1> QED BY <1>1, <1>2, ErasedHealthy

\* The chunks in use are in blocks in use.
LEMMA InUseBlocks ==
    ASSUME NEW d, NEW H \in SUBSET Chunks, DevInv(d), Owned(d, H), NEW c \in H
    PROVE  /\ c \in Chunks /\ c[1] \in Blocks /\ c[2] \in d.chunk_bits[c[1]]
           /\ d.bi[c[1]].block_state \in InUseStates
<1>1. c[1] \in Blocks /\ c[2] \in d.chunk_bits[c[1]]
  BY OwnedBit, ChunkParts
<1> QED BY <1>1 DEF DevInv, BlockInv

\* The block that is allocated from is in use.
LEMMA AllocInUse ==
    ASSUME NEW d, DevInv(d), d.alloc_block # NoBlock
    PROVE  /\ d.alloc_block \in Blocks
           /\ d.bi[d.alloc_block].block_state = "ALLOCATING"
           /\ d.bi[d.alloc_block].block_state \in InUseStates
<1>1. d.alloc_block \in Blocks
  BY FieldTypes DEF DevInv
<1> QED BY <1>1 DEF DevInv, BlockInv, InUseStates

\* No block comes into use, and the allocator stays where it is.
Stays(d, e) ==
    /\ \A x \in Blocks : e.bi[x].block_state \in InUseStates =>
        /\ d.bi[x].block_state \in InUseStates
        /\ e.bi[x].seq_number = d.bi[x].seq_number
    /\ e.alloc_block = d.alloc_block /\ e.alloc_page = d.alloc_page

\* A step that erases blocks, and the flash with it.
LEMMA ErasingStep ==
    ASSUME NEW n, FlashInv(n), NEW d, NEW e, NEW H \in SUBSET Chunks,
           DevInv(d), Healthy(d), FlashMatches(n, d), Sane(e, H),
           Stays(d, e), NEW h \in OfKind(n, "hdr"), h \in H,
           NEW m, m = Erase(n, d, e)
    PROVE  /\ FlashInv(m) /\ FlashMatches(m, e)
           /\ \A c \in H : m[c] = n[c]
<1>1. d \in Device /\ e \in Device /\ DevInv(e) /\ Healthy(e) /\ Owned(e, H)
  BY DEF DevInv, Sane
<1>2. /\ \A x \in Blocks : e.bi[x].block_state \in InUseStates =>
            /\ d.bi[x].block_state \in InUseStates
            /\ e.bi[x].seq_number = d.bi[x].seq_number
      /\ e.alloc_block = d.alloc_block /\ e.alloc_page = d.alloc_page
  BY DEF Stays
<1>3. d.alloc_block # NoBlock => e.bi[d.alloc_block].block_state \in InUseStates
  BY <1>1, <1>2, AllocInUse
<1>4. \A c \in H : c \in Chunks /\ e.bi[c[1]].block_state \in InUseStates
  BY <1>1, InUseBlocks
<1>5. /\ FlashInv(m) /\ FlashMatches(m, e)
      /\ \A c \in Chunks : e.bi[c[1]].block_state \in InUseStates => m[c] = n[c]
  BY <1>1, <1>2, <1>3, <1>4, EraseKeeps
<1> QED BY <1>4, <1>5

\* The deletion of a chunk in use.
LEMMA DelSane ==
    ASSUME NEW d, NEW H \in SUBSET Chunks, Sane(d, H), NEW c \in H,
           NEW e, e = chunk_del(d, c, TRUE)
    PROVE  Sane(e, H \ {c}) /\ Stays(d, e)
<1>1. /\ d \in Device /\ DevInv(d) /\ Healthy(d) /\ Owned(d, H) /\ Count(d, H, {})
      /\ c \in Chunks /\ c[2] \in d.chunk_bits[c[1]]
  BY InUseBlocks DEF Sane, DevInv
<1>2. /\ DevInv(e) /\ Elsewhere(d, e, c[1])
      /\ e.chunk_bits[c[1]] = d.chunk_bits[c[1]] \ {c[2]}
  BY <1>1, ChunkDelInv
<1>3. Owned(e, H \ {c})
  <2>1. e \in Device /\ \A x \in Blocks \ {c[1]} : e.chunk_bits[x] = d.chunk_bits[x]
    BY <1>2 DEF Elsewhere, DevInv
  <2> QED BY <1>1, <1>2, <2>1, OwnedDel
<1>4. Owned(d, H \cup {}) /\ {} \in SUBSET Chunks /\ H \cup {} = H
  BY <1>1
<1>5. Count(e, H \ {c}, {}) /\ Moved(d, e) /\ NoneNew(d, e)
  BY <1>1, <1>4, ChunkDelCount
<1>6. Healthy(e)
  BY <1>1, ChunkDelHealthy
<1>7. Stays(d, e)
  BY <1>2, <1>5 DEF Stays, Moved, NoneNew, Elsewhere, SameElsewhere
<1> QED BY <1>2, <1>3, <1>5, <1>6, <1>7 DEF Sane

\* Steps that leave every block what it is for the allocator and the flash.
LEMMA SameBlocksSane ==
    ASSUME NEW n, NEW d, NEW H, Sane(d, H), FlashMatches(n, d),
           NEW e, DevInv(e), Level(d, e), e.chunk_bits = d.chunk_bits,
           \A x \in Blocks : e.bi[x].needs_retiring = d.bi[x].needs_retiring,
           e.alloc_block = d.alloc_block, e.alloc_page = d.alloc_page
    PROVE  Sane(e, H) /\ FlashMatches(n, e)
<1>1. d \in Device /\ e \in Device
  BY DEF Sane, DevInv
<1>2. Count(e, H, {})
  BY <1>1, LevelKeeps DEF Sane
<1>3. Owned(e, H)
  BY DEF Sane, Owned
<1>4. \A x \in Blocks :
        /\ e.bi[x].block_state # "DEAD"
        /\ d.bi[x].block_state \in InUseStates => e.bi[x].block_state \in InUseStates
        /\ e.bi[x].seq_number = d.bi[x].seq_number
  BY DEF Level, Sane, Healthy, Whole, InUseStates
<1>5. Healthy(e)
  BY <1>4 DEF Sane, Healthy
<1>6. FlashMatches(n, e)
  BY <1>4, ChunkParts DEF FlashMatches
<1> QED BY <1>2, <1>3, <1>5, <1>6 DEF Sane

\* Of the blocks only b has changed, and the collector is on no other.
Turned(d, e, b) ==
    /\ \A x \in Blocks \ {b} : e.bi[x] = d.bi[x]
    /\ e.gc_block \in {b, NoBlock} /\ e.gc_dirtiest \in {d.gc_dirtiest, NoBlock}

\* The head of yaffs_gc_block().
LEMMA GcEntrySane ==
    ASSUME NEW d, NEW H \in SUBSET Chunks, Sane(d, H), NEW b \in Blocks,
           d.gc_block \in {NoBlock, b}, d.bi[b].block_state \in Whole,
           NEW e, e = GcBlockEntry(d, b, TRUE)
    PROVE  Sane(e, H) /\ Stays(d, e) /\ Turned(d, e, b)
<1> DEFINE q == d.bi[b]
           r == CollectedInfo(q)
           f == [d.bi EXCEPT ![b] = r]
           m == [d EXCEPT !.bi = f, !.gc_block = b]
<1>0. d \in Device /\ DevInv(d) /\ Healthy(d) /\ Owned(d, H) /\ Count(d, H, {})
  BY DEF Sane, DevInv
<1>1. m = [d EXCEPT !.bi[b] = CollectedInfo(@), !.gc_block = b]
  OBVIOUS
<1>2. e = IF d.chunk_bits[b] = {} THEN block_became_dirty(m, b, TRUE) ELSE m
  BY <1>1, Zenon DEF GcBlockEntry
<1>3. q \in BlockInfo /\ q = d.bi[b]
  BY <1>0, FieldTypes
<1>4. /\ r \in BlockInfo /\ r.block_state = "COLLECTING"
      /\ r.needs_retiring = q.needs_retiring
      /\ r.pages_in_use = q.pages_in_use
  <2> HIDE DEF q
  <2> QED BY <1>3 DEF CollectedInfo, BlockInfo, BlockStates, Whole
<1> HIDE DEF r, q
<1>5. /\ f \in [Blocks -> BlockInfo] /\ f[b] = r
      /\ \A x \in Blocks \ {b} : f[x] = d.bi[x]
  BY <1>0, <1>4 DEF Device
<1> HIDE DEF f
<1>6. /\ m \in Device /\ m.bi = f /\ m.chunk_bits = d.chunk_bits
      /\ m.alloc_block = d.alloc_block /\ m.alloc_page = d.alloc_page
  BY <1>0, <1>5 DEF Device
<1> HIDE DEF m
<1>7. Healthy(m)
  BY <1>0, <1>3, <1>4, <1>5, <1>6 DEF Healthy
<1>8. /\ Healthy(e)
      /\ e.alloc_block = d.alloc_block /\ e.alloc_page = d.alloc_page
  <2>1. CASE d.chunk_bits[b] # {}
    BY <1>2, <1>6, <1>7, <2>1
  <2>2. CASE d.chunk_bits[b] = {}
    <3>1. m.bi[b].pages_in_use = 0
      BY <1>0, <1>3, <1>4, <1>5, <1>6, <2>2, FS_EmptySet DEF DevInv, BlockInv
    <3>2. e = block_became_dirty(m, b, TRUE)
      BY <1>2, <2>2
    <3>3. SameElsewhere(m, e, b)
      BY <1>6, <2>2, <3>1, <3>2, BecameDirtyEffect
    <3> QED BY <1>6, <1>7, <3>2, <3>3, ErasedHealthy DEF SameElsewhere
  <2> QED BY <2>1, <2>2
<1>9. DevInv(e) /\ e.chunk_bits = d.chunk_bits
  BY <1>0, GcEntryInv
<1>10. /\ Count(e, H, {}) /\ \A x \in Blocks \ {b} : e.bi[x] = d.bi[x]
       /\ e.bi[b].block_state \in InUseStates => e.bi[b].seq_number = d.bi[b].seq_number
       /\ e.gc_block \in {b, NoBlock} /\ e.gc_dirtiest \in {d.gc_dirtiest, NoBlock}
  <2>1. PICK S \in SUBSET Chunks : S = {}
    OBVIOUS
  <2>2. PICK k \in BOOLEAN : k = TRUE
    OBVIOUS
  <2>3. Owned(d, H \cup S) /\ Count(d, H, S) /\ e = GcBlockEntry(d, b, k)
    BY <1>0, <2>1, <2>2
  <2>4. /\ Count(e, H, S)
        /\ \A x \in Blocks \ {b} : e.bi[x] = d.bi[x]
        /\ e.bi[b].block_state \in InUseStates =>
                /\ e.bi[b].block_state \in Whole
                /\ e.bi[b].seq_number = d.bi[b].seq_number
                /\ PagesUsed(e, b) = PagesUsed(d, b)
                /\ ~e.bi[b].has_shrink_hdr
        /\ e.gc_block # NoBlock => e.gc_block = b /\ e.bi[b].block_state \in InUseStates
        /\ e.gc_dirtiest \in {d.gc_dirtiest, NoBlock}
    BY <1>0, <2>3, GcEntryCount, Zenon
  <2> QED BY <2>1, <2>4
<1>11. Owned(e, H)
  BY <1>0, <1>9 DEF Owned
<1>12. Stays(d, e)
  BY <1>8, <1>10 DEF Stays, Whole, InUseStates
<1> QED BY <1>8, <1>9, <1>10, <1>11, <1>12 DEF Sane, Turned

\* The pointers of the collector are moved.
LEMMA PointersSane ==
    ASSUME NEW n, NEW d, NEW H, Sane(d, H), FlashMatches(n, d), NEW k \in Nat
    PROVE  /\ Sane([d EXCEPT !.gc_chunk = k], H)
           /\ FlashMatches(n, [d EXCEPT !.gc_chunk = k])
           /\ d.gc_block = NoBlock => /\ Sane(find_oldest_dirty_seq(d), H)
                                      /\ FlashMatches(n, find_oldest_dirty_seq(d))
<1>1. d \in Device /\ DevInv(d)
  BY DEF Sane, DevInv
<1>2. Sane([d EXCEPT !.gc_chunk = k], H) /\ FlashMatches(n, [d EXCEPT !.gc_chunk = k])
  <2> DEFINE e == [d EXCEPT !.gc_chunk = k]
  <2>1. DevInv(e) /\ e.bi = d.bi /\ e.chunk_bits = d.chunk_bits
    BY <1>1, CursorOnlyInv
  <2>2. e.alloc_block = d.alloc_block /\ e.alloc_page = d.alloc_page
    BY <1>1 DEF Device
  <2>3. Level(d, e)
    BY <1>1, CursorLevel
  <2> HIDE DEF e
  <2>4. Sane(e, H) /\ FlashMatches(n, e)
    BY <2>1, <2>2, <2>3, SameBlocksSane
  <2> QED BY <2>4 DEF e
<1>3. ASSUME d.gc_block = NoBlock
      PROVE  Sane(find_oldest_dirty_seq(d), H) /\ FlashMatches(n, find_oldest_dirty_seq(d))
  <2> DEFINE e == find_oldest_dirty_seq(d)
  <2>1. DevInv(e) /\ e.bi = d.bi /\ e.chunk_bits = d.chunk_bits
    BY <1>1, <1>3, FindOldestInv
  <2>2. e.alloc_block = d.alloc_block /\ e.alloc_page = d.alloc_page
    BY <1>1 DEF Device, find_oldest_dirty_seq
  <2>3. Level(d, e)
    BY <1>1, CursorLevel
  <2> HIDE DEF e
  <2>4. Sane(e, H) /\ FlashMatches(n, e)
    BY <2>1, <2>2, <2>3, SameBlocksSane
  <2> QED BY <2>4 DEF e
<1> QED BY <1>2, <1>3

\* A step of which the blocks themselves, their bitmaps and the allocator know
\* nothing.
LEMMA SameInfoSane ==
    ASSUME NEW n, NEW d, NEW H, Sane(d, H), FlashMatches(n, d),
           NEW e, DevInv(e), e.bi = d.bi, e.chunk_bits = d.chunk_bits,
           e.n_free_chunks = d.n_free_chunks, e.n_erased_blocks = d.n_erased_blocks,
           e.alloc_block = d.alloc_block, e.alloc_page = d.alloc_page
    PROVE  Sane(e, H) /\ FlashMatches(n, e)
<1>1. Healthy(e) /\ Owned(e, H)
  BY DEF Sane, Healthy, Owned
<1>2. Count(e, H, {})
  BY DEF Sane, Count, SoftCounted, FreeOf, EmptyBlocks
<1>3. FlashMatches(n, e)
  BY DEF FlashMatches
<1> QED BY <1>1, <1>2, <1>3 DEF Sane

\* A block's other fields are written.
LEMMA EntrySane ==
    ASSUME NEW n, NEW d, NEW H, Sane(d, H), FlashMatches(n, d),
           NEW b \in Blocks, NEW r \in BlockInfo,
           r.block_state = d.bi[b].block_state,
           r.pages_in_use = d.bi[b].pages_in_use,
           r.soft_del_pages = d.bi[b].soft_del_pages,
           r.seq_number = d.bi[b].seq_number,
           r.needs_retiring = d.bi[b].needs_retiring,
           NEW e, e = [d EXCEPT !.bi[b] = r]
    PROVE  Sane(e, H) /\ FlashMatches(n, e)
<1> DEFINE f == [d.bi EXCEPT ![b] = r]
<1>1. DevInv(d) /\ d \in Device
  BY DEF Sane, DevInv
<1>2. DevInv(e) /\ e.chunk_bits = d.chunk_bits
  BY <1>1, EntryInv
<1>3. f[b] = r /\ \A x \in Blocks \ {b} : f[x] = d.bi[x]
  BY <1>1 DEF Device
<1>4. e = [d EXCEPT !.bi = f]
  OBVIOUS
<1> HIDE DEF f
<1>5. /\ e.bi = f /\ e.alloc_block = d.alloc_block /\ e.alloc_page = d.alloc_page
      /\ e.n_free_chunks = d.n_free_chunks /\ e.n_erased_blocks = d.n_erased_blocks
  BY <1>1, <1>4 DEF Device
<1>6. \A x \in Blocks :
        /\ e.bi[x].block_state = d.bi[x].block_state
        /\ e.bi[x].soft_del_pages = d.bi[x].soft_del_pages
        /\ e.bi[x].seq_number = d.bi[x].seq_number
        /\ e.bi[x].needs_retiring = d.bi[x].needs_retiring
  BY <1>3, <1>5
<1>7. Healthy(e) /\ Owned(e, H)
  BY <1>2, <1>6 DEF Sane, Healthy, Owned
<1>8. Count(e, H, {})
  <2>1. FreeOf(e, H) = FreeOf(d, H) /\ EmptyBlocks(e) = EmptyBlocks(d)
    BY <1>6, AlikeCounts
  <2> QED BY <1>5, <1>6, <2>1 DEF Sane, Count, SoftCounted
<1>9. FlashMatches(n, e)
  BY <1>5, <1>6, ChunkParts DEF FlashMatches
<1> QED BY <1>2, <1>7, <1>8, <1>9 DEF Sane

\* "OK, the data has been written", and the mark of a shrink header.
LEMMA MarkSane ==
    ASSUME NEW n, NEW d, NEW H, Sane(d, H), FlashMatches(n, d), NEW b \in Blocks
    PROVE  /\ Sane(mark_written(d, b), H) /\ FlashMatches(n, mark_written(d, b))
           /\ Sane(mark_shrink_hdr(d, b), H) /\ FlashMatches(n, mark_shrink_hdr(d, b))
<1> DEFINE q == d.bi[b]
           r == [q EXCEPT !.skip_erased_check = TRUE]
           s == [q EXCEPT !.has_shrink_hdr = TRUE]
<1>1. q \in BlockInfo /\ q = d.bi[b]
  BY FieldTypes DEF Sane, DevInv
<1>2. /\ mark_written(d, b) = [d EXCEPT !.bi[b] = r]
      /\ mark_shrink_hdr(d, b) = [d EXCEPT !.bi[b] = s]
  BY DEF mark_written, mark_shrink_hdr
<1> HIDE DEF q
<1>3. /\ r \in BlockInfo /\ r.block_state = q.block_state
      /\ r.pages_in_use = q.pages_in_use /\ r.soft_del_pages = q.soft_del_pages
      /\ r.seq_number = q.seq_number /\ r.needs_retiring = q.needs_retiring
  BY <1>1 DEF BlockInfo
<1>4. /\ s \in BlockInfo /\ s.block_state = q.block_state
      /\ s.pages_in_use = q.pages_in_use /\ s.soft_del_pages = q.soft_del_pages
      /\ s.seq_number = q.seq_number /\ s.needs_retiring = q.needs_retiring
  BY <1>1 DEF BlockInfo
<1> HIDE DEF r, s
<1>5. Sane([d EXCEPT !.bi[b] = r], H) /\ FlashMatches(n, [d EXCEPT !.bi[b] = r])
  BY <1>1, <1>3, EntrySane
<1>6. Sane([d EXCEPT !.bi[b] = s], H) /\ FlashMatches(n, [d EXCEPT !.bi[b] = s])
  BY <1>1, <1>4, EntrySane
<1> QED BY <1>2, <1>5, <1>6

\* A block is remembered for later.
LEMMA RememberSane ==
    ASSUME NEW n, NEW d, NEW H, Sane(d, H), FlashMatches(n, d),
           NEW b \in Blocks, d.bi[b].block_state \in Whole,
           NEW e, e = [d EXCEPT !.gc_dirtiest = b, !.gc_chunk = 0]
    PROVE  Sane(e, H) /\ FlashMatches(n, e)
<1>1. d \in Device /\ DevInv(d)
  BY DEF Sane, DevInv
<1>2. DevInv(e)
  BY <1>1, RememberInv
<1>3. /\ e.bi = d.bi /\ e.chunk_bits = d.chunk_bits
      /\ e.n_free_chunks = d.n_free_chunks /\ e.n_erased_blocks = d.n_erased_blocks
      /\ e.alloc_block = d.alloc_block /\ e.alloc_page = d.alloc_page
  BY <1>1 DEF Device
<1> QED BY <1>2, <1>3, SameInfoSane

\* ... or the collector turns from the one it remembered.
LEMMA ForgetSane ==
    ASSUME NEW n, NEW d, NEW H, Sane(d, H), FlashMatches(n, d),
           NEW e, e = [d EXCEPT !.gc_dirtiest = NoBlock, !.gc_chunk = 0]
    PROVE  Sane(e, H) /\ FlashMatches(n, e)
<1>1. d \in Device /\ DevInv(d)
  BY DEF Sane, DevInv
<1>2. e \in Device
  BY <1>1 DEF Device, NoBlock
<1>3. /\ e.bi = d.bi /\ e.chunk_bits = d.chunk_bits
      /\ e.n_free_chunks = d.n_free_chunks /\ e.n_erased_blocks = d.n_erased_blocks
      /\ e.alloc_block = d.alloc_block /\ e.alloc_page = d.alloc_page
      /\ e.seq_number = d.seq_number
      /\ e.gc_block = d.gc_block /\ e.gc_dirtiest \in {d.gc_dirtiest, NoBlock}
      /\ e.oldest_dirty_seq = d.oldest_dirty_seq
      /\ e.oldest_dirty_block = d.oldest_dirty_block
  BY <1>1 DEF Device
<1>4. DevInv(e)
  BY <1>1, <1>2, <1>3, AlikeInv
<1> QED BY <1>3, <1>4, SameInfoSane

\* The end of yaffs_gc_block().
LEMMA GcExitSane ==
    ASSUME NEW n, NEW d, NEW H, Sane(d, H), FlashMatches(n, d),
           NEW e, e = GcBlockExit(d)
    PROVE  Sane(e, H) /\ FlashMatches(n, e)
<1>1. d \in Device /\ DevInv(d) /\ PointerInv(d)
  BY DEF Sane, DevInv
<1>2. Level(d, e)
  BY <1>1, ExitLevel
<1>3. CASE Unfinished(d)
  <2> DEFINE b == d.gc_block
             q == d.bi[b]
             r == [q EXCEPT !.block_state = "FULL"]
             f == [d.bi EXCEPT ![b] = r]
  <2>1. b \in Blocks /\ d.gc_block # NoBlock
    BY <1>1, <1>3, FieldTypes DEF Unfinished
  <2>2. e = [d EXCEPT !.bi[d.gc_block].block_state = "FULL"]
    BY <1>3 DEF GcBlockExit
  <2>3. DevInv(e) /\ e.chunk_bits = d.chunk_bits
    BY <1>1, <2>1, <2>2, FullAgainInv
  <2>4. q \in BlockInfo /\ q = d.bi[b] /\ e = [d EXCEPT !.bi = f]
    BY <1>1, <2>1, <2>2, FieldTypes
  <2> HIDE DEF q
  <2>5. r.needs_retiring = q.needs_retiring
    BY <2>4 DEF BlockInfo
  <2> HIDE DEF r
  <2>6. f[b] = r /\ \A x \in Blocks \ {b} : f[x] = d.bi[x]
    BY <1>1, <2>1 DEF Device
  <2> HIDE DEF f
  <2>7. e.bi = f /\ e.alloc_block = d.alloc_block /\ e.alloc_page = d.alloc_page
    BY <1>1, <2>4 DEF Device
  <2>8. \A x \in Blocks : e.bi[x].needs_retiring = d.bi[x].needs_retiring
    BY <2>4, <2>5, <2>6, <2>7
  <2> QED BY <1>2, <2>3, <2>7, <2>8, SameBlocksSane
<1>4. CASE ~Unfinished(d)
  <2>1. e = [d EXCEPT !.gc_block = NoBlock, !.gc_chunk = 0]
    BY <1>4 DEF GcBlockExit
  <2>2. DevInv(e) /\ e.chunk_bits = d.chunk_bits
    BY <1>1, <1>4, <2>1, NoneCollectedInv
  <2>3. e.bi = d.bi /\ e.alloc_block = d.alloc_block /\ e.alloc_page = d.alloc_page
    BY <1>1, <2>1 DEF Device
  <2> QED BY <1>2, <2>2, <2>3, SameBlocksSane
<1> QED BY <1>3, <1>4

\* yaffs_find_alloc_block() brings an erased block into use.
LEMMA WithAllocIs ==
    ASSUME NEW d, DevInv(d), NEW e, e = with_alloc_block(d)
    PROVE  \/ e = d /\ d.alloc_block # NoBlock
           \/ e.bi = d.bi /\ e.alloc_block = NoBlock /\ d.alloc_block = NoBlock
           \/ /\ d.alloc_block = NoBlock /\ e.alloc_page = 0
              /\ e.alloc_block \in Blocks /\ d.bi[e.alloc_block].block_state = "EMPTY"
              /\ \A x \in Blocks \ {e.alloc_block} : e.bi[x] = d.bi[x]
              /\ e.bi[e.alloc_block].block_state = "ALLOCATING"
              /\ e.bi[e.alloc_block].needs_retiring = d.bi[e.alloc_block].needs_retiring
<1>0. d \in Device /\ e \in Device
  BY WithAllocType DEF DevInv
<1>1. CASE d.alloc_block # NoBlock
  BY <1>1 DEF with_alloc_block
<1>2. CASE d.alloc_block = NoBlock /\ find_alloc_block(d) = d
  <2>1. e = [d EXCEPT !.alloc_page = 0]
    BY <1>2 DEF with_alloc_block
  <2> QED BY <1>0, <1>2, <2>1 DEF Device
<1>3. CASE d.alloc_block = NoBlock /\ find_alloc_block(d) # d
  <2> DEFINE n == d.seq_number + 1
             k == d.n_erased_blocks - 1
  <2>1. PICK b \in EmptyBlocks(d) :
          find_alloc_block(d) =
            [d EXCEPT !.bi[b] = [@ EXCEPT !.block_state = "ALLOCATING",
                                          !.seq_number  = d.seq_number + 1],
                      !.seq_number = @ + 1, !.n_erased_blocks = @ - 1,
                      !.alloc_block_finder = b, !.alloc_block = b]
    BY <1>0, <1>3, FindAllocBlockIs
  <2> DEFINE q == d.bi[b]
             r == [q EXCEPT !.block_state = "ALLOCATING", !.seq_number = n]
             f == [d.bi EXCEPT ![b] = r]
             z == [d EXCEPT !.bi = f, !.seq_number = n, !.n_erased_blocks = k,
                            !.alloc_block_finder = b, !.alloc_block = b]
  <2>2. b \in Blocks /\ d.bi[b].block_state = "EMPTY"
    BY DEF EmptyBlocks
  <2>3. find_alloc_block(d) = z
    <3>1. [d EXCEPT !.bi[b] = [@ EXCEPT !.block_state = "ALLOCATING",
                                        !.seq_number  = d.seq_number + 1],
                    !.seq_number = @ + 1, !.n_erased_blocks = @ - 1,
                    !.alloc_block_finder = b, !.alloc_block = b] = z
      OBVIOUS
    <3> QED BY <2>1, <3>1
  <2>4. e = [z EXCEPT !.alloc_page = 0]
    BY <1>3, <2>3 DEF with_alloc_block
  <2>5. z \in Device
    BY <1>0, <2>3, FindAllocType
  <2>6. q \in BlockInfo /\ q = d.bi[b]
    BY <1>0, <2>2, FieldTypes
  <2> HIDE DEF q, n, k
  <2>7. r.block_state = "ALLOCATING" /\ r.needs_retiring = q.needs_retiring
    BY <2>6 DEF BlockInfo
  <2> HIDE DEF r
  <2>8. f[b] = r /\ \A x \in Blocks \ {b} : f[x] = d.bi[x]
    BY <1>0, <2>2 DEF Device
  <2> HIDE DEF f
  <2>9. z.bi = f /\ z.alloc_block = b
    BY <1>0 DEF Device
  <2> HIDE DEF z
  <2>10. e.bi = f /\ e.alloc_block = b /\ e.alloc_page = 0
    BY <2>4, <2>5, <2>9 DEF Device
  <2> QED BY <1>3, <2>2, <2>6, <2>7, <2>8, <2>10
<1> QED BY <1>1, <1>2, <1>3

\* Nothing has been written to the next chunk.
LEMMA WithAllocSane ==
    ASSUME NEW n, NEW d, NEW H \in SUBSET Chunks, Sane(d, H), FlashMatches(n, d),
           NEW e, e = with_alloc_block(d)
    PROVE  /\ Sane(e, H) /\ FlashMatches(n, e)
           /\ e.gc_block = d.gc_block /\ e.gc_chunk = d.gc_chunk
           /\ e.alloc_block # NoBlock => ~Written(n, NextChunk(e))
<1>1. d \in Device /\ DevInv(d) /\ Count(d, H, {}) /\ Healthy(d) /\ Owned(d, H)
  BY DEF Sane, DevInv
<1>2. /\ DevInv(e) /\ e.chunk_bits = d.chunk_bits
      /\ e.gc_block = d.gc_block /\ e.gc_chunk = d.gc_chunk
  BY <1>1, WithAllocInv
<1>3. Count(e, H, {}) /\ Owned(e, H)
  BY <1>1, <1>2, WithAllocCount DEF Owned
<1>4. e \in Device /\ NoBlock \notin Blocks
  BY <1>2 DEF DevInv, NoBlock, Blocks
<1>5. CASE e = d /\ d.alloc_block # NoBlock
  <2> DEFINE c == NextChunk(d)
  <2>1. c \in Chunks /\ c[1] = d.alloc_block /\ c[2] = d.alloc_page
    BY <1>1, <1>5, FieldTypes DEF DevInv, PointerInv, Chunks, NextChunk
  <2>2. ~(d.alloc_page < d.alloc_page)
    BY <1>1, FieldTypes
  <2>3. ~Written(n, c)
    BY <2>1, <2>2 DEF FlashMatches
  <2> QED BY <1>2, <1>3, <1>5, <2>3
<1>6. CASE e.bi = d.bi /\ e.alloc_block = NoBlock /\ d.alloc_block = NoBlock
  <2>1. FlashMatches(n, e)
    BY <1>4, <1>6, ChunkParts DEF FlashMatches
  <2>2. Healthy(e)
    BY <1>1, <1>6 DEF Healthy
  <2> QED BY <1>2, <1>3, <1>6, <2>1, <2>2 DEF Sane
<1>7. CASE /\ d.alloc_block = NoBlock /\ e.alloc_page = 0
           /\ e.alloc_block \in Blocks /\ d.bi[e.alloc_block].block_state = "EMPTY"
           /\ \A x \in Blocks \ {e.alloc_block} : e.bi[x] = d.bi[x]
           /\ e.bi[e.alloc_block].block_state = "ALLOCATING"
           /\ e.bi[e.alloc_block].needs_retiring = d.bi[e.alloc_block].needs_retiring
  <2> DEFINE b == e.alloc_block
             c == NextChunk(e)
  <2>1. Healthy(e)
    BY <1>1, <1>7 DEF Healthy
  <2>2. \A a \in Chunks : Written(n, a) => a[1] # b
    BY <1>7 DEF FlashMatches, InUseStates
  <2>3. \A p \in Pages : ~(p < 0)
    BY DEF Pages
  <2>4. FlashMatches(n, e)
    BY <1>7, <2>2, <2>3, ChunkParts DEF FlashMatches
  <2>5. c \in Chunks /\ c[1] = b
    BY <1>7, GeometryAssumption DEF Chunks, Pages, NextChunk
  <2> QED BY <1>2, <1>3, <2>1, <2>2, <2>4, <2>5 DEF Sane
<1> QED BY <1>1, <1>5, <1>6, <1>7, WithAllocIs

\* yaffs_alloc_chunk() takes the next page of the block.
LEMMA TakePageIs ==
    ASSUME NEW d, DevInv(d), d.alloc_block # NoBlock, NEW e, e = take_page(d)
    PROVE  /\ \A x \in Blocks \ {d.alloc_block} : e.bi[x] = d.bi[x]
           /\ e.bi[d.alloc_block].block_state \in InUseStates
           /\ e.bi[d.alloc_block].seq_number = d.bi[d.alloc_block].seq_number
           /\ e.bi[d.alloc_block].needs_retiring = d.bi[d.alloc_block].needs_retiring
           /\ e.alloc_block \in {d.alloc_block, NoBlock}
           /\ e.alloc_page = d.alloc_page + 1
<1> DEFINE b == d.alloc_block
           p == d.alloc_page
           filled == p + 1 >= ChunksPerBlock
           i == d.bi[b]
           r == TakenInfo(i, filled)
           q == d.chunk_bits[b] \cup {p}
           n == d.n_free_chunks - 1
           a == IF filled THEN NoBlock ELSE b
           f == [d.bi EXCEPT ![b] = r]
           g == [d.chunk_bits EXCEPT ![b] = q]
           k == [d EXCEPT !.bi = f, !.chunk_bits = g, !.alloc_page = p + 1,
                          !.n_free_chunks = n, !.alloc_block = a]
<1>1. /\ d \in Device /\ b \in Blocks
      /\ i \in BlockInfo /\ i = d.bi[b] /\ i.block_state = "ALLOCATING"
  BY FieldTypes DEF DevInv, BlockInv
<1>2. e = k
  <2>1. [d EXCEPT !.bi[b] = r, !.chunk_bits[b] = q, !.alloc_page = p + 1,
                  !.n_free_chunks = n, !.alloc_block = a] = k
    <3> HIDE DEF b, i, r, q, n, a, p
    <3> QED OBVIOUS
  <2> QED BY <2>1, Zenon DEF take_page
<1>3. filled \in BOOLEAN
  BY DEF filled
<1> HIDE DEF filled, i
<1>4. /\ r.block_state \in InUseStates
      /\ r.seq_number = i.seq_number /\ r.needs_retiring = i.needs_retiring
  <2>1. r.block_state \in InUseStates /\ r.seq_number = i.seq_number
    BY <1>1, <1>3, TakenInfoType DEF InUseStates
  <2>2. r.needs_retiring = i.needs_retiring
    BY <1>1 DEF TakenInfo, BlockInfo
  <2> QED BY <2>1, <2>2
<1> HIDE DEF r, q, n
<1>5. f[b] = r /\ \A x \in Blocks \ {b} : f[x] = d.bi[x]
  BY <1>1 DEF Device
<1> HIDE DEF f, g
<1>6. k.bi = f /\ k.alloc_block = a /\ k.alloc_page = p + 1
  BY <1>1 DEF Device
<1> HIDE DEF k
<1> QED BY <1>1, <1>2, <1>4, <1>5, <1>6

\* The page that is taken is the next one of the allocation block, which is in
\* use.
LEMMA TakePageSane ==
    ASSUME NEW d, NEW H \in SUBSET Chunks, Sane(d, H), d.alloc_block # NoBlock,
           NEW c, c = NextChunk(d), NEW e, e = take_page(d)
    PROVE  /\ Sane(e, H \cup {c})
           /\ c \in Chunks /\ c[1] = d.alloc_block /\ c[2] = d.alloc_page /\ c \notin H
           /\ \A x \in Blocks :
                /\ d.bi[x].block_state \in InUseStates => e.bi[x].block_state \in InUseStates
                /\ e.bi[x].seq_number = d.bi[x].seq_number
           /\ d.bi[c[1]].block_state \in InUseStates
           /\ d.bi[c[1]].seq_number >= 1 /\ d.bi[c[1]].seq_number \in Nat
           /\ e.alloc_block \in {d.alloc_block, NoBlock}
           /\ e.alloc_page = d.alloc_page + 1
<1>1. d \in Device /\ DevInv(d) /\ Count(d, H, {}) /\ Healthy(d) /\ Owned(d, H)
  BY DEF Sane, DevInv
<1>2. /\ DevInv(e)
      /\ c \in Chunks /\ c = <<c[1], c[2]>>
      /\ c[2] \notin d.chunk_bits[c[1]]
      /\ e.chunk_bits[c[1]] = d.chunk_bits[c[1]] \cup {c[2]}
      /\ \A x \in Blocks \ {c[1]} : e.chunk_bits[x] = d.chunk_bits[x]
  BY <1>1, TakePageInv
<1>3. c \notin H
  BY <1>1, <1>2, OwnedBit
<1>4. Count(e, H \cup {c}, {})
  BY <1>1, <1>3, TakePageCount
<1>5. /\ \A x \in Blocks \ {d.alloc_block} : e.bi[x] = d.bi[x]
      /\ e.bi[d.alloc_block].block_state \in InUseStates
      /\ e.bi[d.alloc_block].seq_number = d.bi[d.alloc_block].seq_number
      /\ e.bi[d.alloc_block].needs_retiring = d.bi[d.alloc_block].needs_retiring
      /\ e.alloc_block \in {d.alloc_block, NoBlock}
      /\ e.alloc_page = d.alloc_page + 1
  BY <1>1, TakePageIs
<1>6. c[1] = d.alloc_block /\ c[2] = d.alloc_page
  BY DEF NextChunk
<1>7. d.alloc_block \in Blocks /\ d.bi[d.alloc_block].block_state \in InUseStates
  BY <1>1, AllocInUse
<1>8. d.bi[c[1]].seq_number >= 1 /\ d.bi[c[1]].seq_number \in Nat
  BY <1>1, <1>6, <1>7, FieldTypes DEF DevInv, BlockInv
<1>9. e \in Device
  BY <1>2 DEF DevInv
<1>10. Owned(e, H \cup {c})
  BY <1>1, <1>2, <1>9, OwnedAdd
<1>11. Healthy(e)
  BY <1>1, <1>5, <1>7 DEF Healthy, InUseStates
<1> QED BY <1>2, <1>3, <1>4, <1>5, <1>6, <1>7, <1>8, <1>10, <1>11 DEF Sane

\* The flash with record r in the next chunk.
Programmed(n, d, r) ==
    [n EXCEPT ![NextChunk(d)] =
        [r EXCEPT !.seq = d.bi[NextChunk(d)[1]].seq_number]]

\* A chunk is programmed into the next page of the block.
LEMMA ProgramSane ==
    ASSUME NEW n, FlashInv(n), NEW d, NEW H \in SUBSET Chunks,
           Sane(d, H), FlashMatches(n, d), d.alloc_block # NoBlock,
           NEW c, c = NextChunk(d), ~Written(n, c),
           NEW r \in Record, r # Blank,
           NEW m, m = Programmed(n, d, r),
           NEW e, e = mark_written(take_page(d), c[1])
    PROVE  /\ FlashInv(m) /\ Sane(e, H \cup {c}) /\ FlashMatches(m, e)
           /\ c \in Chunks /\ c \notin H
           /\ m[c].kind = r.kind /\ (r.kind = "data" => m[c].id = r.id)
           /\ \A x \in Chunks \ {c} : m[x] = n[x]
<1> DEFINE s == d.bi[c[1]].seq_number
           q == [r EXCEPT !.seq = s]
           t == take_page(d)
<1>1. /\ Sane(t, H \cup {c})
      /\ c \in Chunks /\ c[1] = d.alloc_block /\ c[2] = d.alloc_page /\ c \notin H
      /\ \A x \in Blocks :
           /\ d.bi[x].block_state \in InUseStates => t.bi[x].block_state \in InUseStates
           /\ t.bi[x].seq_number = d.bi[x].seq_number
      /\ d.bi[c[1]].block_state \in InUseStates
      /\ s >= 1 /\ s \in Nat
      /\ t.alloc_block \in {d.alloc_block, NoBlock}
      /\ t.alloc_page = d.alloc_page + 1
  BY TakePageSane
<1>2. s = d.bi[c[1]].seq_number /\ m = [n EXCEPT ![c] = q]
  BY DEF Programmed
<1> HIDE DEF s, t
<1>3. /\ q \in Record /\ q # Blank /\ q.seq = s /\ q.kind = r.kind
      /\ r.kind = "data" => q.id = r.id
  BY <1>1, RecordParts
<1> HIDE DEF q
<1>4. /\ m \in [Chunks -> Record] /\ m[c] = q
      /\ \A x \in Chunks \ {c} : m[x] = n[x]
  BY <1>1, <1>2, <1>3 DEF FlashInv
<1>5. \A x \in Chunks : Written(m, x) <=> x = c \/ Written(n, x)
  BY <1>1, <1>3, <1>4 DEF Written
<1>6. d \in Device /\ \A x \in Blocks : d.bi[x].seq_number \in Nat
  BY FieldTypes DEF Sane, DevInv
<1>7. \A x \in Chunks : Written(n, x) => (n[x].seq = s <=> x[1] = c[1])
  <2>1. TAKE x \in Chunks
  <2>2. HAVE Written(n, x)
  <2>3. x[1] \in Blocks /\ c[1] \in Blocks
    BY <1>1, ChunkParts
  <2>4. d.bi[x[1]].block_state \in InUseStates /\ n[x].seq = d.bi[x[1]].seq_number
    BY <2>2 DEF FlashMatches
  <2> QED BY <1>1, <1>2, <2>3, <2>4 DEF Sane, DevInv, Distinct
<1>8. \A p \in Pages : p < c[2] => Written(n, <<c[1], p>>)
  BY <1>1 DEF FlashMatches
<1>9. FlashInv(m)
  <2>1. ASSUME NEW x \in Chunks, Written(m, x)
        PROVE  /\ m[x].seq >= 1
               /\ \A p \in Pages : p < x[2] => Written(m, <<x[1], p>>)
               /\ \A a \in Chunks : Written(m, a) => (m[a].seq = m[x].seq <=> a[1] = x[1])
    <3>1. CASE x = c
      <4>1. m[x].seq = s
        BY <1>3, <1>4, <3>1
      <4>2. \A p \in Pages : p < x[2] => Written(m, <<x[1], p>>)
        BY <1>5, <1>8, <3>1, PageBefore
      <4>3. \A a \in Chunks : Written(m, a) => (m[a].seq = m[x].seq <=> a[1] = x[1])
        BY <1>3, <1>4, <1>5, <1>7, <3>1
      <4> QED BY <1>1, <4>1, <4>2, <4>3
    <3>2. CASE x # c
      <4>1. Written(n, x) /\ m[x] = n[x]
        BY <1>4, <1>5, <2>1, <3>2
      <4>2. m[x].seq >= 1
        BY <4>1 DEF FlashInv
      <4>3. \A p \in Pages : p < x[2] => Written(m, <<x[1], p>>)
        BY <1>5, <4>1, PageBefore DEF FlashInv
      <4>4. ASSUME NEW a \in Chunks, Written(m, a)
            PROVE  m[a].seq = m[x].seq <=> a[1] = x[1]
        <5>1. CASE a = c
          BY <1>3, <1>4, <1>7, <4>1, <5>1
        <5>2. CASE a # c
          BY <1>4, <1>5, <4>1, <4>4, <5>2 DEF FlashInv
        <5> QED BY <5>1, <5>2
      <4> QED BY <4>2, <4>3, <4>4
    <3> QED BY <3>1, <3>2
  <2>2. OfKind(m, "hdr") # {}
    <3>1. PICK h \in Chunks : n[h].kind = "hdr"
      BY DEF FlashInv, OfKind
    <3>2. h # c
      <4>1. n[c] = Blank
        BY DEF Written
      <4> QED BY <3>1, <4>1 DEF Blank
    <3> QED BY <1>4, <3>1, <3>2 DEF OfKind
  <2>3. \E k \in Nat : \A x \in Chunks : Written(m, x) => m[x].seq <= k
    <3>1. PICK k \in Nat : \A x \in Chunks : Written(n, x) => n[x].seq <= k
      BY DEF FlashInv
    <3>2. \A x \in Chunks : Written(n, x) => n[x].seq \in Nat
      BY RecordParts DEF FlashInv, Written
    <3> DEFINE z == k + s
    <3>3. z \in Nat /\ s <= z /\ \A i \in Nat : i <= k => i <= z
      BY <1>1
    <3> HIDE DEF z
    <3>4. \A x \in Chunks : Written(m, x) => m[x].seq <= z
      <4> TAKE x \in Chunks
      <4>1. CASE x = c
        BY <1>3, <1>4, <3>3, <4>1
      <4>2. CASE x # c
        BY <1>4, <1>5, <3>1, <3>2, <3>3, <4>2
      <4> QED BY <4>1, <4>2
    <3> QED BY <3>3, <3>4
  <2> QED BY <1>4, <2>1, <2>2, <2>3 DEF FlashInv
<1>10. FlashMatches(m, t)
  <2>1. ASSUME NEW x \in Chunks, Written(m, x)
        PROVE  /\ t.bi[x[1]].block_state \in InUseStates
               /\ m[x].seq = t.bi[x[1]].seq_number
               /\ x[1] = t.alloc_block => x[2] < t.alloc_page
    <3>0. x[1] \in Blocks /\ x[2] \in Nat /\ d.alloc_page \in Nat
      BY <1>6, ChunkParts, FieldTypes DEF Pages
    <3>1. CASE x = c
      BY <1>1, <1>2, <1>3, <1>4, <3>0, <3>1
    <3>2. CASE x # c
      <4>1. Written(n, x) /\ m[x] = n[x]
        BY <1>4, <1>5, <2>1, <3>2
      <4>2. /\ d.bi[x[1]].block_state \in InUseStates
            /\ n[x].seq = d.bi[x[1]].seq_number
            /\ x[1] = d.alloc_block => x[2] < d.alloc_page
        BY <4>1 DEF FlashMatches
      <4>3. x[1] # NoBlock
        BY <3>0 DEF Blocks, NoBlock
      <4> QED BY <1>1, <3>0, <4>1, <4>2, <4>3
    <3> QED BY <3>1, <3>2
  <2>2. ASSUME NEW p \in Pages, t.alloc_block # NoBlock, p < t.alloc_page
        PROVE  Written(m, <<t.alloc_block, p>>)
    <3>1. t.alloc_block = c[1] /\ p < c[2] + 1
      BY <1>1, <2>2
    <3>2. <<c[1], p>> \in Chunks /\ c = <<c[1], c[2]>> /\ p \in Nat /\ c[2] \in Nat
      BY <1>1, PageBefore DEF Pages
    <3>3. CASE p = c[2]
      BY <1>5, <3>1, <3>2, <3>3
    <3>4. CASE p < c[2]
      BY <1>5, <1>8, <3>1, <3>2, <3>4
    <3> QED BY <3>1, <3>2, <3>3, <3>4
  <2> QED BY <2>1, <2>2 DEF FlashMatches
<1>11. Sane(e, H \cup {c}) /\ FlashMatches(m, e)
  <2>1. c[1] \in Blocks /\ e = mark_written(t, c[1])
    BY <1>1, ChunkParts DEF t
  <2> QED BY <1>1, <1>10, <2>1, MarkSane
<1> QED BY <1>1, <1>3, <1>4, <1>9, <1>11

-----------------------------------------------------------------------------
(* A formatted partition.                                                  *)

\* An erased partition has neither chunks nor collection.
LEMMA ErasedSane == Sane(ErasedDevice, {})
<1> DEFINE d == ErasedDevice
<1>1. EmptyBlockInfo \in BlockInfo
  BY DEF EmptyBlockInfo, BlockInfo, BlockStates
<1>2. /\ d \in Device
      /\ \A b \in Blocks : d.bi[b] = EmptyBlockInfo /\ d.chunk_bits[b] = {}
      /\ d.alloc_block = NoBlock /\ d.gc_block = NoBlock /\ d.gc_dirtiest = NoBlock
      /\ d.oldest_dirty_seq = 0 /\ d.oldest_dirty_block = NoBlock
      /\ d.n_free_chunks = NBlocks * ChunksPerBlock /\ d.n_erased_blocks = NBlocks
  <2>1. /\ NBlocks * ChunksPerBlock \in Int /\ NBlocks \in Int /\ {} \in SUBSET Pages
        /\ 0 \in Int /\ 0 \in Nat
    BY GeometryAssumption
  <2>2. d \in Device
    BY <1>1, <2>1 DEF ErasedDevice, Device, NoBlock
  <2> QED BY <2>2 DEF ErasedDevice
<1>3. /\ EmptyBlockInfo.block_state = "EMPTY" /\ EmptyBlockInfo.pages_in_use = 0
      /\ EmptyBlockInfo.soft_del_pages = 0 /\ ~EmptyBlockInfo.needs_retiring
  BY DEF EmptyBlockInfo
<1> HIDE DEF d
<1>4. ASSUME NEW b \in Blocks PROVE BlockInv(d, b)
  <2>1. b # NoBlock /\ Cardinality({}) = 0
    BY GeometryAssumption, FS_EmptySet DEF Blocks, NoBlock
  <2>2. d.bi[b].block_state = "EMPTY" /\ d.bi[b].pages_in_use = 0 /\ d.chunk_bits[b] = {}
    BY <1>2, <1>3
  <2> QED BY <1>2, <2>1, <2>2 DEF BlockInv, InUseStates
<1>5. PointerInv(d) /\ Distinct(d)
  BY <1>2, <1>3 DEF PointerInv, Distinct, InUseStates
<1>6. Healthy(d) /\ Owned(d, {})
  BY <1>2, <1>3 DEF Healthy, Owned
<1>7. SoftCounted(d, {})
  <2>1. \A b \in Blocks : PagesOf({}, b) = {}
    BY DEF PagesOf
  <2> QED BY <1>2, <1>3, <2>1, FS_EmptySet DEF SoftCounted
<1>8. FreeOf(d, {}) = Chunks /\ EmptyBlocks(d) = Blocks
  BY <1>2, <1>3, ChunkParts DEF FreeOf, EmptyBlocks, Counted
<1> QED BY <1>2, <1>4, <1>5, <1>6, <1>7, <1>8, ChunksFinite DEF Sane, DevInv, Count, d

\* The first block to be allocated is block 1.
LEMMA FirstBlock ==
    LET d == with_alloc_block(ErasedDevice)
    IN  d.alloc_block = 1 /\ d.alloc_page = 0 /\ d.bi[1].seq_number = 1
<1> DEFINE e == ErasedDevice
           b == CHOOSE x \in EmptyBlocks(e) :
                    \A y \in EmptyBlocks(e) :
                        SearchDistance(e.alloc_block_finder, x)
                            <= SearchDistance(e.alloc_block_finder, y)
<1>1. /\ e \in Device /\ e.alloc_block = NoBlock /\ e.n_erased_blocks = NBlocks
      /\ e.alloc_block_finder = 0 /\ e.seq_number = 0
      /\ e.bi = [x \in Blocks |-> EmptyBlockInfo]
  BY ErasedSane DEF ErasedDevice, Sane, DevInv
<1>2. NBlocks \in Nat /\ NBlocks >= 1 /\ 1 \in Blocks
  BY GeometryAssumption DEF Blocks
<1>3. EmptyBlocks(e) = Blocks
  <2>1. EmptyBlockInfo.block_state = "EMPTY"
    BY DEF EmptyBlockInfo
  <2> QED BY <1>1, <2>1 DEF EmptyBlocks
<1>4. \A x \in Blocks : SearchDistance(0, x) = x - 1
  <2>1. TAKE x \in Blocks
  <2>2. x \in Nat /\ x >= 1 /\ x <= NBlocks
    BY <1>2 DEF Blocks
  <2>3. \A i \in 0 .. NBlocks - 1 : i % NBlocks = i
    BY <1>2
  <2>4. x - 1 \in 0 .. NBlocks - 1 /\ x - 0 - 1 = x - 1
    BY <1>2, <2>2
  <2> QED BY <2>3, <2>4 DEF SearchDistance
<1>5. b = 1
  <2>1. \A y \in Blocks : SearchDistance(0, 1) <= SearchDistance(0, y)
    BY <1>2, <1>4 DEF Blocks
  <2>2. b \in Blocks /\ \A y \in Blocks : SearchDistance(0, b) <= SearchDistance(0, y)
    BY <1>1, <1>2, <1>3, <2>1
  <2> HIDE DEF b
  <2>3. b - 1 <= 1 - 1 /\ b \in Nat /\ b >= 1
    BY <1>2, <1>4, <2>2 DEF Blocks
  <2> QED BY <2>3
<1> DEFINE q == e.bi[1]
           r == [q EXCEPT !.block_state = "ALLOCATING", !.seq_number = 0 + 1]
           f == [e.bi EXCEPT ![1] = r]
           z == [e EXCEPT !.bi = f, !.seq_number = 0 + 1, !.n_erased_blocks = NBlocks - 1,
                          !.alloc_block_finder = 1, !.alloc_block = 1]
<1>6. find_alloc_block(e) = z
  <2>1. find_alloc_block(e) =
          [e EXCEPT !.bi[b] = [@ EXCEPT !.block_state = "ALLOCATING",
                                        !.seq_number  = e.seq_number + 1],
                    !.seq_number = @ + 1, !.n_erased_blocks = @ - 1,
                    !.alloc_block_finder = b, !.alloc_block = b]
    <3>1. ~(e.n_erased_blocks < 1 \/ EmptyBlocks(e) = {})
      BY <1>1, <1>2, <1>3
    <3> HIDE DEF e
    <3> QED BY <3>1, Zenon DEF find_alloc_block
  <2> HIDE DEF b, e
  <2> QED BY <1>1, <1>5, <2>1
<1>7. with_alloc_block(e) = [z EXCEPT !.alloc_page = 0]
  <2> HIDE DEF e, z
  <2> QED BY <1>1, <1>6 DEF with_alloc_block
<1>8. q \in BlockInfo
  BY <1>1, <1>2, FieldTypes
<1> HIDE DEF q
<1>9. r.seq_number = 1
  BY <1>8 DEF BlockInfo
<1> HIDE DEF r
<1>10. f[1] = r
  BY <1>1, <1>2
<1> HIDE DEF f, e
<1>11. z.bi = f /\ z.alloc_block = 1 /\ DOMAIN z = DOMAIN e
  BY <1>1 DEF Device
<1>12. "alloc_page" \in DOMAIN z
  BY <1>1, <1>11 DEF Device
<1> HIDE DEF z
<1>13. LET d == [z EXCEPT !.alloc_page = 0]
       IN  d.alloc_block = 1 /\ d.alloc_page = 0 /\ d.bi = f
  BY <1>11, <1>12
<1> QED BY <1>7, <1>9, <1>10, <1>13 DEF e

\* ... and its first page holds the header of the file.
LEMMA FirstSane ==
    /\ FirstDev \in Device /\ Sane(FirstDev, {<<1, 0>>})
    /\ FirstDev.bi[1].block_state \in InUseStates /\ FirstDev.bi[1].seq_number = 1
    /\ FirstDev.alloc_block \in {1, NoBlock} /\ FirstDev.alloc_page = 1
    /\ <<1, 0>> \in Chunks /\ 1 \in Blocks
<1> DEFINE d == with_alloc_block(ErasedDevice)
           n == [c \in Chunks |-> Blank]
           c == <<1, 0>>
<1>1. FlashMatches(n, ErasedDevice)
  BY ErasedSane DEF FlashMatches, Written, ErasedDevice
<1>2. Sane(d, {})
  BY <1>1, ErasedSane, WithAllocSane
<1>3. d.alloc_block = 1 /\ d.alloc_page = 0 /\ d.bi[1].seq_number = 1
  BY FirstBlock
<1> HIDE DEF d
<1>4. c = NextChunk(d) /\ d.alloc_block # NoBlock /\ c[1] = 1
  BY <1>3 DEF NextChunk, NoBlock
<1>5. FirstDev = take_page(d)
  BY DEF FirstDev, d
<1> HIDE DEF c
<1>6. PICK H \in SUBSET Chunks : H = {}
  OBVIOUS
<1>7. /\ Sane(FirstDev, H \cup {c})
      /\ c \in Chunks /\ c[1] = d.alloc_block /\ c[2] = d.alloc_page /\ c \notin H
      /\ \A x \in Blocks :
           /\ d.bi[x].block_state \in InUseStates => FirstDev.bi[x].block_state \in InUseStates
           /\ FirstDev.bi[x].seq_number = d.bi[x].seq_number
      /\ d.bi[c[1]].block_state \in InUseStates
      /\ d.bi[c[1]].seq_number >= 1 /\ d.bi[c[1]].seq_number \in Nat
      /\ FirstDev.alloc_block \in {d.alloc_block, NoBlock}
      /\ FirstDev.alloc_page = d.alloc_page + 1
  <2>1. Sane(d, H)
    BY <1>2, <1>6
  <2> QED BY <1>4, <1>5, <2>1, TakePageSane
<1>8. H \cup {c} = {<<1, 0>>}
  <2>1. \A x : x \in H \cup {c} <=> x \in {c}
    BY <1>6
  <2>2. H \cup {c} = {c}
    BY <2>1
  <2> QED BY <2>2 DEF c
<1>9. 1 \in Blocks /\ <<1, 0>> \in Chunks
  BY <1>4, <1>7, ChunkParts DEF c
<1>10. Sane(FirstDev, {<<1, 0>>})
  BY <1>7, <1>8
<1>11. FirstDev \in Device
  BY <1>10 DEF Sane, DevInv
<1> QED BY <1>3, <1>4, <1>7, <1>9, <1>10, <1>11

\* The invariant holds at first.
LEMMA InitIInv == Init => IInv
<1> SUFFICES ASSUME Init PROVE IInv
  OBVIOUS
<1> DEFINE c == <<1, 0>>
<1>1. /\ FirstDev \in Device /\ Sane(FirstDev, {c})
      /\ FirstDev.bi[1].block_state \in InUseStates /\ FirstDev.bi[1].seq_number = 1
      /\ FirstDev.alloc_block \in {1, NoBlock} /\ FirstDev.alloc_page = 1
      /\ c \in Chunks /\ 1 \in Blocks /\ c[1] = 1 /\ c[2] = 0
  BY FirstSane
<1>2. /\ dev = FirstDev /\ op = Idle /\ doubt = {}
      /\ nand = [x \in Chunks |-> IF x = c THEN HdrChunk(0, FALSE, 1) ELSE Blank]
      /\ file.tree = [i \in Ids |-> NoChunk] /\ file.hdr_chunk = c
      /\ file = [tree |-> [i \in Ids |-> NoChunk], hdr_chunk |-> c,
                 file_size |-> 0, stored_size |-> 0]
  BY DEF Init
<1> HIDE DEF c
<1>3. 0 \in 0 .. MaxId
  BY LogAssumption
<1>4. HdrChunk(0, FALSE, 1) \in Record /\ HdrChunk(0, FALSE, 1) # Blank
      /\ HdrChunk(0, FALSE, 1).kind = "hdr" /\ HdrChunk(0, FALSE, 1).seq = 1
  BY <1>3 DEF HdrChunk, Record, Blank
<1> DEFINE r == HdrChunk(0, FALSE, 1)
<1>5. /\ nand \in [Chunks -> Record] /\ nand[c] = r
      /\ \A x \in Chunks : Written(nand, x) <=> x = c
  BY <1>1, <1>2, <1>4 DEF Record, Written
<1> HIDE DEF r
<1>6. FlashInv(nand)
  <2>1. nand[c].seq = 1 /\ nand[c].kind = "hdr"
    BY <1>4, <1>5 DEF r
  <2>2. \A p \in Pages : ~(p < c[2])
    BY <1>1 DEF Pages
  <2>3. OfKind(nand, "hdr") # {}
    BY <1>1, <2>1 DEF OfKind
  <2>4. \E m \in Nat : \A x \in Chunks : Written(nand, x) => nand[x].seq <= m
    <3>1. 1 \in Nat /\ 1 <= 1
      OBVIOUS
    <3> QED BY <1>5, <2>1, <3>1
  <2> QED BY <1>5, <2>1, <2>2, <2>3, <2>4 DEF FlashInv
<1>7. FlashMatches(nand, dev)
  <2>1. \A p \in Pages : p < 1 => p = 0
    BY DEF Pages
  <2>2. <<1, 0>> = c /\ nand[c].seq = 1
    BY <1>4, <1>5 DEF c, r
  <2>3. 0 < 1
    OBVIOUS
  <2> QED BY <1>1, <1>2, <1>5, <2>1, <2>2, <2>3 DEF FlashMatches
<1>8. FileMatches(nand, file)
  <2>1. c # NoChunk
    BY DEF c, NoChunk
  <2> QED BY <1>2, <1>4, <1>5, <2>1 DEF FileMatches, r
<1>9. file \in File /\ op \in Operation /\ op.old = NoChunk /\ op.pc = "idle"
  <2>1. op \in Operation
    <3>1. <<>> \in Seq(Jobs)
      OBVIOUS
    <3> QED BY <1>2, <3>1 DEF Idle, Operation
  <2> QED BY <1>1, <1>2, <1>3, <2>1 DEF File, Idle
<1>10. InUse = {c}
  <2>1. c # NoChunk
    BY DEF c, NoChunk
  <2> QED BY <1>2, <1>9, <2>1 DEF InUse
<1> QED BY <1>1, <1>2, <1>6, <1>7, <1>8, <1>9, <1>10 DEF IInv, Mounted, OldInv, Calling

-----------------------------------------------------------------------------
(* The call in progress.                                                   *)

\* What a job says.
LEMMA JobFields ==
    ASSUME NEW j \in Jobs
    PROVE  /\ j.do = "data" => j.id \in Ids /\ j.val \in Data /\ j.base \in {-1} \cup 0 .. MaxId
           /\ j.do = "hdr" => j.is_shrink \in BOOLEAN
           /\ j.do \in {"hole", "grow", "prune"} => j.size \in 0 .. MaxId
BY DEF Jobs

\* The jobs the calls consist of.
LEMMA JobTypes ==
    /\ GcJob \in Jobs
    /\ \A s \in BOOLEAN : HdrJob(s) \in Jobs
    /\ \A n \in 0 .. MaxId : HoleJob(n) \in Jobs /\ GrowJob(n) \in Jobs /\ PruneJob(n) \in Jobs
    /\ \A i \in Ids, v \in Data, b \in {-1} \cup 0 .. MaxId : DataJob(i, v, b) \in Jobs
BY DEF GcJob, HdrJob, HoleJob, GrowJob, PruneJob, DataJob, Jobs

\* Short sequences of jobs.
LEMMA JobSeqs ==
    /\ <<>> \in Seq(Jobs)
    /\ \A j \in Jobs : <<j>> \in Seq(Jobs) /\ <<j>> # <<>>
    /\ \A j, k \in Jobs : <<j, k>> \in Seq(Jobs) /\ <<j, k>> # <<>>
    /\ \A s, t \in Seq(Jobs) : s \o t \in Seq(Jobs)
<1>1. \A s, t \in Seq(Jobs) : s \o t \in Seq(Jobs)
  BY ConcatProperties
<1> QED BY <1>1

\* The call has a job to do.
LEMMA TheJob ==
    ASSUME IInv, op.pc \in Calling
    PROVE  /\ op.jobs \in Seq(Jobs) /\ op.jobs # <<>>
           /\ Job \in Jobs /\ Tail(op.jobs) \in Seq(Jobs)
<1>1. op.jobs \in Seq(Jobs) /\ op.jobs # <<>>
  BY DEF IInv, Operation
<1> QED BY <1>1, HeadTailProperties DEF Job

\* The call goes on with other jobs, or ends.
LEMMA ContinueOp ==
    ASSUME NEW s \in Seq(Jobs), Continue(s)
    PROVE  /\ op' \in Operation /\ op'.old = NoChunk /\ op'.pc \in {"start", "idle"}
           /\ op'.pc = "start" => op'.jobs # <<>>
<1>1. Idle \in Operation /\ Idle.old = NoChunk /\ Idle.pc = "idle"
  BY JobSeqs DEF Idle, Operation
<1>2. CASE s = <<>>
  <2>1. op' = Idle
    BY <1>2 DEF Continue
  <2> QED BY <1>1, <2>1
<1>3. CASE s # <<>>
  <2>1. op' = [Idle EXCEPT !.pc = "start", !.jobs = s]
    BY <1>3 DEF Continue
  <2>2. op' = [pc |-> "start", jobs |-> s, old |-> NoChunk,
               aggressive |-> FALSE, max_copies |-> 0, max_tries |-> 0]
    BY <2>1 DEF Idle
  <2>3. op' \in Operation
    BY <2>2 DEF Operation, Calling
  <2> QED BY <1>3, <2>2, <2>3
<1> QED BY <1>2, <1>3

\* The chunks in use are chunks, the header's among them.
LEMMA InUseParts ==
    ASSUME IInv, Up
    PROVE  /\ InUse \in SUBSET Chunks
           /\ file.hdr_chunk \in OfKind(nand, "hdr") /\ file.hdr_chunk \in InUse
           /\ \A i \in Ids : file.tree[i] # NoChunk => file.tree[i] \in InUse
           /\ op.old # NoChunk => op.old \in InUse
<1>1. file \in File /\ op \in Operation /\ FileMatches(nand, file)
  BY DEF IInv, Mounted
<1>2. InUse \in SUBSET Chunks
  BY <1>1 DEF InUse, File, Operation
<1>3. file.hdr_chunk \in Chunks /\ nand[file.hdr_chunk].kind = "hdr"
  BY <1>1 DEF FileMatches, File
<1> QED BY <1>1, <1>2, <1>3 DEF InUse, OfKind, FileMatches

\* A step after which the tree and the header point where they did.
LEMMA QuietStep ==
    ASSUME IInv, Up, op.old = NoChunk, op'.old = NoChunk, op' \in Operation,
           op'.pc \in {"idle", "start", "collect", "program", "delete"},
           op'.pc \in Calling => op'.jobs # <<>>,
           file' \in File, file'.tree = file.tree, file'.hdr_chunk = file.hdr_chunk,
           doubt' \subseteq Ids,
           FlashInv(nand'), Sane(dev', InUse), FlashMatches(nand', dev'),
           \A c \in InUse : nand'[c] = nand[c]
    PROVE  IInv'
<1>1. InUse' = InUse
  BY DEF InUse
<1>2. FileMatches(nand', file')
  BY InUseParts DEF IInv, Mounted, FileMatches
<1>3. OldInv'
  BY DEF OldInv
<1>4. dev' \in Device
  BY DEF Sane, DevInv
<1> QED BY <1>1, <1>2, <1>3, <1>4 DEF IInv, Mounted

\* The flash and the device are left alone.
LEMMA StillStep ==
    ASSUME IInv, Up, op.old = NoChunk, op'.old = NoChunk, op' \in Operation,
           op'.pc \in {"idle", "start", "collect", "program", "delete"},
           op'.pc \in Calling => op'.jobs # <<>>,
           file' \in File, file'.tree = file.tree, file'.hdr_chunk = file.hdr_chunk,
           doubt' \subseteq Ids, UNCHANGED <<dev, nand>>
    PROVE  IInv'
<1>1. /\ FlashInv(nand') /\ Sane(dev', InUse) /\ FlashMatches(nand', dev')
      /\ \A c \in InUse : nand'[c] = nand[c]
  BY DEF IInv, Mounted
<1> QED BY <1>1, QuietStep

-----------------------------------------------------------------------------
(* The steps that leave the flash alone.                                   *)

\* A call begins.
LEMMA CallStep ==
    ASSUME IInv, NEW s \in Seq(Jobs), Call(s)
    PROVE  IInv'
<1>1. op.pc = "idle" /\ Up /\ Continue(s) /\ UNCHANGED <<dev, nand, file, doubt>>
  BY DEF Call, Up, history
<1>2. op.old = NoChunk
  BY <1>1 DEF IInv, OldInv
<1>3. /\ op' \in Operation /\ op'.old = NoChunk /\ op'.pc \in {"start", "idle"}
      /\ op'.pc = "start" => op'.jobs # <<>>
  BY <1>1, ContinueOp
<1> QED BY <1>1, <1>2, <1>3, StillStep DEF IInv, Calling

\* ... one of them.
LEMMA CallsStep ==
    ASSUME IInv, Calls
    PROVE  IInv'
<1>1. ASSUME NEW i \in Ids, NEW v \in Vals, WriteFile(i, v)
      PROVE  IInv'
  <2>1. i - 1 \in 0 .. MaxId /\ v \in Data /\ -1 \in {-1} \cup 0 .. MaxId
    BY LogAssumption DEF Ids, Data
  <2>2. <<HoleJob(i - 1), DataJob(i, v, -1)>> \in Seq(Jobs)
    BY <2>1, JobTypes, JobSeqs
  <2> QED BY <1>1, <2>2, CallStep DEF WriteFile
<1>2. ASSUME NEW n \in 0 .. MaxId, ResizeFile(n)
      PROVE  IInv'
  <2> DEFINE m == IF n > file.file_size THEN <<HoleJob(n), GrowJob(n)>> ELSE <<PruneJob(n)>>
  <2>1. m \in Seq(Jobs) /\ <<GcJob>> \in Seq(Jobs) /\ <<HdrJob(FALSE)>> \in Seq(Jobs)
    <3>1. /\ HoleJob(n) \in Jobs /\ GrowJob(n) \in Jobs /\ PruneJob(n) \in Jobs
          /\ GcJob \in Jobs /\ HdrJob(FALSE) \in Jobs
      BY JobTypes
    <3> QED BY <3>1, JobSeqs
  <2>2. Call(<<GcJob>> \o m \o <<HdrJob(FALSE)>>)
    BY <1>2 DEF ResizeFile
  <2> HIDE DEF m
  <2>3. <<GcJob>> \o m \o <<HdrJob(FALSE)>> \in Seq(Jobs)
    BY <2>1, JobSeqs
  <2> QED BY <2>2, <2>3, CallStep
<1>3. ASSUME FlushFile
      PROVE  IInv'
  <2>1. <<HdrJob(FALSE)>> \in Seq(Jobs)
    BY JobTypes, JobSeqs
  <2> QED BY <1>3, <2>1, CallStep DEF FlushFile
<1> QED BY <1>1, <1>2, <1>3 DEF Calls

\* The call goes on with the jobs in s; the file may have another size.
LEMMA NextStep ==
    ASSUME IInv, Up, op.pc \in {"start", "program"}, NEW s \in Seq(Jobs), Continue(s),
           file' \in File, file'.tree = file.tree, file'.hdr_chunk = file.hdr_chunk,
           doubt' \subseteq Ids, UNCHANGED <<dev, nand>>
    PROVE  IInv'
<1>1. op.old = NoChunk
  BY DEF IInv, OldInv
<1>2. /\ op' \in Operation /\ op'.old = NoChunk /\ op'.pc \in {"start", "idle"}
      /\ op'.pc = "start" => op'.jobs # <<>>
  BY ContinueOp
<1> QED BY <1>1, <1>2, StillStep DEF Calling

\* A hole is filled with chunks of zeros, or marked by a header.
LEMMA HoleStep ==
    ASSUME IInv, HandleHole
    PROVE  IInv'
<1> DEFINE old  == file.file_size
           new  == Job.size
           fill == [k \in 1 .. new - old |-> DataJob(old + k, Zero, old)]
           m    == IF new <= old THEN <<>>
                   ELSE IF new - old < SmallHole
                           /\ check_alloc_available(dev, SmallHole + 1)
                   THEN fill ELSE <<HdrJob(TRUE)>>
<1>1. /\ op.pc = "start" /\ Job.do = "hole" /\ Up
      /\ Continue(m \o Tail(op.jobs))
      /\ UNCHANGED <<dev, nand, file, doubt>>
  BY DEF HandleHole, At, Up, history
<1>2. Job \in Jobs /\ Tail(op.jobs) \in Seq(Jobs)
  BY <1>1, TheJob DEF Calling
<1>3. new \in 0 .. MaxId /\ old \in 0 .. MaxId
  BY <1>1, <1>2, JobFields DEF IInv, File
<1> HIDE DEF new, old
<1>4. fill \in Seq(Jobs)
  <2>1. \A k \in 1 .. new - old : old + k \in Ids /\ Zero \in Data /\ old \in {-1} \cup 0 .. MaxId
    BY <1>3, LogAssumption DEF Ids, Data
  <2>2. \A k \in 1 .. new - old : DataJob(old + k, Zero, old) \in Jobs
    BY <2>1, JobTypes
  <2>3. CASE new <= old
    <3>1. 1 .. new - old = {} /\ fill = <<>>
      BY <1>3, <2>3, LogAssumption
    <3> QED BY <3>1, JobSeqs
  <2>4. CASE old < new
    <3>1. new - old \in Nat
      BY <1>3, <2>4, LogAssumption
    <3> QED BY <2>2, <3>1
  <2> QED BY <1>3, <2>3, <2>4, LogAssumption
<1>5. m \in Seq(Jobs)
  <2>1. HdrJob(TRUE) \in Jobs
    BY JobTypes
  <2> HIDE DEF fill
  <2> QED BY <1>4, <2>1, JobSeqs
<1> HIDE DEF m
<1>6. m \o Tail(op.jobs) \in Seq(Jobs)
  BY <1>2, <1>5, JobSeqs
<1> QED BY <1>1, <1>6, NextStep DEF IInv

\* The file grows, or a truncation ends.
LEMMA SizeStep ==
    ASSUME IInv, Grow \/ PruneEnd \/ GcOnly
    PROVE  IInv'
<1>1. /\ op.pc \in {"start", "program"} /\ Up /\ NextJob /\ UNCHANGED <<dev, nand>>
      /\ Job.do \in {"grow", "prune", "gc"}
  BY DEF Grow, PruneEnd, GcOnly, At, Up
<1>2. Job \in Jobs /\ Tail(op.jobs) \in Seq(Jobs)
  BY <1>1, TheJob DEF Calling
<1>3. Job.do \in {"grow", "prune"} => Job.size \in 0 .. MaxId
  BY <1>2, JobFields
<1>4. file \in File /\ doubt \subseteq Ids
  BY DEF IInv
<1>5. /\ file' \in File /\ file'.tree = file.tree /\ file'.hdr_chunk = file.hdr_chunk
      /\ doubt' \subseteq Ids
  <2>1. CASE Grow
    BY <1>3, <1>4, <2>1 DEF Grow, At, File, history
  <2>2. CASE PruneEnd
    BY <1>3, <1>4, <2>2 DEF PruneEnd, At, File
  <2>3. CASE GcOnly
    BY <1>4, <2>3 DEF GcOnly, history
  <2> QED BY <2>1, <2>2, <2>3
<1> QED BY <1>1, <1>2, <1>5, NextStep DEF NextJob

-----------------------------------------------------------------------------
(* Garbage collection.                                                     *)

\* What is erased shows in the states of the blocks.
LEMMA SameErase ==
    ASSUME NEW n, NEW d, NEW e, NEW f, e.bi = d.bi
    PROVE  Erase(n, e, f) = Erase(n, d, f)
BY DEF Erase, Erased

\* yaffs_gc_block() starts on a block.
LEMMA CollectStep ==
    ASSUME IInv, GcDue, NEW d, Sane(d, InUse), FlashMatches(nand, d), d.bi = dev.bi,
           NEW b \in Blocks, d.gc_block \in {NoBlock, b}, d.bi[b].block_state \in Whole,
           CollectBlock(d, b)
    PROVE  IInv'
<1> DEFINE e == GcBlockEntry(d, b, TRUE)
<1>1. /\ op.pc = "start" /\ Up /\ op.old = NoChunk /\ op \in Operation /\ op.jobs # <<>>
      /\ FlashInv(nand)
  BY DEF GcDue, IInv, OldInv, Up, Calling
<1>2. /\ dev' = e /\ nand' = Erase(nand, dev, dev')
      /\ op' = [op EXCEPT !.pc = "collect", !.aggressive = Aggressive,
                          !.max_copies = IF Aggressive THEN ChunksPerBlock ELSE GcMaxCopies,
                          !.max_tries = @ + 1]
      /\ UNCHANGED <<file, doubt>>
  BY DEF CollectBlock, history
<1>3. InUse \in SUBSET Chunks /\ file.hdr_chunk \in OfKind(nand, "hdr") /\ file.hdr_chunk \in InUse
  BY <1>1, InUseParts
<1>4. Sane(e, InUse) /\ Stays(d, e)
  BY <1>3, GcEntrySane
<1> HIDE DEF e
<1>5. nand' = Erase(nand, d, e)
  BY <1>2, SameErase
<1>6. /\ FlashInv(nand') /\ FlashMatches(nand', e)
      /\ \A c \in InUse : nand'[c] = nand[c]
  <2>1. DevInv(d) /\ Healthy(d)
    BY DEF Sane
  <2> QED BY <1>1, <1>3, <1>4, <1>5, <2>1, ErasingStep
<1>7. /\ op' \in Operation /\ op'.old = NoChunk /\ op'.pc = "collect"
      /\ op'.jobs # <<>>
  <2> DEFINE a == Aggressive
             k == IF Aggressive THEN ChunksPerBlock ELSE GcMaxCopies
             t == op.max_tries + 1
  <2>1. a \in BOOLEAN /\ k \in Int /\ t \in Int
    BY <1>1, LogAssumption, GeometryAssumption DEF Aggressive, Operation
  <2>2. op' = [op EXCEPT !.pc = "collect", !.aggressive = a, !.max_copies = k,
                         !.max_tries = t]
    BY <1>2
  <2> HIDE DEF a, k, t
  <2> QED BY <1>1, <2>1, <2>2 DEF Operation, Calling
<1> QED BY <1>1, <1>2, <1>4, <1>6, <1>7, QuietStep DEF IInv

\* The call when yaffs_check_gc() has returned.
LEMMA AfterGcIs ==
    ASSUME op \in Operation
    PROVE  /\ AfterGc \in Operation /\ AfterGc.old = NoChunk
           /\ AfterGc.pc = "program" /\ AfterGc.jobs = op.jobs
<1> DEFINE s == op.jobs
<1>1. s \in Seq(Jobs)
  BY DEF Operation
<1>2. AfterGc = [Idle EXCEPT !.pc = "program", !.jobs = s]
  BY DEF AfterGc
<1> HIDE DEF s
<1>3. AfterGc = [pc |-> "program", jobs |-> s, old |-> NoChunk,
                 aggressive |-> FALSE, max_copies |-> 0, max_tries |-> 0]
  BY <1>2 DEF Idle
<1>4. AfterGc.jobs = s /\ AfterGc.pc = "program" /\ AfterGc.old = NoChunk
  BY <1>3
<1> QED BY <1>1, <1>3, <1>4 DEF Operation, Calling, s

\* yaffs_check_gc().
LEMMA CheckGcStep ==
    ASSUME IInv, GcResume \/ GcRefresh \/ GcSelect \/ GcRemember \/ GcPass
    PROVE  IInv'
<1>1. /\ GcDue /\ op.pc = "start" /\ Up /\ op.old = NoChunk /\ op \in Operation
      /\ op.jobs # <<>> /\ file \in File /\ doubt \subseteq Ids /\ FlashInv(nand)
  BY DEF GcResume, GcRefresh, GcSelect, GcRemember, GcPass, GcDue, IInv, OldInv, Up, Calling
<1>2. /\ Sane(dev, InUse) /\ FlashMatches(nand, dev)
      /\ dev \in Device /\ DevInv(dev) /\ PointerInv(dev)
  BY <1>1 DEF IInv, Mounted, Sane, DevInv
<1>3. ASSUME op' = AfterGc
      PROVE  op' \in Operation /\ op'.old = NoChunk /\ op'.pc = "program" /\ op'.jobs # <<>>
  BY <1>1, <1>3, AfterGcIs
<1>4. CASE GcResume
  <2>1. dev.gc_block # NoBlock /\ CollectBlock(dev, dev.gc_block)
    BY <1>4 DEF GcResume
  <2>2. dev.gc_block \in Blocks /\ dev.bi[dev.gc_block].block_state \in Whole
    BY <1>2, <2>1, FieldTypes DEF PointerInv
  <2> QED BY <1>1, <1>2, <2>1, <2>2, CollectStep
<1>5. CASE GcRefresh
  <2> DEFINE d == [dev EXCEPT !.gc_chunk = 0]
  <2>1. PICK b \in RefreshBlocks(dev) : CollectBlock(d, b)
    BY <1>5 DEF GcRefresh
  <2>2. b \in Blocks /\ dev.bi[b].block_state \in Whole
    BY DEF RefreshBlocks, Whole
  <2>3. d.bi = dev.bi /\ d.gc_block = dev.gc_block /\ dev.gc_block = NoBlock
    BY <1>2, <1>5 DEF Device, GcRefresh
  <2>4. Sane(d, InUse) /\ FlashMatches(nand, d)
    BY <1>2, PointersSane
  <2> HIDE DEF d
  <2> QED BY <1>1, <2>1, <2>2, <2>3, <2>4, CollectStep
<1>6. CASE GcSelect
  <2> DEFINE Off(x) == [x EXCEPT !.gc_dirtiest = NoBlock, !.gc_chunk = 0]
  <2>1. PICK b \in Selectable(dev, Aggressive) :
          \E x \in {dev, find_oldest_dirty_seq(dev)} : CollectBlock(Off(x), b)
    BY <1>6, Zenon DEF GcSelect
  <2>2. PICK x \in {dev, find_oldest_dirty_seq(dev)} : CollectBlock(Off(x), b)
    BY <2>1
  <2>3. dev.gc_block = NoBlock /\ Aggressive \in BOOLEAN
    BY <1>1, <1>6 DEF GcSelect, Aggressive, Operation
  <2>4. b \in Blocks /\ dev.bi[b].block_state \in Whole
    BY <1>2, <2>3, SelectableFull
  <2>5. Sane(x, InUse) /\ FlashMatches(nand, x) /\ x.bi = dev.bi /\ x.gc_block = NoBlock
    <3>1. /\ find_oldest_dirty_seq(dev).bi = dev.bi
          /\ find_oldest_dirty_seq(dev).gc_block = dev.gc_block
      BY <1>2, <2>3, FindOldestInv
    <3>2. 0 \in Nat
      OBVIOUS
    <3>3. Sane(find_oldest_dirty_seq(dev), InUse) /\ FlashMatches(nand, find_oldest_dirty_seq(dev))
      BY <1>2, <2>3, <3>2, PointersSane
    <3> QED BY <1>2, <2>2, <2>3, <3>1, <3>3
  <2> DEFINE d == Off(x)
  <2>6. d.bi = x.bi /\ d.gc_block = x.gc_block
    BY <2>5 DEF Sane, DevInv, Device
  <2>7. Sane(d, InUse) /\ FlashMatches(nand, d) /\ CollectBlock(d, b)
    BY <2>2, <2>5, ForgetSane
  <2> HIDE DEF d
  <2> QED BY <1>1, <2>4, <2>5, <2>6, <2>7, CollectStep
<1>7. CASE GcRemember
  <2>1. PICK d \in {dev, find_oldest_dirty_seq(dev)},
             b \in Candidates(dev) \cup {dev.gc_dirtiest, NoBlock} :
          dev' = [d EXCEPT !.gc_dirtiest = b, !.gc_chunk = 0]
    BY <1>7 DEF GcRemember
  <2>2. dev.gc_block = NoBlock /\ op' = AfterGc /\ UNCHANGED <<nand, file, doubt>>
    BY <1>7 DEF GcRemember, history
  <2>3. d.bi = dev.bi
    BY <1>2, <2>1, <2>2, FindOldestInv
  <2>4. Sane(d, InUse) /\ FlashMatches(nand, d)
    <3>1. 0 \in Nat
      OBVIOUS
    <3> QED BY <1>2, <2>1, <2>2, <3>1, PointersSane
  <2>5. CASE b = NoBlock
    <3>1. Sane(dev', InUse) /\ FlashMatches(nand, dev')
      BY <2>1, <2>4, <2>5, ForgetSane
    <3> QED BY <1>1, <1>3, <2>2, <3>1, QuietStep
  <2>6. CASE b # NoBlock
    <3>1. b \in Blocks /\ dev.bi[b].block_state \in Whole
      <4>1. CASE b \in Candidates(dev)
        BY <4>1 DEF Candidates, DirtyBlocks, Whole
      <4>2. CASE b = dev.gc_dirtiest
        BY <1>2, <2>6, <4>2, FieldTypes DEF PointerInv
      <4> QED BY <2>6, <4>1, <4>2
    <3>2. Sane(dev', InUse) /\ FlashMatches(nand, dev')
      BY <2>1, <2>3, <2>4, <3>1, RememberSane
    <3> QED BY <1>1, <1>3, <2>2, <3>2, QuietStep
  <2> QED BY <2>5, <2>6
<1>8. CASE GcPass
  <2> DEFINE e == [dev EXCEPT !.gc_chunk = 0]
  <2>1. op' = AfterGc /\ dev' \in {dev, e} /\ UNCHANGED <<nand, file, doubt>>
    BY <1>8 DEF GcPass, history
  <2>2. 0 \in Nat
    OBVIOUS
  <2>3. Sane(e, InUse) /\ FlashMatches(nand, e)
    BY <1>2, <2>2, PointersSane
  <2> HIDE DEF e
  <2>4. Sane(dev', InUse) /\ FlashMatches(nand, dev')
    BY <1>2, <2>1, <2>3
  <2> QED BY <1>1, <1>3, <2>1, <2>4, QuietStep
<1> QED BY <1>4, <1>5, <1>6, <1>7, <1>8

\* yaffs_gc_block() ends, or runs out of copies.
LEMMA GcEndStep ==
    ASSUME IInv, GcEnd
    PROVE  IInv'
<1>1. /\ op.pc = "collect" /\ Up /\ op.old = NoChunk /\ op \in Operation
      /\ op.jobs # <<>> /\ file \in File /\ doubt \subseteq Ids /\ FlashInv(nand)
  BY DEF GcEnd, IInv, OldInv, Up, Calling
<1>2. /\ dev' = GcBlockExit(dev) /\ op' \in {[op EXCEPT !.pc = "start"], AfterGc}
      /\ UNCHANGED <<nand, file, doubt>>
  BY DEF GcEnd, history
<1>3. Sane(dev', InUse) /\ FlashMatches(nand, dev')
  BY <1>1, <1>2, GcExitSane DEF IInv, Mounted
<1>4. /\ op' \in Operation /\ op'.old = NoChunk /\ op'.jobs # <<>>
      /\ op'.pc \in {"start", "program"}
  <2>1. CASE op' = [op EXCEPT !.pc = "start"]
    BY <1>1, <2>1 DEF Operation, Calling
  <2>2. CASE op' = AfterGc
    BY <1>1, <2>2, AfterGcIs
  <2> QED BY <1>2, <2>1, <2>2
<1> QED BY <1>1, <1>2, <1>3, <1>4, QuietStep

-----------------------------------------------------------------------------
(* A chunk is written.                                                     *)

\* The file after a chunk is written.
LEMMA LocatedIs ==
    ASSUME file \in File, NEW r \in Record, r # Blank, NEW c \in Chunks
    PROVE  /\ Located(r, c) \in File
           /\ r.kind = "hdr" => /\ Located(r, c).hdr_chunk = c
                                /\ Located(r, c).tree = file.tree
           /\ r.kind # "hdr" => /\ Located(r, c).hdr_chunk = file.hdr_chunk
                                /\ Located(r, c).tree = [file.tree EXCEPT ![r.id] = c]
           /\ Located(r, c).file_size = file.file_size
           /\ Located(r, c).stored_size = file.stored_size
<1>1. CASE r.kind = "hdr"
  <2>1. Located(r, c) = [file EXCEPT !.hdr_chunk = c]
    BY <1>1 DEF Located
  <2> QED BY <1>1, <2>1 DEF File
<1>2. CASE r.kind # "hdr"
  <2> DEFINE t == [file.tree EXCEPT ![r.id] = c]
  <2>1. r.id \in Ids
    BY <1>2, RecordParts
  <2>2. Located(r, c) = [file EXCEPT !.tree = t]
    BY <1>2 DEF Located
  <2>3. t \in [Ids -> Chunks \cup {NoChunk}]
    BY <2>1 DEF File
  <2> HIDE DEF t
  <2>4. /\ [file EXCEPT !.tree = t] \in File
        /\ [file EXCEPT !.tree = t].tree = t
        /\ [file EXCEPT !.tree = t].hdr_chunk = file.hdr_chunk
        /\ [file EXCEPT !.tree = t].file_size = file.file_size
        /\ [file EXCEPT !.tree = t].stored_size = file.stored_size
    BY <2>3 DEF File
  <2> QED BY <1>2, <2>2, <2>4 DEF t
<1> QED BY <1>1, <1>2

\* Record r is in chunk c now, and what it replaces is to be deleted.
LEMMA PlaceStep ==
    ASSUME IInv, Up, op.old = NoChunk,
           NEW r \in Record, r # Blank, NEW c \in Chunks, c \notin InUse,
           nand'[c].kind = r.kind, r.kind = "data" => nand'[c].id = r.id,
           \A x \in InUse : nand'[x] = nand[x],
           FlashInv(nand'), Sane(dev', InUse \cup {c}), FlashMatches(nand', dev'),
           file' \in File,
           r.kind = "hdr" => /\ file'.hdr_chunk = c /\ file'.tree = file.tree
                             /\ op'.old = file.hdr_chunk,
           r.kind # "hdr" => /\ file'.hdr_chunk = file.hdr_chunk
                             /\ file'.tree = [file.tree EXCEPT ![r.id] = c]
                             /\ op'.old = file.tree[r.id],
           op' \in Operation, op'.pc \in {"copied", "delete"},
           op'.pc = "copied" => op'.old # NoChunk, op'.jobs # <<>>,
           doubt' \subseteq Ids
    PROVE  IInv'
<1>1. /\ file \in File /\ file.tree \in [Ids -> Chunks \cup {NoChunk}]
      /\ FileMatches(nand, file) /\ file.hdr_chunk # NoChunk
      /\ InUse \in SUBSET Chunks /\ file.hdr_chunk \in InUse
      /\ \A i \in Ids : file.tree[i] # NoChunk => file.tree[i] \in InUse
  BY InUseParts DEF IInv, Mounted, File, FileMatches
<1>2. c # NoChunk
  BY DEF Chunks, Blocks, NoChunk
<1>3. CASE r.kind = "hdr"
  <2>1. file'.hdr_chunk = c /\ file'.tree = file.tree /\ op'.old = file.hdr_chunk
    BY <1>3
  <2>2. InUse' = InUse \cup {c}
    <3>1. InUse = ({file.tree[i] : i \in Ids} \cup {file.hdr_chunk}) \ {NoChunk}
      BY DEF InUse
    <3>2. InUse' = ({file.tree[i] : i \in Ids} \cup {c, file.hdr_chunk}) \ {NoChunk}
      BY <2>1 DEF InUse
    <3> QED BY <1>2, <3>1, <3>2
  <2>3. FileMatches(nand', file')
    BY <1>1, <1>2, <1>3, <2>1 DEF FileMatches
  <2>4. OldInv'
    <3>1. file.hdr_chunk # c
      BY <1>1
    <3>2. \A i \in Ids : file.tree[i] # file.hdr_chunk
      BY <1>1 DEF FileMatches
    <3> QED BY <1>1, <2>1, <3>1, <3>2 DEF OldInv
  <2>5. dev' \in Device
    BY DEF Sane, DevInv
  <2> QED BY <2>2, <2>3, <2>4, <2>5 DEF IInv, Mounted
<1>4. CASE r.kind # "hdr"
  <2>0. r.kind = "data" /\ r.id \in Ids /\ nand'[c].id = r.id
    BY <1>4, RecordParts
  <2>1. /\ file'.hdr_chunk = file.hdr_chunk
        /\ file'.tree = [file.tree EXCEPT ![r.id] = c]
        /\ op'.old = file.tree[r.id]
    BY <1>4
  <2>2. file'.tree[r.id] = c /\ \A i \in Ids \ {r.id} : file'.tree[i] = file.tree[i]
    BY <1>1, <2>0, <2>1
  <2>3. InUse' = InUse \cup {c}
    <3>1. InUse = ({file.tree[i] : i \in Ids} \cup {file.hdr_chunk}) \ {NoChunk}
      BY DEF InUse
    <3>2. InUse' = ({file'.tree[i] : i \in Ids} \cup {file.hdr_chunk, file.tree[r.id]}) \ {NoChunk}
      BY <2>1 DEF InUse
    <3>3. ASSUME NEW x \in InUse PROVE x \in InUse'
      BY <2>0, <2>2, <3>1, <3>2
    <3>4. ASSUME NEW x \in InUse' PROVE x \in InUse \cup {c}
      BY <2>0, <2>2, <3>1, <3>2
    <3>5. c \in InUse'
      BY <1>2, <2>0, <2>2, <3>2
    <3> QED BY <3>3, <3>4, <3>5
  <2>4. FileMatches(nand', file')
    <3>1. \A i \in Ids : file'.tree[i] # NoChunk =>
            nand'[file'.tree[i]].kind = "data" /\ nand'[file'.tree[i]].id = i
      BY <1>1, <2>0, <2>2 DEF FileMatches
    <3> QED BY <1>1, <2>1, <3>1 DEF FileMatches
  <2>5. OldInv'
    <3>1. file.tree[r.id] # NoChunk => file.tree[r.id] # file.hdr_chunk
      BY <1>1, <2>0 DEF FileMatches
    <3>2. file.tree[r.id] # NoChunk => \A i \in Ids : file'.tree[i] # file.tree[r.id]
      BY <1>1, <2>0, <2>2 DEF FileMatches
    <3> QED BY <2>0, <2>1, <3>1, <3>2 DEF OldInv
  <2>6. dev' \in Device
    BY DEF Sane, DevInv
  <2> QED BY <2>3, <2>4, <2>5, <2>6 DEF IInv, Mounted
<1> QED BY <1>3, <1>4

\* Program, with what it needs to be true of the device.
LEMMA ProgramStep ==
    ASSUME IInv, Up, NEW d, NEW q \in Record, q # Blank,
           Sane(d, InUse), FlashMatches(nand, d), d.alloc_block # NoBlock,
           ~Written(nand, NextChunk(d)), Program(d, q),
           NEW c, c = NextChunk(d)
    PROVE  /\ FlashInv(nand') /\ Sane(dev', InUse \cup {c}) /\ FlashMatches(nand', dev')
           /\ c \in Chunks /\ c \notin InUse
           /\ nand'[c].kind = q.kind /\ (q.kind = "data" => nand'[c].id = q.id)
           /\ \A x \in InUse : nand'[x] = nand[x]
<1>1. InUse \in SUBSET Chunks /\ FlashInv(nand)
  BY InUseParts DEF IInv
<1>2. /\ dev' = mark_written(take_page(d), c[1])
      /\ nand' = [nand EXCEPT ![c] = [q EXCEPT !.seq = d.bi[c[1]].seq_number]]
  BY DEF Program
<1>3. /\ FlashInv(nand') /\ Sane(dev', InUse \cup {c}) /\ FlashMatches(nand', dev')
      /\ c \in Chunks /\ c \notin InUse
      /\ nand'[c].kind = q.kind /\ (q.kind = "data" => nand'[c].id = q.id)
      /\ \A x \in Chunks \ {c} : nand'[x] = nand[x]
  <2> DEFINE m == nand'
             e == dev'
  <2>1. /\ m = Programmed(nand, d, q)
        /\ e = mark_written(take_page(d), c[1]) /\ ~Written(nand, c)
    BY <1>2 DEF Programmed
  <2> HIDE DEF m, e
  <2>2. /\ FlashInv(m) /\ Sane(e, InUse \cup {c}) /\ FlashMatches(m, e)
        /\ c \in Chunks /\ c \notin InUse
        /\ m[c].kind = q.kind /\ (q.kind = "data" => m[c].id = q.id)
        /\ \A x \in Chunks \ {c} : m[x] = nand[x]
    BY <1>1, <2>1, ProgramSane
  <2> QED BY <2>2 DEF m, e
<1> QED BY <1>1, <1>3

\* A copy is a record of the same chunk.
LEMMA CopiedIs ==
    ASSUME file \in File, NEW r \in Record, r # Blank
    PROVE  /\ Copied(r, 0) \in Record /\ Copied(r, 0) # Blank /\ Copied(r, 0).kind = r.kind
           /\ r.kind = "data" => Copied(r, 0).id = r.id /\ Copied(r, 0).val = r.val
           /\ r.kind = "hdr" => /\ Copied(r, 0).size = file.stored_size
                                /\ Copied(r, 0).is_shrink = FALSE
<1> DEFINE n == file.stored_size
           q == Copied(r, 0)
<1>1. n \in 0 .. MaxId /\ 0 \in Nat
  BY DEF File
<1> HIDE DEF n
<1>2. CASE r \in [kind : {"data"}, id : Ids, val : Data, seq : Nat]
  <2>1. q = [r EXCEPT !.seq = 0]
    BY <1>2 DEF Copied
  <2> HIDE DEF q
  <2>2. /\ q \in [kind : {"data"}, id : Ids, val : Data, seq : Nat]
        /\ q.kind = "data" /\ r.kind = "data" /\ q.id = r.id /\ q.val = r.val
    BY <1>1, <1>2, <2>1
  <2>3. q \in Record /\ q # Blank
    BY <2>2 DEF Record, Blank
  <2> QED BY <2>2, <2>3 DEF q
<1>3. CASE r \in [kind : {"hdr"}, size : 0 .. MaxId, is_shrink : BOOLEAN, seq : Nat]
  <2>1. r.kind = "hdr"
    BY <1>3
  <2>2. q = [kind |-> "hdr", size |-> n, is_shrink |-> FALSE, seq |-> 0]
    BY <2>1 DEF Copied, HdrChunk, n
  <2> HIDE DEF q
  <2>3. /\ q \in [kind : {"hdr"}, size : 0 .. MaxId, is_shrink : BOOLEAN, seq : Nat]
        /\ q.kind = "hdr" /\ q.size = n /\ q.is_shrink = FALSE
    BY <1>1, <2>2
  <2>4. q \in Record /\ q # Blank
    BY <2>3 DEF Record, Blank
  <2> QED BY <2>1, <2>3, <2>4 DEF q, n
<1> QED BY <1>2, <1>3 DEF Record

\* yaffs_gc_process_chunk() as it puts the copy q of record r, from chunk old,
\* into chunk c; d is the device then, k the device before it allocates.
GcCopying(k, d, old, r, q, c) ==
    /\ op.pc = "collect" /\ op.old = NoChunk
    /\ Sane(k, InUse) /\ FlashMatches(nand, k) /\ k.bi = dev.bi
    /\ k.gc_block = dev.gc_block /\ k.gc_dirtiest = dev.gc_dirtiest
    /\ d = with_alloc_block(k) /\ c = NextChunk(d)
    /\ Sane(d, InUse) /\ FlashMatches(nand, d) /\ d.alloc_block # NoBlock
    /\ ~Written(nand, NextChunk(d)) /\ Program(d, q)
    /\ old \in Chunks /\ old # NoChunk /\ r = nand[old]
    /\ r \in Record /\ r # Blank /\ r.kind \in {"data", "hdr"}
    /\ r.kind = "hdr" => old = file.hdr_chunk
    /\ r.kind # "hdr" => r.id \in Ids /\ old = file.tree[r.id]
    /\ q \in Record /\ q # Blank /\ q.kind = r.kind
    /\ q.kind = "data" => q.id = r.id /\ q.val = r.val
    /\ q.kind = "hdr" => q.size = file.stored_size /\ q.is_shrink = FALSE
    /\ file' = Located(r, c)
    /\ op' \in Operation /\ op'.pc = "copied" /\ op'.old = old
    /\ op'.jobs = op.jobs /\ op.jobs # <<>>
    /\ UNCHANGED <<content, doubt>>

\* A step of the collector's copying by its parts.
LEMMA GcCopyIs ==
    ASSUME IInv, GcCopy
    PROVE  \E k, d, old, r, q, c : GcCopying(k, d, old, r, q, c)
<1> DEFINE k == [dev EXCEPT !.gc_chunk = GcPage(dev)]
           d == with_alloc_block(k)
           old == <<dev.gc_block, GcPage(dev)>>
           r == nand[old]
           q == Copied(r, 0)
           c == NextChunk(d)
<1>1. /\ op.pc = "collect" /\ Up /\ op.old = NoChunk /\ op \in Operation
      /\ op.jobs # <<>> /\ file \in File /\ FlashInv(nand)
      /\ Sane(dev, InUse) /\ FlashMatches(nand, dev) /\ FileMatches(nand, file)
      /\ dev \in Device /\ DevInv(dev) /\ Owned(dev, InUse)
  BY DEF GcCopy, IInv, OldInv, Up, Calling, Mounted, Sane, DevInv
<1>2. /\ CanAlloc(d, TRUE) /\ Program(d, q)
      /\ file' = Located(r, c)
      /\ op' = [op EXCEPT !.pc = "copied", !.old = old, !.max_copies = @ - 1]
      /\ UNCHANGED <<content, doubt>>
  BY DEF GcCopy, history
<1>3. /\ GcPage(dev) \in Pages /\ GcPage(dev) \in dev.chunk_bits[dev.gc_block]
      /\ dev.gc_block \in Blocks
  BY <1>1, GcPageUsed DEF GcCopy, Collecting, Unfinished
<1>4. /\ InUse \in SUBSET Chunks /\ old \in InUse
  BY <1>1, <1>3, InUseParts DEF Owned
<1>5. Sane(k, InUse) /\ FlashMatches(nand, k)
  <2>1. GcPage(dev) \in Nat
    BY <1>3 DEF Pages
  <2> QED BY <1>1, <2>1, PointersSane
<1>6. /\ Sane(d, InUse) /\ FlashMatches(nand, d)
      /\ d.alloc_block # NoBlock => ~Written(nand, NextChunk(d))
  BY <1>4, <1>5, WithAllocSane
<1>7. d.alloc_block # NoBlock
  BY <1>2 DEF CanAlloc
<1>8. old \in {file.tree[i] : i \in Ids} \cup {file.hdr_chunk} /\ old # NoChunk
  BY <1>1, <1>4 DEF InUse
<1>9. r \in Record /\ r # Blank /\ r.kind \in {"data", "hdr"}
      /\ (r.kind = "hdr" => old = file.hdr_chunk)
      /\ (r.kind # "hdr" => r.id \in Ids /\ old = file.tree[r.id])
  <2>1. r \in Record
    BY <1>1, <1>4 DEF FlashInv
  <2>2. CASE old = file.hdr_chunk
    BY <1>1, <2>1, <2>2, RecordParts DEF FileMatches
  <2>3. ASSUME NEW i \in Ids, old = file.tree[i]
        PROVE  r.kind = "data" /\ r.id = i
    BY <1>1, <1>8, <2>3 DEF FileMatches
  <2> QED BY <1>8, <2>1, <2>2, <2>3, RecordParts
<1>10. /\ q \in Record /\ q # Blank /\ q.kind = r.kind
       /\ q.kind = "data" => q.id = r.id /\ q.val = r.val
       /\ q.kind = "hdr" => q.size = file.stored_size /\ q.is_shrink = FALSE
  <2>1. file \in File /\ r \in Record /\ r # Blank
    BY <1>1, <1>9
  <2> HIDE DEF r
  <2> QED BY <2>1, CopiedIs
<1>11. op' \in Operation /\ op'.pc = "copied" /\ op'.old = old /\ op'.jobs = op.jobs
  <2> DEFINE n == op.max_copies - 1
  <2>1. old \in Chunks /\ n \in Int
    BY <1>1, <1>4 DEF Operation
  <2>2. op' = [op EXCEPT !.pc = "copied", !.old = old, !.max_copies = n]
    BY <1>2
  <2> HIDE DEF n
  <2> QED BY <1>1, <2>1, <2>2 DEF Operation, Calling
<1>12. /\ k.bi = dev.bi /\ k.gc_block = dev.gc_block /\ k.gc_dirtiest = dev.gc_dirtiest
       /\ old \in Chunks
  BY <1>1, <1>4 DEF Device
<1>13. d = with_alloc_block(k) /\ c = NextChunk(d) /\ r = nand[old]
  OBVIOUS
<1> HIDE DEF k, d, old, r, q, c
<1>14. GcCopying(k, d, old, r, q, c)
  BY <1>1, <1>2, <1>5, <1>6, <1>7, <1>8, <1>9, <1>10, <1>11, <1>12, <1>13 DEF GcCopying
<1> QED BY <1>14

\* ... and its place in the file.
LEMMA GcCopyStep ==
    ASSUME IInv, GcCopy
    PROVE  IInv'
<1>0. PICK k, d, old, r, q, c : GcCopying(k, d, old, r, q, c)
  BY GcCopyIs
<1>1. /\ op.pc = "collect" /\ op.old = NoChunk
      /\ Sane(d, InUse) /\ FlashMatches(nand, d) /\ d.alloc_block # NoBlock
      /\ ~Written(nand, NextChunk(d)) /\ Program(d, q)
      /\ old # NoChunk /\ c = NextChunk(d)
      /\ r \in Record /\ r # Blank
      /\ r.kind = "hdr" => old = file.hdr_chunk
      /\ r.kind # "hdr" => r.id \in Ids /\ old = file.tree[r.id]
      /\ q \in Record /\ q # Blank /\ q.kind = r.kind
      /\ q.kind = "data" => q.id = r.id
      /\ file' = Located(r, c)
      /\ op' \in Operation /\ op'.pc = "copied" /\ op'.old = old /\ op'.jobs # <<>>
      /\ doubt' = doubt
  BY <1>0 DEF GcCopying
<1>2. Up /\ file \in File /\ doubt \subseteq Ids /\ c = NextChunk(d)
  BY <1>1 DEF Up, IInv
<1>3. /\ FlashInv(nand') /\ Sane(dev', InUse \cup {c}) /\ FlashMatches(nand', dev')
      /\ c \in Chunks /\ c \notin InUse
      /\ nand'[c].kind = q.kind /\ (q.kind = "data" => nand'[c].id = q.id)
      /\ \A x \in InUse : nand'[x] = nand[x]
  BY <1>1, <1>2, ProgramStep
<1>4. /\ file' \in File
      /\ r.kind = "hdr" => file'.hdr_chunk = c /\ file'.tree = file.tree
      /\ r.kind # "hdr" => /\ file'.hdr_chunk = file.hdr_chunk
                           /\ file'.tree = [file.tree EXCEPT ![r.id] = c]
  BY <1>1, <1>2, <1>3, LocatedIs
<1> QED BY <1>1, <1>2, <1>3, <1>4, PlaceStep

\* The device when a write looks for a chunk.
LEMMA WriteStart ==
    ASSUME IInv, op.pc = "program", NEW d, d = with_alloc_block(dev)
    PROVE  /\ Up /\ op.old = NoChunk /\ op \in Operation /\ op.jobs # <<>>
           /\ file \in File /\ doubt \subseteq Ids
           /\ Sane(d, InUse) /\ FlashMatches(nand, d)
           /\ d.alloc_block # NoBlock => ~Written(nand, NextChunk(d))
<1>1. /\ Up /\ op.old = NoChunk /\ op \in Operation /\ op.jobs # <<>>
      /\ file \in File /\ doubt \subseteq Ids
      /\ Sane(dev, InUse) /\ FlashMatches(nand, dev)
  BY DEF IInv, OldInv, Up, Calling, Mounted
<1>2. InUse \in SUBSET Chunks
  BY <1>1, InUseParts
<1> QED BY <1>1, <1>2, WithAllocSane

\* yaffs_wr_data_obj(): the data is written.
LEMMA DataWrittenStep ==
    ASSUME IInv, op.pc = "program", Job.do = "data",
           NEW d, d = with_alloc_block(dev), CanAlloc(d, FALSE), DataWritten(d)
    PROVE  IInv'
<1> DEFINE r == DataChunk(Job.id, Job.val, 0)
           c == NextChunk(d)
           f == Located(r, c)
<1>1. /\ Up /\ op.old = NoChunk /\ op \in Operation /\ op.jobs # <<>>
      /\ file \in File /\ doubt \subseteq Ids
      /\ Sane(d, InUse) /\ FlashMatches(nand, d)
      /\ d.alloc_block # NoBlock => ~Written(nand, NextChunk(d))
  BY WriteStart
<1>2. /\ Program(d, r)
      /\ file' = [f EXCEPT !.stored_size = Stored(Job.id), !.file_size = Size(Job.id)]
      /\ op' = [op EXCEPT !.pc = "delete", !.old = file.tree[Job.id]]
      /\ doubt' \subseteq Ids
  BY <1>1 DEF DataWritten
<1>3. Job.id \in Ids /\ Job.val \in Data
  BY TheJob, JobFields DEF Calling
<1>4. r \in Record /\ r # Blank /\ r.kind = "data" /\ r.id = Job.id
  BY <1>3 DEF DataChunk, Record, Blank
<1>5. d.alloc_block # NoBlock
  BY DEF CanAlloc
<1> HIDE DEF r, c
<1>6. c = NextChunk(d)
  BY DEF c
<1>7. /\ FlashInv(nand') /\ Sane(dev', InUse \cup {c}) /\ FlashMatches(nand', dev')
      /\ c \in Chunks /\ c \notin InUse
      /\ nand'[c].kind = r.kind /\ (r.kind = "data" => nand'[c].id = r.id)
      /\ \A x \in InUse : nand'[x] = nand[x]
  <2>1. Up /\ Program(d, r) /\ r \in Record /\ r # Blank /\ ~Written(nand, NextChunk(d))
    BY <1>1, <1>2, <1>4, <1>5
  <2> HIDE DEF f
  <2> QED BY <1>1, <1>5, <1>6, <2>1, ProgramStep
<1>8. /\ f \in File /\ f.hdr_chunk = file.hdr_chunk
      /\ f.tree = [file.tree EXCEPT ![r.id] = c]
  BY <1>1, <1>4, <1>7, LocatedIs
<1>9. Stored(Job.id) \in 0 .. MaxId /\ Size(Job.id) \in 0 .. MaxId
  BY <1>1, <1>3, LogAssumption DEF Stored, Size, File, Ids
<1> HIDE DEF f
<1>10. /\ file' \in File /\ file'.hdr_chunk = file.hdr_chunk
       /\ file'.tree = [file.tree EXCEPT ![r.id] = c]
  BY <1>2, <1>8, <1>9 DEF File
<1>11. /\ op' \in Operation /\ op'.pc = "delete" /\ op'.old = file.tree[r.id]
       /\ op'.jobs # <<>>
  <2> DEFINE o == file.tree[Job.id]
  <2>1. o \in Chunks \cup {NoChunk} /\ o = file.tree[r.id]
    BY <1>1, <1>3, <1>4 DEF File
  <2>2. op' = [op EXCEPT !.pc = "delete", !.old = o]
    BY <1>2
  <2> HIDE DEF o
  <2> QED BY <1>1, <2>1, <2>2 DEF Operation, Calling
<1> QED BY <1>1, <1>2, <1>4, <1>7, <1>10, <1>11, PlaceStep

\* ... or refused.
LEMMA DataRefusedStep ==
    ASSUME IInv, op.pc = "program", Job.do = "data",
           NEW d, d = with_alloc_block(dev), DataRefused(d)
    PROVE  IInv'
<1> DEFINE filling == {k \in DOMAIN op.jobs :
                          op.jobs[k].do = "data" /\ op.jobs[k].base # -1}
           m == Cardinality(filling) + 1
           rest == SubSeq(op.jobs, m, Len(op.jobs))
           s == IF Job.base = -1 THEN Tail(op.jobs)
                ELSE <<PruneJob(Job.base), HdrJob(TRUE)>> \o rest
<1>1. /\ Up /\ op.old = NoChunk /\ op \in Operation /\ op.jobs # <<>>
      /\ file \in File /\ doubt \subseteq Ids /\ FlashInv(nand)
      /\ Sane(d, InUse) /\ FlashMatches(nand, d)
  BY WriteStart DEF IInv
<1>2. /\ dev' = d /\ file' = [file EXCEPT !.stored_size = Stored(Job.id)]
      /\ doubt' = IF Job.id > file.stored_size THEN doubt \cup {Job.id} ELSE doubt
      /\ Continue(s) /\ UNCHANGED nand
  BY DEF DataRefused, NextJob
<1>3. /\ op.jobs \in Seq(Jobs) /\ Job \in Jobs /\ Tail(op.jobs) \in Seq(Jobs)
  BY TheJob DEF Calling
<1>4. Job.id \in Ids /\ Job.base \in {-1} \cup 0 .. MaxId
  BY <1>3, JobFields
<1>5. rest \in Seq(Jobs)
  <2>1. /\ DOMAIN op.jobs = 1 .. Len(op.jobs) /\ Len(op.jobs) \in Nat
        /\ \A i \in 1 .. Len(op.jobs) : op.jobs[i] \in Jobs
    BY <1>3, LenProperties, ElementOfSeq
  <2>2. IsFiniteSet(filling)
    <3>1. IsFiniteSet(1 .. Len(op.jobs))
      BY <2>1, FS_Interval
    <3> QED BY <2>1, <3>1, FS_Subset
  <2>3. Cardinality(filling) \in Nat
    BY <2>2, FS_CardinalityType
  <2> HIDE DEF filling
  <2>4. m \in Int /\ Len(op.jobs) \in Int /\ m >= 1
    BY <2>1, <2>3
  <2> HIDE DEF m
  <2>5. \A i \in m .. Len(op.jobs) : op.jobs[i] \in Jobs
    BY <2>1, <2>4
  <2> QED BY <2>4, <2>5, SubSeqProperties
<1> HIDE DEF rest
<1>6. s \in Seq(Jobs)
  <2>1. CASE Job.base = -1
    BY <1>3, <2>1
  <2>2. CASE Job.base # -1
    <3>1. PruneJob(Job.base) \in Jobs /\ HdrJob(TRUE) \in Jobs
      BY <1>4, <2>2, JobTypes
    <3>2. <<PruneJob(Job.base), HdrJob(TRUE)>> \in Seq(Jobs)
      BY <3>1, JobSeqs
    <3> QED BY <1>5, <2>2, <3>2, JobSeqs
  <2> QED BY <2>1, <2>2
<1> HIDE DEF s
<1>7. /\ op' \in Operation /\ op'.old = NoChunk /\ op'.pc \in {"start", "idle"}
      /\ op'.pc = "start" => op'.jobs # <<>>
  BY <1>2, <1>6, ContinueOp
<1>8. file' \in File /\ file'.tree = file.tree /\ file'.hdr_chunk = file.hdr_chunk
  <2>1. Stored(Job.id) \in 0 .. MaxId
    BY <1>1, <1>4, LogAssumption DEF Stored, File, Ids
  <2> QED BY <1>1, <1>2, <2>1 DEF File
<1>9. doubt' \subseteq Ids
  BY <1>1, <1>2, <1>4
<1> QED BY <1>1, <1>2, <1>7, <1>8, <1>9, QuietStep DEF Calling

\* yaffs_update_oh(): a header is written.
LEMMA WriteHdrStep ==
    ASSUME IInv, WriteHdr
    PROVE  IInv'
<1> DEFINE d == with_alloc_block(dev)
           r == HdrChunk(file.stored_size, Job.is_shrink, 0)
           c == NextChunk(d)
<1>1. /\ op.pc = "program" /\ Job.do = "hdr" /\ CanAlloc(d, TRUE) /\ Program(d, r)
      /\ file' = Located(r, c)
      /\ op' = [op EXCEPT !.pc = "delete", !.old = file.hdr_chunk]
      /\ doubt' = {i \in doubt : i <= file.stored_size}
  BY DEF WriteHdr
<1>2. d = with_alloc_block(dev)
  OBVIOUS
<1> HIDE DEF d
<1>3. /\ Up /\ op.old = NoChunk /\ op \in Operation /\ op.jobs # <<>>
      /\ file \in File /\ doubt \subseteq Ids
      /\ Sane(d, InUse) /\ FlashMatches(nand, d)
      /\ d.alloc_block # NoBlock => ~Written(nand, NextChunk(d))
  BY <1>1, <1>2, WriteStart
<1>4. r \in Record /\ r # Blank /\ r.kind = "hdr"
  <2>1. Job.is_shrink \in BOOLEAN
    BY <1>1, TheJob, JobFields DEF Calling
  <2> QED BY <1>3, <2>1 DEF HdrChunk, Record, Blank, File
<1>5. d.alloc_block # NoBlock
  BY <1>1 DEF CanAlloc
<1> HIDE DEF r, c
<1>6. c = NextChunk(d)
  BY DEF c
<1>7. /\ FlashInv(nand') /\ Sane(dev', InUse \cup {c}) /\ FlashMatches(nand', dev')
      /\ c \in Chunks /\ c \notin InUse
      /\ nand'[c].kind = r.kind /\ (r.kind = "data" => nand'[c].id = r.id)
      /\ \A x \in InUse : nand'[x] = nand[x]
  BY <1>1, <1>3, <1>4, <1>5, <1>6, ProgramStep
<1>8. file' \in File /\ file'.hdr_chunk = c /\ file'.tree = file.tree
  BY <1>1, <1>3, <1>4, <1>7, LocatedIs
<1>9. op' \in Operation /\ op'.pc = "delete" /\ op'.old = file.hdr_chunk /\ op'.jobs # <<>>
  BY <1>1, <1>3 DEF Operation, Calling, File
<1>10. doubt' \subseteq Ids
  BY <1>1, <1>3
<1> QED BY <1>3, <1>4, <1>7, <1>8, <1>9, <1>10, PlaceStep

-----------------------------------------------------------------------------
(* A chunk is deleted.                                                     *)

Deleted(d, c) == chunk_del(d, c, TRUE)

\* yaffs_chunk_del(), and the erasure of the block it may have been the last
\* chunk of.
LEMMA DropChunk ==
    ASSUME IInv, Up, NEW d, Sane(d, InUse), FlashMatches(nand, d),
           NEW c \in InUse, c # file.hdr_chunk,
           NEW e, e = Deleted(d, c), NEW m, m = Erase(nand, d, e)
    PROVE  /\ FlashInv(m) /\ FlashMatches(m, e) /\ Sane(e, InUse \ {c})
           /\ \A x \in InUse \ {c} : m[x] = nand[x]
<1> DEFINE H == InUse \ {c}
           h == file.hdr_chunk
<1>1. /\ InUse \in SUBSET Chunks /\ FlashInv(nand)
      /\ h \in OfKind(nand, "hdr") /\ h \in H
  BY InUseParts DEF IInv
<1>2. Sane(e, H) /\ Stays(d, e)
  BY <1>1, DelSane DEF Deleted
<1>3. H \in SUBSET Chunks
  BY <1>1
<1>4. DevInv(d) /\ Healthy(d)
  BY DEF Sane
<1>5. h \in OfKind(nand, "hdr") /\ h \in H /\ FlashInv(nand)
  BY <1>1
<1> HIDE DEF H, h
<1>6. /\ FlashInv(m) /\ FlashMatches(m, e)
      /\ \A x \in H : m[x] = nand[x]
  <2> DEFINE k == e
             w == m
  <2>1. /\ Sane(k, H) /\ Stays(d, k) /\ w = Erase(nand, d, k)
    BY <1>2
  <2> HIDE DEF k, w
  <2>2. /\ FlashInv(w) /\ FlashMatches(w, k)
        /\ \A x \in H : w[x] = nand[x]
    BY <1>3, <1>4, <1>5, <2>1, ErasingStep
  <2> QED BY <2>2 DEF k, w
<1> QED BY <1>2, <1>6 DEF H

\* ... from the file too.
LEMMA DropStep ==
    ASSUME IInv, Up, NEW c \in InUse, c # file.hdr_chunk, op.old \in {NoChunk, c},
           FlashInv(nand'), FlashMatches(nand', dev'), Sane(dev', InUse \ {c}),
           \A x \in InUse \ {c} : nand'[x] = nand[x],
           file' \in File, file'.hdr_chunk = file.hdr_chunk,
           \A i \in Ids : file'.tree[i] = IF file.tree[i] = c THEN NoChunk ELSE file.tree[i],
           op' \in Operation, op'.old = NoChunk, op'.pc \in {"start", "idle", "collect"},
           op'.pc \in Calling => op'.jobs # <<>>, doubt' \subseteq Ids
    PROVE  IInv'
<1>1. /\ FileMatches(nand, file) /\ InUse \in SUBSET Chunks /\ file.hdr_chunk \in InUse
      /\ \A i \in Ids : file.tree[i] # NoChunk => file.tree[i] \in InUse
  BY InUseParts DEF IInv, Mounted
<1>2. InUse' = InUse \ {c}
  <2>1. InUse = ({file.tree[i] : i \in Ids} \cup {file.hdr_chunk, op.old}) \ {NoChunk}
    BY DEF InUse
  <2>2. InUse' = ({file'.tree[i] : i \in Ids} \cup {file.hdr_chunk, NoChunk}) \ {NoChunk}
    BY DEF InUse
  <2>3. ASSUME NEW x \in InUse \ {c} PROVE x \in InUse'
    BY <2>1, <2>2, <2>3
  <2>4. ASSUME NEW x \in InUse' PROVE x \in InUse \ {c}
    BY <2>1, <2>2, <2>4
  <2> QED BY <2>3, <2>4
<1>3. FileMatches(nand', file')
  <2>1. \A i \in Ids : file'.tree[i] # NoChunk =>
          nand'[file'.tree[i]].kind = "data" /\ nand'[file'.tree[i]].id = i
    BY <1>1 DEF FileMatches
  <2> QED BY <1>1, <2>1 DEF FileMatches
<1>4. OldInv' /\ dev' \in Device
  BY DEF OldInv, Sane, DevInv
<1> QED BY <1>2, <1>3, <1>4 DEF IInv, Mounted

\* yaffs_gc_process_chunk(): the original is deleted.
LEMMA GcDeleteStep ==
    ASSUME IInv, GcDelete
    PROVE  IInv'
<1> DEFINE n == dev.gc_chunk + 1
           d == [dev EXCEPT !.gc_chunk = n]
<1>1. /\ op.pc = "copied" /\ Up /\ op.old # NoChunk /\ op \in Operation /\ op.jobs # <<>>
      /\ file \in File /\ doubt \subseteq Ids /\ dev \in Device
      /\ Sane(dev, InUse) /\ FlashMatches(nand, dev)
      /\ op.old # file.hdr_chunk /\ \A i \in Ids : file.tree[i] # op.old
  BY DEF GcDelete, IInv, OldInv, Up, Calling, Mounted
<1>2. /\ dev' = chunk_del(d, op.old, TRUE) /\ nand' = Erase(nand, dev, dev')
      /\ op' = [op EXCEPT !.pc = "collect", !.old = NoChunk]
      /\ UNCHANGED <<file, doubt>>
  BY DEF GcDelete, history
<1>3. op.old \in InUse
  BY <1>1, InUseParts
<1>4. Sane(d, InUse) /\ FlashMatches(nand, d) /\ d.bi = dev.bi
  <2>1. n \in Nat
    BY <1>1 DEF Device
  <2> HIDE DEF n
  <2> QED BY <1>1, <2>1, PointersSane DEF Device
<1> HIDE DEF d
<1>5. nand' = Erase(nand, d, dev')
  BY <1>2, <1>4, SameErase
<1>6. /\ FlashInv(nand') /\ FlashMatches(nand', dev') /\ Sane(dev', InUse \ {op.old})
      /\ \A x \in InUse \ {op.old} : nand'[x] = nand[x]
  <2> DEFINE c == op.old
             e == dev'
             m == nand'
  <2>1. /\ Up /\ Sane(d, InUse) /\ FlashMatches(nand, d) /\ c \in InUse
        /\ c # file.hdr_chunk
    BY <1>1, <1>3, <1>4
  <2>2. e = Deleted(d, c) /\ m = Erase(nand, d, e)
    BY <1>2, <1>5 DEF Deleted
  <2> HIDE DEF c, e, m
  <2>3. /\ FlashInv(m) /\ FlashMatches(m, e) /\ Sane(e, InUse \ {c})
        /\ \A x \in InUse \ {c} : m[x] = nand[x]
    BY <2>1, <2>2, DropChunk
  <2> QED BY <2>3 DEF c, e, m
<1>7. op' \in Operation /\ op'.old = NoChunk /\ op'.pc = "collect" /\ op'.jobs # <<>>
  BY <1>1, <1>2 DEF Operation, Calling
<1> QED BY <1>1, <1>2, <1>3, <1>6, <1>7, DropStep

\* yaffs_wr_data_obj() and yaffs_update_oh(): the chunk that was replaced is
\* deleted.
LEMMA DeleteOldStep ==
    ASSUME IInv, DeleteOld
    PROVE  IInv'
<1> DEFINE d == IF op.old = NoChunk THEN dev ELSE chunk_del(dev, op.old, TRUE)
           b == file.hdr_chunk[1]
<1>1. /\ op.pc = "delete" /\ Up /\ op \in Operation /\ op.jobs # <<>>
      /\ file \in File /\ doubt \subseteq Ids /\ FlashInv(nand) /\ dev \in Device
      /\ Sane(dev, InUse) /\ FlashMatches(nand, dev)
      /\ op.old # NoChunk =>
            op.old # file.hdr_chunk /\ \A i \in Ids : file.tree[i] # op.old
  BY DEF DeleteOld, IInv, OldInv, Up, Calling, Mounted
<1>2. /\ dev' \in {d, mark_shrink_hdr(d, b)} /\ nand' = Erase(nand, dev, dev')
      /\ NextJob /\ UNCHANGED <<file, doubt>>
  BY DEF DeleteOld, history
<1>3. /\ op' \in Operation /\ op'.old = NoChunk /\ op'.pc \in {"start", "idle"}
      /\ op'.pc = "start" => op'.jobs # <<>>
  BY <1>1, <1>2, TheJob, ContinueOp DEF NextJob, Calling
<1>4. b \in Blocks
  BY <1>1, InUseParts, ChunkParts
<1>5. \A H, n : Sane(d, H) /\ FlashMatches(n, d) =>
         /\ Sane(dev', H) /\ FlashMatches(n, dev')
         /\ \A x \in Blocks : dev'.bi[x].block_state = d.bi[x].block_state
  <2> HIDE DEF d, b
  <2> TAKE H, n
  <2> HAVE Sane(d, H) /\ FlashMatches(n, d)
  <2>1. d \in Device
    BY DEF Sane, DevInv
  <2>2. CASE dev' = d
    BY <2>2
  <2>3. CASE dev' = mark_shrink_hdr(d, b)
    <3>1. Sane(dev', H) /\ FlashMatches(n, dev')
      BY <1>4, <2>3, MarkSane
    <3>2. \A x \in Blocks : dev'.bi[x].block_state = d.bi[x].block_state
      BY <1>4, <2>1, <2>3, MarkShrinkIs
    <3> QED BY <3>1, <3>2
  <2> QED BY <1>2, <2>2, <2>3
<1>6. (\A x \in Blocks : dev'.bi[x].block_state = d.bi[x].block_state) =>
        nand' = Erase(nand, dev, d)
  <2> HIDE DEF d
  <2> HAVE \A x \in Blocks : dev'.bi[x].block_state = d.bi[x].block_state
  <2>1. Erased(dev, dev') = Erased(dev, d)
    BY DEF Erased
  <2> QED BY <1>2, <2>1 DEF Erase
<1>7. CASE op.old = NoChunk
  <2>1. d = dev
    BY <1>7
  <2> HIDE DEF d
  <2>2. /\ Sane(dev', InUse) /\ FlashMatches(nand, dev') /\ nand' = Erase(nand, dev, dev)
    BY <1>1, <1>5, <1>6, <2>1
  <2>3. nand' = nand
    <3>1. Erased(dev, dev) = {}
      BY DEF Erased
    <3>2. nand \in [Chunks -> Record]
      BY <1>1 DEF FlashInv
    <3> QED BY <2>2, <3>1, <3>2 DEF Erase
  <2> QED BY <1>1, <1>2, <1>3, <1>7, <2>2, <2>3, QuietStep DEF Calling
<1>8. CASE op.old # NoChunk
  <2>1. d = Deleted(dev, op.old) /\ op.old \in InUse
    BY <1>1, <1>8, InUseParts DEF Deleted
  <2> HIDE DEF d
  <2> DEFINE m == Erase(nand, dev, d)
             H == InUse \ {op.old}
             c == op.old
  <2>0. c = op.old /\ d = Deleted(dev, c) /\ c \in InUse /\ m = Erase(nand, dev, d)
    BY <2>1
  <2> HIDE DEF m, c
  <2>2. /\ FlashInv(m) /\ FlashMatches(m, d) /\ Sane(d, InUse \ {c})
        /\ \A x \in InUse \ {c} : m[x] = nand[x]
    <3>1. Up /\ c # file.hdr_chunk /\ Sane(dev, InUse) /\ FlashMatches(nand, dev)
      BY <1>1, <1>8, <2>0
    <3> QED BY <2>0, <3>1, DropChunk
  <2> HIDE DEF H
  <2>3. Sane(dev', H) /\ FlashMatches(m, dev') /\ nand' = m
    BY <1>5, <1>6, <2>0, <2>2 DEF m, H
  <2> QED BY <1>1, <1>2, <1>3, <1>8, <2>0, <2>2, <2>3, DropStep DEF H, Calling
<1> QED BY <1>7, <1>8

\* A bounded set of numbers has a greatest one.
LEMMA GreatestNat ==
    ASSUME NEW S \in SUBSET Nat, S # {}, NEW m \in Nat, \A x \in S : x <= m
    PROVE  \E x \in S : \A y \in S : y <= x
<1> DEFINE T == {m - x : x \in S}
<1>1. T \in SUBSET Nat /\ T # {}
  <2>1. \A x \in S : x \in Nat /\ x <= m /\ m - x \in Nat
    OBVIOUS
  <2>2. PICK x \in S : TRUE
    OBVIOUS
  <2>3. m - x \in T
    OBVIOUS
  <2> QED BY <2>1, <2>3
<1>2. PICK t \in T : \A u \in T : t <= u
  <2> HIDE DEF T
  <2> QED BY <1>1, LeastNat
<1>3. PICK x \in S : t = m - x
  OBVIOUS
<1>4. \A y \in S : t <= m - y
  BY <1>2
<1> HIDE DEF T
<1>5. \A y \in S : y <= x
  BY <1>3, <1>4
<1> QED BY <1>5

\* yaffs_resize_file_down(): the last chunk goes.
LEMMA PruneStep ==
    ASSUME IInv, PruneChunk
    PROVE  IInv'
<1> DEFINE last == CHOOSE x \in ToPrune : \A y \in ToPrune : y <= x
           c == file.tree[last]
<1>1. /\ op.pc = "start" /\ Up /\ op.old = NoChunk /\ op \in Operation /\ op.jobs # <<>>
      /\ file \in File /\ doubt \subseteq Ids /\ file.tree \in [Ids -> Chunks \cup {NoChunk}]
      /\ Sane(dev, InUse) /\ FlashMatches(nand, dev) /\ FileMatches(nand, file)
  BY DEF PruneChunk, At, IInv, OldInv, Up, Calling, Mounted, File
<1>2. /\ ToPrune # {}
      /\ dev' = chunk_del(dev, c, TRUE)
      /\ file' = [file EXCEPT !.tree[last] = NoChunk]
      /\ nand' = Erase(nand, dev, dev')
      /\ doubt' \subseteq Ids /\ UNCHANGED op
  BY <1>1 DEF PruneChunk
<1>3. last \in ToPrune
  <2>1. ToPrune \in SUBSET Nat /\ \A x \in ToPrune : x <= MaxId
    BY LogAssumption DEF ToPrune, Ids
  <2>2. \E x \in ToPrune : \A y \in ToPrune : y <= x
    BY <1>2, <2>1, GreatestNat, LogAssumption
  <2> QED BY <2>2
<1> HIDE DEF last
<1>4. last \in Ids /\ c # NoChunk
  BY <1>3 DEF ToPrune
<1>5. c \in InUse /\ c # file.hdr_chunk
  BY <1>1, <1>4, InUseParts DEF FileMatches
<1>6. \A i \in Ids : file.tree[i] = c <=> i = last
  BY <1>1, <1>4 DEF FileMatches
<1>7. /\ file' \in File /\ file'.hdr_chunk = file.hdr_chunk
      /\ \A i \in Ids : file'.tree[i] = IF i = last THEN NoChunk ELSE file.tree[i]
  <2> DEFINE t == [file.tree EXCEPT ![last] = NoChunk]
  <2>1. /\ t \in [Ids -> Chunks \cup {NoChunk}]
        /\ \A i \in Ids : t[i] = IF i = last THEN NoChunk ELSE file.tree[i]
    BY <1>1, <1>4
  <2>2. file' = [file EXCEPT !.tree = t]
    BY <1>2
  <2> HIDE DEF t
  <2>3. file' \in File /\ file'.hdr_chunk = file.hdr_chunk /\ file'.tree = t
    BY <1>1, <2>1, <2>2 DEF File
  <2> QED BY <2>1, <2>3
<1> HIDE DEF c
<1>0. dev' = Deleted(dev, c) /\ nand' = Erase(nand, dev, dev')
  BY <1>2 DEF Deleted
<1>8. /\ FlashInv(nand') /\ FlashMatches(nand', dev') /\ Sane(dev', InUse \ {c})
      /\ \A x \in InUse \ {c} : nand'[x] = nand[x]
  BY <1>0, <1>1, <1>5, DropChunk
<1>9. \A i \in Ids : file'.tree[i] = IF file.tree[i] = c THEN NoChunk ELSE file.tree[i]
  BY <1>6, <1>7
<1> QED BY <1>1, <1>2, <1>5, <1>7, <1>8, <1>9, DropStep

\* yaffs_wr_data_obj().
LEMMA WriteDataStep ==
    ASSUME IInv, WriteData
    PROVE  IInv'
<1> DEFINE d == with_alloc_block(dev)
<1>1. op.pc = "program" /\ Job.do = "data"
  BY DEF WriteData
<1>2. IF CanAlloc(d, FALSE) THEN DataWritten(d) ELSE DataRefused(d)
  BY DEF WriteData
<1>3. d = with_alloc_block(dev)
  OBVIOUS
<1> HIDE DEF d
<1>4. CASE CanAlloc(d, FALSE)
  BY <1>1, <1>2, <1>3, <1>4, DataWrittenStep
<1>5. CASE ~CanAlloc(d, FALSE)
  BY <1>1, <1>2, <1>3, <1>5, DataRefusedStep
<1> QED BY <1>4, <1>5

-----------------------------------------------------------------------------
(* Power failure and mount.                                                *)

\* Nothing is left in RAM.
LEMMA CrashStep ==
    ASSUME IInv, Crash
    PROVE  IInv'
<1>1. /\ op' = [Idle EXCEPT !.pc = "down"] /\ dev' = FirstDev
      /\ file' = [tree |-> [i \in Ids |-> NoChunk], hdr_chunk |-> NoChunk,
                  file_size |-> 0, stored_size |-> 0]
      /\ UNCHANGED <<nand, doubt>>
  BY DEF Crash, history
<1>2. dev' \in Device
  BY <1>1, FirstSane
<1>3. file' \in File
  BY <1>1, LogAssumption DEF File
<1>4. op' \in Operation /\ op'.pc = "down" /\ op'.old = NoChunk
  <2> DEFINE s == <<>>
  <2>1. s \in Seq(Jobs)
    BY JobSeqs
  <2>2. op' = [pc |-> "down", jobs |-> s, old |-> NoChunk,
               aggressive |-> FALSE, max_copies |-> 0, max_tries |-> 0]
    BY <1>1 DEF Idle
  <2> HIDE DEF s
  <2> QED BY <2>1, <2>2 DEF Operation
<1> QED BY <1>1, <1>2, <1>3, <1>4 DEF IInv, OldInv, Calling, Up

\* Among written chunks the scan meets one first.
LEMMA NewestIs ==
    ASSUME NEW n, FlashInv(n), NEW S \in SUBSET Chunks, S # {},
           \A c \in S : Written(n, c)
    PROVE  \E h \in S : \A g \in S \ {h} : Newer(n, h, g)
<1>1. PICK m \in Nat : \A c \in Chunks : Written(n, c) => n[c].seq <= m
  BY DEF FlashInv
<1>2. \A c \in S : /\ n[c].seq \in Nat /\ n[c].seq <= m
                   /\ c[1] \in Blocks /\ c[2] \in Pages /\ c = <<c[1], c[2]>>
  BY <1>1, RecordParts, ChunkParts DEF FlashInv, Written
<1>3. PICK s \in S : \A c \in S : n[c].seq <= n[s].seq
  <2> DEFINE Q == {n[c].seq : c \in S}
  <2>1. Q \in SUBSET Nat /\ Q # {} /\ \A q \in Q : q <= m
    BY <1>2
  <2> HIDE DEF Q
  <2>2. PICK q \in Q : \A r \in Q : r <= q
    BY <2>1, GreatestNat
  <2> QED BY <2>2 DEF Q
<1> DEFINE T == {c \in S : n[c].seq = n[s].seq}
<1>4. PICK h \in T : \A c \in T : c[2] <= h[2]
  <2> DEFINE Q == {c[2] : c \in T}
  <2>1. Q \in SUBSET Nat /\ Q # {} /\ \A q \in Q : q <= ChunksPerBlock
    BY <1>2, GeometryAssumption DEF Pages
  <2> HIDE DEF Q
  <2>2. ChunksPerBlock \in Nat
    BY GeometryAssumption
  <2>3. PICK q \in Q : \A r \in Q : r <= q
    BY <2>1, <2>2, GreatestNat
  <2> QED BY <2>3 DEF Q
<1>5. ASSUME NEW g \in S \ {h}
      PROVE  Newer(n, h, g)
  <2>1. h \in S /\ g \in S /\ n[h].seq = n[s].seq /\ n[g].seq <= n[h].seq /\ g # h
    BY <1>3
  <2>2. CASE n[g].seq = n[h].seq
    <3>1. g \in T /\ g[2] <= h[2]
      BY <1>4, <2>1, <2>2
    <3>2. g[1] = h[1]
      BY <2>1, <2>2 DEF FlashInv
    <3>3. g[2] # h[2]
      BY <1>2, <2>1, <3>2
    <3> QED BY <1>2, <2>1, <2>2, <3>1, <3>3 DEF Newer, Pages
  <2>3. CASE n[g].seq # n[h].seq
    BY <1>2, <2>1, <2>3 DEF Newer
  <2> QED BY <2>2, <2>3
<1> QED BY <1>5

\* The header that is used.
LEMMA FoundHdrIs ==
    ASSUME NEW n, FlashInv(n)
    PROVE  FoundHdr(n) \in OfKind(n, "hdr") /\ OfKind(n, "hdr") \in SUBSET Chunks
<1> DEFINE S == OfKind(n, "hdr")
<1>1. /\ S \in SUBSET Chunks /\ S # {} /\ \A c \in S : Written(n, c)
  BY RecordParts DEF OfKind, FlashInv, Written
<1> HIDE DEF S
<1>2. \E h \in S : \A g \in S \ {h} : Newer(n, h, g)
  BY <1>1, NewestIs
<1>3. FoundHdr(n) \in S
  BY <1>2 DEF FoundHdr, S
<1> QED BY <1>1, <1>3 DEF S

\* The scan erases a block.
LEMMA ScanEraseStep ==
    ASSUME IInv, ScanErase
    PROVE  IInv'
<1>1. PICK b \in Stale(nand) :
        nand' = [c \in Chunks |-> IF c[1] = b THEN Blank ELSE nand[c]]
  BY DEF ScanErase
<1>2. op.pc = "down" /\ UNCHANGED <<dev, file, op, doubt>> /\ FlashInv(nand)
  BY DEF ScanErase, history, IInv
<1> DEFINE h == FoundHdr(nand)
<1>3. h \in OfKind(nand, "hdr") /\ h \in Chunks
  BY <1>2, FoundHdrIs
<1>4. h[1] # b
  <2>1. UsedBy(FoundFile(nand), b) = {} /\ FoundFile(nand).hdr_chunk = h
    BY DEF Stale, FoundFile
  <2> HIDE DEF h
  <2> QED BY <1>3, <2>1, ChunkParts DEF UsedBy
<1> HIDE DEF h
<1>5. FlashInv(nand')
  <2> DEFINE B == {b}
             m == nand'
  <2>1. m = [c \in Chunks |-> IF c[1] \in B THEN Blank ELSE nand[c]] /\ h[1] \notin B
    BY <1>1, <1>4
  <2> HIDE DEF B, m
  <2>2. FlashInv(m)
    BY <1>2, <1>3, <2>1, BlankBlocks
  <2> QED BY <2>2 DEF m
<1> QED BY <1>2, <1>5 DEF IInv, OldInv, Up, Calling

\* The scan makes a file of what it finds.
LEMMA FoundFileIs ==
    ASSUME NEW n, FlashInv(n), NEW f, f = FoundFile(n)
    PROVE  f \in File /\ FileMatches(n, f) /\ f.hdr_chunk \in Chunks
<1> DEFINE top == FoundHdr(n)
           kept == Kept(n, Cutting(n, top))
           tree == TreeOf(n, kept)
           ends == {n[top].size} \cup {n[c].id : c \in {x \in kept : Newer(n, x, top)}}
           size == SizeOf(n, kept, top)
<1>1. f = [tree |-> tree, hdr_chunk |-> top, file_size |-> size, stored_size |-> size]
  BY DEF FoundFile
<1>2. top \in Chunks /\ n[top].kind = "hdr"
  <2> HIDE DEF top
  <2>1. top \in OfKind(n, "hdr")
    BY FoundHdrIs DEF top
  <2> QED BY <2>1 DEF OfKind
<1>3. \A c \in kept : c \in Chunks /\ n[c].kind = "data"
  BY DEF Kept, OfKind
<1> HIDE DEF top, kept
<1>4. \A c \in Chunks : n[c] \in Record
  BY DEF FlashInv
<1>5. /\ tree \in [Ids -> Chunks \cup {NoChunk}]
      /\ \A i \in Ids : tree[i] # NoChunk => n[tree[i]].kind = "data" /\ n[tree[i]].id = i
  <2>1. \A i \in Ids : (tree[i] \in kept /\ n[tree[i]].id = i) \/ tree[i] = NoChunk
    BY DEF TreeOf
  <2>2. tree = [i \in Ids |-> tree[i]]
    BY DEF TreeOf
  <2> HIDE DEF tree
  <2> QED BY <1>3, <2>1, <2>2
<1>6. size \in 0 .. MaxId
  <2>1. /\ ends \in SUBSET (0 .. MaxId) /\ ends # {}
    BY <1>2, <1>3, <1>4, RecordParts, LogAssumption DEF Ids
  <2>2. size = CHOOSE e \in ends : \A m \in ends : m <= e
    BY DEF SizeOf
  <2> HIDE DEF ends, size
  <2>3. ends \in SUBSET Nat /\ MaxId \in Nat /\ \A x \in ends : x <= MaxId
    BY <2>1, LogAssumption
  <2>4. \E e \in ends : \A m \in ends : m <= e
    BY <2>1, <2>3, GreatestNat
  <2> QED BY <2>1, <2>2, <2>4
<1> HIDE DEF tree, size
<1>7. f.tree = tree /\ f.hdr_chunk = top /\ f \in File
  BY <1>1, <1>2, <1>5, <1>6 DEF File
<1>8. top # NoChunk
  BY <1>2 DEF Chunks, Blocks, NoChunk
<1> QED BY <1>2, <1>5, <1>7, <1>8 DEF FileMatches

\* The sequence number of a block is that of every chunk in it, zero if there is
\* none.
LEMMA SeqOfIs ==
    ASSUME NEW n, FlashInv(n), NEW b \in Blocks
    PROVE  /\ SeqOf(n, b) \in Nat
           /\ \A c \in Chunks : Written(n, c) /\ c[1] = b => SeqOf(n, b) = n[c].seq
           /\ SeqOf(n, b) # 0 => /\ <<b, 0>> \in Chunks /\ Written(n, <<b, 0>>)
                                 /\ n[<<b, 0>>].seq = SeqOf(n, b)
           /\ SeqOf(n, b) = 0 => \A c \in Chunks : c[1] = b => ~Written(n, c)
<1> DEFINE z == <<b, 0>>
<1>1. z \in Chunks /\ z[1] = b /\ 0 \in Pages
  BY GeometryAssumption DEF Chunks, Pages
<1>2. SeqOf(n, b) = IF n[z] = Blank THEN 0 ELSE n[z].seq
  BY DEF SeqOf
<1>3. ASSUME NEW c \in Chunks, Written(n, c), c[1] = b
      PROVE  Written(n, z)
  <2>1. c[2] \in Pages /\ c = <<b, c[2]>>
    BY <1>3, ChunkParts
  <2>2. CASE c[2] = 0
    BY <1>3, <2>1, <2>2
  <2>3. CASE c[2] # 0
    <3>1. 0 < c[2]
      BY <2>1, <2>3, GeometryAssumption DEF Pages
    <3> QED BY <1>1, <1>3, <3>1 DEF FlashInv
  <2> QED BY <2>2, <2>3
<1> HIDE DEF z
<1>4. n[z] # Blank => n[z].seq \in Nat /\ n[z].seq >= 1
  BY <1>1, RecordParts DEF FlashInv, Written
<1>5. SeqOf(n, b) \in Nat
  BY <1>2, <1>4
<1>6. \A c \in Chunks : Written(n, c) /\ c[1] = b => SeqOf(n, b) = n[c].seq
  BY <1>1, <1>2, <1>3 DEF FlashInv, Written
<1>7. SeqOf(n, b) # 0 => Written(n, z) /\ n[z].seq = SeqOf(n, b)
  BY <1>2 DEF Written
<1>8. SeqOf(n, b) = 0 => ~Written(n, z)
  BY <1>2, <1>4 DEF Written
<1> QED BY <1>1, <1>3, <1>5, <1>6, <1>7, <1>8 DEF z

\* The highest sequence number is at least that of any block.
LEMMA HighestSeqIs ==
    ASSUME NEW n, FlashInv(n)
    PROVE  HighestSeq(n) \in Nat /\ \A b \in Blocks : SeqOf(n, b) <= HighestSeq(n)
<1> DEFINE seqs == {SeqOf(n, b) : b \in Blocks}
<1>1. PICK m \in Nat : \A c \in Chunks : Written(n, c) => n[c].seq <= m
  BY DEF FlashInv
<1>2. ASSUME NEW b \in Blocks PROVE SeqOf(n, b) \in Nat /\ SeqOf(n, b) <= m
  <2>1. SeqOf(n, b) \in Nat
    BY SeqOfIs
  <2>2. CASE SeqOf(n, b) = 0
    BY <2>2
  <2>3. CASE SeqOf(n, b) # 0
    <3>1. PICK z \in Chunks : Written(n, z) /\ n[z].seq = SeqOf(n, b)
      BY <2>3, SeqOfIs
    <3> QED BY <1>1, <2>1, <3>1
  <2> QED BY <2>1, <2>2, <2>3
<1>3. 1 \in Blocks
  BY GeometryAssumption DEF Blocks
<1>4. seqs \in SUBSET Nat /\ seqs # {} /\ \A q \in seqs : q <= m
  BY <1>2, <1>3
<1>5. HighestSeq(n) = CHOOSE s \in seqs : \A t \in seqs : t <= s
  BY DEF HighestSeq
<1>6. \E s \in seqs : \A t \in seqs : t <= s
  <2> HIDE DEF seqs
  <2> QED BY <1>4, GreatestNat
<1>7. HighestSeq(n) \in seqs /\ \A t \in seqs : t <= HighestSeq(n)
  <2> HIDE DEF seqs
  <2> QED BY <1>5, <1>6
<1> QED BY <1>4, <1>7

\* What the scan makes of a block.
LEMMA FoundInfoIs ==
    ASSUME NEW n, FlashInv(n), NEW f, NEW b \in Blocks, NEW r, r = FoundInfo(n, f, b)
    PROVE  /\ r \in BlockInfo
           /\ SeqOf(n, b) = 0 => r.block_state = "EMPTY"
           /\ SeqOf(n, b) # 0 => r.block_state = "FULL"
           /\ r.seq_number = SeqOf(n, b)
           /\ r.pages_in_use = Cardinality(UsedBy(f, b))
           /\ r.soft_del_pages = 0 /\ r.needs_retiring = FALSE
<1> DEFINE st == IF SeqOf(n, b) = 0 THEN "EMPTY" ELSE "FULL"
           s == SeqOf(n, b)
           k == Cardinality(UsedBy(f, b))
           h == HasShrink(n, b)
<1>1. r = [EmptyBlockInfo EXCEPT !.block_state = st, !.seq_number = s,
                                 !.pages_in_use = k, !.has_shrink_hdr = h]
  BY DEF FoundInfo
<1>2. s \in Nat /\ st \in {"EMPTY", "FULL"}
  BY SeqOfIs
<1>3. k \in Int
  <2>1. UsedBy(f, b) \in SUBSET Pages
    BY DEF UsedBy
  <2> QED BY <2>1, PagesFinite
<1>4. h \in BOOLEAN
  BY DEF HasShrink
<1> HIDE DEF s, k, h
<1>5. r \in BlockInfo /\ r.block_state = st /\ r.seq_number = s /\ r.pages_in_use = k
      /\ r.soft_del_pages = 0 /\ r.needs_retiring = FALSE
  <2> HIDE DEF st
  <2>1. r = [block_state |-> st, pages_in_use |-> k, soft_del_pages |-> 0,
             needs_retiring |-> FALSE, gc_prioritise |-> FALSE,
             chunk_error_strikes |-> 0, skip_erased_check |-> FALSE,
             has_shrink_hdr |-> h, seq_number |-> s]
    BY <1>1 DEF EmptyBlockInfo
  <2> QED BY <1>2, <1>3, <1>4, <2>1 DEF BlockInfo, BlockStates
<1> QED BY <1>5 DEF s, k, st

\* What the scan makes of the device, field by field.
DevFields(n, f, d) ==
    /\ d \in Device
    /\ \A b \in Blocks : /\ d.bi[b] = FoundInfo(n, f, b)
                         /\ d.chunk_bits[b] = UsedBy(f, b)
    /\ d.n_free_chunks = Cardinality({c \in Chunks : c[2] \notin UsedBy(f, c[1])})
    /\ d.n_erased_blocks = Cardinality({b \in Blocks : SeqOf(n, b) = 0})
    /\ d.alloc_block = NoBlock /\ d.seq_number = HighestSeq(n)
    /\ d.gc_block = NoBlock /\ d.gc_dirtiest = NoBlock
    /\ d.oldest_dirty_seq = 0 /\ d.oldest_dirty_block = NoBlock

\* The device that a mount makes of the flash.
LEMMA FoundDevIs ==
    ASSUME NEW n, FlashInv(n), NEW f, NEW d, d = FoundDev(n, f)
    PROVE  DevFields(n, f, d)
<1> DEFINE bi == [b \in Blocks |-> FoundInfo(n, f, b)]
           bits == [b \in Blocks |-> UsedBy(f, b)]
           free == Cardinality({c \in Chunks : c[2] \notin UsedBy(f, c[1])})
           gone == Cardinality({b \in Blocks : SeqOf(n, b) = 0})
           next == IF \E b \in Blocks : HalfWritten(n, b)
                   THEN CHOOSE b \in Blocks : HalfWritten(n, b) ELSE 0
           high == HighestSeq(n)
<1>1. d = [bi |-> bi, chunk_bits |-> bits, n_free_chunks |-> free,
           n_erased_blocks |-> gone, alloc_block |-> NoBlock, alloc_page |-> 0,
           alloc_block_finder |-> next, seq_number |-> high,
           gc_block |-> NoBlock, gc_chunk |-> 0, gc_dirtiest |-> NoBlock,
           oldest_dirty_seq |-> 0, oldest_dirty_block |-> NoBlock]
  BY DEF FoundDev
<1>2. bi \in [Blocks -> BlockInfo] /\ \A b \in Blocks : bi[b] = FoundInfo(n, f, b)
  BY FoundInfoIs
<1>3. bits \in [Blocks -> SUBSET Pages] /\ \A b \in Blocks : bits[b] = UsedBy(f, b)
  BY DEF UsedBy
<1>4. free \in Int /\ gone \in Int
  BY ChunksFinite
<1>5. next \in Blocks \cup {0} /\ high \in Nat
  BY HighestSeqIs
<1> HIDE DEF bi, bits, free, gone, next, high
<1>6. /\ d \in Device /\ d.bi = bi /\ d.chunk_bits = bits /\ d.n_free_chunks = free
      /\ d.n_erased_blocks = gone /\ d.alloc_block = NoBlock /\ d.seq_number = high
      /\ d.gc_block = NoBlock /\ d.gc_dirtiest = NoBlock
      /\ d.oldest_dirty_seq = 0 /\ d.oldest_dirty_block = NoBlock
  BY <1>1, <1>2, <1>3, <1>4, <1>5 DEF Device
<1> QED BY <1>2, <1>3, <1>6 DEF free, gone, high, DevFields

\* What the scan makes of the device agrees with the flash, and with the file it
\* finds there.
LEMMA FoundDevSane ==
    ASSUME NEW n, FlashInv(n), NEW f, f \in File, FileMatches(n, f), f.hdr_chunk \in Chunks,
           NEW d, DevFields(n, f, d),
           NEW H, H = ({f.tree[i] : i \in Ids} \cup {f.hdr_chunk}) \ {NoChunk}
    PROVE  Sane(d, H) /\ FlashMatches(n, d)
<1>1. /\ d \in Device
      /\ \A b \in Blocks : /\ d.bi[b] = FoundInfo(n, f, b)
                           /\ d.chunk_bits[b] = UsedBy(f, b)
      /\ d.n_free_chunks = Cardinality({c \in Chunks : c[2] \notin UsedBy(f, c[1])})
      /\ d.n_erased_blocks = Cardinality({b \in Blocks : SeqOf(n, b) = 0})
      /\ d.alloc_block = NoBlock /\ d.seq_number = HighestSeq(n)
      /\ d.gc_block = NoBlock /\ d.gc_dirtiest = NoBlock
      /\ d.oldest_dirty_seq = 0 /\ d.oldest_dirty_block = NoBlock
  BY DEF DevFields
<1>2. ASSUME NEW b \in Blocks
      PROVE  /\ SeqOf(n, b) = 0 => d.bi[b].block_state = "EMPTY"
             /\ SeqOf(n, b) # 0 => d.bi[b].block_state = "FULL"
             /\ d.bi[b].seq_number = SeqOf(n, b)
             /\ d.bi[b].pages_in_use = Cardinality(UsedBy(f, b))
             /\ d.bi[b].soft_del_pages = 0 /\ d.bi[b].needs_retiring = FALSE
  <2> DEFINE r == d.bi[b]
  <2>1. r = FoundInfo(n, f, b)
    BY <1>1
  <2> HIDE DEF r
  <2>2. /\ SeqOf(n, b) = 0 => r.block_state = "EMPTY"
        /\ SeqOf(n, b) # 0 => r.block_state = "FULL"
        /\ r.seq_number = SeqOf(n, b)
        /\ r.pages_in_use = Cardinality(UsedBy(f, b))
        /\ r.soft_del_pages = 0 /\ r.needs_retiring = FALSE
    BY <2>1, FoundInfoIs
  <2> QED BY <2>2 DEF r
<1>3. \A b \in Blocks, p \in Pages : p \in UsedBy(f, b) <=> <<b, p>> \in H
  <2>1. \A b \in Blocks, p \in Pages : <<b, p>> # NoChunk
    BY DEF Blocks, NoChunk
  <2> QED BY <2>1 DEF UsedBy
<1>4. \A c \in H : c \in Chunks /\ Written(n, c)
  <2>1. f.tree \in [Ids -> Chunks \cup {NoChunk}]
    BY DEF File
  <2>2. \A c \in H : c \in Chunks
    BY <2>1
  <2>3. \A c \in H : n[c].kind # "blank"
    BY DEF FileMatches
  <2> QED BY <2>2, <2>3, RecordParts DEF Written, FlashInv
<1>5. \A b \in Blocks : SeqOf(n, b) \in Nat /\ SeqOf(n, b) <= HighestSeq(n)
  BY SeqOfIs, HighestSeqIs
<1>6. \A b \in Blocks : UsedBy(f, b) \in SUBSET Pages
  BY DEF UsedBy
<1>0. d.alloc_block = NoBlock /\ d.seq_number = HighestSeq(n) /\ d.oldest_dirty_seq = 0
  BY <1>1
<1>7. ASSUME NEW b \in Blocks
      PROVE  BlockInv(d, b)
  <2>0. b # NoBlock
    BY DEF Blocks, NoBlock
  <2>1. d.bi[b].block_state \in {"EMPTY", "FULL"} /\ b # d.alloc_block
    BY <1>0, <1>2, <2>0
  <2>2. d.bi[b].block_state = "EMPTY" => d.chunk_bits[b] = {}
    <3> SUFFICES ASSUME SeqOf(n, b) = 0, NEW p \in UsedBy(f, b)
                 PROVE  FALSE
      BY <1>1, <1>2
    <3>1. p \in Pages /\ <<b, p>> \in H
      BY <1>3, <1>6
    <3>2. <<b, p>> \in Chunks /\ <<b, p>>[1] = b /\ Written(n, <<b, p>>)
      BY <1>4, <3>1 DEF Chunks
    <3> QED BY <3>2, SeqOfIs
  <2>3. d.bi[b].block_state = "FULL" => d.bi[b].seq_number \in 1 .. d.seq_number
    <3> HAVE d.bi[b].block_state = "FULL"
    <3>1. SeqOf(n, b) # 0 /\ d.bi[b].seq_number = SeqOf(n, b)
      BY <1>2
    <3> QED BY <1>0, <1>5, <3>1, HighestSeqIs
  <2>4. d.bi[b].pages_in_use = Cardinality(d.chunk_bits[b])
    BY <1>1, <1>2
  <2> QED BY <1>1, <2>1, <2>2, <2>3, <2>4 DEF BlockInv, InUseStates
<1>8. Distinct(d)
  <2> SUFFICES ASSUME NEW a \in Blocks, NEW b \in Blocks,
                      SeqOf(n, a) # 0, SeqOf(n, b) # 0, SeqOf(n, a) = SeqOf(n, b)
               PROVE  a = b
    <3>1. \A x \in Blocks : d.bi[x].block_state \in InUseStates => SeqOf(n, x) # 0
      BY <1>2 DEF InUseStates
    <3>2. \A x \in Blocks : d.bi[x].seq_number = SeqOf(n, x)
      BY <1>2
    <3> QED BY <3>1, <3>2 DEF Distinct
  <2>1. /\ <<a, 0>> \in Chunks /\ Written(n, <<a, 0>>) /\ n[<<a, 0>>].seq = SeqOf(n, a)
        /\ <<b, 0>> \in Chunks /\ Written(n, <<b, 0>>) /\ n[<<b, 0>>].seq = SeqOf(n, b)
    BY SeqOfIs
  <2>2. <<a, 0>>[1] = <<b, 0>>[1]
    BY <2>1 DEF FlashInv
  <2> QED BY <2>2
<1>9. DevInv(d)
  <2>1. PointerInv(d)
    BY <1>1 DEF PointerInv
  <2> QED BY <1>1, <1>7, <1>8, <2>1 DEF DevInv
<1>10. Healthy(d)
  BY <1>2 DEF Healthy
<1>11. Owned(d, H)
  BY <1>1, <1>3 DEF Owned
<1>12. Count(d, H, {})
  <2>1. SoftCounted(d, {})
    <3>1. \A b \in Blocks : PagesOf({}, b) = {}
      BY DEF PagesOf
    <3> QED BY <1>2, <3>1, FS_EmptySet DEF SoftCounted
  <2>2. {c \in Chunks : c[2] \notin UsedBy(f, c[1])} = FreeOf(d, H)
    <3>1. \A b \in Blocks : d.bi[b].block_state \in Counted
      BY <1>2 DEF Counted
    <3>2. ASSUME NEW c \in Chunks
          PROVE  /\ d.bi[c[1]].block_state \in Counted
                 /\ c[2] \in UsedBy(f, c[1]) <=> c \in H
      <4>1. c[1] \in Blocks /\ c[2] \in Pages /\ c = <<c[1], c[2]>>
        BY ChunkParts
      <4> QED BY <1>3, <3>1, <4>1
    <3> QED BY <3>2 DEF FreeOf
  <2>3. {b \in Blocks : SeqOf(n, b) = 0} = EmptyBlocks(d)
    BY <1>2 DEF EmptyBlocks
  <2> QED BY <1>1, <2>1, <2>2, <2>3 DEF Count
<1>13. FlashMatches(n, d)
  <2>1. ASSUME NEW c \in Chunks, Written(n, c)
        PROVE  /\ d.bi[c[1]].block_state \in InUseStates
               /\ n[c].seq = d.bi[c[1]].seq_number /\ c[1] # d.alloc_block
    <3>1. c[1] \in Blocks
      BY ChunkParts
    <3>2. SeqOf(n, c[1]) = n[c].seq
      BY <2>1, <3>1, SeqOfIs
    <3>3. n[c].seq >= 1
      BY <2>1 DEF FlashInv
    <3>4. SeqOf(n, c[1]) # 0
      BY <3>2, <3>3
    <3>5. d.bi[c[1]].block_state = "FULL" /\ d.bi[c[1]].seq_number = n[c].seq
      BY <1>2, <3>1, <3>2, <3>4
    <3>6. c[1] # d.alloc_block
      BY <1>0, <3>1 DEF Blocks, NoBlock
    <3> QED BY <3>5, <3>6 DEF InUseStates
  <2> QED BY <1>1, <2>1 DEF FlashMatches
<1> QED BY <1>9, <1>10, <1>11, <1>12, <1>13 DEF Sane

\* The device is mounted again.
LEMMA MountStep ==
    ASSUME IInv, Mount
    PROVE  IInv'
<1> DEFINE f == FoundFile(nand)
           d == FoundDev(nand, f)
           H == ({f.tree[i] : i \in Ids} \cup {f.hdr_chunk}) \ {NoChunk}
<1>1. /\ file' = f /\ dev' = d /\ op' = Idle /\ nand' = nand
      /\ doubt' \subseteq Ids /\ FlashInv(nand)
  BY DEF Mount, IInv
<1>2. f = FoundFile(nand) /\ d = FoundDev(nand, f)
      /\ H = ({f.tree[i] : i \in Ids} \cup {f.hdr_chunk}) \ {NoChunk}
  OBVIOUS
<1> HIDE DEF f, d, H
<1>3. f \in File /\ FileMatches(nand, f) /\ f.hdr_chunk \in Chunks
  BY <1>1, <1>2, FoundFileIs
<1>4. Sane(d, H) /\ FlashMatches(nand, d)
  BY <1>1, <1>2, <1>3, FoundDevIs, FoundDevSane
<1>5. op' \in Operation /\ op'.pc = "idle" /\ op'.old = NoChunk
  <2> DEFINE s == <<>>
  <2>1. s \in Seq(Jobs)
    BY JobSeqs
  <2>2. op' = [pc |-> "idle", jobs |-> s, old |-> NoChunk,
               aggressive |-> FALSE, max_copies |-> 0, max_tries |-> 0]
    BY <1>1 DEF Idle
  <2> HIDE DEF s
  <2> QED BY <2>1, <2>2 DEF Operation
<1>6. InUse' = H
  BY <1>1, <1>2, <1>5 DEF InUse
<1>7. dev' \in Device
  BY <1>1, <1>4 DEF Sane, DevInv
<1> QED BY <1>1, <1>3, <1>4, <1>5, <1>6, <1>7 DEF IInv, OldInv, Mounted, Calling

-----------------------------------------------------------------------------
(* The theorems.                                                           *)

\* Every step keeps the invariant.
LEMMA NextIInv == IInv /\ [Next]_vars => IInv'
<1> SUFFICES ASSUME IInv, [Next]_vars PROVE IInv'
  OBVIOUS
<1>1. CASE UNCHANGED vars
  <2>1. UNCHANGED <<dev, nand, file, op, doubt>>
    BY <1>1 DEF vars, history
  <2> QED BY <2>1 DEF IInv, OldInv, Mounted, Up, InUse
<1>2. CASE Calls
  BY <1>2, CallsStep
<1>3. CASE Gc
  BY <1>3, CheckGcStep, GcCopyStep, GcDeleteStep, GcEndStep DEF Gc
<1>4. CASE Resizing
  BY <1>4, HoleStep, SizeStep, PruneStep DEF Resizing
<1>5. CASE Writing
  BY <1>5, SizeStep, WriteDataStep, WriteHdrStep, DeleteOldStep DEF Writing
<1>6. CASE Power
  BY <1>6, CrashStep, ScanEraseStep, MountStep DEF Power
<1> QED BY <1>1, <1>2, <1>3, <1>4, <1>5, <1>6 DEF Next

\* The invariant gives the types ...
LEMMA IInvTypes == IInv => TypeOK
<1> SUFFICES ASSUME IInv PROVE TypeOK
  OBVIOUS
<1>1. dev \in Device /\ nand \in [Chunks -> Record] /\ doubt \subseteq Ids
  BY DEF IInv, FlashInv
<1>2. /\ file.tree \in [Ids -> Chunks \cup {NoChunk}]
      /\ file.file_size \in 0 .. MaxId /\ file.stored_size \in 0 .. MaxId
  BY DEF IInv, File
<1>3. op.pc \in {"down", "idle", "start", "collect", "copied", "program", "delete"}
  BY DEF IInv, Operation, Calling
<1> QED BY <1>1, <1>2, <1>3 DEF TypeOK

\* ... and what the bitmaps, the counts and the flash have in common.
LEMMA IInvAccounted == IInv => Accounted
<1> SUFFICES ASSUME IInv, Up PROVE
      /\ \A b \in Blocks : dev.chunk_bits[b] = {c[2] : c \in {x \in InUse : x[1] = b}}
      /\ dev.n_free_chunks = Cardinality(Chunks \ InUse)
      /\ dev.n_erased_blocks = Cardinality(EmptyBlocks(dev))
      /\ \A c \in Chunks :
            dev.bi[c[1]].block_state = "EMPTY" \/ (c[1] = dev.alloc_block /\ c[2] >= dev.alloc_page)
            => nand[c] = Blank
  BY IInvTypes DEF Accounted
<1>1. /\ dev \in Device /\ Healthy(dev) /\ Owned(dev, InUse) /\ Count(dev, InUse, {})
      /\ FlashMatches(nand, dev) /\ InUse \in SUBSET Chunks
  BY InUseParts DEF IInv, Mounted, Sane
<1>2. ASSUME NEW b \in Blocks
      PROVE  dev.chunk_bits[b] = {c[2] : c \in {x \in InUse : x[1] = b}}
  <2>1. dev.chunk_bits[b] \in SUBSET Pages
    BY <1>1, FieldTypes
  <2>2. ASSUME NEW p \in dev.chunk_bits[b]
        PROVE  p \in {c[2] : c \in {x \in InUse : x[1] = b}}
    <3>1. <<b, p>> \in InUse /\ <<b, p>>[1] = b /\ <<b, p>>[2] = p
      BY <1>1, <2>1, <2>2 DEF Owned
    <3> QED BY <3>1
  <2>3. ASSUME NEW c \in InUse, c[1] = b
        PROVE  c[2] \in dev.chunk_bits[b]
    BY <1>1, <2>3, OwnedBit
  <2> QED BY <2>2, <2>3
<1>3. dev.n_free_chunks = Cardinality(Chunks \ InUse)
  <2>1. \A b \in Blocks : dev.bi[b].block_state \in Counted
    BY <1>1, FieldTypes DEF Healthy, BlockStates, Counted
  <2>2. FreeOf(dev, InUse) = Chunks \ InUse
    BY <2>1, ChunkParts DEF FreeOf
  <2> QED BY <1>1, <2>2 DEF Count
<1>4. dev.n_erased_blocks = Cardinality(EmptyBlocks(dev))
  BY <1>1 DEF Count
<1>5. ASSUME NEW c \in Chunks, nand[c] # Blank
      PROVE  dev.bi[c[1]].block_state # "EMPTY" /\ (c[1] = dev.alloc_block => ~(c[2] >= dev.alloc_page))
  <2>1. /\ dev.bi[c[1]].block_state \in InUseStates
        /\ c[1] = dev.alloc_block => c[2] < dev.alloc_page
    BY <1>1, <1>5 DEF FlashMatches, Written
  <2>2. c[2] \in Int /\ dev.alloc_page \in Int
    BY <1>1, ChunkParts, FieldTypes DEF Pages
  <2> QED BY <2>1, <2>2 DEF InUseStates
<1> QED BY <1>2, <1>3, <1>4, <1>5

\* In every state: what is programmed, which sequence number its block has, and
\* where the tree, hdr_chunk and the pages to be deleted point (yaffs_alloc_chunk,
\* yaffs_wr_data_obj, yaffs_update_oh, yaffs_gc_block, yaffs2_scan_backwards).
THEOREM LogInvariance == Spec => []IInv
<1> QED BY InitIInv, NextIInv, PTL DEF Spec

\* Every field of the device, the flash and the file keeps its type: whatever is
\* written, cut off, collected or found by a mount, no chunk is outside the
\* partition and no chunk id or size outside the file (struct yaffs_dev,
\* struct yaffs_file_var and the tags on flash).
THEOREM LogTypeCorrect == Spec => []TypeOK
<1> QED BY LogInvariance, IInvTypes, PTL

\* The chunk bitmaps and the counts of free chunks and of erased blocks agree with
\* the file at every moment the device is mounted, in the middle of a write, a
\* truncation or a collection and after any number of power failures; and a block
\* taken for erased, or a page still to be allocated, is blank on flash
\* (yaffs_alloc_chunk, yaffs_chunk_del, yaffs_gc_block, yaffs_block_became_dirty,
\* and yaffs2_scan_backwards, which computes all of it anew).
THEOREM LogAccounted == Spec => []Accounted
<1> QED BY LogInvariance, IInvAccounted, PTL
=============================================================================
