-------------------------- MODULE YaffsDeviceLemmas --------------------------
(***************************************************************************)
(* Lemmas about the operators of YaffsDevice, for every geometry the mount  *)
(* accepts.  They have three parts: the device keeps its type; the          *)
(* invariant DevInv of a device survives each operator; and what each       *)
(* operator makes of the counts of free chunks and erased blocks.           *)
(***************************************************************************)
EXTENDS YaffsDevice, FiniteSetTheorems, WellFoundedInduction, TLAPS

\* A non-empty set of natural numbers has a least element.
LEMMA LeastNat ==
    ASSUME NEW S \in SUBSET Nat, S # {}
    PROVE  \E x \in S : \A y \in S : x <= y
<1> DEFINE R == OpToRel(<, Nat)
<1>1. \E x \in S : \A y \in S : ~(<<y, x>> \in R)
  BY WFMin, NatLessThanWellFounded
<1>2. \A x, y \in S : <<y, x>> \in R <=> y < x
  BY DEF OpToRel
<1> HIDE DEF R
<1>3. \E x \in S : \A y \in S : ~(y < x)
  BY <1>1, <1>2, Zenon
<1> QED BY <1>3

\* A non-empty set has an element on which a natural-valued function is least.
LEMMA LeastValue ==
    ASSUME NEW S, S # {}, NEW f, \A x \in S : f[x] \in Nat
    PROVE  \E x \in S : \A y \in S : f[x] <= f[y]
<1> DEFINE T == {f[x] : x \in S}
<1>1. T \in SUBSET Nat /\ T # {}
  OBVIOUS
<1>2. PICK m \in T : \A n \in T : m <= n
  BY <1>1, LeastNat
<1> QED BY <1>2

-----------------------------------------------------------------------------
(* The operators on the device keep its type.                              *)

\* clear_oldest_dirty_seq() keeps the types.
LEMMA ClearOldestType ==
    ASSUME NEW d \in Device, NEW b \in Blocks
    PROVE  clear_oldest_dirty_seq(d, b) \in Device
BY DEF clear_oldest_dirty_seq, Device, NoBlock

\* update_oldest_dirty_seq() keeps the fields of the device in their types.
LEMMA UpdateOldestType ==
    ASSUME NEW d \in Device, NEW b \in Blocks
    PROVE  update_oldest_dirty_seq(d, b) \in Device
BY DEF update_oldest_dirty_seq, Device, BlockInfo

\* The device with a known oldest dirty block.
LEMMA SetOldestType ==
    ASSUME NEW d \in Device, NEW b \in Blocks
    PROVE  [d EXCEPT !.oldest_dirty_seq   = d.bi[b].seq_number,
                     !.oldest_dirty_block = b] \in Device
BY DEF Device, BlockInfo

\* The oldest of the full blocks with discarded pages exists if one does.
LEMMA FindOldestIs ==
    ASSUME NEW d \in Device, d.oldest_dirty_seq = 0, DirtyBlocks(d) # {}
    PROVE  \E b \in DirtyBlocks(d) :
              /\ \A y \in DirtyBlocks(d) : ~Older(d, y, b)
              /\ find_oldest_dirty_seq(d)
                   = [d EXCEPT !.oldest_dirty_seq = d.bi[b].seq_number,
                               !.oldest_dirty_block = b]
<1> DEFINE s == [x \in Blocks |-> d.bi[x].seq_number]
           P(x) == \A y \in DirtyBlocks(d) : ~Older(d, y, x)
           b == CHOOSE x \in DirtyBlocks(d) : P(x)
<1>1. /\ DirtyBlocks(d) \subseteq Blocks
      /\ \A x \in Blocks : s[x] = d.bi[x].seq_number /\ s[x] \in Nat
  BY DEF DirtyBlocks, Device, BlockInfo
<1>2. \E x \in DirtyBlocks(d) : P(x)
  <2> HIDE DEF s
  <2>1. PICK x \in DirtyBlocks(d) : \A y \in DirtyBlocks(d) : s[x] <= s[y]
    BY <1>1, LeastValue
  <2>2. \A y \in DirtyBlocks(d) : ~(s[y] < s[x])
    BY <1>1, <2>1
  <2> QED BY <1>1, <2>2 DEF Older
<1>3. b \in DirtyBlocks(d) /\ P(b)
  BY <1>2
<1>4. find_oldest_dirty_seq(d)
        = [d EXCEPT !.oldest_dirty_seq = d.bi[b].seq_number, !.oldest_dirty_block = b]
  BY DEF find_oldest_dirty_seq
<1> HIDE DEF b
<1> QED BY <1>3, <1>4

\* So does find_oldest_dirty_seq(): the block it chooses is one of the partition.
LEMMA FindOldestType ==
    ASSUME NEW d \in Device
    PROVE  find_oldest_dirty_seq(d) \in Device
<1>1. CASE d.oldest_dirty_seq # 0 \/ DirtyBlocks(d) = {}
  BY <1>1 DEF find_oldest_dirty_seq
<1>2. CASE ~(d.oldest_dirty_seq # 0 \/ DirtyBlocks(d) = {})
  <2>1. DirtyBlocks(d) \subseteq Blocks
    BY DEF DirtyBlocks
  <2> QED BY <1>2, <2>1, FindOldestIs, SetOldestType
<1> QED BY <1>1, <1>2

\* A device whose block table, and whose bitmaps, are replaced.
LEMMA BiType ==
    ASSUME NEW d \in Device, NEW b \in Blocks, NEW r \in BlockInfo
    PROVE  [d EXCEPT !.bi[b] = r] \in Device
BY DEF Device

\* A block marked bad keeps the types of its fields.
LEMMA DeadInfoType ==
    ASSUME NEW r \in BlockInfo
    PROVE  /\ DeadInfo(r) \in BlockInfo
           /\ DeadInfo(r).block_state = "DEAD"
           /\ DeadInfo(r).pages_in_use = r.pages_in_use
           /\ DeadInfo(r).soft_del_pages = r.soft_del_pages
BY DEF DeadInfo, BlockInfo, BlockStates

\* So does the device when a block is retired.
LEMMA RetireType ==
    ASSUME NEW d \in Device, NEW b \in Blocks
    PROVE  retire_block(d, b) \in Device
<1> DEFINE c == clear_oldest_dirty_seq(d, b)
<1>1. c \in Device /\ c.bi[b] \in BlockInfo
  BY ClearOldestType DEF Device
<1>2. retire_block(d, b) = [c EXCEPT !.bi[b] = DeadInfo(c.bi[b])]
  BY Zenon DEF retire_block
<1> HIDE DEF c
<1> QED BY <1>1, <1>2, DeadInfoType, BiType

\* An erased block keeps the types of its fields.
LEMMA CleanInfoType ==
    ASSUME NEW r \in BlockInfo
    PROVE  /\ CleanInfo(r) \in BlockInfo
           /\ CleanInfo(r).block_state = "EMPTY"
           /\ CleanInfo(r).pages_in_use = 0
           /\ CleanInfo(r).soft_del_pages = 0
<1>1. ASSUME NEW s \in BlockStates, NEW n \in Nat, NEW i \in Int, NEW j \in Int,
             NEW x \in BOOLEAN, NEW y \in BOOLEAN, NEW z \in BOOLEAN,
             NEW q,
             q = [r EXCEPT !.block_state = s, !.seq_number = n,
                           !.pages_in_use = i, !.soft_del_pages = j,
                           !.has_shrink_hdr = x, !.skip_erased_check = y,
                           !.gc_prioritise = z]
      PROVE  q \in BlockInfo
  BY <1>1 DEF BlockInfo
<1>3. CleanInfo(r) = [r EXCEPT !.block_state = "EMPTY", !.seq_number = 0,
                               !.pages_in_use = 0, !.soft_del_pages = 0,
                               !.has_shrink_hdr = FALSE,
                               !.skip_erased_check = TRUE,
                               !.gc_prioritise = FALSE]
  BY Zenon DEF CleanInfo
<1>4. /\ "EMPTY" \in BlockStates /\ 0 \in Nat /\ 0 \in Int
      /\ TRUE \in BOOLEAN /\ FALSE \in BOOLEAN
  BY DEF BlockStates
<1>5. CleanInfo(r) \in BlockInfo
  BY <1>1, <1>3, <1>4, Zenon
<1>6. /\ CleanInfo(r).block_state = "EMPTY" /\ CleanInfo(r).pages_in_use = 0
      /\ CleanInfo(r).soft_del_pages = 0
  <2> DEFINE q == CleanInfo(r)
  <2>1. q = [r EXCEPT !.block_state = "EMPTY", !.seq_number = 0,
                      !.pages_in_use = 0, !.soft_del_pages = 0,
                      !.has_shrink_hdr = FALSE,
                      !.skip_erased_check = TRUE,
                      !.gc_prioritise = FALSE]
    BY <1>3
  <2> HIDE DEF q
  <2>2. q.block_state = "EMPTY"
    BY <2>1 DEF BlockInfo
  <2>3. q.pages_in_use = 0
    BY <2>1 DEF BlockInfo
  <2>4. q.soft_del_pages = 0
    BY <2>1 DEF BlockInfo
  <2> QED BY <2>2, <2>3, <2>4 DEF q
<1> QED BY <1>5, <1>6

\* yaffs_block_became_dirty() keeps the types, whether the erasure works or not.
LEMMA BecameDirtyType ==
    ASSUME NEW d \in Device, NEW b \in Blocks, NEW eraseOk \in BOOLEAN
    PROVE  block_became_dirty(d, b, eraseOk) \in Device
<1> DEFINE c == [clear_oldest_dirty_seq(d, b) EXCEPT
                   !.gc_block    = IF @ = b THEN NoBlock ELSE @,
                   !.gc_dirtiest = IF @ = b THEN NoBlock ELSE @]
           r == CleanInfo(c.bi[b])
           f == [c.bi EXCEPT ![b] = r]
           g == [c.chunk_bits EXCEPT ![b] = {}]
           e == [c EXCEPT !.bi = f, !.chunk_bits = g,
                          !.n_erased_blocks = c.n_erased_blocks + 1]
           q == retire_block(c, b)
<1>1. c \in Device
  <2>1. clear_oldest_dirty_seq(d, b) \in Device
    BY ClearOldestType
  <2> DEFINE x == clear_oldest_dirty_seq(d, b)
  <2>2. x \in Device
    BY <2>1
  <2> HIDE DEF x
  <2>3. [x EXCEPT !.gc_block    = IF @ = b THEN NoBlock ELSE @,
                  !.gc_dirtiest = IF @ = b THEN NoBlock ELSE @] \in Device
    BY <2>2, ZenonT(40) DEF Device, NoBlock
  <2> QED BY <2>3 DEF x
<1>2. q \in Device
  BY <1>1, RetireType
<1>3. [q EXCEPT !.n_free_chunks = @ - ChunksPerBlock] \in Device
  <2> HIDE DEF q
  <2> QED BY <1>2, GeometryAssumption DEF Device
<1> HIDE DEF c
<1>4. r \in BlockInfo
  <2>1. c.bi[b] \in BlockInfo
    BY <1>1 DEF Device
  <2> QED BY <2>1, CleanInfoType
<1>5. f \in [Blocks -> BlockInfo] /\ g \in [Blocks -> SUBSET Pages]
        /\ c.n_erased_blocks + 1 \in Int
  <2> HIDE DEF r
  <2> QED BY <1>1, <1>4 DEF Device
<1>6. e \in Device
  <2> HIDE DEF f, g
  <2> QED BY <1>1, <1>5 DEF Device
<1>7. block_became_dirty(d, b, eraseOk) \in
        {[q EXCEPT !.n_free_chunks = @ - ChunksPerBlock], e}
  <2>1. [c EXCEPT !.bi[b] = r, !.chunk_bits[b] = {}, !.n_erased_blocks = @ + 1] = e
    OBVIOUS
  <2> QED BY <2>1, Zenon DEF block_became_dirty, c
<1> QED BY <1>3, <1>6, <1>7

\* yaffs_chunk_del() keeps the types, even when it erases the block.
LEMMA ChunkDelType ==
    ASSUME NEW d \in Device, NEW c \in Chunks, NEW eraseOk \in BOOLEAN
    PROVE  chunk_del(d, c, eraseOk) \in Device
<1> DEFINE b == c[1]
           u == update_oldest_dirty_seq(d, b)
           r == [u.bi[b] EXCEPT !.pages_in_use = @ - 1]
           f == [u.bi EXCEPT ![b] = r]
           g == [u.chunk_bits EXCEPT ![b] = @ \ {c[2]}]
           e == [u EXCEPT !.n_free_chunks = @ + 1, !.chunk_bits = g, !.bi = f]
<1>0. b \in Blocks
  BY DEF Chunks
<1>1. u \in Device
  BY <1>0, UpdateOldestType
<1>2. chunk_del(d, c, eraseOk) \in {e, block_became_dirty(e, b, eraseOk)}
  BY DEF chunk_del
<1> HIDE DEF b, u
<1>3. r \in BlockInfo
  BY <1>0, <1>1, SMTT(30) DEF Device, BlockInfo
<1>4. f \in [Blocks -> BlockInfo] /\ g \in [Blocks -> SUBSET Pages]
        /\ u.n_free_chunks + 1 \in Int
  <2> HIDE DEF r
  <2> QED BY <1>0, <1>1, <1>3 DEF Device
<1>5. e \in Device
  <2> HIDE DEF f, g
  <2> QED BY <1>1, <1>4 DEF Device
<1> HIDE DEF e
<1> QED BY <1>0, <1>2, <1>5, BecameDirtyType

\* yaffs_soft_del_chunk() keeps the types.
LEMMA SoftDelType ==
    ASSUME NEW d \in Device, NEW c \in Chunks
    PROVE  soft_del_chunk(d, c) \in Device
<1> DEFINE b == c[1]
           r == [d.bi[b] EXCEPT !.soft_del_pages = @ + 1]
           f == [d.bi EXCEPT ![b] = r]
           e == [d EXCEPT !.bi = f, !.n_free_chunks = @ + 1]
<1>0. b \in Blocks
  BY DEF Chunks
<1>1. soft_del_chunk(d, c) = update_oldest_dirty_seq(e, b)
  <2>1. [d EXCEPT !.bi[c[1]].soft_del_pages = @ + 1, !.n_free_chunks = @ + 1] = e
    OBVIOUS
  <2> QED BY <2>1, Zenon DEF soft_del_chunk
<1> HIDE DEF b
<1>2. r \in BlockInfo
  BY <1>0 DEF Device, BlockInfo
<1>3. f \in [Blocks -> BlockInfo] /\ d.n_free_chunks + 1 \in Int
  <2> HIDE DEF r
  <2> QED BY <1>0, <1>2 DEF Device
<1>4. e \in Device
  <2> HIDE DEF f
  <2> QED BY <1>3 DEF Device
<1> HIDE DEF e
<1> QED BY <1>0, <1>1, <1>4, UpdateOldestType

\* A block struck by an error keeps the types of its fields.
LEMMA StruckInfoType ==
    ASSUME NEW r \in BlockInfo
    PROVE  /\ StruckInfo(r) \in BlockInfo
           /\ StruckInfo(r).block_state = r.block_state
           /\ StruckInfo(r).pages_in_use = r.pages_in_use
           /\ StruckInfo(r).soft_del_pages = r.soft_del_pages
           /\ StruckInfo(r).seq_number = r.seq_number
<1> DEFINE s == r.chunk_error_strikes + 1
           t == r.needs_retiring \/ s > 3
<1>1. s \in Nat /\ t \in BOOLEAN
  BY DEF BlockInfo
<1>2. StruckInfo(r) = [r EXCEPT !.gc_prioritise = TRUE,
                                !.chunk_error_strikes = s, !.needs_retiring = t]
  BY DEF StruckInfo
<1> HIDE DEF s, t
<1> QED BY <1>1, <1>2 DEF BlockInfo

\* yaffs_handle_chunk_error() keeps the types.
LEMMA ChunkErrorType ==
    ASSUME NEW d \in Device, NEW b \in Blocks
    PROVE  handle_chunk_error(d, b) \in Device
<1>1. d.bi[b] \in BlockInfo
  BY DEF Device
<1>2. StruckInfo(d.bi[b]) \in BlockInfo
  BY <1>1, StruckInfoType
<1> QED BY <1>2, BiType DEF handle_chunk_error

\* yaffs_skip_rest_of_block() keeps the types.
LEMMA SkipRestType ==
    ASSUME NEW d \in Device
    PROVE  skip_rest_of_block(d) \in Device
<1>1. CASE d.alloc_block # NoBlock /\ d.bi[d.alloc_block].block_state = "ALLOCATING"
  <2> DEFINE b == d.alloc_block
             r == [d.bi[b] EXCEPT !.block_state = "FULL"]
             f == [d.bi EXCEPT ![b] = r]
  <2>1. b \in Blocks /\ NoBlock \in Blocks \cup {NoBlock}
    BY <1>1 DEF Device
  <2>2. [d EXCEPT !.bi[b].block_state = "FULL", !.alloc_block = NoBlock]
          = [d EXCEPT !.bi = f, !.alloc_block = NoBlock]
    OBVIOUS
  <2>3. d.bi[b] \in BlockInfo
    BY <2>1 DEF Device
  <2>4. r \in BlockInfo
    <3> DEFINE q == d.bi[b]
    <3> HIDE DEF q
    <3>1. [q EXCEPT !.block_state = "FULL"] \in BlockInfo
      BY <2>3 DEF q, BlockInfo, BlockStates
    <3> QED BY <3>1 DEF q
  <2>5. f \in [Blocks -> BlockInfo]
    <3> HIDE DEF r
    <3> QED BY <2>1, <2>4 DEF Device
  <2>6. [d EXCEPT !.bi = f, !.alloc_block = NoBlock] \in Device
    <3> HIDE DEF f
    <3> QED BY <2>1, <2>5 DEF Device
  <2> QED BY <1>1, <2>2, <2>6 DEF skip_rest_of_block
<1> QED BY <1>1 DEF skip_rest_of_block

\* yaffs_handle_chunk_wr_error() keeps the types: it deletes the chunk of an
\* allocated block.
LEMMA WrErrorType ==
    ASSUME NEW d \in Device, NEW c \in Chunks,
           NEW erasedOk \in BOOLEAN, NEW eraseOk \in BOOLEAN
    PROVE  handle_chunk_wr_error(d, c, erasedOk, eraseOk) \in Device
<1> DEFINE b == c[1]
           e == handle_chunk_error(d, b)
           r == [e.bi[b] EXCEPT !.needs_retiring = @ \/ erasedOk]
           f == [e EXCEPT !.bi[b] = r]
<1>0. b \in Blocks
  BY DEF Chunks
<1>1. e \in Device
  BY <1>0, ChunkErrorType
<1>2. handle_chunk_wr_error(d, c, erasedOk, eraseOk)
        = skip_rest_of_block(chunk_del(f, c, eraseOk))
  BY DEF handle_chunk_wr_error
<1> HIDE DEF e
<1>3. r \in BlockInfo
  <2> DEFINE q == e.bi[b]
             t == q.needs_retiring \/ erasedOk
  <2>1. q \in BlockInfo
    BY <1>0, <1>1 DEF Device
  <2>2. t \in BOOLEAN
    OBVIOUS
  <2>3. [q EXCEPT !.needs_retiring = t] \in BlockInfo
    <3> HIDE DEF q, t
    <3> QED BY <2>1, <2>2 DEF BlockInfo
  <2> QED BY <2>3
<1>4. f \in Device
  BY <1>0, <1>1, <1>3, BiType
<1> HIDE DEF f
<1>5. chunk_del(f, c, eraseOk) \in Device
  BY <1>4, ChunkDelType
<1> QED BY <1>2, <1>5, SkipRestType

\* The search makes one erased block the allocating block, or leaves the device
\* alone.
LEMMA FindAllocBlockIs ==
    ASSUME NEW d \in Device
    PROVE  \/ find_alloc_block(d) = d
           \/ \E b \in EmptyBlocks(d) : find_alloc_block(d) =
                [d EXCEPT !.bi[b] = [@ EXCEPT !.block_state = "ALLOCATING",
                                              !.seq_number  = d.seq_number + 1],
                          !.seq_number = @ + 1, !.n_erased_blocks = @ - 1,
                          !.alloc_block_finder = b, !.alloc_block = b]
<1> DEFINE D(x) == SearchDistance(d.alloc_block_finder, x)
           P(x) == \A y \in EmptyBlocks(d) : D(x) <= D(y)
           b == CHOOSE x \in EmptyBlocks(d) : P(x)
<1>1. CASE d.n_erased_blocks < 1 \/ EmptyBlocks(d) = {}
  BY <1>1 DEF find_alloc_block
<1>2. CASE ~(d.n_erased_blocks < 1 \/ EmptyBlocks(d) = {})
  <2>1. EmptyBlocks(d) \subseteq Blocks /\ \A x \in Blocks : D(x) \in Nat
    BY GeometryAssumption DEF EmptyBlocks, Device, SearchDistance, Blocks
  <2>2. \E x \in EmptyBlocks(d) : P(x)
    <3> DEFINE g == [x \in Blocks |-> D(x)]
    <3>1. \E x \in EmptyBlocks(d) : \A y \in EmptyBlocks(d) : g[x] <= g[y]
      <4>1. \A x \in EmptyBlocks(d) : g[x] \in Nat
        BY <2>1
      <4> HIDE DEF g
      <4> QED BY <1>2, <4>1, LeastValue
    <3> QED BY <2>1, <3>1
  <2>3. b \in EmptyBlocks(d)
    BY <2>2
  <2>4. find_alloc_block(d) =
          [d EXCEPT !.bi[b] = [@ EXCEPT !.block_state = "ALLOCATING",
                                        !.seq_number  = d.seq_number + 1],
                    !.seq_number = @ + 1, !.n_erased_blocks = @ - 1,
                    !.alloc_block_finder = b, !.alloc_block = b]
    BY <1>2, Zenon DEF find_alloc_block
  <2> HIDE DEF b
  <2> QED BY <2>3, <2>4
<1> QED BY <1>1, <1>2

\* find_alloc_block() keeps the types: the block found is one of the partition.
LEMMA FindAllocType ==
    ASSUME NEW d \in Device
    PROVE  find_alloc_block(d) \in Device
<1> DEFINE n == d.seq_number + 1
           m == d.n_erased_blocks - 1
<1>1. CASE find_alloc_block(d) = d
  BY <1>1
<1>2. CASE find_alloc_block(d) # d
  <2>1. PICK b \in EmptyBlocks(d) : find_alloc_block(d) =
          [d EXCEPT !.bi[b] = [@ EXCEPT !.block_state = "ALLOCATING",
                                        !.seq_number  = d.seq_number + 1],
                    !.seq_number = @ + 1, !.n_erased_blocks = @ - 1,
                    !.alloc_block_finder = b, !.alloc_block = b]
    BY <1>2, FindAllocBlockIs
  <2> DEFINE r == [d.bi[b] EXCEPT !.block_state = "ALLOCATING", !.seq_number = n]
             f == [d.bi EXCEPT ![b] = r]
             e == [d EXCEPT !.bi = f, !.seq_number = n, !.n_erased_blocks = m,
                            !.alloc_block_finder = b, !.alloc_block = b]
  <2>2. b \in Blocks
    BY DEF EmptyBlocks
  <2>3. find_alloc_block(d) = e
    <3>1. [d EXCEPT !.bi[b] = [@ EXCEPT !.block_state = "ALLOCATING",
                                        !.seq_number  = d.seq_number + 1],
                    !.seq_number = @ + 1, !.n_erased_blocks = @ - 1,
                    !.alloc_block_finder = b, !.alloc_block = b] = e
      OBVIOUS
    <3> QED BY <2>1, <3>1
  <2>4. r \in BlockInfo
    <3> DEFINE q == d.bi[b]
    <3>1. q \in BlockInfo /\ n \in Nat
      BY <2>2 DEF Device
    <3>2. [q EXCEPT !.block_state = "ALLOCATING", !.seq_number = n] \in BlockInfo
      <4> HIDE DEF q, n
      <4> QED BY <3>1 DEF BlockInfo, BlockStates
    <3> QED BY <3>2
  <2>5. f \in [Blocks -> BlockInfo] /\ n \in Nat /\ m \in Int
    <3> HIDE DEF r
    <3> QED BY <2>2, <2>4 DEF Device
  <2>6. e \in Device
    <3> HIDE DEF f, n, m
    <3> QED BY <2>2, <2>5 DEF Device
  <2> QED BY <2>3, <2>6
<1> QED BY <1>1, <1>2

\* So does the first half of yaffs_alloc_chunk().
LEMMA WithAllocType ==
    ASSUME NEW d \in Device
    PROVE  with_alloc_block(d) \in Device
<1> DEFINE x == find_alloc_block(d)
<1>1. x \in Device
  BY FindAllocType
<1>2. [x EXCEPT !.alloc_page = 0] \in Device
  <2> HIDE DEF x
  <2> QED BY <1>1 DEF Device
<1> QED BY <1>2 DEF with_alloc_block

\* A block with one more page in use keeps the types of its fields.
LEMMA TakenInfoType ==
    ASSUME NEW r \in BlockInfo, NEW filled \in BOOLEAN
    PROVE  /\ TakenInfo(r, filled) \in BlockInfo
           /\ TakenInfo(r, filled).block_state
                = IF filled THEN "FULL" ELSE r.block_state
           /\ TakenInfo(r, filled).pages_in_use = r.pages_in_use + 1
           /\ TakenInfo(r, filled).soft_del_pages = r.soft_del_pages
           /\ TakenInfo(r, filled).seq_number = r.seq_number
<1> DEFINE i == r.pages_in_use + 1
           s == IF filled THEN "FULL" ELSE r.block_state
<1>1. i \in Int /\ s \in BlockStates
  BY DEF BlockInfo, BlockStates
<1>2. TakenInfo(r, filled) = [r EXCEPT !.pages_in_use = i, !.block_state = s]
  BY DEF TakenInfo, BlockInfo
<1> HIDE DEF i, s
<1>3. /\ TakenInfo(r, filled) \in BlockInfo
      /\ TakenInfo(r, filled).block_state = s
      /\ TakenInfo(r, filled).pages_in_use = i
      /\ TakenInfo(r, filled).soft_del_pages = r.soft_del_pages
      /\ TakenInfo(r, filled).seq_number = r.seq_number
  BY <1>1, <1>2 DEF BlockInfo
<1> QED BY <1>3 DEF i, s

\* yaffs_alloc_chunk() keeps the types: the page taken is one of the block,
\* because alloc_page has not reached its end.
LEMMA TakePageType ==
    ASSUME NEW d \in Device, d.alloc_block # NoBlock, d.alloc_page \in Pages
    PROVE  take_page(d) \in Device /\ NextChunk(d) \in Chunks
<1> DEFINE b == d.alloc_block
           p == d.alloc_page
           filled == p + 1 >= ChunksPerBlock
           r == TakenInfo(d.bi[b], filled)
           c == d.chunk_bits[b] \cup {p}
           n == d.n_free_chunks - 1
           a == IF filled THEN NoBlock ELSE b
           f == [d.bi EXCEPT ![b] = r]
           g == [d.chunk_bits EXCEPT ![b] = c]
           e == [d EXCEPT !.bi[b] = r, !.chunk_bits[b] = c, !.alloc_page = p + 1,
                          !.n_free_chunks = n, !.alloc_block = a]
           k == [d EXCEPT !.bi = f, !.chunk_bits = g, !.alloc_page = p + 1,
                          !.n_free_chunks = n, !.alloc_block = a]
<1>1. b \in Blocks /\ p \in Pages /\ d.bi[b] \in BlockInfo
  BY DEF Device
<1>2. take_page(d) = e
  BY Zenon DEF take_page
<1>3. r \in BlockInfo
  <2>1. filled \in BOOLEAN
    BY DEF filled
  <2> HIDE DEF filled, b
  <2> QED BY <1>1, <2>1, TakenInfoType
<1>4. c \in SUBSET Pages /\ n \in Int /\ a \in Blocks \cup {NoBlock}
  BY <1>1 DEF Device
<1> HIDE DEF b, p, r, c, n, a
<1>5. f \in [Blocks -> BlockInfo] /\ g \in [Blocks -> SUBSET Pages] /\ p + 1 \in Nat
  BY <1>1, <1>3, <1>4 DEF Device, Pages
<1>6. e = k
  OBVIOUS
<1>7. k \in Device
  <2> HIDE DEF f, g
  <2> QED BY <1>4, <1>5 DEF Device
<1>8. NextChunk(d) \in Chunks
  BY <1>1 DEF NextChunk, Chunks, b, p
<1> QED BY <1>2, <1>6, <1>7, <1>8

\* The head of yaffs_gc_block() keeps the types.
LEMMA GcEntryType ==
    ASSUME NEW d \in Device, NEW b \in Blocks, NEW eraseOk \in BOOLEAN
    PROVE  GcBlockEntry(d, b, eraseOk) \in Device
<1> DEFINE q == d.bi[b]
           r == CollectedInfo(d.bi[b])
           f == [d.bi EXCEPT ![b] = r]
           e == [d EXCEPT !.bi = f, !.gc_block = b]
<1>1. [d EXCEPT !.bi[b] = CollectedInfo(@), !.gc_block = b] = e
  OBVIOUS
<1>2. GcBlockEntry(d, b, eraseOk) \in {e, block_became_dirty(e, b, eraseOk)}
  BY <1>1, Zenon DEF GcBlockEntry
<1>3. q \in BlockInfo
  BY DEF Device
<1>4. r \in BlockInfo
  <2>1. CollectedInfo(q) \in BlockInfo
    <3> HIDE DEF q
    <3> QED BY <1>3 DEF CollectedInfo, BlockInfo, BlockStates
  <2> QED BY <2>1
<1>5. f \in [Blocks -> BlockInfo]
  <2> HIDE DEF r
  <2> QED BY <1>4 DEF Device
<1>6. e \in Device
  <2> HIDE DEF f
  <2> QED BY <1>5 DEF Device
<1> HIDE DEF e
<1> QED BY <1>2, <1>6, BecameDirtyType

-----------------------------------------------------------------------------
(* What the operators change.                                              *)

\* Forgetting the oldest dirty block changes nothing but the oldest dirty pair.
LEMMA ClearOldestEffect ==
    ASSUME NEW d \in Device, NEW b \in Blocks,
           NEW e, e = clear_oldest_dirty_seq(d, b)
    PROVE  /\ e.bi = d.bi /\ e.chunk_bits = d.chunk_bits
           /\ e.n_free_chunks = d.n_free_chunks
           /\ e.n_erased_blocks = d.n_erased_blocks
           /\ e.alloc_block = d.alloc_block /\ e.alloc_page = d.alloc_page
           /\ e.seq_number = d.seq_number
           /\ e.gc_block = d.gc_block /\ e.gc_chunk = d.gc_chunk
           /\ e.gc_dirtiest = d.gc_dirtiest
           /\ e.oldest_dirty_seq = IF d.bi[b].seq_number = d.oldest_dirty_seq
                                   THEN 0 ELSE d.oldest_dirty_seq
           /\ e.oldest_dirty_block = IF d.bi[b].seq_number = d.oldest_dirty_seq
                                     THEN NoBlock ELSE d.oldest_dirty_block
BY DEF clear_oldest_dirty_seq, Device

\* What retiring a block changes: its own state, and the oldest dirty sequence
\* number if it was that block's.
LEMMA RetireEffect ==
    ASSUME NEW d \in Device, NEW b \in Blocks,
           NEW e, e = retire_block(d, b)
    PROVE  /\ \A x \in Blocks \ {b} : e.bi[x] = d.bi[x]
           /\ e.bi[b].block_state = "DEAD"
           /\ e.bi[b].pages_in_use = d.bi[b].pages_in_use
           /\ e.bi[b].soft_del_pages = d.bi[b].soft_del_pages
           /\ e.chunk_bits = d.chunk_bits
           /\ e.n_free_chunks = d.n_free_chunks
           /\ e.n_erased_blocks = d.n_erased_blocks
           /\ e.alloc_block = d.alloc_block /\ e.alloc_page = d.alloc_page
           /\ e.seq_number = d.seq_number
           /\ e.gc_block = d.gc_block /\ e.gc_chunk = d.gc_chunk
           /\ e.gc_dirtiest = d.gc_dirtiest
           /\ e.oldest_dirty_seq = IF d.bi[b].seq_number = d.oldest_dirty_seq
                                   THEN 0 ELSE d.oldest_dirty_seq
           /\ e.oldest_dirty_block = IF d.bi[b].seq_number = d.oldest_dirty_seq
                                     THEN NoBlock ELSE d.oldest_dirty_block
<1> DEFINE c == clear_oldest_dirty_seq(d, b)
           r == DeadInfo(c.bi[b])
<1>1. c \in Device
  BY ClearOldestType
<1>2. c.bi = d.bi
  BY ClearOldestEffect
<1>3. e = [c EXCEPT !.bi[b] = r]
  BY Zenon DEF retire_block
<1>4. d.bi[b] \in BlockInfo
  BY DEF Device
<1>5. /\ r.block_state = "DEAD" /\ r.pages_in_use = d.bi[b].pages_in_use
      /\ r.soft_del_pages = d.bi[b].soft_del_pages
  BY <1>2, <1>4, DeadInfoType
<1> HIDE DEF r, c
<1>6. /\ e.bi = [c.bi EXCEPT ![b] = r]
      /\ e.chunk_bits = c.chunk_bits
      /\ e.n_free_chunks = c.n_free_chunks
      /\ e.n_erased_blocks = c.n_erased_blocks
      /\ e.alloc_block = c.alloc_block /\ e.alloc_page = c.alloc_page
      /\ e.seq_number = c.seq_number
      /\ e.gc_block = c.gc_block /\ e.gc_chunk = c.gc_chunk
      /\ e.gc_dirtiest = c.gc_dirtiest
      /\ e.oldest_dirty_seq = c.oldest_dirty_seq
      /\ e.oldest_dirty_block = c.oldest_dirty_block
  BY <1>1, <1>3 DEF Device
<1>7. /\ e.bi[b] = r /\ \A x \in Blocks \ {b} : e.bi[x] = d.bi[x]
  BY <1>1, <1>2, <1>6 DEF Device
<1> QED BY <1>5, <1>6, <1>7, ClearOldestEffect DEF c

\* Blocks other than b, and the allocation pointers, stay as they are.
SameElsewhere(d, e, b) ==
    /\ \A x \in Blocks \ {b} : e.bi[x] = d.bi[x]
    /\ e.alloc_block = d.alloc_block /\ e.alloc_page = d.alloc_page
    /\ e.seq_number = d.seq_number /\ e.gc_chunk = d.gc_chunk

\* What yaffs_block_became_dirty() changes: the block ends EMPTY or DEAD, and
\* n_erased_blocks or n_free_chunks follows.
LEMMA BecameDirtyEffect ==
    ASSUME NEW d \in Device, NEW b \in Blocks, NEW eraseOk \in BOOLEAN,
           d.chunk_bits[b] = {}, d.bi[b].pages_in_use = 0,
           NEW e, e = block_became_dirty(d, b, eraseOk)
    PROVE  /\ e \in Device /\ SameElsewhere(d, e, b)
           /\ e.bi[b].block_state \in {"EMPTY", "DEAD"}
           /\ e.bi[b].pages_in_use = 0
           /\ e.bi[b].soft_del_pages \in {0, d.bi[b].soft_del_pages}
           /\ e.chunk_bits = d.chunk_bits
           /\ e.n_erased_blocks = IF e.bi[b].block_state = "EMPTY"
                                  THEN d.n_erased_blocks + 1 ELSE d.n_erased_blocks
           /\ e.n_free_chunks = IF e.bi[b].block_state = "EMPTY"
                                THEN d.n_free_chunks
                                ELSE d.n_free_chunks - ChunksPerBlock
           /\ e.gc_block = IF d.gc_block = b THEN NoBlock ELSE d.gc_block
           /\ e.gc_dirtiest = IF d.gc_dirtiest = b THEN NoBlock ELSE d.gc_dirtiest
           /\ e.oldest_dirty_seq = IF d.bi[b].seq_number = d.oldest_dirty_seq
                                   THEN 0 ELSE d.oldest_dirty_seq
           /\ e.oldest_dirty_block = IF d.bi[b].seq_number = d.oldest_dirty_seq
                                     THEN NoBlock ELSE d.oldest_dirty_block
<1> DEFINE o == clear_oldest_dirty_seq(d, b)
           gb == IF o.gc_block = b THEN NoBlock ELSE o.gc_block
           gd == IF o.gc_dirtiest = b THEN NoBlock ELSE o.gc_dirtiest
           c == [o EXCEPT !.gc_block = gb, !.gc_dirtiest = gd]
           r == CleanInfo(c.bi[b])
           f == [c.bi EXCEPT ![b] = r]
           g == [c.chunk_bits EXCEPT ![b] = {}]
           k == [c EXCEPT !.bi = f, !.chunk_bits = g,
                          !.n_erased_blocks = c.n_erased_blocks + 1]
           q == retire_block(c, b)
           z == [q EXCEPT !.n_free_chunks = q.n_free_chunks - ChunksPerBlock]
<1>1. /\ o \in Device /\ o.bi = d.bi /\ o.chunk_bits = d.chunk_bits
      /\ o.n_free_chunks = d.n_free_chunks
      /\ o.n_erased_blocks = d.n_erased_blocks
      /\ o.alloc_block = d.alloc_block /\ o.alloc_page = d.alloc_page
      /\ o.seq_number = d.seq_number
      /\ o.gc_block = d.gc_block /\ o.gc_chunk = d.gc_chunk
      /\ o.gc_dirtiest = d.gc_dirtiest
      /\ o.oldest_dirty_seq = IF d.bi[b].seq_number = d.oldest_dirty_seq
                              THEN 0 ELSE d.oldest_dirty_seq
      /\ o.oldest_dirty_block = IF d.bi[b].seq_number = d.oldest_dirty_seq
                                THEN NoBlock ELSE d.oldest_dirty_block
  <2> HIDE DEF o
  <2> QED BY ClearOldestEffect, ClearOldestType DEF o
<1>2. e \in {z, k}
  <2>1. [o EXCEPT !.gc_block    = IF @ = b THEN NoBlock ELSE @,
                  !.gc_dirtiest = IF @ = b THEN NoBlock ELSE @] = c
    OBVIOUS
  <2>2. [c EXCEPT !.bi[b] = r, !.chunk_bits[b] = {}, !.n_erased_blocks = @ + 1] = k
    OBVIOUS
  <2>3. [q EXCEPT !.n_free_chunks = @ - ChunksPerBlock] = z
    OBVIOUS
  <2> QED BY <2>1, <2>2, <2>3, Zenon DEF block_became_dirty
<1>3. gb \in Blocks \cup {NoBlock} /\ gd \in Blocks \cup {NoBlock}
  BY <1>1 DEF Device
<1> HIDE DEF o, gb, gd
<1>4. /\ c \in Device /\ c.bi = o.bi /\ c.chunk_bits = o.chunk_bits
      /\ c.n_free_chunks = o.n_free_chunks
      /\ c.n_erased_blocks = o.n_erased_blocks
      /\ c.alloc_block = o.alloc_block /\ c.alloc_page = o.alloc_page
      /\ c.seq_number = o.seq_number
      /\ c.gc_block = gb /\ c.gc_chunk = o.gc_chunk
      /\ c.gc_dirtiest = gd
      /\ c.oldest_dirty_seq = o.oldest_dirty_seq
      /\ c.oldest_dirty_block = o.oldest_dirty_block
  BY <1>1, <1>3 DEF Device
<1>5. gb = (IF d.gc_block = b THEN NoBlock ELSE d.gc_block)
        /\ gd = (IF d.gc_dirtiest = b THEN NoBlock ELSE d.gc_dirtiest)
  BY <1>1 DEF gb, gd
<1> HIDE DEF c
<1>6. CASE e = k
  <2>1. /\ r \in BlockInfo /\ r.block_state = "EMPTY" /\ r.pages_in_use = 0
        /\ r.soft_del_pages = 0
    <3>1. c.bi[b] \in BlockInfo
      BY <1>4 DEF Device
    <3> QED BY <3>1, CleanInfoType
  <2> HIDE DEF r
  <2>2. f \in [Blocks -> BlockInfo] /\ f[b] = r /\ \A x \in Blocks \ {b} : f[x] = c.bi[x]
    BY <1>4, <2>1 DEF Device
  <2>3. g = d.chunk_bits
    BY <1>1, <1>4 DEF Device
  <2>4. c.n_erased_blocks + 1 \in Int
    BY <1>4 DEF Device
  <2> HIDE DEF f, g
  <2>5. /\ k.bi = f /\ k.chunk_bits = g
        /\ k.n_free_chunks = c.n_free_chunks
        /\ k.n_erased_blocks = c.n_erased_blocks + 1
        /\ k.alloc_block = c.alloc_block /\ k.alloc_page = c.alloc_page
        /\ k.seq_number = c.seq_number
        /\ k.gc_block = c.gc_block /\ k.gc_chunk = c.gc_chunk
        /\ k.gc_dirtiest = c.gc_dirtiest
        /\ k.oldest_dirty_seq = c.oldest_dirty_seq
        /\ k.oldest_dirty_block = c.oldest_dirty_block
    BY <1>4 DEF Device
  <2> HIDE DEF k
  <2>6. e \in Device
    BY BecameDirtyType
  <2>7. SameElsewhere(d, e, b)
    BY <1>1, <1>4, <1>6, <2>2, <2>5 DEF SameElsewhere
  <2>8. /\ e.bi[b].block_state = "EMPTY" /\ e.bi[b].pages_in_use = 0
        /\ e.bi[b].soft_del_pages = 0
        /\ e.chunk_bits = d.chunk_bits
    BY <1>6, <2>1, <2>2, <2>3, <2>5
  <2>9. /\ e.n_erased_blocks = d.n_erased_blocks + 1
        /\ e.n_free_chunks = d.n_free_chunks
        /\ e.gc_block = gb /\ e.gc_dirtiest = gd
    BY <1>1, <1>4, <1>6, <2>5
  <2>10. /\ e.oldest_dirty_seq = o.oldest_dirty_seq
         /\ e.oldest_dirty_block = o.oldest_dirty_block
    BY <1>4, <1>6, <2>5
  <2> QED BY <1>1, <1>5, <2>6, <2>7, <2>8, <2>9, <2>10
<1>7. CASE e = z
  <2> HIDE DEF r, f, g, k
  <2>1. /\ \A x \in Blocks \ {b} : q.bi[x] = c.bi[x]
        /\ q.bi[b].block_state = "DEAD"
        /\ q.bi[b].pages_in_use = c.bi[b].pages_in_use
        /\ q.bi[b].soft_del_pages = c.bi[b].soft_del_pages
        /\ q.chunk_bits = c.chunk_bits
        /\ q.n_free_chunks = c.n_free_chunks
        /\ q.n_erased_blocks = c.n_erased_blocks
        /\ q.alloc_block = c.alloc_block /\ q.alloc_page = c.alloc_page
        /\ q.seq_number = c.seq_number
        /\ q.gc_block = c.gc_block /\ q.gc_chunk = c.gc_chunk
        /\ q.gc_dirtiest = c.gc_dirtiest
        /\ q.oldest_dirty_seq = IF c.bi[b].seq_number = c.oldest_dirty_seq
                                THEN 0 ELSE c.oldest_dirty_seq
        /\ q.oldest_dirty_block = IF c.bi[b].seq_number = c.oldest_dirty_seq
                                  THEN NoBlock ELSE c.oldest_dirty_block
    <3>1. \A t : t = retire_block(c, b) =>
            /\ \A x \in Blocks \ {b} : t.bi[x] = c.bi[x]
            /\ t.bi[b].block_state = "DEAD"
            /\ t.bi[b].pages_in_use = c.bi[b].pages_in_use
            /\ t.bi[b].soft_del_pages = c.bi[b].soft_del_pages
            /\ t.chunk_bits = c.chunk_bits
            /\ t.n_free_chunks = c.n_free_chunks
            /\ t.n_erased_blocks = c.n_erased_blocks
            /\ t.alloc_block = c.alloc_block /\ t.alloc_page = c.alloc_page
            /\ t.seq_number = c.seq_number
            /\ t.gc_block = c.gc_block /\ t.gc_chunk = c.gc_chunk
            /\ t.gc_dirtiest = c.gc_dirtiest
            /\ t.oldest_dirty_seq = (IF c.bi[b].seq_number = c.oldest_dirty_seq
                                    THEN 0 ELSE c.oldest_dirty_seq)
            /\ t.oldest_dirty_block = IF c.bi[b].seq_number = c.oldest_dirty_seq
                                      THEN NoBlock ELSE c.oldest_dirty_block
      BY <1>4, RetireEffect
    <3> QED BY <3>1
  <2>2. q \in Device
    BY <1>4, RetireType
  <2> HIDE DEF q
  <2>3. /\ z.bi = q.bi /\ z.chunk_bits = q.chunk_bits
        /\ z.n_free_chunks = q.n_free_chunks - ChunksPerBlock
        /\ z.n_erased_blocks = q.n_erased_blocks
        /\ z.alloc_block = q.alloc_block /\ z.alloc_page = q.alloc_page
        /\ z.seq_number = q.seq_number
        /\ z.gc_block = q.gc_block /\ z.gc_chunk = q.gc_chunk
        /\ z.gc_dirtiest = q.gc_dirtiest
        /\ z.oldest_dirty_seq = q.oldest_dirty_seq
        /\ z.oldest_dirty_block = q.oldest_dirty_block
    BY <2>2 DEF Device
  <2>4. e \in Device
    BY BecameDirtyType
  <2>5. d.bi[b].seq_number \in Nat /\ d.oldest_dirty_seq \in Nat
    BY DEF Device, BlockInfo
  <2> HIDE DEF z
  <2>6. e.oldest_dirty_seq = (IF d.bi[b].seq_number = d.oldest_dirty_seq
                             THEN 0 ELSE d.oldest_dirty_seq)
        /\ e.oldest_dirty_block = IF d.bi[b].seq_number = d.oldest_dirty_seq
                                  THEN NoBlock ELSE d.oldest_dirty_block
    BY <1>1, <1>4, <1>7, <2>1, <2>3, <2>5
  <2>7. SameElsewhere(d, e, b)
    BY <1>1, <1>4, <1>7, <2>1, <2>3 DEF SameElsewhere
  <2>8. e.bi[b].block_state = "DEAD" /\ e.bi[b].pages_in_use = 0
          /\ e.bi[b].soft_del_pages = d.bi[b].soft_del_pages
    BY <1>1, <1>4, <1>7, <2>1, <2>3
  <2> QED BY <1>1, <1>4, <1>5, <1>7, <2>1, <2>3, <2>4, <2>6, <2>7, <2>8
<1> QED BY <1>2, <1>6, <1>7

-----------------------------------------------------------------------------
(* The invariant of a device.                                             *)

InUseStates == {"ALLOCATING", "FULL", "COLLECTING"}
Whole == {"FULL", "COLLECTING"}

\* Discarded pages, in a block being collected too.
HasDiscarded(d, b) == d.bi[b].block_state \in Whole /\ PagesUsed(d, b) < ChunksPerBlock

\* What is true of each block, between the steps of a call too.
BlockInv(d, b) ==
    /\ d.bi[b].block_state = "ALLOCATING" <=> b = d.alloc_block
    /\ d.bi[b].block_state = "COLLECTING" => b = d.gc_block
    /\ d.bi[b].block_state \notin InUseStates => d.chunk_bits[b] = {}
    /\ d.bi[b].block_state \in InUseStates => d.bi[b].seq_number \in 1 .. d.seq_number
    /\ d.bi[b].pages_in_use = Cardinality(d.chunk_bits[b])
    /\ HasDiscarded(d, b) /\ d.oldest_dirty_seq # 0 =>
            d.oldest_dirty_seq <= d.bi[b].seq_number

\* What is true of the blocks the device points at.
PointerInv(d) ==
    /\ d.alloc_block # NoBlock =>
            /\ d.alloc_page \in Pages
            /\ d.bi[d.alloc_block].seq_number = d.seq_number
            /\ \A p \in d.chunk_bits[d.alloc_block] : p < d.alloc_page
    /\ d.gc_block # NoBlock => d.bi[d.gc_block].block_state \in Whole
    /\ d.gc_dirtiest # NoBlock => d.bi[d.gc_dirtiest].block_state \in Whole
    /\ d.oldest_dirty_seq = 0 <=> d.oldest_dirty_block = NoBlock
    /\ d.oldest_dirty_block # NoBlock =>
            /\ d.bi[d.oldest_dirty_block].block_state \in Whole
            /\ d.bi[d.oldest_dirty_block].seq_number = d.oldest_dirty_seq

Distinct(d) ==
    \A a, b \in Blocks :
        /\ d.bi[a].block_state \in InUseStates
        /\ d.bi[b].block_state \in InUseStates
        /\ d.bi[a].seq_number = d.bi[b].seq_number
        => a = b

DevInv(d) ==
    /\ d \in Device
    /\ \A b \in Blocks : BlockInv(d, b)
    /\ PointerInv(d)
    /\ Distinct(d)

\* Every set of pages of a block is finite.
LEMMA PagesFinite ==
    ASSUME NEW S \in SUBSET Pages
    PROVE  IsFiniteSet(S) /\ Cardinality(S) \in Nat
<1>1. IsFiniteSet(Pages)
  BY GeometryAssumption, FS_Interval DEF Pages
<1> QED BY <1>1, FS_Subset, FS_CardinalityType

\* The types of the fields the invariant is about.
LEMMA FieldTypes ==
    ASSUME NEW d \in Device
    PROVE  /\ \A b \in Blocks :
                /\ d.bi[b] \in BlockInfo
                /\ d.bi[b].block_state \in BlockStates
                /\ d.bi[b].pages_in_use \in Int
                /\ d.bi[b].soft_del_pages \in Int
                /\ d.bi[b].seq_number \in Nat
                /\ d.chunk_bits[b] \in SUBSET Pages
           /\ d.alloc_block \in Blocks \cup {NoBlock} /\ d.alloc_page \in Nat
           /\ d.seq_number \in Nat /\ d.oldest_dirty_seq \in Nat
           /\ d.gc_block \in Blocks \cup {NoBlock}
           /\ d.gc_dirtiest \in Blocks \cup {NoBlock}
           /\ d.oldest_dirty_block \in Blocks \cup {NoBlock}
           /\ d.gc_chunk \in Nat
           /\ d.n_free_chunks \in Int /\ d.n_erased_blocks \in Int
BY DEF Device, BlockInfo

\* An erased or retired block leaves every pointer of the device.
LEMMA BecameDirtyInv ==
    ASSUME NEW d, DevInv(d), NEW b \in Blocks, NEW eraseOk \in BOOLEAN,
           d.chunk_bits[b] = {}, d.bi[b].block_state # "ALLOCATING",
           NEW e, e = block_became_dirty(d, b, eraseOk)
    PROVE  DevInv(e)
<1>1. d.bi[b].pages_in_use = 0
  BY FS_EmptySet DEF DevInv, BlockInv
<1>2. /\ e \in Device /\ SameElsewhere(d, e, b)
      /\ e.bi[b].block_state \in {"EMPTY", "DEAD"}
      /\ e.bi[b].pages_in_use = 0
      /\ e.chunk_bits = d.chunk_bits
      /\ e.gc_block = IF d.gc_block = b THEN NoBlock ELSE d.gc_block
      /\ e.gc_dirtiest = IF d.gc_dirtiest = b THEN NoBlock ELSE d.gc_dirtiest
      /\ e.oldest_dirty_seq = IF d.bi[b].seq_number = d.oldest_dirty_seq
                              THEN 0 ELSE d.oldest_dirty_seq
      /\ e.oldest_dirty_block = IF d.bi[b].seq_number = d.oldest_dirty_seq
                                THEN NoBlock ELSE d.oldest_dirty_block
  <2>1. d \in Device
    BY DEF DevInv
  <2> QED BY <1>1, <2>1, BecameDirtyEffect
<1>3. ASSUME NEW x \in Blocks
      PROVE  BlockInv(e, x)
  <2>1. CASE x = b
    BY <1>1, <1>2, <2>1 DEF DevInv, BlockInv, SameElsewhere, InUseStates, HasDiscarded, Whole
  <2>2. CASE x # b
    BY <1>2, <2>2 DEF DevInv, BlockInv, SameElsewhere, HasDiscarded, PagesUsed
  <2> QED BY <2>1, <2>2
<1>4. PointerInv(e)
  BY <1>2, FieldTypes DEF DevInv, BlockInv, PointerInv, SameElsewhere, NoBlock
<1>5. Distinct(e)
  BY <1>2 DEF DevInv, Distinct, SameElsewhere, InUseStates
<1> QED BY <1>2, <1>3, <1>4, <1>5 DEF DevInv

\* update_oldest_dirty_seq() changes nothing but the oldest dirty pair.
LEMMA UpdateOldestEffect ==
    ASSUME NEW d \in Device, NEW b \in Blocks,
           NEW e, e = update_oldest_dirty_seq(d, b)
    PROVE  /\ e.bi = d.bi /\ e.chunk_bits = d.chunk_bits
           /\ e.n_free_chunks = d.n_free_chunks
           /\ e.n_erased_blocks = d.n_erased_blocks
           /\ e.alloc_block = d.alloc_block /\ e.alloc_page = d.alloc_page
           /\ e.seq_number = d.seq_number
           /\ e.gc_block = d.gc_block /\ e.gc_chunk = d.gc_chunk
           /\ e.gc_dirtiest = d.gc_dirtiest
           /\ \/ /\ d.oldest_dirty_seq # 0
                 /\ d.oldest_dirty_seq > d.bi[b].seq_number
                 /\ e.oldest_dirty_seq = d.bi[b].seq_number
                 /\ e.oldest_dirty_block = b
              \/ /\ d.oldest_dirty_seq = 0 \/ d.oldest_dirty_seq <= d.bi[b].seq_number
                 /\ e.oldest_dirty_seq = d.oldest_dirty_seq
                 /\ e.oldest_dirty_block = d.oldest_dirty_block
<1>1. d.bi[b].seq_number \in Nat /\ d.oldest_dirty_seq \in Nat
  BY FieldTypes
<1> QED BY <1>1 DEF update_oldest_dirty_seq, Device

\* The allocator's pointers and all but one block stay as they are, and the
\* pages in use change only in that block.
Elsewhere(d, e, b) ==
    /\ SameElsewhere(d, e, b)
    /\ \A x \in Blocks \ {b} : e.chunk_bits[x] = d.chunk_bits[x]
    /\ e.gc_block # d.gc_block => d.gc_block = b /\ e.gc_block = NoBlock

\* Deleting a chunk that is in use: its bit goes, and nothing that the rest of
\* the device relies on.
LEMMA ChunkDelInv ==
    ASSUME NEW d, DevInv(d), NEW c \in Chunks, c[2] \in d.chunk_bits[c[1]],
           NEW eraseOk \in BOOLEAN,
           NEW e, e = chunk_del(d, c, eraseOk)
    PROVE  /\ DevInv(e)
           /\ Elsewhere(d, e, c[1])
           /\ e.chunk_bits[c[1]] = d.chunk_bits[c[1]] \ {c[2]}
           /\ c[1] = d.alloc_block => e.bi[c[1]].block_state = "ALLOCATING"
<1> DEFINE b == c[1]
           p == c[2]
           u == update_oldest_dirty_seq(d, b)
           i == u.bi[b].pages_in_use - 1
           n == u.n_free_chunks + 1
           r == [u.bi[b] EXCEPT !.pages_in_use = i]
           f == [u.bi EXCEPT ![b] = r]
           g == [u.chunk_bits EXCEPT ![b] = u.chunk_bits[b] \ {p}]
           m == [u EXCEPT !.n_free_chunks = n, !.chunk_bits = g, !.bi = f]
<1>0. b \in Blocks /\ p \in Pages /\ d \in Device
  BY DEF Chunks, DevInv
<1>1. u \in Device
  BY <1>0, UpdateOldestType
<1>2. e \in {m, block_became_dirty(m, b, eraseOk)}
        /\ (e # m => m.bi[b].pages_in_use = 0 /\ m.bi[b].block_state # "ALLOCATING")
  <2>1. [u EXCEPT !.n_free_chunks = @ + 1, !.chunk_bits[b] = @ \ {p},
                  !.bi[b].pages_in_use = @ - 1] = m
    OBVIOUS
  <2>2. e = IF /\ m.bi[b].pages_in_use = 0
               /\ ~m.bi[b].has_shrink_hdr
               /\ m.bi[b].block_state # "ALLOCATING"
            THEN block_became_dirty(m, b, eraseOk) ELSE m
    BY <2>1 DEF chunk_del
  <2> HIDE DEF m
  <2> QED BY <2>2
<1>3. p \in d.chunk_bits[b]
  OBVIOUS
<1>4. /\ u.bi = d.bi /\ u.chunk_bits = d.chunk_bits
      /\ u.alloc_block = d.alloc_block /\ u.alloc_page = d.alloc_page
      /\ u.seq_number = d.seq_number
      /\ u.gc_block = d.gc_block /\ u.gc_chunk = d.gc_chunk
      /\ u.gc_dirtiest = d.gc_dirtiest
      /\ \/ /\ d.oldest_dirty_seq # 0
            /\ d.oldest_dirty_seq > d.bi[b].seq_number
            /\ u.oldest_dirty_seq = d.bi[b].seq_number
            /\ u.oldest_dirty_block = b
         \/ /\ d.oldest_dirty_seq = 0 \/ d.oldest_dirty_seq <= d.bi[b].seq_number
            /\ u.oldest_dirty_seq = d.oldest_dirty_seq
            /\ u.oldest_dirty_block = d.oldest_dirty_block
  <2> HIDE DEF u, b
  <2> QED BY <1>0, UpdateOldestEffect DEF u
<1> HIDE DEF b, p, u
<1>5. u.bi[b] \in BlockInfo /\ i \in Int /\ n \in Int
  BY <1>0, <1>1 DEF Device, BlockInfo
<1> HIDE DEF i, n
<1>6. /\ r \in BlockInfo /\ r.pages_in_use = i
      /\ r.block_state = d.bi[b].block_state
      /\ r.soft_del_pages = d.bi[b].soft_del_pages
      /\ r.seq_number = d.bi[b].seq_number
  <2> DEFINE q == u.bi[b]
  <2>1. q \in BlockInfo /\ q = d.bi[b]
    BY <1>4, <1>5
  <2> HIDE DEF q
  <2>2. [q EXCEPT !.pages_in_use = i] \in
           {t \in BlockInfo : /\ t.pages_in_use = i /\ t.block_state = q.block_state
                              /\ t.soft_del_pages = q.soft_del_pages
                              /\ t.seq_number = q.seq_number}
    BY <1>5, <2>1 DEF BlockInfo
  <2> QED BY <2>1, <2>2 DEF q
<1> HIDE DEF r
<1>7. /\ f \in [Blocks -> BlockInfo] /\ f[b] = r
      /\ \A x \in Blocks \ {b} : f[x] = d.bi[x]
      /\ g \in [Blocks -> SUBSET Pages] /\ g[b] = d.chunk_bits[b] \ {p}
      /\ \A x \in Blocks \ {b} : g[x] = d.chunk_bits[x]
  BY <1>0, <1>1, <1>4, <1>6 DEF Device
<1> HIDE DEF f, g
<1>8. m \in Device
  BY <1>1, <1>5, <1>7 DEF Device
<1>9. /\ m.bi = f /\ m.chunk_bits = g
      /\ m.alloc_block = u.alloc_block /\ m.alloc_page = u.alloc_page
      /\ m.seq_number = u.seq_number
      /\ m.gc_block = u.gc_block /\ m.gc_chunk = u.gc_chunk
      /\ m.gc_dirtiest = u.gc_dirtiest
      /\ m.oldest_dirty_seq = u.oldest_dirty_seq
      /\ m.oldest_dirty_block = u.oldest_dirty_block
  BY <1>1 DEF Device
<1> HIDE DEF m
<1>10. i = Cardinality(g[b])
  <2>1. d.chunk_bits[b] \in SUBSET Pages
    BY <1>0, FieldTypes
  <2>2. Cardinality(d.chunk_bits[b] \ {p}) = Cardinality(d.chunk_bits[b]) - 1
    BY <1>3, <2>1, PagesFinite, FS_RemoveElement
  <2>3. d.bi[b].pages_in_use = Cardinality(d.chunk_bits[b])
    BY <1>0 DEF DevInv, BlockInv
  <2> QED BY <1>4, <1>7, <2>2, <2>3 DEF i
<1>11. d.bi[b].block_state \in InUseStates /\ d.bi[b].seq_number \in 1 .. d.seq_number
  BY <1>0, <1>3 DEF DevInv, BlockInv
<1>12. DevInv(m)
  <2>1. ASSUME NEW x \in Blocks
        PROVE  BlockInv(m, x)
    <3>1. BlockInv(d, x) /\ d.oldest_dirty_seq \in Nat /\ d.bi[x].seq_number \in Nat
            /\ d.seq_number \in Nat
      BY <1>0, FieldTypes DEF DevInv
    <3>2. CASE x = b
      <4>1. HasDiscarded(m, x) /\ m.oldest_dirty_seq # 0 =>
                m.oldest_dirty_seq <= m.bi[x].seq_number
        BY <1>4, <1>6, <1>7, <1>9, <3>1, <3>2
      <4> QED BY <1>4, <1>6, <1>7, <1>9, <1>10, <3>1, <3>2, <4>1 DEF BlockInv
    <3>3. CASE x # b
      <4>1. m.bi[x] = d.bi[x]
        BY <1>7, <1>9, <3>3
      <4>2. HasDiscarded(m, x) /\ m.oldest_dirty_seq # 0 =>
                m.oldest_dirty_seq <= m.bi[x].seq_number
        BY <1>4, <1>9, <1>11, <3>1, <4>1 DEF BlockInv, HasDiscarded, PagesUsed
      <4> QED BY <1>4, <1>7, <1>9, <3>1, <3>3, <4>1, <4>2 DEF BlockInv
    <3> QED BY <3>2, <3>3
  <2>2. \A x \in Blocks : /\ m.bi[x].block_state = d.bi[x].block_state
                           /\ m.bi[x].seq_number = d.bi[x].seq_number
                           /\ m.chunk_bits[x] \subseteq d.chunk_bits[x]
    BY <1>6, <1>7, <1>9
  <2>3. PointerInv(m)
    <3>1. /\ PointerInv(d) /\ \A x \in Blocks : BlockInv(d, x)
      BY DEF DevInv
    <3>2. /\ m.oldest_dirty_seq = 0 <=> m.oldest_dirty_block = NoBlock
          /\ m.oldest_dirty_block # NoBlock =>
                /\ m.bi[m.oldest_dirty_block].block_state \in Whole
                /\ m.bi[m.oldest_dirty_block].seq_number = m.oldest_dirty_seq
      <4>1. CASE u.oldest_dirty_block = d.oldest_dirty_block
                   /\ u.oldest_dirty_seq = d.oldest_dirty_seq
        BY <1>0, <1>9, <2>2, <3>1, <4>1, FieldTypes DEF PointerInv
      <4>2. CASE /\ d.oldest_dirty_seq # 0
                 /\ d.oldest_dirty_seq > d.bi[b].seq_number
                 /\ u.oldest_dirty_seq = d.bi[b].seq_number
                 /\ u.oldest_dirty_block = b
        <5>1. d.oldest_dirty_block \in Blocks
                /\ d.bi[d.oldest_dirty_block].seq_number <= d.seq_number
          <6>1. d.oldest_dirty_block \in Blocks
            BY <1>0, <3>1, <4>2, FieldTypes DEF PointerInv
          <6> QED BY <1>0, <3>1, <4>2, <6>1, FieldTypes
                  DEF PointerInv, BlockInv, Whole, InUseStates
        <5>2. d.bi[b].block_state # "ALLOCATING"
          BY <1>0, <3>1, <4>2, <5>1, FieldTypes DEF PointerInv, BlockInv, NoBlock, Blocks
        <5> QED BY <1>0, <1>9, <1>11, <2>2, <4>2, <5>2 DEF InUseStates, Whole, NoBlock, Blocks
      <4> QED BY <1>4, <4>1, <4>2
    <3> QED BY <1>0, <1>4, <1>9, <2>2, <3>1, <3>2, FieldTypes DEF PointerInv
  <2>4. Distinct(m)
    BY <2>2 DEF DevInv, Distinct
  <2> QED BY <1>8, <2>1, <2>3, <2>4 DEF DevInv
<1>13. Elsewhere(d, m, b) /\ m.chunk_bits[b] = d.chunk_bits[b] \ {p}
         /\ m.bi[b].block_state = d.bi[b].block_state
  BY <1>4, <1>6, <1>7, <1>9 DEF Elsewhere, SameElsewhere
<1>14. CASE e = m
  BY <1>0, <1>12, <1>13, <1>14 DEF DevInv, BlockInv, b, p
<1>15. CASE e # m
  <2>1. m.chunk_bits[b] = {} /\ m.bi[b].pages_in_use = 0
    <3>1. Cardinality(g[b]) = 0
      BY <1>2, <1>6, <1>7, <1>9, <1>10, <1>15
    <3>2. g[b] \in SUBSET Pages
      BY <1>0, <1>7
    <3> QED BY <1>2, <1>9, <1>15, <3>1, <3>2, PagesFinite, FS_EmptySet
  <2>2. DevInv(e)
    BY <1>0, <1>2, <1>12, <1>15, <2>1, BecameDirtyInv
  <2>3. SameElsewhere(m, e, b) /\ e.chunk_bits = m.chunk_bits
          /\ e.gc_block = IF m.gc_block = b THEN NoBlock ELSE m.gc_block
    BY <1>0, <1>2, <1>8, <1>15, <2>1, BecameDirtyEffect
  <2>4. b # d.alloc_block
    BY <1>0, <1>2, <1>13, <1>15 DEF DevInv, BlockInv
  <2> QED BY <1>13, <2>2, <2>3, <2>4 DEF Elsewhere, SameElsewhere, b, p
<1> QED BY <1>14, <1>15

\* The device differs only in what the invariant does not look at.
LEMMA AlikeInv ==
    ASSUME NEW d, DevInv(d), NEW e \in Device,
           \A x \in Blocks :
                /\ e.bi[x].block_state = d.bi[x].block_state
                /\ e.bi[x].pages_in_use = d.bi[x].pages_in_use
                /\ e.bi[x].soft_del_pages = d.bi[x].soft_del_pages
                /\ e.bi[x].seq_number = d.bi[x].seq_number
                /\ e.chunk_bits[x] = d.chunk_bits[x],
           e.alloc_block = d.alloc_block, e.alloc_page = d.alloc_page,
           e.seq_number = d.seq_number,
           e.gc_block = d.gc_block, e.gc_dirtiest \in {d.gc_dirtiest, NoBlock},
           e.oldest_dirty_seq = d.oldest_dirty_seq,
           e.oldest_dirty_block = d.oldest_dirty_block
    PROVE  DevInv(e)
<1>1. d \in Device
  BY DEF DevInv
<1>2. ASSUME NEW x \in Blocks
      PROVE  BlockInv(e, x)
  BY DEF DevInv, BlockInv, HasDiscarded, PagesUsed
<1>3. PointerInv(e)
  BY <1>1, FieldTypes DEF DevInv, PointerInv
<1>4. Distinct(e)
  BY DEF DevInv, Distinct
<1> QED BY <1>2, <1>3, <1>4 DEF DevInv

\* The entry of one block is replaced by one with the same counters.
LEMMA EntryInv ==
    ASSUME NEW d, DevInv(d), NEW b \in Blocks, NEW r \in BlockInfo,
           r.block_state = d.bi[b].block_state,
           r.pages_in_use = d.bi[b].pages_in_use,
           r.soft_del_pages = d.bi[b].soft_del_pages,
           r.seq_number = d.bi[b].seq_number,
           NEW e, e = [d EXCEPT !.bi[b] = r]
    PROVE  /\ DevInv(e) /\ Elsewhere(d, e, b)
           /\ e.chunk_bits = d.chunk_bits
           /\ e.bi[b] = r
<1> DEFINE f == [d.bi EXCEPT ![b] = r]
<1>1. d \in Device
  BY DEF DevInv
<1>2. e \in Device
  BY <1>1, BiType
<1>3. e = [d EXCEPT !.bi = f]
  OBVIOUS
<1>4. f[b] = r /\ \A x \in Blocks \ {b} : f[x] = d.bi[x]
  BY <1>1 DEF Device
<1> HIDE DEF f
<1>5. /\ e.bi = f /\ e.chunk_bits = d.chunk_bits
      /\ e.alloc_block = d.alloc_block /\ e.alloc_page = d.alloc_page
      /\ e.seq_number = d.seq_number
      /\ e.gc_block = d.gc_block /\ e.gc_chunk = d.gc_chunk
      /\ e.gc_dirtiest = d.gc_dirtiest
      /\ e.oldest_dirty_seq = d.oldest_dirty_seq
      /\ e.oldest_dirty_block = d.oldest_dirty_block
  BY <1>1, <1>3 DEF Device
<1>6. \A x \in Blocks :
        /\ e.bi[x].block_state = d.bi[x].block_state
        /\ e.bi[x].pages_in_use = d.bi[x].pages_in_use
        /\ e.bi[x].soft_del_pages = d.bi[x].soft_del_pages
        /\ e.bi[x].seq_number = d.bi[x].seq_number
        /\ e.chunk_bits[x] = d.chunk_bits[x]
  BY <1>4, <1>5
<1>7. DevInv(e)
  BY <1>2, <1>5, <1>6, AlikeInv
<1> QED BY <1>4, <1>5, <1>7 DEF Elsewhere, SameElsewhere

\* Striking a block keeps the device invariant.
LEMMA ChunkErrorInv ==
    ASSUME NEW d, DevInv(d), NEW b \in Blocks,
           NEW e, e = handle_chunk_error(d, b)
    PROVE  /\ DevInv(e) /\ Elsewhere(d, e, b) /\ e.chunk_bits = d.chunk_bits
           /\ e.bi[b].block_state = d.bi[b].block_state
<1> DEFINE r == StruckInfo(d.bi[b])
<1>1. d \in Device /\ d.bi[b] \in BlockInfo
  BY FieldTypes DEF DevInv
<1>2. CASE d.bi[b].gc_prioritise
  BY <1>2 DEF handle_chunk_error, Elsewhere, SameElsewhere
<1>3. CASE ~d.bi[b].gc_prioritise
  <2>1. e = [d EXCEPT !.bi[b] = r]
    BY <1>3 DEF handle_chunk_error
  <2>2. /\ r \in BlockInfo
        /\ r.block_state = d.bi[b].block_state
        /\ r.pages_in_use = d.bi[b].pages_in_use
        /\ r.soft_del_pages = d.bi[b].soft_del_pages
        /\ r.seq_number = d.bi[b].seq_number
    BY <1>1, StruckInfoType
  <2> HIDE DEF r
  <2> QED BY <2>1, <2>2, EntryInv
<1> QED BY <1>2, <1>3

\* The allocating block becomes full.  It is the newest, so it is no older
\* than the oldest block with discarded pages.
LEMMA SkipRestInv ==
    ASSUME NEW d, DevInv(d),
           NEW e, e = skip_rest_of_block(d)
    PROVE  /\ DevInv(e) /\ e.chunk_bits = d.chunk_bits
           /\ e.gc_block = d.gc_block /\ e.gc_chunk = d.gc_chunk
<1> DEFINE b == d.alloc_block
           r == [d.bi[b] EXCEPT !.block_state = "FULL"]
           f == [d.bi EXCEPT ![b] = r]
<1>1. d \in Device
  BY DEF DevInv
<1>2. e \in Device
  BY <1>1, SkipRestType
<1>3. CASE ~(b # NoBlock /\ d.bi[b].block_state = "ALLOCATING")
  BY <1>3 DEF skip_rest_of_block
<1>4. CASE b # NoBlock /\ d.bi[b].block_state = "ALLOCATING"
  <2>1. b \in Blocks
    BY <1>1, <1>4, FieldTypes
  <2>2. e = [d EXCEPT !.bi = f, !.alloc_block = NoBlock]
    BY <1>4 DEF skip_rest_of_block
  <2>3. /\ r.block_state = "FULL"
        /\ r.pages_in_use = d.bi[b].pages_in_use
        /\ r.soft_del_pages = d.bi[b].soft_del_pages
        /\ r.seq_number = d.bi[b].seq_number
    <3> DEFINE q == d.bi[b]
    <3>1. q \in BlockInfo
      BY <1>1, <2>1, FieldTypes
    <3> HIDE DEF q
    <3>2. [q EXCEPT !.block_state = "FULL"] \in
            {t \in BlockInfo : /\ t.block_state = "FULL"
                               /\ t.pages_in_use = q.pages_in_use
                               /\ t.soft_del_pages = q.soft_del_pages
                               /\ t.seq_number = q.seq_number}
      BY <3>1 DEF BlockInfo, BlockStates
    <3> QED BY <3>2 DEF q
  <2> HIDE DEF r
  <2>4. f[b] = r /\ \A x \in Blocks \ {b} : f[x] = d.bi[x]
    BY <1>1, <2>1 DEF Device
  <2> HIDE DEF f
  <2>5. /\ e.bi = f /\ e.chunk_bits = d.chunk_bits
        /\ e.alloc_block = NoBlock /\ e.seq_number = d.seq_number
        /\ e.gc_block = d.gc_block /\ e.gc_chunk = d.gc_chunk
        /\ e.gc_dirtiest = d.gc_dirtiest
        /\ e.oldest_dirty_seq = d.oldest_dirty_seq
        /\ e.oldest_dirty_block = d.oldest_dirty_block
    BY <1>1, <2>2 DEF Device
  <2> HIDE DEF b
  <2>6. PointerInv(d) /\ \A x \in Blocks : BlockInv(d, x)
    BY DEF DevInv
  <2>7. \A x \in Blocks :
          /\ e.bi[x].pages_in_use = d.bi[x].pages_in_use
          /\ e.bi[x].soft_del_pages = d.bi[x].soft_del_pages
          /\ e.bi[x].seq_number = d.bi[x].seq_number
          /\ e.bi[x].block_state = IF x = b THEN "FULL" ELSE d.bi[x].block_state
    BY <2>3, <2>4, <2>5
  <2>8. e.oldest_dirty_seq # 0 => e.oldest_dirty_seq <= e.bi[b].seq_number
    <3>1. e.oldest_dirty_seq # 0 =>
             /\ d.oldest_dirty_block \in Blocks
             /\ d.bi[d.oldest_dirty_block].block_state \in InUseStates
             /\ d.bi[d.oldest_dirty_block].seq_number = e.oldest_dirty_seq
      BY <1>1, <2>5, <2>6, FieldTypes DEF PointerInv, Whole, InUseStates
    <3>2. e.oldest_dirty_seq # 0 => e.oldest_dirty_seq <= d.seq_number
      BY <2>6, <3>1 DEF BlockInv
    <3>3. d.bi[b].seq_number = d.seq_number
      BY <1>4, <2>6 DEF PointerInv, b
    <3> QED BY <2>1, <2>7, <3>2, <3>3
  <2>9. ASSUME NEW x \in Blocks
        PROVE  BlockInv(e, x)
    <3>1. BlockInv(d, x)
      BY <2>6
    <3>2. CASE x = b
      BY <1>4, <2>1, <2>5, <2>7, <2>8, <3>1, <3>2 DEF BlockInv, InUseStates, NoBlock, Blocks
    <3>3. CASE x # b
      <4>1. x # d.alloc_block
        BY <3>3 DEF b
      <4>2. x # e.alloc_block
        BY <2>5 DEF NoBlock, Blocks
      <4>3. HasDiscarded(e, x) => HasDiscarded(d, x)
        BY <2>7, <3>3 DEF HasDiscarded, PagesUsed
      <4> QED BY <2>5, <2>7, <3>1, <3>3, <4>1, <4>2, <4>3 DEF BlockInv
    <3> QED BY <3>2, <3>3
  <2>10. PointerInv(e)
    BY <1>1, <2>5, <2>6, <2>7, FieldTypes DEF PointerInv, Whole
  <2>11. Distinct(e)
    <3>1. \A x \in Blocks : e.bi[x].block_state \in InUseStates => d.bi[x].block_state \in InUseStates
      BY <1>4, <2>7 DEF InUseStates, b
    <3> QED BY <2>7, <3>1 DEF DevInv, Distinct
  <2> QED BY <1>2, <2>5, <2>9, <2>10, <2>11 DEF DevInv
<1> QED BY <1>3, <1>4

\* A failed write: the chunk is deleted again and its block is given up.
LEMMA WrErrorInv ==
    ASSUME NEW d, DevInv(d), NEW c \in Chunks, c[2] \in d.chunk_bits[c[1]],
           NEW erasedOk \in BOOLEAN, NEW eraseOk \in BOOLEAN,
           NEW e, e = handle_chunk_wr_error(d, c, erasedOk, eraseOk)
    PROVE  /\ DevInv(e)
           /\ e.chunk_bits[c[1]] = d.chunk_bits[c[1]] \ {c[2]}
           /\ \A x \in Blocks \ {c[1]} : e.chunk_bits[x] = d.chunk_bits[x]
           /\ e.gc_block # d.gc_block => d.gc_block = c[1] /\ e.gc_block = NoBlock
           /\ e.gc_chunk = d.gc_chunk
<1> DEFINE b == c[1]
           h == handle_chunk_error(d, b)
           r == [h.bi[b] EXCEPT !.needs_retiring = @ \/ erasedOk]
           f == [h EXCEPT !.bi[b] = r]
           g == chunk_del(f, c, eraseOk)
<1>1. b \in Blocks
  BY DEF Chunks
<1>2. e = skip_rest_of_block(g)
  BY DEF handle_chunk_wr_error
<1>3. DevInv(h) /\ Elsewhere(d, h, b) /\ h.chunk_bits = d.chunk_bits
  <2> HIDE DEF h, b
  <2> QED BY <1>1, ChunkErrorInv DEF h
<1> HIDE DEF h
<1>4. /\ r \in BlockInfo
      /\ r.block_state = h.bi[b].block_state
      /\ r.pages_in_use = h.bi[b].pages_in_use
      /\ r.soft_del_pages = h.bi[b].soft_del_pages
      /\ r.seq_number = h.bi[b].seq_number
  <2> DEFINE q == h.bi[b]
             t == q.needs_retiring \/ erasedOk
  <2>1. q \in BlockInfo /\ t \in BOOLEAN
    BY <1>1, <1>3, FieldTypes DEF DevInv
  <2>2. [q EXCEPT !.needs_retiring = t] \in
            {x \in BlockInfo : /\ x.block_state = q.block_state
                               /\ x.pages_in_use = q.pages_in_use
                               /\ x.soft_del_pages = q.soft_del_pages
                               /\ x.seq_number = q.seq_number}
    <3> HIDE DEF q, t
    <3> QED BY <2>1 DEF BlockInfo
  <2> QED BY <2>2
<1> HIDE DEF r
<1>5. DevInv(f) /\ Elsewhere(h, f, b) /\ f.chunk_bits = h.chunk_bits
  <2> HIDE DEF f, b
  <2> QED BY <1>1, <1>3, <1>4, EntryInv DEF f
<1> HIDE DEF f
<1>6. /\ DevInv(g) /\ Elsewhere(f, g, b)
      /\ g.chunk_bits[b] = f.chunk_bits[b] \ {c[2]}
  <2> HIDE DEF g
  <2> QED BY <1>3, <1>5, ChunkDelInv DEF g
<1> HIDE DEF g
<1>7. /\ DevInv(e) /\ e.chunk_bits = g.chunk_bits
      /\ e.gc_block = g.gc_block /\ e.gc_chunk = g.gc_chunk
  BY <1>2, <1>6, SkipRestInv
<1> QED BY <1>3, <1>5, <1>6, <1>7 DEF Elsewhere, SameElsewhere

\* A new allocating block is the newest of all and holds nothing; no pointer
\* of the device was at it.
LEMMA WithAllocInv ==
    ASSUME NEW d, DevInv(d),
           NEW e, e = with_alloc_block(d)
    PROVE  /\ DevInv(e) /\ e.chunk_bits = d.chunk_bits
           /\ e.gc_block = d.gc_block /\ e.gc_chunk = d.gc_chunk
<1>1. d \in Device /\ PointerInv(d) /\ \A x \in Blocks : BlockInv(d, x)
  BY DEF DevInv
<1>2. e \in Device
  BY <1>1, WithAllocType
<1>3. CASE d.alloc_block # NoBlock
  BY <1>3 DEF with_alloc_block
<1>4. CASE d.alloc_block = NoBlock /\ find_alloc_block(d) = d
  <2>1. e = [d EXCEPT !.alloc_page = 0]
    BY <1>4 DEF with_alloc_block
  <2>2. /\ e.bi = d.bi /\ e.chunk_bits = d.chunk_bits
        /\ e.alloc_block = d.alloc_block /\ e.seq_number = d.seq_number
        /\ e.gc_block = d.gc_block /\ e.gc_chunk = d.gc_chunk
        /\ e.gc_dirtiest = d.gc_dirtiest
        /\ e.oldest_dirty_seq = d.oldest_dirty_seq
        /\ e.oldest_dirty_block = d.oldest_dirty_block
    BY <1>1, <2>1 DEF Device
  <2>3. \A x \in Blocks : BlockInv(e, x)
    BY <1>1, <2>2 DEF BlockInv, HasDiscarded, PagesUsed
  <2>4. PointerInv(e)
    BY <1>1, <1>4, <2>2 DEF PointerInv
  <2>5. Distinct(e)
    BY <2>2 DEF DevInv, Distinct
  <2> QED BY <1>2, <2>2, <2>3, <2>4, <2>5 DEF DevInv
<1>5. CASE d.alloc_block = NoBlock /\ find_alloc_block(d) # d
  <2> DEFINE n == d.seq_number + 1
  <2>1. PICK b \in EmptyBlocks(d) :
          find_alloc_block(d) =
            [d EXCEPT !.bi[b] = [@ EXCEPT !.block_state = "ALLOCATING",
                                          !.seq_number  = d.seq_number + 1],
                      !.seq_number = @ + 1, !.n_erased_blocks = @ - 1,
                      !.alloc_block_finder = b, !.alloc_block = b]
    BY <1>1, <1>5, FindAllocBlockIs
  <2> DEFINE r == [d.bi[b] EXCEPT !.block_state = "ALLOCATING", !.seq_number = n]
             f == [d.bi EXCEPT ![b] = r]
             m == d.n_erased_blocks - 1
             z == [d EXCEPT !.bi = f, !.seq_number = n, !.n_erased_blocks = m,
                            !.alloc_block_finder = b, !.alloc_block = b]
  <2>2. b \in Blocks /\ d.bi[b].block_state = "EMPTY"
    BY DEF EmptyBlocks
  <2>3. find_alloc_block(d) = z
    <3>1. [d EXCEPT !.bi[b] = [@ EXCEPT !.block_state = "ALLOCATING",
                                        !.seq_number  = d.seq_number + 1],
                    !.seq_number = @ + 1, !.n_erased_blocks = @ - 1,
                    !.alloc_block_finder = b, !.alloc_block = b] = z
      OBVIOUS
    <3> QED BY <2>1, <3>1
  <2>4. e = [z EXCEPT !.alloc_page = 0]
    BY <1>5, <2>3 DEF with_alloc_block
  <2>5. z \in Device
    BY <1>1, <2>3, FindAllocType
  <2>6. /\ r.block_state = "ALLOCATING" /\ r.seq_number = n
        /\ r.pages_in_use = d.bi[b].pages_in_use
        /\ r.soft_del_pages = d.bi[b].soft_del_pages
    <3> DEFINE q == d.bi[b]
    <3>1. q \in BlockInfo
      BY <1>1, <2>2, FieldTypes
    <3> HIDE DEF q, n
    <3>2. LET t == [q EXCEPT !.block_state = "ALLOCATING", !.seq_number = n]
          IN  /\ t.block_state = "ALLOCATING" /\ t.seq_number = n
              /\ t.pages_in_use = q.pages_in_use /\ t.soft_del_pages = q.soft_del_pages
      BY <3>1 DEF BlockInfo
    <3> QED BY <3>2 DEF q
  <2> HIDE DEF r
  <2>7. f[b] = r /\ \A x \in Blocks \ {b} : f[x] = d.bi[x]
    BY <1>1, <2>2 DEF Device
  <2> HIDE DEF f, n, m
  <2>8. /\ z.bi = f /\ z.chunk_bits = d.chunk_bits
        /\ z.alloc_block = b /\ z.seq_number = n
        /\ z.gc_block = d.gc_block /\ z.gc_chunk = d.gc_chunk
        /\ z.gc_dirtiest = d.gc_dirtiest
        /\ z.oldest_dirty_seq = d.oldest_dirty_seq
        /\ z.oldest_dirty_block = d.oldest_dirty_block
    BY <1>1 DEF Device
  <2> HIDE DEF z
  <2>9. /\ e.bi = f /\ e.chunk_bits = d.chunk_bits
        /\ e.alloc_block = b /\ e.alloc_page = 0 /\ e.seq_number = n
        /\ e.gc_block = d.gc_block /\ e.gc_chunk = d.gc_chunk
        /\ e.gc_dirtiest = d.gc_dirtiest
        /\ e.oldest_dirty_seq = d.oldest_dirty_seq
        /\ e.oldest_dirty_block = d.oldest_dirty_block
    BY <2>4, <2>5, <2>8 DEF Device
  <2>10. d.seq_number \in Nat /\ n = d.seq_number + 1
    BY <1>1, FieldTypes DEF n
  <2>11. \A x \in Blocks \ {b} : e.bi[x] = d.bi[x]
    BY <2>7, <2>9
  <2>12. e.bi[b] = r
    BY <2>7, <2>9
  <2>13. d.chunk_bits[b] = {}
    BY <1>1, <2>2 DEF BlockInv, InUseStates
  <2>14. ASSUME NEW x \in Blocks
         PROVE  BlockInv(e, x)
    <3>1. BlockInv(d, x) /\ d.bi[x].seq_number \in Nat
      BY <1>1, FieldTypes
    <3>2. CASE x = b
      BY <2>2, <2>6, <2>9, <2>10, <2>12, <3>1, <3>2
         DEF BlockInv, InUseStates, HasDiscarded, Whole
    <3>3. CASE x # b
      <4>1. d.bi[x].block_state # "ALLOCATING"
        BY <1>5, <3>1 DEF BlockInv, NoBlock, Blocks
      <4> QED BY <2>9, <2>10, <2>11, <3>1, <3>3, <4>1
              DEF BlockInv, HasDiscarded, PagesUsed
    <3> QED BY <3>2, <3>3
  <2>15. PointerInv(e)
    <3>1. /\ e.gc_block # b /\ e.gc_dirtiest # b /\ e.oldest_dirty_block # b
      BY <1>1, <2>2, <2>9 DEF PointerInv, Whole, NoBlock, Blocks
    <3>2. 0 \in Pages
      BY GeometryAssumption DEF Pages
    <3> QED BY <1>1, <2>6, <2>9, <2>11, <2>12, <2>13, <3>1, <3>2, FieldTypes DEF PointerInv
  <2>16. Distinct(e)
    <3>1. \A x \in Blocks \ {b} : e.bi[x].block_state \in InUseStates =>
            e.bi[x].seq_number # n
      BY <1>1, <2>10, <2>11, FieldTypes DEF BlockInv
    <3> QED BY <2>6, <2>11, <2>12, <3>1 DEF DevInv, Distinct
  <2> QED BY <1>2, <2>9, <2>14, <2>15, <2>16 DEF DevInv
<1> QED BY <1>3, <1>4, <1>5

\* Taking the next page of the allocating block.
LEMMA TakePageInv ==
    ASSUME NEW d, DevInv(d), d.alloc_block # NoBlock,
           NEW e, e = take_page(d),
           NEW c, c = NextChunk(d)
    PROVE  /\ DevInv(e)
           /\ c \in Chunks /\ c = <<c[1], c[2]>> /\ c[1] # d.gc_block
           /\ c[2] \notin d.chunk_bits[c[1]]
           /\ e.chunk_bits[c[1]] = d.chunk_bits[c[1]] \cup {c[2]}
           /\ \A x \in Blocks \ {c[1]} : e.chunk_bits[x] = d.chunk_bits[x]
           /\ e.gc_block = d.gc_block /\ e.gc_chunk = d.gc_chunk
<1> DEFINE b == d.alloc_block
           p == d.alloc_page
           filled == p + 1 >= ChunksPerBlock
           r == TakenInfo(d.bi[b], filled)
           q == d.chunk_bits[b] \cup {p}
           n == d.n_free_chunks - 1
           a == IF filled THEN NoBlock ELSE b
           f == [d.bi EXCEPT ![b] = r]
           g == [d.chunk_bits EXCEPT ![b] = q]
           k == [d EXCEPT !.bi = f, !.chunk_bits = g, !.alloc_page = p + 1,
                          !.n_free_chunks = n, !.alloc_block = a]
<1>1. /\ d \in Device /\ PointerInv(d) /\ \A x \in Blocks : BlockInv(d, x)
      /\ Distinct(d)
  BY DEF DevInv
<1>2. /\ b \in Blocks /\ p \in Pages /\ d.bi[b] \in BlockInfo
      /\ d.bi[b].block_state = "ALLOCATING"
      /\ d.bi[b].seq_number = d.seq_number
      /\ \A x \in d.chunk_bits[b] : x < p
  BY <1>1, FieldTypes DEF PointerInv, BlockInv
<1>3. e = k
  <2>1. [d EXCEPT !.bi[b] = r, !.chunk_bits[b] = q, !.alloc_page = p + 1,
                  !.n_free_chunks = n, !.alloc_block = a] = k
    <3> HIDE DEF b, r, q, n, a, p
    <3> QED OBVIOUS
  <2> QED BY <2>1, Zenon DEF take_page
<1>4. c = <<b, p>> /\ c[1] = b /\ c[2] = p
  BY DEF NextChunk
<1>5. e \in Device
  BY <1>1, <1>2, TakePageType
<1>6. filled \in BOOLEAN
  BY DEF filled
<1> HIDE DEF b, p, filled
<1>7. /\ r.block_state = IF filled THEN "FULL" ELSE "ALLOCATING"
      /\ r.pages_in_use = d.bi[b].pages_in_use + 1
      /\ r.soft_del_pages = d.bi[b].soft_del_pages
      /\ r.seq_number = d.bi[b].seq_number
  BY <1>2, <1>6, TakenInfoType
<1> HIDE DEF r, q, n, a
<1>8. /\ f[b] = r /\ \A x \in Blocks \ {b} : f[x] = d.bi[x]
      /\ g[b] = q /\ \A x \in Blocks \ {b} : g[x] = d.chunk_bits[x]
  BY <1>1, <1>2 DEF Device
<1> HIDE DEF f, g
<1>9. /\ k.bi = f /\ k.chunk_bits = g
      /\ k.alloc_block = a /\ k.alloc_page = p + 1
      /\ k.seq_number = d.seq_number
      /\ k.gc_block = d.gc_block /\ k.gc_chunk = d.gc_chunk
      /\ k.gc_dirtiest = d.gc_dirtiest
      /\ k.oldest_dirty_seq = d.oldest_dirty_seq
      /\ k.oldest_dirty_block = d.oldest_dirty_block
  BY <1>1 DEF Device
<1> HIDE DEF k
<1>10. e.bi[b] = r /\ \A x \in Blocks \ {b} : e.bi[x] = d.bi[x]
  BY <1>3, <1>8, <1>9
<1>11. /\ e.chunk_bits[b] = d.chunk_bits[b] \cup {p}
       /\ \A x \in Blocks \ {b} : e.chunk_bits[x] = d.chunk_bits[x]
  BY <1>3, <1>8, <1>9 DEF q
<1>12. p \notin d.chunk_bits[b]
  BY <1>2 DEF Pages
<1>13. r.pages_in_use = Cardinality(e.chunk_bits[b])
  <2>1. Cardinality(d.chunk_bits[b] \cup {p}) = Cardinality(d.chunk_bits[b]) + 1
    BY <1>1, <1>2, <1>12, FieldTypes, PagesFinite, FS_AddElement
  <2> QED BY <1>1, <1>2, <1>7, <1>11, <2>1 DEF BlockInv
<1>14. e.oldest_dirty_seq # 0 => e.oldest_dirty_seq <= d.seq_number
  BY <1>1, <1>3, <1>9, FieldTypes DEF PointerInv, BlockInv, Whole, InUseStates
<1>15. a = (IF filled THEN NoBlock ELSE b) /\ NoBlock \notin Blocks
  BY DEF a, NoBlock, Blocks
<1>16. ASSUME NEW x \in Blocks
       PROVE  BlockInv(e, x)
  <2>1. BlockInv(d, x)
    BY <1>1
  <2>2. CASE x = b
    <3>1. e.bi[x].block_state = "ALLOCATING" <=> x = e.alloc_block
      BY <1>3, <1>7, <1>9, <1>10, <1>15, <2>2
    <3> QED BY <1>2, <1>3, <1>7, <1>9, <1>10, <1>13, <1>14, <2>1, <2>2, <3>1
            DEF BlockInv, InUseStates
  <2>3. CASE x # b
    <3>1. x # d.alloc_block /\ x # e.alloc_block
      BY <1>3, <1>9, <1>15, <2>3 DEF b
    <3> QED BY <1>3, <1>9, <1>10, <1>11, <2>1, <2>3, <3>1
            DEF BlockInv, HasDiscarded, PagesUsed
  <2> QED BY <2>2, <2>3
<1>17. PointerInv(e)
  <2>1. e.alloc_block # NoBlock =>
          /\ e.alloc_page \in Pages
          /\ e.bi[e.alloc_block].seq_number = e.seq_number
          /\ \A x \in e.chunk_bits[e.alloc_block] : x < e.alloc_page
    <3>1. CASE filled
      BY <1>3, <1>9, <1>15, <3>1
    <3>2. CASE ~filled
      <4>1. p + 1 \in Pages /\ \A x \in d.chunk_bits[b] : x < p + 1
        BY <1>1, <1>2, <3>2, GeometryAssumption, FieldTypes DEF Pages, filled
      <4> QED BY <1>2, <1>3, <1>7, <1>9, <1>10, <1>11, <1>15, <3>2, <4>1 DEF Pages
    <3> QED BY <3>1, <3>2
  <2>2. e.gc_block # b /\ e.gc_dirtiest # b /\ e.oldest_dirty_block # b
    BY <1>1, <1>2, <1>3, <1>9, <1>15 DEF PointerInv, Whole
  <2> QED BY <1>1, <1>3, <1>9, <1>10, <2>1, <2>2, FieldTypes DEF PointerInv
<1>18. Distinct(e)
  <2>1. \A x \in Blocks : /\ e.bi[x].block_state \in InUseStates => d.bi[x].block_state \in InUseStates
                         /\ e.bi[x].seq_number = d.bi[x].seq_number
    BY <1>2, <1>7, <1>10 DEF InUseStates
  <2> QED BY <1>1, <2>1 DEF Distinct
<1>19. c[1] # d.gc_block
  BY <1>1, <1>2, <1>4, <1>15 DEF PointerInv, Whole
<1> QED BY <1>2, <1>3, <1>4, <1>5, <1>9, <1>11, <1>12, <1>16, <1>17, <1>18, <1>19
        DEF DevInv, Chunks

\* With no collection under way, every block with discarded pages is FULL, so
\* the one that is found is the oldest of all.
LEMMA FindOldestInv ==
    ASSUME NEW d, DevInv(d), d.gc_block = NoBlock,
           NEW e, e = find_oldest_dirty_seq(d)
    PROVE  /\ DevInv(e) /\ e.bi = d.bi /\ e.chunk_bits = d.chunk_bits
           /\ e.gc_block = d.gc_block /\ e.gc_chunk = d.gc_chunk
<1>1. /\ d \in Device /\ PointerInv(d) /\ \A x \in Blocks : BlockInv(d, x)
      /\ Distinct(d)
  BY DEF DevInv
<1>2. CASE d.oldest_dirty_seq # 0 \/ DirtyBlocks(d) = {}
  BY <1>2 DEF find_oldest_dirty_seq
<1>3. CASE ~(d.oldest_dirty_seq # 0 \/ DirtyBlocks(d) = {})
  <2>1. PICK b \in DirtyBlocks(d) :
          /\ \A y \in DirtyBlocks(d) : ~Older(d, y, b)
          /\ e = [d EXCEPT !.oldest_dirty_seq = d.bi[b].seq_number,
                           !.oldest_dirty_block = b]
    BY <1>1, <1>3, FindOldestIs
  <2>2. b \in Blocks /\ d.bi[b].block_state = "FULL"
    BY DEF DirtyBlocks
  <2>3. d.bi[b].seq_number \in 1 .. d.seq_number
    BY <1>1, <2>2 DEF BlockInv, InUseStates
  <2>4. e \in Device
    BY <1>1, FindOldestType
  <2>5. /\ e.bi = d.bi /\ e.chunk_bits = d.chunk_bits
        /\ e.alloc_block = d.alloc_block /\ e.alloc_page = d.alloc_page
        /\ e.seq_number = d.seq_number
        /\ e.gc_block = d.gc_block /\ e.gc_chunk = d.gc_chunk
        /\ e.gc_dirtiest = d.gc_dirtiest
        /\ e.oldest_dirty_seq = d.bi[b].seq_number
        /\ e.oldest_dirty_block = b
    BY <1>1, <2>1 DEF Device
  <2>6. ASSUME NEW x \in Blocks, HasDiscarded(d, x)
        PROVE  d.bi[b].seq_number <= d.bi[x].seq_number
    <3>1. x \in DirtyBlocks(d)
      BY <1>1, <2>6 DEF HasDiscarded, DirtyBlocks, BlockInv, Whole, NoBlock, Blocks
    <3> QED BY <1>1, <2>1, <2>2, <3>1, FieldTypes DEF Older
  <2>7. \A x \in Blocks : BlockInv(e, x)
    BY <1>1, <2>5, <2>6 DEF BlockInv, HasDiscarded, PagesUsed
  <2>8. PointerInv(e)
    BY <1>1, <2>2, <2>3, <2>5 DEF PointerInv, Whole, NoBlock, Blocks
  <2>9. Distinct(e)
    BY <1>1, <2>5 DEF Distinct
  <2> QED BY <2>4, <2>5, <2>7, <2>8, <2>9 DEF DevInv
<1> QED BY <1>2, <1>3

\* A full block becomes the one being collected, or is full again.
LEMMA WholeInv ==
    ASSUME NEW d, DevInv(d), NEW b \in Blocks, NEW e \in Device,
           d.gc_block \in {NoBlock, b}, e.gc_block = b,
           d.bi[b].block_state \in Whole, e.bi[b].block_state \in Whole,
           e.bi[b].pages_in_use = d.bi[b].pages_in_use,
           e.bi[b].soft_del_pages = d.bi[b].soft_del_pages,
           e.bi[b].seq_number = d.bi[b].seq_number,
           \A x \in Blocks \ {b} : e.bi[x] = d.bi[x],
           e.chunk_bits = d.chunk_bits,
           e.alloc_block = d.alloc_block, e.alloc_page = d.alloc_page,
           e.seq_number = d.seq_number, e.gc_dirtiest = d.gc_dirtiest,
           e.oldest_dirty_seq = d.oldest_dirty_seq,
           e.oldest_dirty_block = d.oldest_dirty_block
    PROVE  DevInv(e)
<1>1. /\ d \in Device /\ PointerInv(d) /\ \A x \in Blocks : BlockInv(d, x)
      /\ Distinct(d)
  BY DEF DevInv
<1>2. ASSUME NEW x \in Blocks
      PROVE  BlockInv(e, x)
  <2>1. BlockInv(d, x)
    BY <1>1
  <2>2. CASE x = b
    BY <2>1, <2>2 DEF BlockInv, HasDiscarded, PagesUsed, Whole, InUseStates
  <2>3. CASE x # b
    <3>1. d.bi[x].block_state # "COLLECTING"
      BY <2>1, <2>3 DEF BlockInv, NoBlock, Blocks
    <3> QED BY <2>1, <2>3, <3>1 DEF BlockInv, HasDiscarded, PagesUsed
  <2> QED BY <2>2, <2>3
<1>3. PointerInv(e)
  <2>1. d.alloc_block # b
    BY <1>1 DEF BlockInv, Whole
  <2> QED BY <1>1, <2>1, FieldTypes DEF PointerInv
<1>4. Distinct(e)
  BY <1>1 DEF Distinct, Whole, InUseStates
<1> QED BY <1>2, <1>3, <1>4 DEF DevInv

\* Starting the collection of a full block keeps the device invariant.
LEMMA GcEntryInv ==
    ASSUME NEW d, DevInv(d), NEW b \in Blocks, NEW eraseOk \in BOOLEAN,
           d.gc_block \in {NoBlock, b}, d.bi[b].block_state \in Whole,
           NEW e, e = GcBlockEntry(d, b, eraseOk)
    PROVE  /\ DevInv(e) /\ e.chunk_bits = d.chunk_bits
           /\ e.gc_block \in {NoBlock, b}
<1> DEFINE q == d.bi[b]
           r == CollectedInfo(d.bi[b])
           f == [d.bi EXCEPT ![b] = r]
           m == [d EXCEPT !.bi = f, !.gc_block = b]
<1>1. [d EXCEPT !.bi[b] = CollectedInfo(@), !.gc_block = b] = m
  OBVIOUS
<1>2. e = IF d.chunk_bits[b] = {} THEN block_became_dirty(m, b, eraseOk) ELSE m
  BY <1>1, Zenon DEF GcBlockEntry
<1>3. d \in Device /\ q \in BlockInfo
  BY FieldTypes DEF DevInv
<1>4. /\ r \in BlockInfo /\ r.block_state = "COLLECTING"
      /\ r.pages_in_use = d.bi[b].pages_in_use
      /\ r.soft_del_pages = d.bi[b].soft_del_pages
      /\ r.seq_number = d.bi[b].seq_number
  <2>1. CollectedInfo(q) \in
            {t \in BlockInfo : /\ t.block_state = "COLLECTING"
                               /\ t.pages_in_use = q.pages_in_use
                               /\ t.soft_del_pages = q.soft_del_pages
                               /\ t.seq_number = q.seq_number}
    <3>1. q.block_state \in Whole
      OBVIOUS
    <3> HIDE DEF q
    <3> QED BY <1>3, <3>1 DEF CollectedInfo, BlockInfo, BlockStates, Whole
  <2> QED BY <2>1
<1> HIDE DEF r
<1>5. /\ f \in [Blocks -> BlockInfo] /\ f[b] = r
      /\ \A x \in Blocks \ {b} : f[x] = d.bi[x]
  BY <1>3, <1>4 DEF Device
<1> HIDE DEF f
<1>6. /\ m \in Device /\ m.bi = f /\ m.chunk_bits = d.chunk_bits
      /\ m.alloc_block = d.alloc_block /\ m.alloc_page = d.alloc_page
      /\ m.seq_number = d.seq_number
      /\ m.gc_block = b /\ m.gc_dirtiest = d.gc_dirtiest
      /\ m.oldest_dirty_seq = d.oldest_dirty_seq
      /\ m.oldest_dirty_block = d.oldest_dirty_block
  BY <1>3, <1>5 DEF Device
<1> HIDE DEF m
<1>7. DevInv(m)
  BY <1>4, <1>5, <1>6, WholeInv DEF Whole
<1>8. CASE d.chunk_bits[b] # {}
  BY <1>2, <1>6, <1>7, <1>8
<1>9. CASE d.chunk_bits[b] = {}
  <2>1. m.bi[b].block_state # "ALLOCATING" /\ m.chunk_bits[b] = {}
    BY <1>4, <1>5, <1>6, <1>9
  <2>2. DevInv(e)
    BY <1>2, <1>7, <1>9, <2>1, BecameDirtyInv
  <2>3. m.bi[b].pages_in_use = 0
    BY <1>7, <2>1, FS_EmptySet DEF DevInv, BlockInv
  <2>4. e.chunk_bits = m.chunk_bits
          /\ e.gc_block = IF m.gc_block = b THEN NoBlock ELSE m.gc_block
    BY <1>2, <1>6, <1>9, <2>1, <2>3, BecameDirtyEffect
  <2> QED BY <1>6, <2>2, <2>4
<1> QED BY <1>8, <1>9

\* Soft deletion discards a page of a block, which may make it the oldest.
LEMMA SoftDelInv ==
    ASSUME NEW d, DevInv(d), NEW c \in Chunks, c[2] \in d.chunk_bits[c[1]],
           NEW e, e = soft_del_chunk(d, c)
    PROVE  /\ DevInv(e) /\ e.chunk_bits = d.chunk_bits
           /\ e.gc_block = d.gc_block /\ e.gc_chunk = d.gc_chunk
<1> DEFINE b == c[1]
           s == d.bi[b].soft_del_pages + 1
           n == d.n_free_chunks + 1
           r == [d.bi[b] EXCEPT !.soft_del_pages = s]
           f == [d.bi EXCEPT ![b] = r]
           m == [d EXCEPT !.bi = f, !.n_free_chunks = n]
<1>1. /\ d \in Device /\ PointerInv(d) /\ \A x \in Blocks : BlockInv(d, x)
      /\ Distinct(d) /\ b \in Blocks
  BY DEF DevInv, Chunks
<1>2. e = update_oldest_dirty_seq(m, b)
  <2>1. [d EXCEPT !.bi[b].soft_del_pages = @ + 1, !.n_free_chunks = @ + 1] = m
    OBVIOUS
  <2> QED BY <2>1 DEF soft_del_chunk
<1>3. e \in Device
  BY <1>1, SoftDelType
<1>4. d.bi[b].block_state \in InUseStates /\ d.bi[b].seq_number \in 1 .. d.seq_number
  BY <1>1 DEF BlockInv
<1> HIDE DEF b
<1>5. d.bi[b] \in BlockInfo /\ s \in Int /\ n \in Int
  BY <1>1 DEF Device, BlockInfo
<1> HIDE DEF s, n
<1>6. /\ r \in BlockInfo /\ r.pages_in_use = d.bi[b].pages_in_use
      /\ r.block_state = d.bi[b].block_state
      /\ r.seq_number = d.bi[b].seq_number
  <2> DEFINE q == d.bi[b]
  <2>1. q \in BlockInfo
    BY <1>5
  <2> HIDE DEF q
  <2>2. [q EXCEPT !.soft_del_pages = s] \in
           {t \in BlockInfo : /\ t.pages_in_use = q.pages_in_use
                              /\ t.block_state = q.block_state
                              /\ t.seq_number = q.seq_number}
    BY <1>5, <2>1 DEF BlockInfo
  <2> QED BY <2>2 DEF q
<1> HIDE DEF r
<1>7. /\ f \in [Blocks -> BlockInfo] /\ f[b] = r
      /\ \A x \in Blocks \ {b} : f[x] = d.bi[x]
  BY <1>1, <1>6 DEF Device
<1> HIDE DEF f
<1>8. /\ m \in Device /\ m.bi = f /\ m.chunk_bits = d.chunk_bits
      /\ m.alloc_block = d.alloc_block /\ m.alloc_page = d.alloc_page
      /\ m.seq_number = d.seq_number
      /\ m.gc_block = d.gc_block /\ m.gc_chunk = d.gc_chunk
      /\ m.gc_dirtiest = d.gc_dirtiest
      /\ m.oldest_dirty_seq = d.oldest_dirty_seq
      /\ m.oldest_dirty_block = d.oldest_dirty_block
  BY <1>1, <1>5, <1>7 DEF Device
<1> HIDE DEF m
<1>9. /\ e.bi = m.bi /\ e.chunk_bits = m.chunk_bits
      /\ e.alloc_block = m.alloc_block /\ e.alloc_page = m.alloc_page
      /\ e.seq_number = m.seq_number
      /\ e.gc_block = m.gc_block /\ e.gc_chunk = m.gc_chunk
      /\ e.gc_dirtiest = m.gc_dirtiest
      /\ \/ /\ m.oldest_dirty_seq # 0
            /\ m.oldest_dirty_seq > m.bi[b].seq_number
            /\ e.oldest_dirty_seq = m.bi[b].seq_number
            /\ e.oldest_dirty_block = b
         \/ /\ m.oldest_dirty_seq = 0 \/ m.oldest_dirty_seq <= m.bi[b].seq_number
            /\ e.oldest_dirty_seq = m.oldest_dirty_seq
            /\ e.oldest_dirty_block = m.oldest_dirty_block
  BY <1>1, <1>2, <1>8, UpdateOldestEffect
<1>10. \A x \in Blocks : /\ e.bi[x].block_state = d.bi[x].block_state
                         /\ e.bi[x].seq_number = d.bi[x].seq_number
                         /\ e.bi[x].pages_in_use = d.bi[x].pages_in_use
  BY <1>6, <1>7, <1>8, <1>9
<1>11. ASSUME NEW x \in Blocks
       PROVE  BlockInv(e, x)
  <2>1. BlockInv(d, x) /\ d.oldest_dirty_seq \in Nat /\ d.bi[x].seq_number \in Nat
          /\ d.bi[b].seq_number \in Nat
    BY <1>1, FieldTypes
  <2>2. e.oldest_dirty_seq # 0 =>
           /\ d.oldest_dirty_seq # 0
           /\ e.oldest_dirty_seq <= d.oldest_dirty_seq
           /\ e.oldest_dirty_seq <= d.bi[b].seq_number
           /\ e.oldest_dirty_seq \in Nat
    BY <1>6, <1>7, <1>8, <1>9, <2>1
  <2>3. HasDiscarded(e, x) /\ e.oldest_dirty_seq # 0 =>
            e.oldest_dirty_seq <= e.bi[x].seq_number
    <3>1. CASE x = b
      BY <1>10, <2>2, <3>1
    <3>2. CASE x # b
      <4>1. e.bi[x] = d.bi[x]
        BY <1>7, <1>8, <1>9, <3>2
      <4> QED BY <2>1, <2>2, <4>1 DEF BlockInv, HasDiscarded, PagesUsed
    <3> QED BY <3>1, <3>2
  <2> QED BY <1>8, <1>9, <1>10, <2>1, <2>3 DEF BlockInv
<1>12. PointerInv(e)
  <2>1. /\ e.oldest_dirty_seq = 0 <=> e.oldest_dirty_block = NoBlock
        /\ e.oldest_dirty_block # NoBlock =>
              /\ e.bi[e.oldest_dirty_block].block_state \in Whole
              /\ e.bi[e.oldest_dirty_block].seq_number = e.oldest_dirty_seq
    <3>1. CASE e.oldest_dirty_block = d.oldest_dirty_block
                 /\ e.oldest_dirty_seq = d.oldest_dirty_seq
      BY <1>1, <1>10, <3>1, FieldTypes DEF PointerInv
    <3>2. CASE /\ d.oldest_dirty_seq # 0
               /\ d.oldest_dirty_seq > d.bi[b].seq_number
               /\ e.oldest_dirty_seq = d.bi[b].seq_number
               /\ e.oldest_dirty_block = b
      <4>1. d.oldest_dirty_block \in Blocks
        BY <1>1, <3>2, FieldTypes DEF PointerInv
      <4>2. d.bi[d.oldest_dirty_block].seq_number <= d.seq_number
        BY <1>1, <3>2, <4>1, FieldTypes DEF PointerInv, BlockInv, Whole, InUseStates
      <4>3. d.bi[b].block_state # "ALLOCATING"
        BY <1>1, <3>2, <4>1, <4>2, FieldTypes DEF PointerInv, BlockInv, NoBlock, Blocks
      <4> QED BY <1>1, <1>4, <1>10, <3>2, <4>3 DEF InUseStates, Whole, NoBlock, Blocks
    <3> QED BY <1>6, <1>7, <1>8, <1>9, <3>1, <3>2
  <2> QED BY <1>1, <1>8, <1>9, <1>10, <2>1, FieldTypes DEF PointerInv
<1>13. Distinct(e)
  BY <1>1, <1>10 DEF Distinct
<1> QED BY <1>3, <1>8, <1>9, <1>11, <1>12, <1>13 DEF DevInv


\* The bitmaps record the chunks of S.
Owned(d, S) ==
    \A b \in Blocks, p \in Pages : p \in d.chunk_bits[b] <=> <<b, p>> \in S

\* A chunk is a block of the partition and a page of it.
LEMMA ChunkParts ==
    ASSUME NEW c \in Chunks
    PROVE  c[1] \in Blocks /\ c[2] \in Pages /\ c = <<c[1], c[2]>>
BY DEF Chunks

\* An owned chunk is set in the bitmap of its block.
LEMMA OwnedBit ==
    ASSUME NEW d, NEW S \in SUBSET Chunks, Owned(d, S), NEW c \in S
    PROVE  c[2] \in d.chunk_bits[c[1]]
BY ChunkParts DEF Owned

\* Deleting a chunk that its owner has given up keeps bitmaps and owners in step.
LEMMA OwnedDel ==
    ASSUME NEW d, NEW e \in Device, NEW S \in SUBSET Chunks, Owned(d, S), NEW c \in Chunks,
           e.chunk_bits[c[1]] = d.chunk_bits[c[1]] \ {c[2]},
           \A x \in Blocks \ {c[1]} : e.chunk_bits[x] = d.chunk_bits[x]
    PROVE  Owned(e, S \ {c})
<1>1. c[1] \in Blocks /\ c = <<c[1], c[2]>>
  BY ChunkParts
<1>2. SUFFICES ASSUME NEW b \in Blocks, NEW p \in Pages
               PROVE  p \in e.chunk_bits[b] <=> <<b, p>> \in S \ {c}
  BY DEF Owned
<1>3. p \in d.chunk_bits[b] <=> <<b, p>> \in S
  BY DEF Owned
<1>4. <<b, p>> = c <=> b = c[1] /\ p = c[2]
  BY <1>1
<1> QED BY <1>3, <1>4

\* So does taking a new page and giving it an owner.
LEMMA OwnedAdd ==
    ASSUME NEW d, NEW e \in Device, NEW S \in SUBSET Chunks, Owned(d, S), NEW c \in Chunks,
           e.chunk_bits[c[1]] = d.chunk_bits[c[1]] \cup {c[2]},
           \A x \in Blocks \ {c[1]} : e.chunk_bits[x] = d.chunk_bits[x]
    PROVE  Owned(e, S \cup {c})
<1>1. c[1] \in Blocks /\ c = <<c[1], c[2]>>
  BY ChunkParts
<1>2. SUFFICES ASSUME NEW b \in Blocks, NEW p \in Pages
               PROVE  p \in e.chunk_bits[b] <=> <<b, p>> \in S \cup {c}
  BY DEF Owned
<1>3. p \in d.chunk_bits[b] <=> <<b, p>> \in S
  BY DEF Owned
<1>4. <<b, p>> = c <=> b = c[1] /\ p = c[2]
  BY <1>1
<1> QED BY <1>3, <1>4

\* Moving the collector's cursor.
LEMMA CursorOnlyInv ==
    ASSUME NEW d, DevInv(d), NEW n \in Nat,
           NEW e, e = [d EXCEPT !.gc_chunk = n]
    PROVE  /\ DevInv(e) /\ e.bi = d.bi /\ e.chunk_bits = d.chunk_bits
           /\ e.gc_block = d.gc_block /\ e.gc_chunk = n
<1>1. d \in Device
  BY DEF DevInv
<1>2. /\ e \in Device /\ e.bi = d.bi /\ e.chunk_bits = d.chunk_bits
      /\ e.alloc_block = d.alloc_block /\ e.alloc_page = d.alloc_page
      /\ e.seq_number = d.seq_number
      /\ e.gc_block = d.gc_block /\ e.gc_chunk = n
      /\ e.gc_dirtiest = d.gc_dirtiest
      /\ e.oldest_dirty_seq = d.oldest_dirty_seq
      /\ e.oldest_dirty_block = d.oldest_dirty_block
  BY <1>1 DEF Device
<1> QED BY <1>2, AlikeInv

\* Remembering a full block.
LEMMA RememberInv ==
    ASSUME NEW d, DevInv(d), NEW b \in Blocks, d.bi[b].block_state \in Whole,
           NEW e, e = [d EXCEPT !.gc_dirtiest = b, !.gc_chunk = 0]
    PROVE  /\ DevInv(e) /\ e.chunk_bits = d.chunk_bits
<1>1. /\ d \in Device /\ PointerInv(d) /\ \A x \in Blocks : BlockInv(d, x)
      /\ Distinct(d)
  BY DEF DevInv
<1>2. /\ e \in Device /\ e.bi = d.bi /\ e.chunk_bits = d.chunk_bits
      /\ e.alloc_block = d.alloc_block /\ e.alloc_page = d.alloc_page
      /\ e.seq_number = d.seq_number
      /\ e.gc_block = d.gc_block /\ e.gc_dirtiest = b
      /\ e.oldest_dirty_seq = d.oldest_dirty_seq
      /\ e.oldest_dirty_block = d.oldest_dirty_block
  BY <1>1 DEF Device
<1>3. \A x \in Blocks : BlockInv(e, x)
  BY <1>1, <1>2 DEF BlockInv, HasDiscarded, PagesUsed
<1>4. PointerInv(e)
  BY <1>1, <1>2 DEF PointerInv
<1>5. Distinct(e)
  BY <1>1, <1>2 DEF Distinct
<1> QED BY <1>2, <1>3, <1>4, <1>5 DEF DevInv

\* The end of yaffs_gc_block().
LEMMA FullAgainInv ==
    ASSUME NEW d, DevInv(d), d.gc_block # NoBlock,
           NEW e, e = [d EXCEPT !.bi[d.gc_block].block_state = "FULL"]
    PROVE  /\ DevInv(e) /\ e.chunk_bits = d.chunk_bits
           /\ e.gc_block = d.gc_block
<1> DEFINE b == d.gc_block
           r == [d.bi[b] EXCEPT !.block_state = "FULL"]
           f == [d.bi EXCEPT ![b] = r]
<1>1. d \in Device /\ b \in Blocks /\ d.bi[b].block_state \in Whole
  BY FieldTypes DEF DevInv, PointerInv
<1>2. e = [d EXCEPT !.bi = f]
  OBVIOUS
<1>3. /\ r \in BlockInfo /\ r.block_state = "FULL"
      /\ r.pages_in_use = d.bi[b].pages_in_use
      /\ r.soft_del_pages = d.bi[b].soft_del_pages
      /\ r.seq_number = d.bi[b].seq_number
  <2> DEFINE q == d.bi[b]
  <2>1. q \in BlockInfo
    BY <1>1, FieldTypes
  <2> HIDE DEF q
  <2>2. [q EXCEPT !.block_state = "FULL"] \in
            {t \in BlockInfo : /\ t.block_state = "FULL"
                               /\ t.pages_in_use = q.pages_in_use
                               /\ t.soft_del_pages = q.soft_del_pages
                               /\ t.seq_number = q.seq_number}
    BY <2>1 DEF BlockInfo, BlockStates
  <2> QED BY <2>2 DEF q
<1> HIDE DEF r
<1>4. /\ f \in [Blocks -> BlockInfo] /\ f[b] = r
      /\ \A x \in Blocks \ {b} : f[x] = d.bi[x]
  BY <1>1, <1>3 DEF Device
<1> HIDE DEF f
<1>5. /\ e \in Device /\ e.bi = f /\ e.chunk_bits = d.chunk_bits
      /\ e.alloc_block = d.alloc_block /\ e.alloc_page = d.alloc_page
      /\ e.seq_number = d.seq_number
      /\ e.gc_block = d.gc_block /\ e.gc_dirtiest = d.gc_dirtiest
      /\ e.oldest_dirty_seq = d.oldest_dirty_seq
      /\ e.oldest_dirty_block = d.oldest_dirty_block
  BY <1>1, <1>2, <1>4 DEF Device
<1>6. d.gc_block = b
  OBVIOUS
<1> HIDE DEF b
<1>7. /\ d.gc_block \in {NoBlock, b} /\ e.gc_block = b
      /\ e.bi[b] = r /\ e.bi[b].block_state \in Whole
      /\ \A x \in Blocks \ {b} : e.bi[x] = d.bi[x]
  BY <1>3, <1>4, <1>5, <1>6 DEF Whole
<1>8. DevInv(e)
  BY <1>1, <1>3, <1>5, <1>7, WholeInv
<1> QED BY <1>5, <1>8

\* A collection that is finished leaves no block behind: gc_block is cleared.
LEMMA NoneCollectedInv ==
    ASSUME NEW d, DevInv(d), ~Unfinished(d),
           NEW e, e = [d EXCEPT !.gc_block = NoBlock, !.gc_chunk = 0]
    PROVE  DevInv(e) /\ e.chunk_bits = d.chunk_bits
<1>1. d \in Device /\ PointerInv(d) /\ Distinct(d) /\ \A x \in Blocks : BlockInv(d, x)
  BY DEF DevInv
<1>2. /\ e \in Device /\ e.bi = d.bi /\ e.chunk_bits = d.chunk_bits
      /\ e.alloc_block = d.alloc_block /\ e.alloc_page = d.alloc_page
      /\ e.seq_number = d.seq_number
      /\ e.gc_block = NoBlock /\ e.gc_dirtiest = d.gc_dirtiest
      /\ e.oldest_dirty_seq = d.oldest_dirty_seq
      /\ e.oldest_dirty_block = d.oldest_dirty_block
  BY <1>1 DEF Device
<1>3. \A x \in Blocks : x # NoBlock /\ d.bi[x].block_state # "COLLECTING"
  BY <1>1, GeometryAssumption DEF BlockInv, Unfinished, Blocks, NoBlock
<1>4. ASSUME NEW x \in Blocks
      PROVE  BlockInv(e, x)
  BY <1>1, <1>2, <1>3 DEF BlockInv, HasDiscarded, PagesUsed
<1>5. PointerInv(e) /\ Distinct(e)
  BY <1>1, <1>2 DEF PointerInv, Distinct
<1> QED BY <1>2, <1>4, <1>5 DEF DevInv

\* The blocks the collector can be set to are full.
LEMMA SelectableFull ==
    ASSUME NEW d, DevInv(d), d.gc_block = NoBlock, NEW aggressive \in BOOLEAN,
           NEW b \in Selectable(d, aggressive)
    PROVE  b \in Blocks /\ d.bi[b].block_state \in Whole
<1>1. d \in Device /\ PointerInv(d)
  BY DEF DevInv
<1>2. CASE b \in Candidates(d)
  BY <1>2 DEF Candidates, DirtyBlocks, Whole
<1>3. CASE b = d.gc_dirtiest /\ b # NoBlock
  BY <1>1, <1>3, FieldTypes DEF PointerInv
<1>4. CASE b = find_oldest_dirty_seq(d).oldest_dirty_block /\ b # NoBlock
  <2> DEFINE e == find_oldest_dirty_seq(d)
  <2>1. DevInv(e) /\ e.bi = d.bi
    BY FindOldestInv
  <2> HIDE DEF e
  <2>2. b = e.oldest_dirty_block
    BY <1>4 DEF e
  <2> QED BY <1>4, <2>1, <2>2, FieldTypes DEF DevInv, PointerInv
<1>5. CASE b \in PrioritisedBlocks(d)
  BY <1>5 DEF PrioritisedBlocks, Whole
<1> QED BY <1>2, <1>3, <1>4, <1>5 DEF Selectable

\* The page the loop looks at next is in use.
LEMMA GcPageUsed ==
    ASSUME NEW d \in Device, d.gc_block # NoBlock, UsedPages(d) # {}
    PROVE  /\ GcPage(d) \in Pages /\ GcPage(d) \in d.chunk_bits[d.gc_block]
           /\ d.gc_block \in Blocks
<1>1. d.gc_block \in Blocks /\ d.chunk_bits[d.gc_block] \in SUBSET Pages
  BY FieldTypes
<1>2. UsedPages(d) \in SUBSET Pages /\ UsedPages(d) \in SUBSET Nat
  BY <1>1 DEF UsedPages, Pages
<1>3. \E p \in UsedPages(d) : \A q \in UsedPages(d) : p <= q
  BY <1>2, LeastNat
<1>4. GcPage(d) \in UsedPages(d)
  BY <1>3 DEF GcPage
<1> QED BY <1>1, <1>2, <1>4 DEF UsedPages

-----------------------------------------------------------------------------
(* The counts of a device.                                                *)

\* Where new data could go, after collection, when files own the chunks in H.
FreeOf(d, H) == {c \in Chunks : d.bi[c[1]].block_state \in Counted /\ c \notin H}

SoftCounted(d, S) ==
    \A b \in Blocks : d.bi[b].soft_del_pages = Cardinality(PagesOf(S, b))

\* The counts of a device on which files own H, and soft-deleted files S.
Count(d, H, S) ==
    /\ SoftCounted(d, S)
    /\ d.n_free_chunks = Cardinality(FreeOf(d, H))
    /\ d.n_erased_blocks = Cardinality(EmptyBlocks(d))

\* A block in use that bears a shrink header is neither erased nor retired.
ShrinksStay(d, e) ==
    \A x \in Blocks :
        d.bi[x].block_state \in InUseStates /\ d.bi[x].has_shrink_hdr =>
            e.bi[x].block_state \in InUseStates

\* A block in use stays what it is, with no more data than before, or is erased
\* or retired; the collector turns to no other block.
Moved(d, e) ==
    /\ \A x \in Blocks :
        d.bi[x].block_state \in InUseStates /\ e.bi[x].block_state \in InUseStates =>
            /\ e.bi[x].seq_number = d.bi[x].seq_number
            /\ e.bi[x].has_shrink_hdr = d.bi[x].has_shrink_hdr
            /\ d.bi[x].block_state \in Whole =>
                  /\ e.bi[x].block_state \in Whole
                  /\ PagesUsed(e, x) <= PagesUsed(d, x)
    /\ ShrinksStay(d, e)
    /\ e.gc_block \in {d.gc_block, NoBlock}
    /\ e.gc_dirtiest \in {d.gc_dirtiest, NoBlock}

\* No block comes into use.
NoneNew(d, e) ==
    \A x \in Blocks : e.bi[x].block_state \in InUseStates => d.bi[x].block_state \in InUseStates

\* No block is erased or retired.
NoneGone(d, e) ==
    \A x \in Blocks : d.bi[x].block_state \in InUseStates => e.bi[x].block_state \in InUseStates

\* Nothing that is counted changes.
Level(d, e) ==
    /\ \A x \in Blocks :
        /\ \/ e.bi[x].block_state = d.bi[x].block_state
           \/ d.bi[x].block_state \in InUseStates /\ e.bi[x].block_state \in Whole
        /\ e.bi[x].pages_in_use = d.bi[x].pages_in_use
        /\ e.bi[x].soft_del_pages = d.bi[x].soft_del_pages
        /\ e.bi[x].seq_number = d.bi[x].seq_number
        /\ e.bi[x].has_shrink_hdr = d.bi[x].has_shrink_hdr
    /\ e.n_free_chunks = d.n_free_chunks
    /\ e.n_erased_blocks = d.n_erased_blocks
    /\ e.gc_block \in {d.gc_block, NoBlock}
    /\ e.gc_dirtiest \in {d.gc_dirtiest, NoBlock}

-----------------------------------------------------------------------------
(* Counting.                                                               *)

\* Sets of chunks and of blocks are finite, and a block has ChunksPerBlock
\* chunks.
LEMMA ChunksFinite ==
    /\ IsFiniteSet(Chunks) /\ IsFiniteSet(Blocks)
    /\ \A S \in SUBSET Chunks : IsFiniteSet(S) /\ Cardinality(S) \in Nat
    /\ \A S \in SUBSET Blocks : IsFiniteSet(S) /\ Cardinality(S) \in Nat
    /\ \A b \in Blocks : Cardinality({b} \X Pages) = ChunksPerBlock
    /\ Cardinality(Chunks) = NBlocks * ChunksPerBlock /\ Cardinality(Blocks) = NBlocks
<1>1. IsFiniteSet(Pages) /\ Cardinality(Pages) = ChunksPerBlock
  BY GeometryAssumption, FS_Interval DEF Pages
<1>2. IsFiniteSet(Blocks) /\ Cardinality(Blocks) = NBlocks
  BY GeometryAssumption, FS_Interval DEF Blocks
<1>3. IsFiniteSet(Chunks) /\ Cardinality(Chunks) = NBlocks * ChunksPerBlock
  BY <1>1, <1>2, FS_Product DEF Chunks
<1>4. ASSUME NEW b \in Blocks PROVE Cardinality({b} \X Pages) = ChunksPerBlock
  <2>1. IsFiniteSet({b}) /\ Cardinality({b}) = 1
    BY FS_Singleton
  <2>2. Cardinality({b} \X Pages) = 1 * ChunksPerBlock
    BY <1>1, <2>1, FS_Product
  <2> QED  BY <2>2, GeometryAssumption
<1>5. ASSUME NEW S \in SUBSET Chunks PROVE IsFiniteSet(S) /\ Cardinality(S) \in Nat
  BY <1>3, FS_Subset, FS_CardinalityType
<1>6. ASSUME NEW S \in SUBSET Blocks PROVE IsFiniteSet(S) /\ Cardinality(S) \in Nat
  BY <1>2, FS_Subset, FS_CardinalityType
<1> QED  BY <1>2, <1>3, <1>4, <1>5, <1>6

\* Giving a chunk up makes it free, taking one makes it one less.
LEMMA FreeMoves ==
    ASSUME NEW d, NEW H \in SUBSET Chunks, NEW c \in Chunks,
           d.bi[c[1]].block_state \in Counted
    PROVE  /\ c \in H => Cardinality(FreeOf(d, H \ {c})) = Cardinality(FreeOf(d, H)) + 1
           /\ c \notin H => Cardinality(FreeOf(d, H \cup {c})) = Cardinality(FreeOf(d, H)) - 1
<1>1. FreeOf(d, H) \in SUBSET Chunks
  BY DEF FreeOf
<1>2. IsFiniteSet(FreeOf(d, H))
  BY <1>1, ChunksFinite
<1>3. CASE c \in H
  <2>1. FreeOf(d, H \ {c}) = FreeOf(d, H) \cup {c} /\ c \notin FreeOf(d, H)
    BY <1>3 DEF FreeOf
  <2>2. Cardinality(FreeOf(d, H) \cup {c}) = Cardinality(FreeOf(d, H)) + 1
    BY <1>2, <2>1, FS_AddElement
  <2> QED  BY <1>3, <2>1, <2>2
<1>4. CASE c \notin H
  <2>1. FreeOf(d, H \cup {c}) = FreeOf(d, H) \ {c} /\ c \in FreeOf(d, H)
    BY <1>4 DEF FreeOf
  <2>2. Cardinality(FreeOf(d, H) \ {c}) = Cardinality(FreeOf(d, H)) - 1
    BY <1>2, <2>1, FS_RemoveElement
  <2> QED  BY <1>4, <2>1, <2>2
<1> QED  BY <1>3, <1>4

\* The soft-deleted pages of a block, when a chunk joins them or leaves them.
LEMMA SoftMoves ==
    ASSUME NEW S \in SUBSET Chunks, NEW c \in Chunks, NEW b \in Blocks
    PROVE  /\ b # c[1] => /\ PagesOf(S \cup {c}, b) = PagesOf(S, b)
                          /\ PagesOf(S \ {c}, b) = PagesOf(S, b)
           /\ b = c[1] /\ c \notin S =>
                Cardinality(PagesOf(S \cup {c}, b)) = Cardinality(PagesOf(S, b)) + 1
           /\ b = c[1] /\ c \in S =>
                Cardinality(PagesOf(S \ {c}, b)) = Cardinality(PagesOf(S, b)) - 1
<1>0. /\ c = <<c[1], c[2]>> /\ c[1] \in Blocks /\ c[2] \in Pages
      /\ \A x \in S : x = <<x[1], x[2]>> /\ x[2] \in Pages
  BY ChunkParts
<1> DEFINE q == c[2]
           P == PagesOf(S, b)
           A == PagesOf(S \cup {c}, b)
           D == PagesOf(S \ {c}, b)
<1>1. \A p : p \in P <=> <<b, p>> \in S
  BY <1>0 DEF PagesOf
<1>2. \A p : p \in A <=> <<b, p>> \in S \cup {c}
  BY <1>0 DEF PagesOf
<1>3. \A p : p \in D <=> <<b, p>> \in S \ {c}
  BY <1>0 DEF PagesOf
<1>4. P \in SUBSET Pages
  BY <1>0 DEF PagesOf
<1>5. IsFiniteSet(P)
  BY <1>4, PagesFinite
<1>6. \A p : <<b, p>> = c <=> b = c[1] /\ p = q
  BY <1>0
<1> HIDE DEF q, P, A, D
<1>7. CASE b # c[1]
  <2>1. A = P
    BY <1>1, <1>2, <1>6, <1>7
  <2>2. D = P
    BY <1>1, <1>3, <1>6, <1>7
  <2> QED  BY <1>7, <2>1, <2>2 DEF A, D, P
<1>8. CASE b = c[1] /\ c \notin S
  <2>1. A = P \cup {q}
    BY <1>1, <1>2, <1>6, <1>8
  <2>2. q \notin P
    BY <1>0, <1>1, <1>6, <1>8
  <2>3. Cardinality(A) = Cardinality(P) + 1
    BY <1>5, <2>1, <2>2, FS_AddElement
  <2> QED  BY <1>8, <2>3 DEF A, P
<1>9. CASE b = c[1] /\ c \in S
  <2>1. D = P \ {q}
    BY <1>1, <1>3, <1>6, <1>9
  <2>2. q \in P
    BY <1>0, <1>1, <1>6, <1>9
  <2>3. Cardinality(D) = Cardinality(P) - 1
    BY <1>5, <2>1, <2>2, FS_RemoveElement
  <2> QED  BY <1>9, <2>3 DEF D, P
<1> QED  BY <1>7, <1>8, <1>9

\* Two devices whose blocks are counted alike have the same free chunks and
\* erased blocks.
LEMMA AlikeCounts ==
    ASSUME NEW d, NEW e, NEW H,
           \A x \in Blocks :
              \/ e.bi[x].block_state = d.bi[x].block_state
              \/ d.bi[x].block_state \in InUseStates /\ e.bi[x].block_state \in InUseStates
    PROVE  FreeOf(e, H) = FreeOf(d, H) /\ EmptyBlocks(e) = EmptyBlocks(d)
<1>1. \A x \in Blocks : /\ e.bi[x].block_state \in Counted <=> d.bi[x].block_state \in Counted
                        /\ e.bi[x].block_state = "EMPTY" <=> d.bi[x].block_state = "EMPTY"
  BY DEF Counted, InUseStates
<1>2. \A c \in Chunks : c[1] \in Blocks
  BY ChunkParts
<1> QED  BY <1>1, <1>2 DEF FreeOf, EmptyBlocks

\* A block without an owned chunk is erased, or retired with all its chunks.
LEMMA GoneCount ==
    ASSUME NEW d, NEW e, NEW b \in Blocks,
           NEW H \in SUBSET Chunks, NEW S \in SUBSET Chunks, Count(d, H, S),
           \A p \in Pages : <<b, p>> \notin H \cup S,
           d.bi[b].block_state \in InUseStates, e.bi[b].block_state \in {"EMPTY", "DEAD"},
           \A x \in Blocks \ {b} : e.bi[x] = d.bi[x],
           e.bi[b].soft_del_pages \in {0, d.bi[b].soft_del_pages},
           e.n_erased_blocks = IF e.bi[b].block_state = "EMPTY"
                               THEN d.n_erased_blocks + 1 ELSE d.n_erased_blocks,
           e.n_free_chunks = IF e.bi[b].block_state = "EMPTY"
                             THEN d.n_free_chunks ELSE d.n_free_chunks - ChunksPerBlock
    PROVE  Count(e, H, S)
<1>1. PagesOf(S, b) = {}
  BY ChunkParts DEF PagesOf
<1>2. SoftCounted(e, S)
  BY <1>1, FS_EmptySet DEF SoftCounted, Count
<1>3. \A c \in Chunks : c[1] \in Blocks /\ c[2] \in Pages /\ c = <<c[1], c[2]>>
  BY ChunkParts
<1>4. FreeOf(d, H) \in SUBSET Chunks /\ EmptyBlocks(d) \in SUBSET Blocks
  BY DEF FreeOf, EmptyBlocks
<1>5. IsFiniteSet(FreeOf(d, H)) /\ IsFiniteSet(EmptyBlocks(d))
  BY <1>4, ChunksFinite
<1>6. CASE e.bi[b].block_state = "EMPTY"
  <2>1. FreeOf(e, H) = FreeOf(d, H)
    BY <1>3, <1>6 DEF FreeOf, Counted, InUseStates
  <2>2. EmptyBlocks(e) = EmptyBlocks(d) \cup {b} /\ b \notin EmptyBlocks(d)
    BY <1>6 DEF EmptyBlocks, InUseStates
  <2>3. Cardinality(EmptyBlocks(e)) = Cardinality(EmptyBlocks(d)) + 1
    BY <1>5, <2>2, FS_AddElement
  <2> QED  BY <1>2, <1>6, <2>1, <2>3 DEF Count
<1>7. CASE e.bi[b].block_state # "EMPTY"
  <2>1. e.bi[b].block_state = "DEAD"
    BY <1>7
  <2>2. FreeOf(e, H) = FreeOf(d, H) \ ({b} \X Pages)
    BY <1>3, <2>1 DEF FreeOf, Counted
  <2>3. FreeOf(d, H) \cap ({b} \X Pages) = {b} \X Pages
    BY <1>3 DEF FreeOf, Counted, InUseStates, Chunks
  <2>4. Cardinality(FreeOf(e, H)) = Cardinality(FreeOf(d, H)) - ChunksPerBlock
    <3> DEFINE F == FreeOf(d, H)
               B == {b} \X Pages
    <3>1. IsFiniteSet(F) /\ F \cap B = B
      BY <1>5, <2>3
    <3> HIDE DEF F, B
    <3>2. Cardinality(F \ B) = Cardinality(F) - Cardinality(F \cap B)
      BY <3>1, FS_Difference
    <3>3. Cardinality(B) = ChunksPerBlock
      BY ChunksFinite DEF B
    <3> QED  BY <2>2, <3>1, <3>2, <3>3 DEF F, B
  <2>5. EmptyBlocks(e) = EmptyBlocks(d)
    BY <2>1 DEF EmptyBlocks, InUseStates
  <2> QED  BY <1>2, <1>7, <2>4, <2>5 DEF Count
<1> QED  BY <1>6, <1>7

-----------------------------------------------------------------------------
(* What the operators of YaffsDevice do to the counts.                     *)

\* One operator after another, when the second brings no block into use.
LEMMA MovedOn ==
    ASSUME NEW d \in Device, NEW e \in Device, NEW f \in Device,
           Moved(d, e), Moved(e, f), NoneNew(e, f)
    PROVE  /\ Moved(d, f)
           /\ NoneNew(d, e) => NoneNew(d, f)
<1>1. \A x \in Blocks : /\ PagesUsed(d, x) \in Int /\ PagesUsed(e, x) \in Int
                        /\ PagesUsed(f, x) \in Int
  BY FieldTypes DEF PagesUsed
<1>2. ASSUME NEW x \in Blocks,
             d.bi[x].block_state \in InUseStates, f.bi[x].block_state \in InUseStates
      PROVE  /\ f.bi[x].seq_number = d.bi[x].seq_number
             /\ f.bi[x].has_shrink_hdr = d.bi[x].has_shrink_hdr
             /\ d.bi[x].block_state \in Whole =>
                   /\ f.bi[x].block_state \in Whole
                   /\ PagesUsed(f, x) <= PagesUsed(d, x)
  BY <1>1, <1>2 DEF Moved, NoneNew
<1>3. f.gc_block \in {d.gc_block, NoBlock} /\ f.gc_dirtiest \in {d.gc_dirtiest, NoBlock}
  BY DEF Moved
<1>4. ShrinksStay(d, f)
  BY DEF Moved, ShrinksStay
<1> QED  BY <1>2, <1>3, <1>4 DEF Moved, NoneNew

\* Where nothing that is counted changes, the counts stay right.
LEMMA LevelKeeps ==
    ASSUME NEW d \in Device, NEW e \in Device, Level(d, e)
    PROVE  /\ Moved(d, e) /\ NoneNew(d, e) /\ NoneGone(d, e)
           /\ \A H, S : Count(d, H, S) => Count(e, H, S)
<1>1. \A x \in Blocks : PagesUsed(d, x) \in Int /\ PagesUsed(e, x) = PagesUsed(d, x)
  BY FieldTypes DEF PagesUsed, Level
<1>2. Moved(d, e)
  BY <1>1 DEF Moved, ShrinksStay, Level, Whole, InUseStates
<1>3. NoneNew(d, e) /\ NoneGone(d, e)
  BY DEF NoneNew, NoneGone, Level, Whole, InUseStates
<1>4. ASSUME NEW H, NEW S, Count(d, H, S)
      PROVE  Count(e, H, S)
  <2>1. FreeOf(e, H) = FreeOf(d, H) /\ EmptyBlocks(e) = EmptyBlocks(d)
    BY AlikeCounts DEF Level, Whole, InUseStates
  <2> QED  BY <1>4, <2>1 DEF Count, SoftCounted, Level
<1> QED  BY <1>2, <1>3, <1>4

\* The entry of a block is replaced by one that is counted alike.
LEMMA EntryLevel ==
    ASSUME NEW d \in Device, NEW b \in Blocks, NEW r,
           \/ r.block_state = d.bi[b].block_state
           \/ d.bi[b].block_state \in InUseStates /\ r.block_state \in Whole,
           r.pages_in_use = d.bi[b].pages_in_use,
           r.soft_del_pages = d.bi[b].soft_del_pages,
           r.seq_number = d.bi[b].seq_number,
           r.has_shrink_hdr = d.bi[b].has_shrink_hdr,
           NEW e, e = [d EXCEPT !.bi[b] = r]
    PROVE  Level(d, e)
<1> DEFINE f == [d.bi EXCEPT ![b] = r]
<1>1. e = [d EXCEPT !.bi = f]
  OBVIOUS
<1>2. f[b] = r /\ \A x \in Blocks \ {b} : f[x] = d.bi[x]
  BY DEF Device
<1> HIDE DEF f
<1>3. /\ e.bi = f /\ e.gc_block = d.gc_block /\ e.gc_dirtiest = d.gc_dirtiest
      /\ e.n_free_chunks = d.n_free_chunks /\ e.n_erased_blocks = d.n_erased_blocks
  BY <1>1 DEF Device
<1> QED  BY <1>2, <1>3 DEF Level

\* A strike against a block.
LEMMA ChunkErrorLevel ==
    ASSUME NEW d \in Device, NEW b \in Blocks, NEW e, e = handle_chunk_error(d, b)
    PROVE  Level(d, e)
<1> DEFINE q == d.bi[b]
           s == q.chunk_error_strikes + 1
           t == q.needs_retiring \/ s > 3
           r == [q EXCEPT !.gc_prioritise = TRUE,
                          !.chunk_error_strikes = s, !.needs_retiring = t]
<1>1. CASE d.bi[b].gc_prioritise
  BY <1>1 DEF handle_chunk_error, Level
<1>2. CASE ~d.bi[b].gc_prioritise
  <2>1. q \in BlockInfo
    BY FieldTypes
  <2>2. e = [d EXCEPT !.bi[b] = StruckInfo(q)]
    BY <1>2 DEF handle_chunk_error
  <2> HIDE DEF q
  <2>3. StruckInfo(q) = r
    BY <2>1, Zenon DEF StruckInfo
  <2> HIDE DEF s, t
  <2>4. /\ r.block_state = q.block_state /\ r.pages_in_use = q.pages_in_use
        /\ r.soft_del_pages = q.soft_del_pages /\ r.seq_number = q.seq_number
        /\ r.has_shrink_hdr = q.has_shrink_hdr
    BY <2>1 DEF BlockInfo
  <2> HIDE DEF r
  <2>5. e = [d EXCEPT !.bi[b] = r]
    BY <2>2, <2>3
  <2>6. /\ r.block_state = d.bi[b].block_state
        /\ r.pages_in_use = d.bi[b].pages_in_use
        /\ r.soft_del_pages = d.bi[b].soft_del_pages
        /\ r.seq_number = d.bi[b].seq_number
        /\ r.has_shrink_hdr = d.bi[b].has_shrink_hdr
    BY <2>4 DEF q
  <2> QED  BY <2>5, <2>6, EntryLevel
<1> QED  BY <1>1, <1>2

\* The allocating block becomes full before its time.
LEMMA SkipRestLevel ==
    ASSUME NEW d \in Device, NEW e, e = skip_rest_of_block(d)
    PROVE  Level(d, e)
<1> DEFINE b == d.alloc_block
           q == d.bi[b]
           r == [q EXCEPT !.block_state = "FULL"]
           f == [d.bi EXCEPT ![b] = r]
<1>1. CASE ~(b # NoBlock /\ d.bi[b].block_state = "ALLOCATING")
  BY <1>1 DEF skip_rest_of_block, Level
<1>2. CASE b # NoBlock /\ d.bi[b].block_state = "ALLOCATING"
  <2>1. b \in Blocks /\ q \in BlockInfo
    BY <1>2, FieldTypes
  <2>2. e = [d EXCEPT !.bi = f, !.alloc_block = NoBlock]
    BY <1>2 DEF skip_rest_of_block
  <2>3. q.block_state \in InUseStates
    BY <1>2 DEF InUseStates
  <2> HIDE DEF b, q
  <2>4. /\ r.block_state = "FULL" /\ r.pages_in_use = q.pages_in_use
        /\ r.soft_del_pages = q.soft_del_pages /\ r.seq_number = q.seq_number
        /\ r.has_shrink_hdr = q.has_shrink_hdr
    BY <2>1 DEF BlockInfo
  <2> HIDE DEF r
  <2>5. f[b] = r /\ \A x \in Blocks \ {b} : f[x] = d.bi[x]
    BY <2>1 DEF Device
  <2> HIDE DEF f
  <2>6. /\ e.bi = f /\ e.gc_block = d.gc_block /\ e.gc_dirtiest = d.gc_dirtiest
        /\ e.n_free_chunks = d.n_free_chunks /\ e.n_erased_blocks = d.n_erased_blocks
    BY <2>2 DEF Device
  <2> QED  BY <2>3, <2>4, <2>5, <2>6 DEF Level, Whole, q
<1> QED  BY <1>1, <1>2

\* The collector's cursor, and the oldest dirty block, are not counted.
LEMMA CursorLevel ==
    ASSUME NEW d \in Device, NEW n
    PROVE  /\ Level(d, [d EXCEPT !.gc_chunk = n])
           /\ Level(d, [d EXCEPT !.gc_block = NoBlock, !.gc_chunk = n])
           /\ Level(d, [d EXCEPT !.gc_dirtiest = NoBlock, !.gc_chunk = n])
           /\ Level(d, find_oldest_dirty_seq(d))
<1>1. Level(d, [d EXCEPT !.gc_chunk = n])
  BY DEF Level, Device
<1>2. Level(d, [d EXCEPT !.gc_block = NoBlock, !.gc_chunk = n])
  BY DEF Level, Device
<1>3. Level(d, [d EXCEPT !.gc_dirtiest = NoBlock, !.gc_chunk = n])
  BY DEF Level, Device
<1>4. ASSUME NEW s, NEW b
      PROVE  Level(d, [d EXCEPT !.oldest_dirty_seq = s, !.oldest_dirty_block = b])
  BY DEF Level, Device
<1>5. Level(d, d)
  BY DEF Level
<1>6. Level(d, find_oldest_dirty_seq(d))
  BY <1>4, <1>5, Zenon DEF find_oldest_dirty_seq
<1> QED  BY <1>1, <1>2, <1>3, <1>6

\* The end of yaffs_gc_block().
LEMMA ExitLevel ==
    ASSUME NEW d \in Device, NEW e, e = GcBlockExit(d)
    PROVE  Level(d, e)
<1> DEFINE b == d.gc_block
           q == d.bi[b]
           r == [q EXCEPT !.block_state = "FULL"]
<1>1. CASE Unfinished(d)
  <2>1. b \in Blocks /\ q \in BlockInfo /\ q.block_state \in InUseStates
    BY <1>1, FieldTypes DEF Unfinished, InUseStates
  <2>2. e = [d EXCEPT !.bi[b] = r]
    BY <1>1 DEF GcBlockExit
  <2> HIDE DEF b, q
  <2>3. /\ r.block_state = "FULL" /\ r.pages_in_use = q.pages_in_use
        /\ r.soft_del_pages = q.soft_del_pages /\ r.seq_number = q.seq_number
        /\ r.has_shrink_hdr = q.has_shrink_hdr
    BY <2>1 DEF BlockInfo
  <2> HIDE DEF r
  <2> QED  BY <2>1, <2>2, <2>3, EntryLevel DEF q, Whole
<1>2. CASE ~Unfinished(d)
  BY <1>2, CursorLevel DEF GcBlockExit
<1> QED  BY <1>1, <1>2

\* A block in which no file owns a chunk is erased or retired.
LEMMA BecameDirtyCount ==
    ASSUME NEW d \in Device, NEW b \in Blocks, NEW eraseOk \in BOOLEAN,
           NEW H \in SUBSET Chunks, NEW S \in SUBSET Chunks,
           Count(d, H, S), Owned(d, H \cup S),
           d.chunk_bits[b] = {}, d.bi[b].pages_in_use = 0,
           d.bi[b].block_state \in InUseStates, ~d.bi[b].has_shrink_hdr,
           NEW e, e = block_became_dirty(d, b, eraseOk)
    PROVE  /\ e \in Device /\ Count(e, H, S)
           /\ Moved(d, e) /\ NoneNew(d, e)
           /\ \A x \in Blocks \ {b} : e.bi[x] = d.bi[x]
           /\ e.bi[b].block_state \notin InUseStates
           /\ e.gc_block # b
<1>1. /\ e \in Device /\ SameElsewhere(d, e, b)
      /\ e.bi[b].block_state \in {"EMPTY", "DEAD"}
      /\ e.bi[b].soft_del_pages \in {0, d.bi[b].soft_del_pages}
      /\ e.n_erased_blocks = IF e.bi[b].block_state = "EMPTY"
                             THEN d.n_erased_blocks + 1 ELSE d.n_erased_blocks
      /\ e.n_free_chunks = IF e.bi[b].block_state = "EMPTY"
                           THEN d.n_free_chunks
                           ELSE d.n_free_chunks - ChunksPerBlock
      /\ e.gc_block = IF d.gc_block = b THEN NoBlock ELSE d.gc_block
      /\ e.gc_dirtiest = IF d.gc_dirtiest = b THEN NoBlock ELSE d.gc_dirtiest
  BY BecameDirtyEffect
<1>2. \A x \in Blocks \ {b} : e.bi[x] = d.bi[x]
  BY <1>1 DEF SameElsewhere
<1>3. \A p \in Pages : <<b, p>> \notin H \cup S
  BY DEF Owned
<1>4. Count(e, H, S)
  BY <1>1, <1>2, <1>3, GoneCount
<1>5. e.bi[b].block_state \notin InUseStates /\ e.gc_block # b
  BY <1>1 DEF InUseStates, NoBlock, Blocks
<1>6. \A x \in Blocks : PagesUsed(d, x) \in Int
  BY FieldTypes DEF PagesUsed
<1>7. ASSUME NEW x \in Blocks, e.bi[x].block_state \in InUseStates
      PROVE  e.bi[x] = d.bi[x] /\ PagesUsed(e, x) = PagesUsed(d, x)
  BY <1>2, <1>5, <1>7 DEF PagesUsed
<1>8. ShrinksStay(d, e)
  BY <1>2 DEF ShrinksStay
<1>9. Moved(d, e) /\ NoneNew(d, e)
  BY <1>1, <1>6, <1>7, <1>8 DEF Moved, NoneNew
<1> QED  BY <1>1, <1>2, <1>4, <1>5, <1>9

\* yaffs_chunk_del() of a chunk a file gives up.
LEMMA ChunkDelCount ==
    ASSUME NEW d, DevInv(d), NEW c \in Chunks,
           NEW H \in SUBSET Chunks, NEW S \in SUBSET Chunks,
           c \in H, c \notin S, Count(d, H, S), Owned(d, H \cup S),
           NEW eraseOk \in BOOLEAN, NEW e, e = chunk_del(d, c, eraseOk)
    PROVE  /\ Count(e, H \ {c}, S) /\ Moved(d, e) /\ NoneNew(d, e)
           /\ e.bi[c[1]].block_state \in InUseStates =>
                PagesUsed(e, c[1]) = PagesUsed(d, c[1]) - 1
<1> DEFINE b == c[1]
           p == c[2]
           u == update_oldest_dirty_seq(d, b)
           i == u.bi[b].pages_in_use - 1
           n == u.n_free_chunks + 1
           r == [u.bi[b] EXCEPT !.pages_in_use = i]
           f == [u.bi EXCEPT ![b] = r]
           g == [u.chunk_bits EXCEPT ![b] = u.chunk_bits[b] \ {p}]
           m == [u EXCEPT !.n_free_chunks = n, !.chunk_bits = g, !.bi = f]
<1>0. b \in Blocks /\ p \in Pages /\ d \in Device
  BY DEF Chunks, DevInv
<1>1. u \in Device
  BY <1>0, UpdateOldestType
<1>2. e \in {m, block_became_dirty(m, b, eraseOk)}
        /\ (e # m => m.bi[b].pages_in_use = 0 /\ ~m.bi[b].has_shrink_hdr)
  <2>1. [u EXCEPT !.n_free_chunks = @ + 1, !.chunk_bits[b] = @ \ {p},
                  !.bi[b].pages_in_use = @ - 1] = m
    OBVIOUS
  <2>2. e = IF /\ m.bi[b].pages_in_use = 0
               /\ ~m.bi[b].has_shrink_hdr
               /\ m.bi[b].block_state # "ALLOCATING"
            THEN block_became_dirty(m, b, eraseOk) ELSE m
    BY <2>1 DEF chunk_del
  <2> HIDE DEF m
  <2> QED  BY <2>2
<1>3. p \in d.chunk_bits[b]
  BY <1>0, OwnedBit
<1>4. /\ u.bi = d.bi /\ u.chunk_bits = d.chunk_bits
      /\ u.n_free_chunks = d.n_free_chunks
      /\ u.n_erased_blocks = d.n_erased_blocks
      /\ u.gc_block = d.gc_block /\ u.gc_dirtiest = d.gc_dirtiest
  <2> HIDE DEF u, b
  <2> QED  BY <1>0, UpdateOldestEffect DEF u
<1> HIDE DEF u
<1>5. u.bi[b] \in BlockInfo /\ i \in Int /\ n \in Int
  BY <1>0, <1>1 DEF Device, BlockInfo
<1>6. i = d.bi[b].pages_in_use - 1 /\ n = d.n_free_chunks + 1
  BY <1>4
<1> HIDE DEF i, n, b, p
<1>7. /\ r \in BlockInfo /\ r.pages_in_use = i
      /\ r.block_state = d.bi[b].block_state
      /\ r.soft_del_pages = d.bi[b].soft_del_pages
      /\ r.seq_number = d.bi[b].seq_number
      /\ r.has_shrink_hdr = d.bi[b].has_shrink_hdr
  <2> DEFINE q == u.bi[b]
  <2>1. q \in BlockInfo /\ q = d.bi[b]
    BY <1>4, <1>5
  <2> HIDE DEF q
  <2>2. [q EXCEPT !.pages_in_use = i] \in
           {t \in BlockInfo : /\ t.pages_in_use = i /\ t.block_state = q.block_state
                              /\ t.soft_del_pages = q.soft_del_pages
                              /\ t.seq_number = q.seq_number
                              /\ t.has_shrink_hdr = q.has_shrink_hdr}
    BY <1>5, <2>1 DEF BlockInfo
  <2> QED  BY <2>1, <2>2 DEF q
<1> HIDE DEF r
<1>8. /\ f \in [Blocks -> BlockInfo] /\ f[b] = r
      /\ \A x \in Blocks \ {b} : f[x] = d.bi[x]
      /\ g \in [Blocks -> SUBSET Pages] /\ g[b] = d.chunk_bits[b] \ {p}
      /\ \A x \in Blocks \ {b} : g[x] = d.chunk_bits[x]
  BY <1>0, <1>1, <1>4, <1>7 DEF Device
<1> HIDE DEF f, g
<1>9. m \in Device
  BY <1>1, <1>5, <1>8 DEF Device
<1>10. /\ m.bi = f /\ m.chunk_bits = g
       /\ m.n_free_chunks = n /\ m.n_erased_blocks = u.n_erased_blocks
       /\ m.gc_block = u.gc_block /\ m.gc_dirtiest = u.gc_dirtiest
  BY <1>1 DEF Device
<1> HIDE DEF m
<1>11. d.bi[b].block_state \in InUseStates
  BY <1>0, <1>3 DEF DevInv, BlockInv
<1>12. Count(m, H \ {c}, S)
  <2>1. Cardinality(FreeOf(d, H \ {c})) = Cardinality(FreeOf(d, H)) + 1
    BY <1>11, FreeMoves DEF Counted, InUseStates, b
  <2>2. FreeOf(m, H \ {c}) = FreeOf(d, H \ {c}) /\ EmptyBlocks(m) = EmptyBlocks(d)
    BY <1>7, <1>8, <1>10, AlikeCounts
  <2>3. SoftCounted(m, S)
    BY <1>7, <1>8, <1>10 DEF Count, SoftCounted
  <2> QED  BY <1>4, <1>6, <1>10, <2>1, <2>2, <2>3 DEF Count
<1>13. Owned(m, (H \cup S) \ {c})
  <2>1. /\ m.chunk_bits[c[1]] = d.chunk_bits[c[1]] \ {c[2]}
        /\ \A x \in Blocks \ {c[1]} : m.chunk_bits[x] = d.chunk_bits[x]
    BY <1>8, <1>10 DEF b, p
  <2> QED  BY <1>9, <2>1, OwnedDel
<1>14. PagesUsed(m, b) = PagesUsed(d, b) - 1 /\ PagesUsed(d, b) \in Int
  <2> DEFINE w == d.bi[b].pages_in_use
             v == d.bi[b].soft_del_pages
  <2>1. w \in Int /\ v \in Int
    BY <1>0, FieldTypes
  <2>2. m.bi[b].pages_in_use = w - 1 /\ m.bi[b].soft_del_pages = v
    BY <1>6, <1>7, <1>8, <1>10
  <2>3. PagesUsed(m, b) = (w - 1) - v /\ PagesUsed(d, b) = w - v
    BY <2>2 DEF PagesUsed
  <2> HIDE DEF w, v
  <2> QED  BY <2>1, <2>3
<1>15. Moved(d, m) /\ NoneNew(d, m)
  <2>1. ASSUME NEW x \in Blocks
        PROVE  /\ m.bi[x].block_state = d.bi[x].block_state
               /\ m.bi[x].seq_number = d.bi[x].seq_number
               /\ m.bi[x].has_shrink_hdr = d.bi[x].has_shrink_hdr
    BY <1>7, <1>8, <1>10
  <2>2. ASSUME NEW x \in Blocks
        PROVE  PagesUsed(m, x) <= PagesUsed(d, x)
    <3>1. CASE x = b
      BY <1>14, <3>1
    <3>2. CASE x # b
      <4>1. PagesUsed(m, x) = PagesUsed(d, x) /\ PagesUsed(d, x) \in Int
        BY <1>0, <1>8, <1>10, <3>2, FieldTypes DEF PagesUsed
      <4> QED  BY <4>1
    <3> QED  BY <3>1, <3>2
  <2> QED  BY <1>4, <1>10, <2>1, <2>2 DEF Moved, ShrinksStay, NoneNew
<1>16. CASE e = m
  BY <1>12, <1>14, <1>15, <1>16 DEF b
<1>17. CASE e # m
  <2>1. m.chunk_bits[b] = {} /\ m.bi[b].pages_in_use = 0
    <3>1. d.chunk_bits[b] \in SUBSET Pages /\ g[b] \in SUBSET Pages
      BY <1>0, <1>8, FieldTypes
    <3>2. Cardinality(d.chunk_bits[b] \ {p}) = Cardinality(d.chunk_bits[b]) - 1
      BY <1>3, <3>1, PagesFinite, FS_RemoveElement
    <3>3. d.bi[b].pages_in_use = Cardinality(d.chunk_bits[b])
      BY <1>0 DEF DevInv, BlockInv
    <3>4. Cardinality(g[b]) = 0
      BY <1>2, <1>6, <1>7, <1>8, <1>10, <1>17, <3>2, <3>3
    <3> QED  BY <1>2, <1>10, <1>17, <3>1, <3>4, PagesFinite, FS_EmptySet
  <2>2. m.bi[b].block_state \in InUseStates /\ ~m.bi[b].has_shrink_hdr
    BY <1>2, <1>7, <1>8, <1>10, <1>11, <1>17
  <2>3. e = block_became_dirty(m, b, eraseOk)
    BY <1>2, <1>17
  <2>4. (H \cup S) \ {c} = (H \ {c}) \cup S
    OBVIOUS
  <2>5. /\ e \in Device /\ Count(e, H \ {c}, S) /\ Moved(m, e) /\ NoneNew(m, e)
        /\ e.bi[b].block_state \notin InUseStates
    BY <1>0, <1>9, <1>12, <1>13, <2>1, <2>2, <2>3, <2>4, BecameDirtyCount
  <2>6. Moved(d, e) /\ NoneNew(d, e)
    BY <1>0, <1>9, <1>15, <2>5, MovedOn
  <2> QED  BY <2>5, <2>6 DEF b
<1> QED  BY <1>16, <1>17

\* The first half of yaffs_alloc_chunk(): an erased block comes into use.
LEMMA WithAllocCount ==
    ASSUME NEW d, DevInv(d), NEW H, NEW S, Count(d, H, S),
           NEW e, e = with_alloc_block(d)
    PROVE  Count(e, H, S) /\ Moved(d, e) /\ NoneGone(d, e)
<1>0. d \in Device /\ e \in Device
  BY WithAllocType DEF DevInv
<1>1. CASE d.alloc_block # NoBlock
  <2>1. Level(d, d) /\ e = d
    BY <1>1 DEF Level, with_alloc_block
  <2> QED  BY <1>0, <2>1, LevelKeeps
<1>2. CASE d.alloc_block = NoBlock /\ find_alloc_block(d) = d
  <2>1. e = [d EXCEPT !.alloc_page = 0]
    BY <1>2 DEF with_alloc_block
  <2>2. Level(d, e)
    BY <1>0, <2>1 DEF Level, Device
  <2> QED  BY <1>0, <2>2, LevelKeeps
<1>3. CASE d.alloc_block = NoBlock /\ find_alloc_block(d) # d
  <2> DEFINE n == d.seq_number + 1
             k == d.n_erased_blocks - 1
  <2>1. PICK b \in EmptyBlocks(d) :
          find_alloc_block(d) =
            [d EXCEPT !.bi[b] = [@ EXCEPT !.block_state = "ALLOCATING",
                                          !.seq_number  = d.seq_number + 1],
                      !.seq_number = @ + 1, !.n_erased_blocks = @ - 1,
                      !.alloc_block_finder = b, !.alloc_block = b]
    BY <1>0, <1>3, FindAllocBlockIs
  <2> DEFINE r == [d.bi[b] EXCEPT !.block_state = "ALLOCATING", !.seq_number = n]
             f == [d.bi EXCEPT ![b] = r]
             z == [d EXCEPT !.bi = f, !.seq_number = n, !.n_erased_blocks = k,
                            !.alloc_block_finder = b, !.alloc_block = b]
  <2>2. b \in Blocks /\ d.bi[b].block_state = "EMPTY"
    BY DEF EmptyBlocks
  <2>3. find_alloc_block(d) = z
    <3>1. [d EXCEPT !.bi[b] = [@ EXCEPT !.block_state = "ALLOCATING",
                                        !.seq_number  = d.seq_number + 1],
                    !.seq_number = @ + 1, !.n_erased_blocks = @ - 1,
                    !.alloc_block_finder = b, !.alloc_block = b] = z
      OBVIOUS
    <3> QED  BY <2>1, <3>1
  <2>4. e = [z EXCEPT !.alloc_page = 0]
    BY <1>3, <2>3 DEF with_alloc_block
  <2>5. z \in Device
    BY <1>0, <2>3, FindAllocType
  <2>6. r.block_state = "ALLOCATING" /\ r.soft_del_pages = d.bi[b].soft_del_pages
    <3> DEFINE q == d.bi[b]
    <3>1. q \in BlockInfo
      BY <1>0, <2>2, FieldTypes
    <3> HIDE DEF q, n
    <3>2. LET t == [q EXCEPT !.block_state = "ALLOCATING", !.seq_number = n]
          IN  t.block_state = "ALLOCATING" /\ t.soft_del_pages = q.soft_del_pages
      BY <3>1 DEF BlockInfo
    <3> QED  BY <3>2 DEF q
  <2>7. k = d.n_erased_blocks - 1
    OBVIOUS
  <2> HIDE DEF r
  <2>8. f[b] = r /\ \A x \in Blocks \ {b} : f[x] = d.bi[x]
    BY <1>0, <2>2 DEF Device
  <2> HIDE DEF f, n, k
  <2>9. /\ z.bi = f /\ z.gc_block = d.gc_block /\ z.gc_dirtiest = d.gc_dirtiest
        /\ z.n_erased_blocks = k /\ z.n_free_chunks = d.n_free_chunks
    BY <1>0 DEF Device
  <2> HIDE DEF z
  <2>10. /\ e.bi = f /\ e.gc_block = d.gc_block /\ e.gc_dirtiest = d.gc_dirtiest
         /\ e.n_erased_blocks = k /\ e.n_free_chunks = d.n_free_chunks
    BY <2>4, <2>5, <2>9 DEF Device
  <2>11. FreeOf(e, H) = FreeOf(d, H)
    <3>1. \A c \in Chunks : c[1] \in Blocks
      BY ChunkParts
    <3> QED  BY <2>2, <2>6, <2>8, <2>10, <3>1 DEF FreeOf, Counted
  <2>12. Cardinality(EmptyBlocks(e)) = Cardinality(EmptyBlocks(d)) - 1
    <3>1. EmptyBlocks(e) = EmptyBlocks(d) \ {b}
      BY <2>2, <2>6, <2>8, <2>10 DEF EmptyBlocks
    <3>2. IsFiniteSet(EmptyBlocks(d))
      BY ChunksFinite DEF EmptyBlocks
    <3> QED  BY <3>1, <3>2, FS_RemoveElement
  <2>13. SoftCounted(e, S)
    BY <2>6, <2>8, <2>10 DEF SoftCounted, Count
  <2>14. Count(e, H, S)
    BY <2>7, <2>10, <2>11, <2>12, <2>13 DEF Count
  <2>15. \A x \in Blocks : d.bi[x].block_state \in InUseStates => e.bi[x] = d.bi[x]
    BY <2>2, <2>8, <2>10 DEF InUseStates
  <2>16. Moved(d, e) /\ NoneGone(d, e)
    <3>1. \A x \in Blocks : PagesUsed(d, x) \in Int
      BY <1>0, FieldTypes DEF PagesUsed
    <3> QED  BY <2>10, <2>15, <3>1 DEF Moved, ShrinksStay, NoneGone, PagesUsed
  <2> QED  BY <2>14, <2>16
<1> QED  BY <1>1, <1>2, <1>3

\* The second half: its next page gets an owner.
LEMMA TakePageCount ==
    ASSUME NEW d, DevInv(d), d.alloc_block # NoBlock,
           NEW c, c = NextChunk(d),
           NEW H \in SUBSET Chunks, NEW S \in SUBSET Chunks, c \notin H, Count(d, H, S),
           NEW e, e = take_page(d)
    PROVE  /\ Count(e, H \cup {c}, S) /\ Moved(d, e) /\ NoneNew(d, e) /\ NoneGone(d, e)
           /\ d.bi[c[1]].block_state = "ALLOCATING"
<1> DEFINE b == d.alloc_block
           p == d.alloc_page
           filled == p + 1 >= ChunksPerBlock
           r == TakenInfo(d.bi[b], filled)
           q == d.chunk_bits[b] \cup {p}
           n == d.n_free_chunks - 1
           a == IF filled THEN NoBlock ELSE b
           f == [d.bi EXCEPT ![b] = r]
           g == [d.chunk_bits EXCEPT ![b] = q]
           k == [d EXCEPT !.bi = f, !.chunk_bits = g, !.alloc_page = p + 1,
                          !.n_free_chunks = n, !.alloc_block = a]
<1>1. /\ d \in Device /\ PointerInv(d) /\ \A x \in Blocks : BlockInv(d, x)
  BY DEF DevInv
<1>2. /\ b \in Blocks /\ p \in Pages /\ d.bi[b] \in BlockInfo
      /\ d.bi[b].block_state = "ALLOCATING"
  BY <1>1, FieldTypes DEF PointerInv, BlockInv
<1>3. e = k
  <2>1. [d EXCEPT !.bi[b] = r, !.chunk_bits[b] = q, !.alloc_page = p + 1,
                  !.n_free_chunks = n, !.alloc_block = a] = k
    <3> HIDE DEF b, r, q, n, a, p
    <3> QED  OBVIOUS
  <2> QED  BY <2>1, Zenon DEF take_page
<1>4. c \in Chunks /\ c[1] = b
  BY <1>2 DEF NextChunk, Chunks
<1>5. n = d.n_free_chunks - 1
  OBVIOUS
<1>6. filled \in BOOLEAN
  BY DEF filled
<1> HIDE DEF b, p, filled
<1>7. /\ r.block_state = IF filled THEN "FULL" ELSE "ALLOCATING"
      /\ r.soft_del_pages = d.bi[b].soft_del_pages
      /\ r.seq_number = d.bi[b].seq_number
  BY <1>2, <1>6, TakenInfoType
<1>8. r.has_shrink_hdr = d.bi[b].has_shrink_hdr
  <2> DEFINE t == d.bi[b]
  <2>1. t \in BlockInfo
    BY <1>2
  <2> HIDE DEF t
  <2>2. TakenInfo(t, filled).has_shrink_hdr = t.has_shrink_hdr
    BY <2>1 DEF TakenInfo, BlockInfo
  <2> QED  BY <2>2 DEF t
<1> HIDE DEF r, q, n, a
<1>9. f[b] = r /\ \A x \in Blocks \ {b} : f[x] = d.bi[x]
  BY <1>1, <1>2 DEF Device
<1> HIDE DEF f, g
<1>10. /\ k.bi = f /\ k.n_free_chunks = n /\ k.n_erased_blocks = d.n_erased_blocks
       /\ k.gc_block = d.gc_block /\ k.gc_dirtiest = d.gc_dirtiest
  BY <1>1 DEF Device
<1> HIDE DEF k
<1>11. e.bi[b] = r /\ \A x \in Blocks \ {b} : e.bi[x] = d.bi[x]
  BY <1>3, <1>9, <1>10
<1>12. r.block_state \in InUseStates /\ d.bi[b].block_state \in InUseStates
  BY <1>2, <1>7 DEF InUseStates
<1>13. Count(e, H \cup {c}, S)
  <2>1. Cardinality(FreeOf(d, H \cup {c})) = Cardinality(FreeOf(d, H)) - 1
    BY <1>4, <1>12, FreeMoves DEF Counted, InUseStates
  <2>2. FreeOf(e, H \cup {c}) = FreeOf(d, H \cup {c}) /\ EmptyBlocks(e) = EmptyBlocks(d)
    BY <1>11, <1>12, AlikeCounts
  <2>3. SoftCounted(e, S)
    BY <1>7, <1>11 DEF Count, SoftCounted
  <2> QED  BY <1>3, <1>5, <1>10, <2>1, <2>2, <2>3 DEF Count
<1>14. Moved(d, e) /\ NoneNew(d, e) /\ NoneGone(d, e)
  <2>1. \A x \in Blocks : PagesUsed(d, x) \in Int
    BY <1>1, FieldTypes DEF PagesUsed
  <2>2. d.bi[b].block_state \notin Whole
    BY <1>2 DEF Whole
  <2> QED  BY <1>3, <1>7, <1>8, <1>10, <1>11, <1>12, <2>1, <2>2
           DEF Moved, ShrinksStay, NoneNew, NoneGone, PagesUsed
<1> QED  BY <1>2, <1>4, <1>13, <1>14

\* A failed write gives its chunk up again.
LEMMA WrErrorCount ==
    ASSUME NEW d, DevInv(d), NEW c \in Chunks,
           NEW H \in SUBSET Chunks, NEW S \in SUBSET Chunks,
           c \in H, c \notin S, Count(d, H, S), Owned(d, H \cup S),
           NEW erasedOk \in BOOLEAN, NEW eraseOk \in BOOLEAN,
           NEW e, e = handle_chunk_wr_error(d, c, erasedOk, eraseOk)
    PROVE  Count(e, H \ {c}, S) /\ Moved(d, e) /\ NoneNew(d, e)
<1> DEFINE b == c[1]
           h == handle_chunk_error(d, b)
           q == h.bi[b]
           t == q.needs_retiring \/ erasedOk
           r == [q EXCEPT !.needs_retiring = t]
           f == [h EXCEPT !.bi[b] = r]
           g == chunk_del(f, c, eraseOk)
<1>1. b \in Blocks /\ d \in Device /\ c[2] \in d.chunk_bits[b]
  BY OwnedBit, ChunkParts DEF DevInv
<1>2. e = skip_rest_of_block(g)
  BY DEF handle_chunk_wr_error
<1>3. DevInv(h) /\ h \in Device /\ h.chunk_bits = d.chunk_bits /\ Level(d, h)
  <2> HIDE DEF h, b
  <2> QED  BY <1>1, ChunkErrorInv, ChunkErrorLevel DEF h, DevInv
<1> HIDE DEF h
<1>4. q \in BlockInfo /\ t \in BOOLEAN
  BY <1>1, <1>3, FieldTypes
<1>5. f = [h EXCEPT !.bi[b] = r] /\ q = h.bi[b]
  OBVIOUS
<1> HIDE DEF f, q, t
<1>6. /\ r \in BlockInfo /\ r.block_state = q.block_state
      /\ r.pages_in_use = q.pages_in_use /\ r.soft_del_pages = q.soft_del_pages
      /\ r.seq_number = q.seq_number /\ r.has_shrink_hdr = q.has_shrink_hdr
  BY <1>4 DEF BlockInfo
<1> HIDE DEF r
<1>7. DevInv(f) /\ f \in Device /\ f.chunk_bits = h.chunk_bits
  BY <1>1, <1>3, <1>5, <1>6, EntryInv DEF DevInv
<1>8. Level(h, f)
  BY <1>1, <1>3, <1>5, <1>6, EntryLevel
<1>9. /\ Count(f, H, S) /\ Moved(d, f) /\ NoneNew(d, f)
      /\ Owned(f, H \cup S)
  <2>1. /\ Count(h, H, S) /\ Moved(d, h) /\ NoneNew(d, h)
    BY <1>1, <1>3, LevelKeeps
  <2>2. /\ Count(f, H, S) /\ Moved(h, f) /\ NoneNew(h, f)
    BY <1>3, <1>7, <1>8, <2>1, LevelKeeps
  <2> QED  BY <1>1, <1>3, <1>7, <2>1, <2>2, MovedOn DEF Owned
<1> HIDE DEF g
<1>10. /\ DevInv(g) /\ g \in Device
       /\ Count(g, H \ {c}, S) /\ Moved(f, g) /\ NoneNew(f, g)
  BY <1>1, <1>3, <1>7, <1>9, ChunkDelInv, ChunkDelCount DEF g, DevInv
<1>11. Moved(d, g) /\ NoneNew(d, g)
  BY <1>1, <1>7, <1>9, <1>10, MovedOn
<1>12. Level(g, e) /\ e \in Device
  BY <1>2, <1>10, SkipRestLevel, SkipRestType
<1>13. Count(e, H \ {c}, S) /\ Moved(g, e) /\ NoneNew(g, e)
  BY <1>10, <1>12, LevelKeeps
<1> QED  BY <1>1, <1>10, <1>11, <1>12, <1>13, MovedOn

\* A shrink header marks its block.
LEMMA MarkShrinkIs ==
    ASSUME NEW d \in Device, NEW b \in Blocks, NEW e, e = mark_shrink_hdr(d, b)
    PROVE  /\ \A x \in Blocks \ {b} : e.bi[x] = d.bi[x]
           /\ e.bi[b].block_state = d.bi[b].block_state
           /\ e.bi[b].seq_number = d.bi[b].seq_number
           /\ e.bi[b].soft_del_pages = d.bi[b].soft_del_pages
           /\ PagesUsed(e, b) = PagesUsed(d, b)
           /\ e.bi[b].has_shrink_hdr
           /\ e.gc_block = d.gc_block /\ e.gc_dirtiest = d.gc_dirtiest
           /\ e.n_free_chunks = d.n_free_chunks /\ e.n_erased_blocks = d.n_erased_blocks
<1> DEFINE q == d.bi[b]
           r == [q EXCEPT !.has_shrink_hdr = TRUE]
           f == [d.bi EXCEPT ![b] = r]
<1>1. q \in BlockInfo
  BY FieldTypes
<1>2. e = [d EXCEPT !.bi = f]
  BY DEF mark_shrink_hdr
<1>3. q = d.bi[b]
  OBVIOUS
<1> HIDE DEF q
<1>4. /\ r.block_state = q.block_state /\ r.pages_in_use = q.pages_in_use
      /\ r.soft_del_pages = q.soft_del_pages /\ r.seq_number = q.seq_number
      /\ r.has_shrink_hdr
  BY <1>1 DEF BlockInfo
<1> HIDE DEF r
<1>5. f[b] = r /\ \A x \in Blocks \ {b} : f[x] = d.bi[x]
  BY DEF Device
<1> HIDE DEF f
<1>6. /\ e.bi = f /\ e.gc_block = d.gc_block /\ e.gc_dirtiest = d.gc_dirtiest
      /\ e.n_free_chunks = d.n_free_chunks /\ e.n_erased_blocks = d.n_erased_blocks
  BY <1>2 DEF Device
<1> QED  BY <1>3, <1>4, <1>5, <1>6 DEF PagesUsed

\* The block stays counted as it was.
LEMMA MarkShrinkCount ==
    ASSUME NEW d \in Device, NEW b \in Blocks, NEW H, NEW S, Count(d, H, S),
           NEW e, e = mark_shrink_hdr(d, b)
    PROVE  Count(e, H, S)
<1>1. /\ \A x \in Blocks : /\ e.bi[x].block_state = d.bi[x].block_state
                           /\ e.bi[x].soft_del_pages = d.bi[x].soft_del_pages
      /\ e.n_free_chunks = d.n_free_chunks /\ e.n_erased_blocks = d.n_erased_blocks
  BY MarkShrinkIs
<1>2. FreeOf(e, H) = FreeOf(d, H) /\ EmptyBlocks(e) = EmptyBlocks(d)
  BY <1>1, AlikeCounts
<1> QED  BY <1>1, <1>2 DEF Count, SoftCounted

\* The head of yaffs_gc_block(): the block forgets that it holds a shrink header,
\* and may be erased.
LEMMA GcEntryCount ==
    ASSUME NEW d \in Device, DevInv(d), NEW b \in Blocks, NEW eraseOk \in BOOLEAN,
           NEW H \in SUBSET Chunks, NEW S \in SUBSET Chunks,
           Count(d, H, S), Owned(d, H \cup S), d.bi[b].block_state \in Whole,
           NEW e, e = GcBlockEntry(d, b, eraseOk)
    PROVE  /\ Count(e, H, S)
           /\ \A x \in Blocks \ {b} : e.bi[x] = d.bi[x]
           /\ e.bi[b].block_state \in InUseStates =>
                /\ e.bi[b].block_state \in Whole
                /\ e.bi[b].seq_number = d.bi[b].seq_number
                /\ PagesUsed(e, b) = PagesUsed(d, b)
                /\ ~e.bi[b].has_shrink_hdr
           /\ e.gc_block # NoBlock => e.gc_block = b /\ e.bi[b].block_state \in InUseStates
           /\ e.gc_dirtiest \in {d.gc_dirtiest, NoBlock}
<1> DEFINE q == d.bi[b]
           r == CollectedInfo(q)
           f == [d.bi EXCEPT ![b] = r]
           m == [d EXCEPT !.bi = f, !.gc_block = b]
<1>1. [d EXCEPT !.bi[b] = CollectedInfo(@), !.gc_block = b] = m
  OBVIOUS
<1>2. e = IF d.chunk_bits[b] = {} THEN block_became_dirty(m, b, eraseOk) ELSE m
  BY <1>1, Zenon DEF GcBlockEntry
<1>3. q \in BlockInfo /\ q.block_state \in Whole /\ q = d.bi[b]
  BY FieldTypes
<1>4. /\ r \in BlockInfo /\ r.block_state = "COLLECTING"
      /\ r.pages_in_use = q.pages_in_use /\ r.soft_del_pages = q.soft_del_pages
      /\ r.seq_number = q.seq_number /\ ~r.has_shrink_hdr
  <2> HIDE DEF q
  <2> QED  BY <1>3 DEF CollectedInfo, BlockInfo, BlockStates, Whole
<1> HIDE DEF r, q
<1>5. /\ f \in [Blocks -> BlockInfo] /\ f[b] = r
      /\ \A x \in Blocks \ {b} : f[x] = d.bi[x]
  BY <1>4 DEF Device
<1> HIDE DEF f
<1>6. /\ m \in Device /\ m.bi = f /\ m.chunk_bits = d.chunk_bits
      /\ m.gc_block = b /\ m.gc_dirtiest = d.gc_dirtiest
      /\ m.n_free_chunks = d.n_free_chunks /\ m.n_erased_blocks = d.n_erased_blocks
  BY <1>5 DEF Device
<1> HIDE DEF m
<1>7. m.bi[b] = r /\ \A x \in Blocks \ {b} : m.bi[x] = d.bi[x]
  BY <1>5, <1>6
<1>8. q.block_state \in InUseStates /\ r.block_state \in InUseStates
  BY <1>3, <1>4 DEF Whole, InUseStates
<1>9. Count(m, H, S)
  <2>1. FreeOf(m, H) = FreeOf(d, H) /\ EmptyBlocks(m) = EmptyBlocks(d)
    BY <1>3, <1>7, <1>8, AlikeCounts
  <2>2. SoftCounted(m, S)
    BY <1>3, <1>4, <1>7 DEF Count, SoftCounted
  <2> QED  BY <1>6, <2>1, <2>2 DEF Count
<1>10. CASE d.chunk_bits[b] # {}
  <2>1. e = m
    BY <1>2, <1>10
  <2> QED  BY <1>3, <1>4, <1>6, <1>7, <1>8, <1>9, <2>1 DEF PagesUsed, Whole
<1>11. CASE d.chunk_bits[b] = {}
  <2>1. d.bi[b].pages_in_use = 0
    BY <1>11, FS_EmptySet DEF DevInv, BlockInv
  <2>2. e = block_became_dirty(m, b, eraseOk)
    BY <1>2, <1>11
  <2>3. Owned(m, H \cup S)
    BY <1>6 DEF Owned
  <2>4. /\ Count(e, H, S) /\ Moved(m, e)
        /\ \A x \in Blocks \ {b} : e.bi[x] = m.bi[x]
        /\ e.bi[b].block_state \notin InUseStates /\ e.gc_block # b
    BY <1>3, <1>4, <1>6, <1>7, <1>8, <1>9, <1>11, <2>1, <2>2, <2>3, BecameDirtyCount
  <2> QED  BY <1>6, <1>7, <2>4 DEF Moved
<1> QED  BY <1>10, <1>11

\* A chunk whose file is soft-deleted changes owner, and becomes free.
LEMMA SoftDelCount ==
    ASSUME NEW d, DevInv(d), NEW c \in Chunks,
           NEW H \in SUBSET Chunks, NEW S \in SUBSET Chunks,
           c \in H, c \notin S, Count(d, H, S), Owned(d, H \cup S),
           NEW e, e = soft_del_chunk(d, c)
    PROVE  Count(e, H \ {c}, S \cup {c}) /\ Moved(d, e) /\ NoneGone(d, e)
<1> DEFINE b == c[1]
           s == d.bi[b].soft_del_pages + 1
           n == d.n_free_chunks + 1
           r == [d.bi[b] EXCEPT !.soft_del_pages = s]
           f == [d.bi EXCEPT ![b] = r]
           m == [d EXCEPT !.bi = f, !.n_free_chunks = n]
<1>1. d \in Device /\ b \in Blocks /\ c[2] \in d.chunk_bits[b]
  BY OwnedBit, ChunkParts DEF DevInv
<1>2. e = update_oldest_dirty_seq(m, b)
  <2>1. [d EXCEPT !.bi[b].soft_del_pages = @ + 1, !.n_free_chunks = @ + 1] = m
    OBVIOUS
  <2> QED  BY <2>1 DEF soft_del_chunk
<1>3. d.bi[b].block_state \in InUseStates
  BY <1>1 DEF DevInv, BlockInv
<1>4. /\ d.bi[b] \in BlockInfo /\ s \in Int /\ n \in Int
      /\ s = d.bi[b].soft_del_pages + 1 /\ n = d.n_free_chunks + 1
  BY <1>1 DEF Device, BlockInfo
<1>5. b = c[1]
  OBVIOUS
<1> HIDE DEF b, s, n
<1>6. /\ r \in BlockInfo /\ r.pages_in_use = d.bi[b].pages_in_use
      /\ r.soft_del_pages = s /\ r.block_state = d.bi[b].block_state
      /\ r.seq_number = d.bi[b].seq_number
      /\ r.has_shrink_hdr = d.bi[b].has_shrink_hdr
  <2> DEFINE q == d.bi[b]
  <2>1. q \in BlockInfo
    BY <1>4
  <2> HIDE DEF q
  <2>2. [q EXCEPT !.soft_del_pages = s] \in
           {t \in BlockInfo : /\ t.pages_in_use = q.pages_in_use
                              /\ t.soft_del_pages = s
                              /\ t.block_state = q.block_state
                              /\ t.seq_number = q.seq_number
                              /\ t.has_shrink_hdr = q.has_shrink_hdr}
    BY <1>4, <2>1 DEF BlockInfo
  <2> QED  BY <2>2 DEF q
<1> HIDE DEF r
<1>7. /\ f \in [Blocks -> BlockInfo] /\ f[b] = r
      /\ \A x \in Blocks \ {b} : f[x] = d.bi[x]
  BY <1>1, <1>6 DEF Device
<1> HIDE DEF f
<1>8. /\ m \in Device /\ m.bi = f
      /\ m.n_free_chunks = n /\ m.n_erased_blocks = d.n_erased_blocks
      /\ m.gc_block = d.gc_block /\ m.gc_dirtiest = d.gc_dirtiest
  BY <1>1, <1>4, <1>7 DEF Device
<1> HIDE DEF m
<1>9. /\ e.bi = m.bi /\ e.n_free_chunks = m.n_free_chunks
      /\ e.n_erased_blocks = m.n_erased_blocks
      /\ e.gc_block = m.gc_block /\ e.gc_dirtiest = m.gc_dirtiest
  BY <1>1, <1>2, <1>8, UpdateOldestEffect
<1>10. e.bi[b] = r /\ \A x \in Blocks \ {b} : e.bi[x] = d.bi[x]
  BY <1>7, <1>8, <1>9
<1>11. Count(e, H \ {c}, S \cup {c})
  <2>1. Cardinality(FreeOf(d, H \ {c})) = Cardinality(FreeOf(d, H)) + 1
    BY <1>3, <1>5, FreeMoves DEF Counted, InUseStates
  <2>2. FreeOf(e, H \ {c}) = FreeOf(d, H \ {c}) /\ EmptyBlocks(e) = EmptyBlocks(d)
    BY <1>6, <1>10, AlikeCounts
  <2>3. SoftCounted(e, S \cup {c})
    <3>1. ASSUME NEW x \in Blocks
          PROVE  e.bi[x].soft_del_pages = Cardinality(PagesOf(S \cup {c}, x))
      <4>1. d.bi[x].soft_del_pages = Cardinality(PagesOf(S, x))
        BY DEF Count, SoftCounted
      <4> QED  BY <1>4, <1>5, <1>6, <1>10, <4>1, SoftMoves
    <3> QED  BY <3>1 DEF SoftCounted
  <2> QED  BY <1>4, <1>8, <1>9, <2>1, <2>2, <2>3 DEF Count
<1>12. \A x \in Blocks : PagesUsed(e, x) <= PagesUsed(d, x)
  <2>1. ASSUME NEW x \in Blocks
        PROVE  PagesUsed(e, x) <= PagesUsed(d, x)
    <3> DEFINE w == d.bi[x].pages_in_use
               v == d.bi[x].soft_del_pages
    <3>1. w \in Int /\ v \in Int
      BY <1>1, FieldTypes
    <3>2. /\ e.bi[x].pages_in_use = w
          /\ e.bi[x].soft_del_pages = v \/ e.bi[x].soft_del_pages = v + 1
      BY <1>4, <1>6, <1>10
    <3>3. /\ PagesUsed(e, x) = w - v \/ PagesUsed(e, x) = w - (v + 1)
          /\ PagesUsed(d, x) = w - v
      BY <3>2 DEF PagesUsed
    <3> HIDE DEF w, v
    <3> QED  BY <3>1, <3>3
  <2> QED  BY <2>1
<1>13. Moved(d, e) /\ NoneGone(d, e)
  BY <1>6, <1>8, <1>9, <1>10, <1>12 DEF Moved, ShrinksStay, NoneGone
<1> QED  BY <1>11, <1>13
=============================================================================
