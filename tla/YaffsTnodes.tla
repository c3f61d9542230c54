------------------------------ MODULE YaffsTnodes ------------------------------
(***************************************************************************)
(* The tree that leads from the chunks of a file to their places on flash. *)
(*                                                                         *)
(* Internal tnodes hold pointers; level 0 tnodes hold numbers of           *)
(* tnode_width bits packed across 32-bit words.  Where tnode_width is too  *)
(* narrow for a chunk number a group of chunks is stored and the chunk is  *)
(* found in it by its tags.  The tree grows and shrinks with the file, is  *)
(* pruned by a truncation, taken apart by a deletion, and saved to and     *)
(* rebuilt from a checkpoint.  One file and one memory of Tnodes stand for *)
(* all; the words, the fans and the levels are scaled down.  A word is the *)
(* set of its bits that are 1.                                             *)
(***************************************************************************)
EXTENDS Integers, Sequences, FiniteSets, SequencesExt, TLC

CONSTANTS
    LEVEL0_BITS,      \* YAFFS_TNODES_LEVEL0_BITS: log2 of the entries of level 0
    INTERNAL_BITS,    \* YAFFS_TNODES_INTERNAL_BITS: log2 of the fan above it
    MAX_LEVEL,        \* YAFFS_TNODES_MAX_LEVEL
    WordBits,         \* bits of a word
    FileChunks,       \* the chunks of the file that calls are made on
    Geometries,       \* records [width, grp_bits, places, tnodes] to choose from
    Null              \* no tnode

VARIABLES
    dev,              \* geometry of the device
    tree,             \* [mem, n_tnodes, top, top_level]: dev->allocator and file_variant
    n_data_chunks,
    tags,             \* chunks in use on flash -> the chunk of the file they hold
    content,          \* chunks of the file -> where they are (what the tree promises)
    write_failed      \* a write of a chunk has failed

tnodeVars == <<dev, tree, n_data_chunks, tags, content, write_failed>>

Without(f, S) == Restrict(f, DOMAIN f \ S)

NTNODES_LEVEL0 == 2^LEVEL0_BITS
NTNODES_INTERNAL == 2^INTERNAL_BITS

(***************************************************************************)
(* Words                                                                   *)
(***************************************************************************)
WordIndices == 0 .. WordBits - 1
TnodeWords == 0 .. (dev.width * NTNODES_LEVEL0) \div WordBits - 1
tnode_mask == 0 .. dev.width - 1

BitsOf(n) == {b \in 0 .. 15 : (n \div 2^b) % 2 = 1}
NumberOf(bits) == FoldSet(LAMBDA b, n : n + 2^b, 0, bits)
Shl(bits, k) == {b \in WordIndices : b - k \in bits}
Shr(bits, k) == {b \in WordIndices : b + k \in bits}

\* A value that does not fit in what is left of a word goes on in the next one.
load_tnode_0(map, pos, val) ==
    LET bit == (pos % NTNODES_LEVEL0) * dev.width
        word == bit \div WordBits
        inWord == bit % WordBits
        v == BitsOf(val \div 2^dev.grp_bits)
        left == WordBits - inWord
        mask == Shl(tnode_mask, inWord)
        rest == Shr(tnode_mask, left)
        New(w) == IF w = word THEN (map[w] \ mask) \cup (mask \cap Shl(v, inWord))
                  ELSE IF w = word + 1 /\ dev.width > left
                         THEN (map[w] \ rest) \cup (rest \cap Shr(v, left))
                  ELSE map[w]
    IN [w \in TnodeWords |-> New(w)]

get_group_base(map, pos) ==
    LET bit == (pos % NTNODES_LEVEL0) * dev.width
        word == bit \div WordBits
        inWord == bit % WordBits
        left == WordBits - inWord
        val == Shr(map[word], inWord)
                 \cup (IF dev.width > left THEN Shl(map[word + 1], left) ELSE {})
    IN NumberOf(val \cap tnode_mask) * 2^dev.grp_bits

(***************************************************************************)
(* The memory.  A tnode is a level 0 or an internal one by where it is in  *)
(* the tree; it is cleared when it is taken.                               *)
(***************************************************************************)
NoKids == [i \in 0 .. NTNODES_INTERNAL - 1 |-> Null]
Cleared == [map |-> [w \in TnodeWords |-> {}], internal |-> NoKids]

\* kmalloc refuses when all of dev.tnodes are in use.
FreeTnodes(t) == {tn \in 1 .. dev.tnodes : t.mem[tn] = Null}
NextTnode(t) == CHOOSE tn \in FreeTnodes(t) : \A o \in FreeTnodes(t) : tn <= o
get_tnode(t) == [t EXCEPT !.mem[NextTnode(t)] = Cleared, !.n_tnodes = @ + 1]

free_tnode(t, tn) == [t EXCEPT !.mem[tn] = Null, !.n_tnodes = @ - 1]

(***************************************************************************)
(* Finding and adding                                                      *)
(***************************************************************************)
RECURSIVE Depth(_)
Depth(x) == IF x = 0 THEN 0 ELSE 1 + Depth(x \div NTNODES_INTERNAL)

RequiredDepth(chunk_id) == Depth(chunk_id \div NTNODES_LEVEL0)

Branch(chunk_id, level) ==
    (chunk_id \div 2^(LEVEL0_BITS + (level - 1) * INTERNAL_BITS)) % NTNODES_INTERNAL

RECURSIVE Descend(_, _, _, _)
Descend(t, tn, level, chunk_id) ==
    IF level = 0 \/ tn = Null THEN tn
    ELSE Descend(t, t.mem[tn].internal[Branch(chunk_id, level)], level - 1, chunk_id)

MAX_CHUNK_ID == 2^(LEVEL0_BITS + INTERNAL_BITS * MAX_LEVEL) - 1

\* "Check sane level and chunk Id"
Sane(t, chunk_id) == t.top_level <= MAX_LEVEL /\ chunk_id <= MAX_CHUNK_ID

find_tnode_0(t, chunk_id) ==
    IF ~Sane(t, chunk_id) \/ RequiredDepth(chunk_id) > t.top_level THEN Null
    ELSE Descend(t, t.top, t.top_level, chunk_id)

RECURSIVE Taller(_, _)
Taller(t, depth) ==
    IF t.top_level >= depth \/ FreeTnodes(t) = {} THEN t
    ELSE LET tn == NextTnode(t)
         IN Taller([get_tnode(t) EXCEPT !.mem[tn].internal[0] = t.top,
                                        !.top = tn, !.top_level = @ + 1], depth)

\* The way down from tn at level l: [t, tn], tn Null when memory runs out.  At
\* level 1 a tnode passed in takes the place of the one that is there.
RECURSIVE Plant(_, _, _, _, _)
Plant(t, tn, l, chunk_id, passed) ==
    IF l = 0 THEN [t |-> t, tn |-> tn]
    ELSE
    LET x == Branch(chunk_id, l)
        kid == t.mem[tn].internal[x]
        Below(t1, k) == Plant([t1 EXCEPT !.mem[tn].internal[x] = k], k, l - 1, chunk_id, passed)
    IN IF l = 1 /\ passed # Null
         THEN Below(IF kid # Null THEN free_tnode(t, kid) ELSE t, passed)
       ELSE IF kid # Null THEN Below(t, kid)
       ELSE IF FreeTnodes(t) = {} THEN [t |-> t, tn |-> Null]
       ELSE Below(get_tnode(t), NextTnode(t))

add_find_tnode_0(t, chunk_id, passed) ==
    LET depth == RequiredDepth(chunk_id)
        tall == Taller(t, depth)
    IN IF ~Sane(t, chunk_id) THEN [t |-> t, tn |-> Null]
       ELSE IF tall.top_level < depth THEN [t |-> tall, tn |-> Null]
       ELSE IF tall.top_level > 0 THEN Plant(tall, tall.top, tall.top_level, chunk_id, passed)
       ELSE IF passed = Null \/ tall.top = Null THEN [t |-> tall, tn |-> tall.top]
       ELSE [t |-> free_tnode([tall EXCEPT !.mem[tall.top].map = tall.mem[passed].map], passed),
             tn |-> tall.top]

\* The chunk of the group whose tags name the chunk of the file; without groups
\* the one chunk of the group is taken at its word.
find_chunk_in_group(base, chunk_id) ==
    LET hits == {p \in base .. base + 2^dev.grp_bits - 1 :
                   /\ base > 0
                   /\ p \in DOMAIN tags
                   /\ dev.grp_bits > 0 => tags[p] = chunk_id}
    IN IF hits = {} THEN -1 ELSE CHOOSE p \in hits : \A o \in hits : p <= o

find_chunk_in_file(t, chunk_id) ==
    LET tn == find_tnode_0(t, chunk_id)
    IN IF tn = Null THEN -1
       ELSE find_chunk_in_group(get_group_base(t.mem[tn].map, chunk_id), chunk_id)

(***************************************************************************)
(* Taking apart                                                            *)
(***************************************************************************)
\* [t, tn]: what is left of the subtree.  The leftmost branch of the tree stays.
RECURSIVE PruneWorker(_, _, _, _)
PruneWorker(t, tn, level, del0) ==
    LET Prune1(acc, i) ==
            LET kid == acc.mem[tn].internal[i]
                r == PruneWorker(acc, kid, level - 1, IF i = 0 THEN del0 ELSE TRUE)
            IN IF kid = Null THEN acc ELSE [r.t EXCEPT !.mem[tn].internal[i] = r.tn]
        p == IF level = 0 THEN t
             ELSE FoldLeft(Prune1, t, [i \in 1 .. NTNODES_INTERNAL |-> i - 1])
        bare == IF level = 0 THEN \A w \in TnodeWords : p.mem[tn].map[w] = {}
                ELSE \A i \in 0 .. NTNODES_INTERNAL - 1 : p.mem[tn].internal[i] = Null
    IN IF bare /\ del0 THEN [t |-> free_tnode(p, tn), tn |-> Null] ELSE [t |-> p, tn |-> tn]

RECURSIVE Shorten(_)
Shorten(t) ==
    IF t.top_level = 0 \/ \E i \in 1 .. NTNODES_INTERNAL - 1 : t.mem[t.top].internal[i] # Null
      THEN t
      ELSE Shorten(free_tnode([t EXCEPT !.top = t.mem[t.top].internal[0],
                                        !.top_level = @ - 1], t.top))

prune_tree(t) ==
    IF t.top_level < 1 THEN t
    ELSE LET r == PruneWorker(t, t.top, t.top_level, FALSE)
         IN Shorten([r.t EXCEPT !.top = r.tn])

\* yaffs_soft_del_worker(): every entry is cleared, every tnode below tn freed.
RECURSIVE SoftDelWorker(_, _, _)
SoftDelWorker(t, tn, level) ==
    IF level = 0 THEN [t EXCEPT !.mem[tn] = Cleared]
    ELSE FoldLeft(LAMBDA acc, i :
                    LET kid == acc.mem[tn].internal[i]
                    IN IF kid = Null THEN acc
                       ELSE [free_tnode(SoftDelWorker(acc, kid, level - 1), kid)
                               EXCEPT !.mem[tn].internal[i] = Null],
                  t, [i \in 1 .. NTNODES_INTERNAL |-> NTNODES_INTERNAL - i])

(***************************************************************************)
(* The checkpoint: a record <<first chunk, map>> for each level 0 tnode    *)
(***************************************************************************)
RECURSIVE CheckptTnodes(_, _, _, _)
CheckptTnodes(t, tn, level, offset) ==
    IF tn = Null THEN <<>>
    ELSE IF level = 0 THEN << <<offset * NTNODES_LEVEL0, t.mem[tn].map>> >>
    ELSE FlattenSeq([i \in 1 .. NTNODES_INTERNAL |->
           CheckptTnodes(t, t.mem[tn].internal[i - 1], level - 1,
                         offset * NTNODES_INTERNAL + i - 1)])

EmptyFile == [mem |-> [tn \in 1 .. dev.tnodes |-> IF tn = 1 THEN Cleared ELSE Null], n_tnodes |-> 1, top |-> 1, top_level |-> 0]

\* The tnode of a record is read into a new one and planted; Null: no memory.
rd_checkpt_tnodes(records) ==
    FoldLeft(LAMBDA t, r :
               IF t = Null \/ FreeTnodes(t) = {} THEN Null
               ELSE LET tn == NextTnode(t)
                        a == add_find_tnode_0([get_tnode(t) EXCEPT !.mem[tn].map = r[2]], r[1], tn)
                    IN IF a.tn = Null THEN Null ELSE a.t,
             EmptyFile, records)

(***************************************************************************)
(* The operations                                                          *)
(***************************************************************************)
TnodeInit ==
    /\ dev \in Geometries
    /\ tree = EmptyFile
    /\ n_data_chunks = 0
    /\ tags = <<>>
    /\ content = <<>>
    /\ write_failed = FALSE

PutChunkInFile(t, n, chunk_id, place) ==
    LET a == add_find_tnode_0(t, chunk_id, Null)
        map == a.t.mem[a.tn].map
    IN IF a.tn = Null THEN [t |-> a.t, n |-> n, ok |-> FALSE]
       ELSE IF place = 0 THEN [t |-> a.t, n |-> n, ok |-> TRUE]
       ELSE [t |-> [a.t EXCEPT !.mem[a.tn].map = load_tnode_0(map, chunk_id, place)],
             n |-> IF get_group_base(map, chunk_id) = 0 THEN n + 1 ELSE n,
             ok |-> TRUE]

\* The tnodes of a new chunk are made before it is written, with a dummy entry.
Prepared(chunk_id) ==
    IF find_chunk_in_file(tree, chunk_id) < 1
      THEN PutChunkInFile(tree, n_data_chunks, chunk_id, 0)
      ELSE [t |-> tree, n |-> n_data_chunks, ok |-> TRUE]

FreePlaces == dev.places \ DOMAIN tags

\* yaffs_wr_data_obj(); the flash has a place for the chunk.
WrDataObj(chunk_id) ==
    \E p \in {Prepared(chunk_id)}, place \in FreePlaces :
      LET prev == find_chunk_in_file(tree, chunk_id)
          put == PutChunkInFile(p.t, p.n, chunk_id, place)
      IN /\ p.ok
         /\ tree' = put.t
         /\ n_data_chunks' = put.n
         /\ tags' = Without(tags, {prev}) @@ (place :> chunk_id)
         /\ content' = (chunk_id :> place) @@ content
         /\ UNCHANGED <<dev, write_failed>>

\* The chunk is beyond the last one a file can have, there is no memory for the
\* tnodes, or the write of the chunk fails after they are made.
WrDataObjFails(chunk_id) ==
    /\ tree' = Prepared(chunk_id).t
    /\ write_failed' = TRUE
    /\ UNCHANGED <<dev, n_data_chunks, tags, content>>

\* yaffs_find_del_file_chunk() and the deletion of the chunk, for chunk i.
DelFileChunk(acc, i) ==
    LET tn == find_tnode_0(acc.t, i)
        found == find_chunk_in_file(acc.t, i)
    IN IF found < 1 THEN acc
       ELSE [t |-> [acc.t EXCEPT !.mem[tn].map = load_tnode_0(@, i, 0)],
             gone |-> acc.gone \cup {found}]

\* The last of the chunks that a file can have.
MaxFileChunk ==
    LET possible == {c \in FileChunks : c <= MAX_CHUNK_ID}
    IN CHOOSE m \in possible : \A c \in possible : c <= m

\* yaffs_resize_file_down() to the end of chunk size: prune_chunks, backwards, and
\* prune_tree.  A call that does not change the size does nothing.
ResizeDown(size) ==
    LET r == FoldLeft(DelFileChunk, [t |-> tree, gone |-> {}],
                      Reverse([i \in 1 .. MaxFileChunk - size |-> size + i]))
    IN /\ \E c \in DOMAIN content : c > size
       /\ tree' = prune_tree(r.t)
       /\ n_data_chunks' = n_data_chunks - Cardinality(r.gone)
       /\ tags' = Without(tags, r.gone)
       /\ content' = Without(content, {c \in DOMAIN content : c > size})
       /\ UNCHANGED <<dev, write_failed>>

\* yaffs_del_file(): with data (and soft deletion) the worker takes the tree apart,
\* and the collector frees the top once the last chunk goes; a file without data
\* loses its top at once.  Another file is created in its place.
slip_DelFile ==
    /\ tree' = [free_tnode(tree, tree.top) EXCEPT
                  !.mem[NextTnode(tree)] = Cleared,
                  !.n_tnodes = @ + 1, !.top = NextTnode(tree), !.top_level = 0]
    /\ FreeTnodes(tree) # {}
    /\ n_data_chunks' = 0
    /\ tags' = <<>>
    /\ content' = <<>>
    /\ UNCHANGED <<dev, write_failed>>

DelFile ==
    LET worked == IF n_data_chunks > 0 THEN SoftDelWorker(tree, tree.top, tree.top_level)
                  ELSE tree
        gone == free_tnode(worked, tree.top)
    IN /\ tree' = [get_tnode(gone) EXCEPT !.top = NextTnode(gone), !.top_level = 0]
       /\ n_data_chunks' = 0
       /\ tags' = <<>>
       /\ content' = <<>>
       /\ UNCHANGED <<dev, write_failed>>

\* An unmount with a checkpoint and the mount that reads it: all the tnodes of the
\* allocator go, and the records are planted in a new tree.
Remount ==
    \E t \in {rd_checkpt_tnodes(CheckptTnodes(tree, tree.top, tree.top_level, 0))} :
      /\ t # Null
      /\ tree' = t
      /\ UNCHANGED <<dev, n_data_chunks, tags, content, write_failed>>

TnodeNext ==
    \/ \E c \in FileChunks : WrDataObj(c) \/ WrDataObjFails(c)
    \/ \E size \in {0} \cup FileChunks : ResizeDown(size)
    \/ DelFile
    \/ Remount

TnodeSpec == TnodeInit /\ [][TnodeNext]_tnodeVars

(***************************************************************************)
(* Properties                                                              *)
(***************************************************************************)
RECURSIVE NodesUnder(_, _, _)
NodesUnder(t, tn, level) ==
    IF tn = Null THEN <<>>
    ELSE IF level = 0 THEN <<tn>>
    ELSE <<tn>> \o FlattenSeq([i \in 1 .. NTNODES_INTERNAL |->
                                 NodesUnder(t, t.mem[tn].internal[i - 1], level - 1)])

\* Whatever grew, shrank, was packed across words, grouped, pruned or restored from
\* a checkpoint: the tree leads from each chunk of the file to its newest place and
\* from a hole to nothing, and n_data_chunks counts the chunks that it leads to.
TreeIsMap ==
    /\ \A c \in (0 .. MaxFileChunk) \cup FileChunks :
         find_chunk_in_file(tree, c) = IF c \in DOMAIN content THEN content[c] ELSE -1
    /\ n_data_chunks = Cardinality(DOMAIN content)

\* The memory: no tnode hangs in the tree in two places or after it was freed, the
\* leftmost branch leads down to level 0 (the top that a shrinking tree falls back
\* to), and unless a write has failed every tnode in use is in the tree.
NodesAccounted ==
    LET nodes == NodesUnder(tree, tree.top, tree.top_level)
    IN /\ IsInjective(nodes)
       /\ ToSet(nodes) \subseteq (1 .. dev.tnodes) \ FreeTnodes(tree)
       /\ tree.n_tnodes = Cardinality((1 .. dev.tnodes) \ FreeTnodes(tree))
       /\ Descend(tree, tree.top, tree.top_level, 0) # Null
       /\ ~write_failed => ToSet(nodes) = (1 .. dev.tnodes) \ FreeTnodes(tree)

\* The tree leads where it should, and its memory is accounted for.
TreeSound == TreeIsMap /\ NodesAccounted
=============================================================================
