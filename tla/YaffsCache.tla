------------------------------ MODULE YaffsCache ------------------------------
(***************************************************************************)
(* The short-operation cache (core/yaffs_cache.c) with the calls that use  *)
(* it: yaffs_file_rd(), yaffs_do_file_wr(), yaffs2_handle_hole(),          *)
(* yaffs_resize_file() and yaffs_flush_file() (core/yaffs_guts.c).         *)
(*                                                                         *)
(* One step makes at most one flash write, and the flash may refuse any of *)
(* them.  A write call is one turn of the loop of yaffs_do_file_wr(), which*)
(* stays within a chunk: a longer write is several, of which none follows  *)
(* one that fails.  Of the flash only the data in each chunk of a file     *)
(* matters, and how many chunks are free; collection changes neither.  No  *)
(* caller asks for write_through.  The files are linked in a directory: a  *)
(* header is written where the code writes one for these.                  *)
(***************************************************************************)
EXTENDS Integers, FiniteSets, Sequences

CONSTANTS
    Files,
    NCaches,     \* param.n_caches
    MaxId,       \* bound: the chunks of a file are 1 .. MaxId
    ChunkSize,   \* data_bytes_per_chunk
    Vals,        \* what the application writes
    Zero,        \* the byte that a hole reads as
    Hole,        \* no chunk on flash
    None,        \* no object
    SmallHole,   \* YAFFS_SMALL_HOLE_THRESHOLD, 4 in the code
    Room,        \* free chunks above the reserve of an empty device
    BypassAligned, \* param.cache_bypass_aligned
    MaxFaults    \* bound: flash writes that fail

Ids == 1 .. MaxId
Bytes == Vals \cup {Zero}
Data == [0 .. ChunkSize - 1 -> Bytes]

ASSUME CacheAssumption ==
    /\ {MaxId, SmallHole, Room, MaxFaults} \subseteq Nat
    /\ {NCaches, ChunkSize} \subseteq Nat \ {0}
    /\ Zero \notin Vals
    /\ IsFiniteSet(Files) /\ Files # {} /\ None \notin Files
    /\ Hole \notin Data
    /\ BypassAligned \in BOOLEAN

VARIABLES
    cache,   \* cache_mgr.cache
    flash,   \* the data of each chunk of each file
    file,    \* struct yaffs_file_var and the dirty flag of each file
    others,  \* chunks that other files hold, free to begin with
    op,      \* the call in progress
    doubt,   \* history: chunks whose last write the flash refused
    cut_in,  \* history: chunks that truncations have made out of holes
    faults

vars == <<cache, flash, file, others, op, doubt, cut_in, faults>>

Slots == 1 .. NCaches
MaxSize == MaxId * ChunkSize

Zeros == [k \in 0 .. ChunkSize - 1 |-> Zero]
Larger(m, n) == IF m > n THEN m ELSE n
Smaller(m, n) == IF m < n THEN m ELSE n

\* The buffer of no chunk.  An invalidated buffer keeps its dirty flag in the
\* code, which nothing reads before it is taken again, but for the count of
\* free chunks that is reported.
Unused == [object |-> None, chunk_id |-> 0, data |-> Zeros, n_bytes |-> 0,
           dirty |-> FALSE]

-----------------------------------------------------------------------------
(* The flash.                                                              *)

OnFlash == {x \in Files \X Ids : flash[x[1]][x[2]] # Hole}

\* n_free_chunks, less the reserve.
n_free == Room - Cardinality(OnFlash) - others

check_alloc_available(n) == n_free > n

\* Data is not written into the reserve, unless "use_reserve".
HasRoom(use_reserve) == use_reserve \/ check_alloc_available(1)

\* yaffs_rd_data_obj(): a hole reads as zeros.
DataOn(fl, f, i) == IF fl[f][i] = Hole THEN Zeros ELSE fl[f][i]

rd_data_obj(f, i) == DataOn(flash, f, i)

\* yaffs_wr_data_obj(), which raises stored_size whether it succeeds or not.
WrittenFlash(f, i, data, ok) ==
    IF ok THEN [flash EXCEPT ![f][i] = data] ELSE flash

RaisedFile(f, i, n_bytes) ==
    [file EXCEPT ![f].stored_size = Larger(@, (i - 1) * ChunkSize + n_bytes)]

RefusedDoubt(f, i, ok) ==
    IF ok THEN doubt \ {<<f, i>>} ELSE doubt \cup {<<f, i>>}

Fault(ok) == \/ ok /\ faults' = faults
             \/ ~ok /\ faults < MaxFaults /\ faults' = faults + 1

-----------------------------------------------------------------------------
(* The cache.                                                              *)

SlotsOf(f, i) == {c \in Slots : cache[c].object = f /\ cache[c].chunk_id = i}

DirtySlots(f) == {c \in Slots : cache[c].object = f /\ cache[c].dirty}

\* What a read of the chunk returns.
View(f, i) ==
    IF SlotsOf(f, i) = {} THEN rd_data_obj(f, i)
                          ELSE cache[CHOOSE c \in SlotsOf(f, i) : TRUE].data

\* yaffs_grab_chunk_cache(): the first unused buffer, or else the least
\* recently used.  The counters of use are left out: it may be any.
Victims ==
    LET unused == {c \in Slots : cache[c].object = None}
    IN  IF unused = {} THEN Slots
        ELSE {c \in unused : \A d \in unused : c <= d}

\* yaffs_flush_single_cache(): the flash, the files and the doubts after it.
\* The buffer is clean then even if the flash has refused its data.
flush_single_cache(c, ok) ==
    LET b == cache[c]
    IN  IF b.object # None /\ b.dirty
        THEN /\ flash' = WrittenFlash(b.object, b.chunk_id, b.data, ok)
             /\ file' = RaisedFile(b.object, b.chunk_id, b.n_bytes)
             /\ doubt' = RefusedDoubt(b.object, b.chunk_id, ok)
             /\ Fault(ok)
        ELSE ok /\ UNCHANGED <<flash, file, doubt, faults>>

\* A buffer is taken for chunk i of f and filled from flash.
slip_LoadChunk(f, i) ==
    \E c \in Victims :
        /\ cache' = [cache EXCEPT ![c] =
                        [Unused EXCEPT !.object = f, !.chunk_id = i,
                                       !.data = rd_data_obj(f, i)]]
        /\ UNCHANGED <<flash, file, doubt, faults>>
LoadChunk(f, i) ==
    \E c \in Victims, ok \in BOOLEAN :
        /\ flush_single_cache(c, ok)
        /\ cache' = [cache EXCEPT ![c] =
                        [Unused EXCEPT !.object = f, !.chunk_id = i,
                                       !.data = DataOn(flash', f, i)]]

\* yaffs_invalidate_chunk_cache(): the buffers after it.
invalidate_chunk_cache(f, i) ==
    [c \in Slots |-> IF c \in SlotsOf(f, i) THEN Unused ELSE cache[c]]

-----------------------------------------------------------------------------
(* Jobs of a call.                                                         *)

\* Bytes lo .. hi - 1 of a chunk get value v.  "base" is the size of the file
\* before the hole that the write helps to fill, -1 if it does not.
WriteJob(i, lo, hi, v, base) ==
    [do |-> "write", id |-> i, lo |-> lo, hi |-> hi, val |-> v, base |-> base,
     loaded |-> FALSE]
HoleJob(n) == [do |-> "hole", size |-> n]
FillJob(n, base) == [do |-> "fill", size |-> n, base |-> base]
GrowJob(n) == [do |-> "grow", size |-> n]
DownJob(n) == [do |-> "down", size |-> n]
FlushJob(fs, discard) == [do |-> "flush", files |-> fs, discard |-> discard]
HdrJob == [do |-> "hdr"]

Idle == [file |-> None, jobs |-> <<>>]
Job == Head(op.jobs)
At(do) == op.jobs # <<>> /\ Job.do = do

Continue(jobs) ==
    op' = IF jobs = <<>> THEN Idle ELSE [op EXCEPT !.jobs = jobs]

NextJob == Continue(Tail(op.jobs))

Call(f, jobs) ==
    /\ op = Idle
    /\ op' = [file |-> f, jobs |-> jobs]
    /\ UNCHANGED <<cache, flash, file, others, doubt, cut_in, faults>>

\* yaffs_wr_file().
WriteFile(f, i, lo, hi, v) ==
    Call(f, <<HoleJob((i - 1) * ChunkSize + lo), WriteJob(i, lo, hi, v, -1)>>)

\* yaffs_resize_file().
ResizeFile(f, n) ==
    LET old == file[f].file_size
    IN  Call(f, <<FlushJob({f}, TRUE)>>
                  \o (IF n > old THEN <<HoleJob(n), GrowJob(n), HdrJob>>
                      ELSE IF n < old THEN <<DownJob(n), HdrJob>>
                      ELSE <<>>))

\* yaffs_flush_file(), as fsync, fdatasync and close call it.
FlushFile(f, data_sync, discard) ==
    /\ file[f].dirty
    /\ Call(f, <<FlushJob({f}, discard)>>
                  \o (IF data_sync THEN <<>> ELSE <<HdrJob>>))

\* yaffs_flush_whole_cache(), as sync calls it.
FlushWholeCache == Call(None, <<FlushJob(Files, FALSE)>>)

\* yaffs_update_oh() when the attributes of a file change.
UpdateHeader(f) == Call(f, <<HdrJob>>)

\* yaffs_file_rd(): part of a chunk is read through the cache.  What is in
\* the cache already, and a whole chunk that is not, is only copied.
ReadFile(f, i) ==
    /\ op = Idle
    /\ SlotsOf(f, i) = {}
    /\ LoadChunk(f, i)
    /\ UNCHANGED <<others, op, cut_in>>

\* Other files take and release chunks.
OthersWrite ==
    /\ op = Idle
    /\ check_alloc_available(1)
    /\ others' = others + 1
    /\ UNCHANGED <<cache, flash, file, op, doubt, cut_in, faults>>

OthersDelete ==
    /\ op = Idle
    /\ others > 0
    /\ others' = others - 1
    /\ UNCHANGED <<cache, flash, file, op, doubt, cut_in, faults>>

-----------------------------------------------------------------------------
(* yaffs2_handle_hole().                                                   *)

\* A small hole is filled with zeros, if there is room for them and for the
\* header, a large one marked by a header.
FillsHole(old, new) ==
    new - old < SmallHole * ChunkSize /\ check_alloc_available(SmallHole + 1)

HandleHole ==
    /\ At("hole")
    /\ LET old == file[op.file].file_size
           new == Job.size
       IN  Continue((IF new <= old THEN <<>>
                     ELSE IF FillsHole(old, new) THEN <<FillJob(new, old)>>
                     ELSE <<HdrJob>>) \o Tail(op.jobs))
    /\ UNCHANGED <<cache, flash, file, others, doubt, cut_in, faults>>

EdgeAfter(p, from) == from + ((p - from) \div ChunkSize + 1) * ChunkSize

\* The zeros are written a chunk at a time from the old size on, and each
\* write split where one chunk of the file ends.
FillHole ==
    /\ At("fill")
    /\ LET p == file[op.file].file_size
           q == Smaller(Job.size, Smaller(EdgeAfter(p, 0), EdgeAfter(p, Job.base)))
           start == (p \div ChunkSize) * ChunkSize
       IN  Continue(IF p >= Job.size THEN Tail(op.jobs)
                    ELSE <<WriteJob(p \div ChunkSize + 1, p - start, q - start,
                                    Zero, Job.base)>> \o op.jobs)
    /\ UNCHANGED <<cache, flash, file, others, doubt, cut_in, faults>>

\* yaffs_resize_file() to a larger size.
Grow ==
    /\ At("grow")
    /\ file' = [file EXCEPT ![op.file].file_size = Job.size]
    /\ NextJob
    /\ UNCHANGED <<cache, flash, others, doubt, cut_in, faults>>

-----------------------------------------------------------------------------
(* yaffs_do_file_wr(), within one chunk.                                   *)

Direct == BypassAligned /\ Job.lo = 0 /\ Job.hi = ChunkSize

Cached == SlotsOf(op.file, Job.id)

\* The write is done: the file reaches at least as far.
Done(fl) ==
    file' = [fl EXCEPT ![op.file].file_size =
                           Larger(@, (Job.id - 1) * ChunkSize + Job.hi),
                       ![op.file].dirty = TRUE]

\* The write has failed.  A hole that could not be filled is cut off again
\* and marked by a header; the job that fills it is the next one.
Failed(fl) ==
    /\ file' = [fl EXCEPT ![op.file].dirty = TRUE]
    /\ IF Job.base = -1
       THEN NextJob
       ELSE Continue(<<DownJob(Job.base), HdrJob>> \o Tail(Tail(op.jobs)))

\* A whole chunk is written past the cache, which forgets what it had of it.
WriteDirect ==
    /\ At("write") /\ Direct
    /\ LET f == op.file
           i == Job.id
           data == [k \in 0 .. ChunkSize - 1 |-> Job.val]
           fl == RaisedFile(f, i, ChunkSize)
       IN  \E ok \in BOOLEAN :
            /\ IF HasRoom(FALSE)
               THEN /\ Fault(ok)
                    /\ doubt' = RefusedDoubt(f, i, ok)
               ELSE ~ok /\ UNCHANGED <<doubt, faults>>
            /\ flash' = WrittenFlash(f, i, data, ok)
            /\ IF ok THEN Done(fl) /\ NextJob ELSE Failed(fl)
            /\ cache' = invalidate_chunk_cache(f, i)
    /\ UNCHANGED <<others, cut_in>>

\* The chunk is loaded, if there is room to write it back.
slip_WriteLoad ==
    /\ At("write") /\ ~Direct
    /\ ~Job.loaded
    /\ check_alloc_available(1)
    /\ LoadChunk(op.file, Job.id)
    /\ op' = [op EXCEPT !.jobs = <<[Job EXCEPT !.loaded = TRUE]>> \o Tail(op.jobs)]
    /\ UNCHANGED <<others, cut_in>>
WriteLoad ==
    /\ At("write") /\ ~Direct
    /\ Cached = {}
    /\ check_alloc_available(1)
    /\ LoadChunk(op.file, Job.id)
    /\ op' = [op EXCEPT !.jobs = <<[Job EXCEPT !.loaded = TRUE]>> \o Tail(op.jobs)]
    /\ UNCHANGED <<others, cut_in>>

n_writeback ==
    LET rest == file[op.file].file_size - (Job.id - 1) * ChunkSize
    IN  Larger(Smaller(Larger(rest, 0), ChunkSize), Job.hi)

\* A buffer that is clean, and was not loaded for this write, needs room too.
slip_Refused == ~check_alloc_available(1) /\ Cached = {}
Refused ==
    /\ ~check_alloc_available(1)
    /\ \A c \in Cached : ~cache[c].dirty /\ ~Job.loaded

WriteCached ==
    /\ At("write") /\ ~Direct
    /\ ~Refused
    /\ \E c \in Cached :
        cache' = [cache EXCEPT
            ![c].data = [k \in 0 .. ChunkSize - 1 |->
                            IF Job.lo <= k /\ k < Job.hi THEN Job.val ELSE @[k]],
            ![c].n_bytes = n_writeback,
            ![c].dirty = TRUE]
    /\ Done(file)
    /\ NextJob
    /\ UNCHANGED <<flash, others, doubt, cut_in, faults>>

WriteRefused ==
    /\ At("write") /\ ~Direct
    /\ Refused
    /\ Failed(file)
    /\ UNCHANGED <<cache, flash, others, doubt, cut_in, faults>>

-----------------------------------------------------------------------------
(* Flushing and truncation.                                                *)

\* yaffs_flush_file_cache(): buffer after buffer is written, and given up if
\* "discard" says so.
Flushable ==
    {c \in Slots : cache[c].object \in Job.files /\ (cache[c].dirty \/ Job.discard)}

FlushBuffer ==
    /\ At("flush")
    /\ \E c \in Flushable, ok \in BOOLEAN :
        /\ \A d \in Flushable : cache[d].object = cache[c].object => c <= d
        /\ flush_single_cache(c, ok)
        /\ cache' = [cache EXCEPT ![c] = IF Job.discard THEN Unused
                                        ELSE [@ EXCEPT !.dirty = FALSE]]
    /\ UNCHANGED <<others, op, cut_in>>

FlushEnd ==
    /\ At("flush")
    /\ Flushable = {}
    /\ NextJob
    /\ UNCHANGED <<cache, flash, file, others, doubt, cut_in, faults>>

\* The chunk in which n bytes end.
Ends(n) == (n + ChunkSize - 1) \div ChunkSize

Padded(f, i, partial) ==
    [k \in 0 .. ChunkSize - 1 |-> IF k < partial THEN rd_data_obj(f, i)[k] ELSE Zero]

\* yaffs_resize_file_down(): the chunks beyond the new size are deleted, as
\* far as the file goes, and the one it ends in is written again from flash
\* with zeros behind it, if need be into the reserve.
ResizeDown ==
    /\ At("down")
    /\ LET f == op.file
           last == Ends(Job.size)
           pruned == (last + 1) .. Ends(file[f].file_size)
           partial == Job.size % ChunkSize
           left == [i \in Ids |-> IF i \in pruned THEN Hole ELSE flash[f][i]]
           gone == {f} \X pruned
       IN  \E ok \in BOOLEAN :
            /\ IF partial = 0 THEN ok /\ UNCHANGED faults ELSE Fault(ok)
            /\ flash' = [flash EXCEPT ![f] =
                            IF partial = 0 \/ ~ok THEN left
                            ELSE [left EXCEPT ![last] = Padded(f, last, partial)]]
            /\ doubt' = (IF partial = 0 THEN doubt ELSE RefusedDoubt(f, last, ok)) \ gone
            /\ cut_in' = (cut_in \ gone) \cup
                    (IF partial # 0 /\ ok /\ flash[f][last] = Hole
                     THEN {<<f, last>>} ELSE {})
            /\ file' = [file EXCEPT ![f].file_size = Job.size,
                                    ![f].stored_size = Job.size]
    /\ NextJob
    /\ UNCHANGED <<cache, others>>

\* yaffs_update_oh(): it replaces the header there is, so it may use the
\* reserve.  The file stays dirty while data of it is in the cache.
DirtyAfterHdr == DirtySlots(op.file) # {}

WriteHdr ==
    /\ At("hdr")
    /\ \E ok \in BOOLEAN :
        /\ Fault(ok)
        /\ file' = IF ok THEN [file EXCEPT ![op.file].dirty = DirtyAfterHdr]
                   ELSE file
    /\ NextJob
    /\ UNCHANGED <<cache, flash, others, doubt, cut_in>>

-----------------------------------------------------------------------------
Init ==
    /\ cache = [c \in Slots |-> Unused]
    /\ flash = [f \in Files |-> [i \in Ids |-> Hole]]
    /\ file = [f \in Files |-> [file_size |-> 0, stored_size |-> 0, dirty |-> FALSE]]
    /\ others = 0
    /\ op = Idle
    /\ doubt = {} /\ cut_in = {}
    /\ faults = 0

Calls ==
    \/ \E f \in Files, i \in Ids, v \in Vals :
        \E lo \in 0 .. ChunkSize - 1 : \E hi \in lo + 1 .. ChunkSize :
            WriteFile(f, i, lo, hi, v)
    \/ \E f \in Files, n \in 0 .. MaxSize : ResizeFile(f, n)
    \/ \E f \in Files, data_sync, discard \in BOOLEAN : FlushFile(f, data_sync, discard)
    \/ FlushWholeCache
    \/ \E f \in Files : UpdateHeader(f)
    \/ \E f \in Files, i \in Ids : ReadFile(f, i)

Others == OthersWrite \/ OthersDelete

Jobs == HandleHole \/ FillHole \/ Grow \/ WriteDirect \/ WriteLoad \/ WriteCached
          \/ WriteRefused \/ FlushBuffer \/ FlushEnd \/ ResizeDown \/ WriteHdr

Next == Calls \/ Others \/ Jobs

Spec == Init /\ [][Next]_vars

-----------------------------------------------------------------------------
(* Properties.                                                             *)

\* Buffers, flash and files keep their types, and no size leaves the bounds.
TypeOK ==
    /\ cache \in [Slots -> [object : Files \cup {None}, chunk_id : 0 .. MaxId,
                            data : Data, n_bytes : 0 .. ChunkSize, dirty : BOOLEAN]]
    /\ flash \in [Files -> [Ids -> Data \cup {Hole}]]
    /\ file \in [Files -> [file_size : 0 .. MaxSize, stored_size : 0 .. MaxSize,
                           dirty : BOOLEAN]]
    /\ others \in Nat
    /\ doubt \subseteq Files \X Ids

\* yaffs_find_chunk_cache() returns the first buffer of a chunk: there must
\* never be a second, with other data in it.
OneBufferPerChunk ==
    /\ TypeOK
    /\ \A f \in Files, i \in Ids : Cardinality(SlotsOf(f, i)) <= 1

\* There is nothing but zeros beyond the end of a file, in the cache or on
\* flash, that a larger size would bring out (yaffs_resize_file_down() pads
\* with zeros, yaffs_rd_data_obj() makes them of a hole).
NothingPastTheEnd ==
    faults = 0 => \A f \in Files, i \in Ids, k \in 0 .. ChunkSize - 1 :
        (i - 1) * ChunkSize + k >= file[f].file_size => View(f, i)[k] = Zero

\* Both: a buffer, once found, is all there is to know of its chunk.
BuffersSound == OneBufferPerChunk /\ NothingPastTheEnd

\* A flush writes user data into the reserve, but no more than one chunk for
\* each buffer, since a buffer turns dirty only while there is room outside
\* (yaffs_do_file_wr()).  Chunks that truncations make out of holes, for
\* which nothing checks, come on top.
ReserveOverdraft == n_free + Cardinality(cut_in) >= 1 - NCaches

\* The cache implements the files of YaffsBytes.
BytesOfFile(f) ==
    [o \in 0 .. MaxSize - 1 |-> View(f, o \div ChunkSize + 1)[o % ChunkSize]]
Asked ==
    LET start == (Job.id - 1) * ChunkSize
    IN  IF At("write")
        THEN {[file |-> op.file, lo |-> start + Job.lo, hi |-> start + Job.hi,
               val |-> Job.val]}
        ELSE IF At("grow") \/ At("down") THEN {[file |-> op.file, size |-> Job.size]}
        ELSE {}
Store == INSTANCE YaffsBytes WITH
    bytes <- [f \in Files |-> BytesOfFile(f)],
    size <- [f \in Files |-> file[f].file_size],
    refusals <- faults,
    asked <- Asked
ImplementsBytes == Store!Spec
=============================================================================
