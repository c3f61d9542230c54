--------------------------- MODULE YaffsCacheProofs ---------------------------
(***************************************************************************)
(* That YaffsCache keeps one buffer for a chunk and zeros beyond the end    *)
(* of files (BuffersSound), stays within the reserve (ReserveOverdraft)     *)
(* and implements the files of YaffsBytes (ImplementsBytes), for any        *)
(* number of files, buffers and chunks, and chunks of any length.           *)
(*                                                                         *)
(* None of these is inductive: what a step may do depends on the jobs that  *)
(* are still to come.  A truncation finds no data in the buffers beyond its *)
(* end because the call has flushed and given them up, or because it only   *)
(* undoes a hole that was being filled; a buffer turns dirty without a      *)
(* check of the room only if the call has checked before it loaded the      *)
(* chunk.  CacheInv says what each job of a call may rely on.               *)
(***************************************************************************)
EXTENDS YaffsCache, FiniteSetTheorems, SequenceTheorems, TLAPS

-----------------------------------------------------------------------------
(* The inductive invariant.                                                *)

\* The places of a chunk, the sizes of a file, and where a chunk begins in it.
Cells == 0 .. ChunkSize - 1
Sizes == 0 .. MaxSize
Start(i) == (i - 1) * ChunkSize

\* n lies inside chunk i.
Within(i, n) == Start(i) < n /\ n < Start(i) + ChunkSize

\* The kinds of jobs.
WriteJobs == [do : {"write"}, id : Ids, lo : Cells, hi : 1 .. ChunkSize,
              val : Bytes, base : {-1} \cup Sizes, loaded : BOOLEAN]
HoleJobs == [do : {"hole"}, size : Sizes]
FillJobs == [do : {"fill"}, size : Sizes, base : Sizes]
GrowJobs == [do : {"grow"}, size : Sizes]
DownJobs == [do : {"down"}, size : Sizes]
FlushJobs == [do : {"flush"}, files : SUBSET Files, discard : BOOLEAN]
HdrJobs == {HdrJob}
JobTypes == WriteJobs \cup HoleJobs \cup FillJobs \cup GrowJobs \cup DownJobs
              \cup FlushJobs \cup HdrJobs

\* The types of all variables; a buffer in use is that of a chunk.
CacheType ==
    /\ TypeOK
    /\ \A c \in Slots : cache[c].object # None => cache[c].chunk_id \in Ids
    /\ op \in [file : Files \cup {None}, jobs : Seq(JobTypes)]
    /\ cut_in \subseteq Files \X Ids
    /\ faults \in Nat

\* A chunk has one buffer at most.
OneBuffer ==
    \A c, d \in Slots :
        /\ cache[c].object # None
        /\ cache[c].object = cache[d].object /\ cache[c].chunk_id = cache[d].chunk_id
        => c = d

\* Byte k of a chunk is zero, on flash and in the cache.
Blank(f, i, k) ==
    /\ DataOn(flash, f, i)[k] = Zero
    /\ \A c \in SlotsOf(f, i) : cache[c].data[k] = Zero

\* Chunks that begin beyond the end of the file are blank, whatever is refused.
Beyond ==
    \A f \in Files, i \in Ids :
        Start(i) >= file[f].file_size => \A k \in Cells : Blank(f, i, k)

\* Until the flash refuses a write, so is the rest of the last one.
PastEnd ==
    faults = 0 =>
        \A f \in Files, i \in Ids, k \in Cells :
            Start(i) + k >= file[f].file_size => Blank(f, i, k)

\* A clean buffer is what flash holds, or its chunk is in doubt.
CleanInv ==
    \A c \in Slots :
        cache[c].object # None /\ ~cache[c].dirty =>
            \/ cache[c].data = DataOn(flash, cache[c].object, cache[c].chunk_id)
            \/ <<cache[c].object, cache[c].chunk_id>> \in doubt

\* The chunks of the dirty buffers.
DirtyIn(buf) ==
    {<<buf[c].object, buf[c].chunk_id>> :
        c \in {d \in Slots : buf[d].object # None /\ buf[d].dirty}}

\* The chunks that take room, or will when the cache is written back.
Claimed == (OnFlash \cup DirtyIn(cache)) \ cut_in

\* Chunks made by truncations are on flash, and not beyond the end.
CutInv ==
    /\ cut_in \subseteq OnFlash
    /\ \A x \in cut_in : Start(x[2]) < file[x[1]].file_size

\* They leave the reserve alone but for a chunk for each buffer, less one: the
\* last buffer turned dirty while there was room.
Overdraft ==
    Cardinality(Claimed) + others <= Room + NCaches - 1

DataInv ==
    OneBuffer /\ Beyond /\ PastEnd /\ CleanInv /\ CutInv /\ Overdraft

\* What may be left of a call whose file is to reach n.
Final(s, n, z) ==
    \/ \E j \in WriteJobs : j.base = -1 /\ ~j.loaded /\ j.lo < j.hi /\ s = <<j>>
    \/ s = <<GrowJob(n), HdrJob>> /\ z <= n

Finals(s, z) == s = <<>> \/ \E n \in Sizes : Final(s, n, z)

\* The jobs that may follow job h, for a file of size z.
WriteQueue(h, t, z) ==
    /\ h.lo < h.hi
    /\ \/ h.base = -1 /\ t = <<>>
       \/ /\ h.base # -1 /\ t # <<>>
          /\ Head(t) \in FillJobs /\ Head(t).base = h.base
          /\ Final(Tail(t), Head(t).size, z)
          /\ Start(h.id) + h.lo = z /\ h.val = Zero
          /\ Start(h.id) + h.hi <= Head(t).size

\* After a flush: nothing, the header, or the change of size that flushed first.
FlushQueue(h, t, f, z) ==
    \/ t = <<>>
    \/ f \in Files /\ t = <<HdrJob>>
    \/ /\ f \in Files /\ h.discard /\ h.files = {f}
       /\ \E n \in Sizes :
            \/ z <= n /\ t = <<HoleJob(n), GrowJob(n), HdrJob>>
            \/ n < z /\ t = <<DownJob(n), HdrJob>>

\* The job at hand, and those that may follow it.
Queue(h, t, f, z) ==
    \/ h \in WriteJobs /\ f \in Files /\ WriteQueue(h, t, z)
    \/ h \in HoleJobs /\ f \in Files /\ Final(t, h.size, z)
    \/ h \in FillJobs /\ f \in Files /\ Final(t, h.size, z)
    \/ h \in GrowJobs /\ f \in Files /\ t = <<HdrJob>> /\ z <= h.size
    \/ h \in DownJobs /\ f \in Files /\ t # <<>> /\ Head(t) = HdrJob /\ Finals(Tail(t), h.size)
    \/ h \in HdrJobs /\ f \in Files /\ Finals(t, z)
    \/ h \in FlushJobs /\ FlushQueue(h, t, f, z)

SizeNow == file[op.file].file_size

QueueInv == op.jobs # <<>> => Queue(Job, Tail(op.jobs), op.file, SizeNow)

\* While a hole is filled that begins at b, when the file has reached z.
HoleInv(f, b, z) ==
    /\ b <= z
    /\ \A i \in Ids : Start(i) >= b =>
          <<f, i>> \notin cut_in /\ \A k \in Cells : Blank(f, i, k)
    /\ b < z => \A i \in Ids, c \in Slots : Within(i, b) /\ c \in SlotsOf(f, i) =>
          /\ cache[c].dirty
          /\ \A k \in Cells : b <= Start(i) + k /\ Start(i) + k < z => cache[c].data[k] = Zero
    /\ b < z => \A i \in Ids : Within(i, z) => \E c \in SlotsOf(f, i) : cache[c].dirty

\* The chunk in which the hole begins is filled to its end.
Past(b, z) == b < z => \A i \in Ids : Within(i, b) => Start(i) + ChunkSize <= z

\* Before the next piece of a hole is written, and before the first there is room.
FillInv ==
    At("fill") =>
        /\ HoleInv(op.file, Job.base, SizeNow)
        /\ SizeNow = Job.base => check_alloc_available(1)
        /\ Past(Job.base, SizeNow) \/ Job.size <= SizeNow

\* While a piece is written: the first one reaches the end of its chunk or fills
\* the hole.
FillWriteInv ==
    At("write") /\ Job.base # -1 =>
        /\ HoleInv(op.file, Job.base, SizeNow)
        /\ SizeNow = Job.base /\ ~Job.loaded => check_alloc_available(1)
        /\ Past(Job.base, SizeNow)
        /\ \/ SizeNow # Job.base \/ Job.lo = 0 \/ Job.hi = ChunkSize
           \/ Start(Job.id) + Job.hi = Head(Tail(op.jobs)).size

\* A chunk loaded for the write is in the cache, and there is room for it.
LoadedInv == At("write") /\ Job.loaded => n_free >= 1 /\ Cached # {}

\* The buffers when the file is about to end at b.
CutBuffers(f, b) ==
    /\ \A i \in Ids, c \in Slots : b <= Start(i) /\ c \in SlotsOf(f, i) =>
          cache[c].data = Zeros /\ <<f, i>> \notin cut_in
    /\ \A i \in Ids, c \in Slots : Within(i, b) /\ c \in SlotsOf(f, i) =>
          /\ cache[c].dirty
          /\ \A k \in Cells : b <= Start(i) + k => cache[c].data[k] = Zero

\* A file of z bytes is cut off at b: inside a chunk only if it is shorter then.
Shorter(b, z) == b < z \/ \A i \in Ids : ~Within(i, b)

\* A truncation makes the file shorter or undoes a hole that begins a chunk.
DownInv ==
    At("down") =>
        /\ Job.size <= SizeNow /\ Shorter(Job.size, SizeNow)
        /\ CutBuffers(op.file, Job.size)

CallInv == QueueInv /\ FillInv /\ FillWriteInv /\ LoadedInv /\ DownInv

CacheInv == CacheType /\ DataInv /\ CallInv

-----------------------------------------------------------------------------
(* Chunks, sizes and sequences.                                            *)

\* What the assumption says of the constants, one fact each.
LEMMA Constants ==
  /\ MaxId \in Nat /\ SmallHole \in Nat /\ Room \in Nat
  /\ NCaches \in Nat \ {0} /\ ChunkSize \in Nat \ {0}
  /\ Zero \in Bytes /\ IsFiniteSet(Files) /\ Files # {} /\ None \notin Files
  /\ Hole \notin Data /\ MaxSize \in Nat
BY CacheAssumption DEF Bytes, MaxSize

\* Where a chunk begins is a product: chunks are of one length.
LEMMA StartProduct ==
  \A i : Start(i) = (i - 1) * ChunkSize
BY DEF Start

\* Chunks come one after the other, and all of them lie below MaxSize.
LEMMA StartOrder ==
  ASSUME NEW i \in Ids, NEW j \in Ids
  PROVE  /\ Start(i) \in Nat
         /\ Start(i) + ChunkSize <= MaxSize
         /\ i < j => Start(i) + ChunkSize <= Start(j)
         /\ i = j \/ i < j \/ j < i
<1> USE Constants
<1>1. ASSUME NEW a \in Nat, NEW b \in Nat, a < b
      PROVE  a * ChunkSize + ChunkSize <= b * ChunkSize
  <2>1. PICK z \in Nat : b = a + 1 + z
    <3>1. b - a - 1 \in Nat /\ b = a + 1 + (b - a - 1)
      BY <1>1
    <3> QED BY <3>1
  <2>2. b * ChunkSize = a * ChunkSize + ChunkSize + z * ChunkSize
    BY <2>1
  <2>3. z * ChunkSize \in Nat
    BY <2>1
  <2>4. a * ChunkSize \in Nat
    OBVIOUS
  <2> QED BY <2>2, <2>3, <2>4
<1>2. i - 1 \in Nat /\ j - 1 \in Nat /\ i - 1 < MaxId
  BY DEF Ids
<1>3. Start(i) \in Nat
  BY <1>2 DEF Start
<1>4. Start(i) + ChunkSize <= MaxSize
  BY <1>1, <1>2 DEF Start, MaxSize
<1>5. i < j => Start(i) + ChunkSize <= Start(j)
  <2>1. i < j => i - 1 < j - 1
    BY DEF Ids
  <2> QED BY <1>1, <1>2, <2>1 DEF Start
<1> QED BY <1>3, <1>4, <1>5 DEF Ids

\* A queue of one job.
LEMMA Singleton ==
  ASSUME NEW S, NEW x \in S
  PROVE  <<x>> # <<>> /\ Head(<<x>>) = x /\ Tail(<<x>>) = <<>> /\ <<x>> \in Seq(S)
OBVIOUS

\* A queue of two jobs.
LEMMA Pair ==
  ASSUME NEW S, NEW x \in S, NEW y \in S
  PROVE  /\ <<x, y>> # <<>> /\ Head(<<x, y>>) = x /\ Tail(<<x, y>>) = <<y>>
         /\ <<x, y>> \in Seq(S)
         /\ <<x>> \o <<y>> = <<x, y>>
<1> DEFINE s == <<x>> \o <<y>>
<1>1. s \in Seq(S) /\ Len(s) = 2 /\ s[1] = x /\ s[2] = y
  BY ConcatProperties
<1>2. <<x, y>> \in Seq(S) /\ Len(<<x, y>>) = 2
  OBVIOUS
<1> HIDE DEF s
<1>3. s = <<x, y>>
  <2>1. \A i \in 1 .. 2 : s[i] = <<x, y>>[i]
    BY <1>1
  <2> QED BY <1>1, <1>2, <2>1, SeqEqual
<1> QED BY <1>3 DEF s

\* A queue of three jobs.
LEMMA Triple ==
  ASSUME NEW S, NEW x \in S, NEW y \in S, NEW z \in S
  PROVE  /\ <<x, y, z>> # <<>> /\ Head(<<x, y, z>>) = x /\ Tail(<<x, y, z>>) = <<y, z>>
         /\ <<x, y, z>> \in Seq(S)
         /\ <<x>> \o <<y, z>> = <<x, y, z>>
<1> DEFINE s == <<x>> \o <<y, z>>
<1>1. s \in Seq(S) /\ Len(s) = 3 /\ s[1] = x /\ s[2] = y /\ s[3] = z
  BY ConcatProperties
<1>2. <<x, y, z>> \in Seq(S) /\ Len(<<x, y, z>>) = 3
  OBVIOUS
<1> HIDE DEF s
<1>3. s = <<x, y, z>>
  <2>1. \A i \in 1 .. 3 : s[i] = <<x, y, z>>[i]
    BY <1>1
  <2> QED BY <1>1, <1>2, <2>1, SeqEqual
<1>4. <<x, y, z>> # <<>> /\ Head(<<x, y, z>>) = x /\ Tail(<<x, y, z>>) = <<y, z>>
  OBVIOUS
<1> QED BY <1>2, <1>3, <1>4 DEF s

\* A job put in front of a queue: what Continue() does with a new job.
LEMMA Front ==
  ASSUME NEW S, NEW x \in S, NEW t \in Seq(S)
  PROVE  /\ <<x>> \o t # <<>> /\ Head(<<x>> \o t) = x /\ Tail(<<x>> \o t) = t
         /\ <<x>> \o t \in Seq(S)
         /\ <<>> \o t = t /\ <<>> \in Seq(S) /\ <<x>> \o <<>> = <<x>>
BY ConcatEmptySeq

\* Two jobs put in front are put there one after the other.
LEMMA FrontTwo ==
  ASSUME NEW S, NEW x \in S, NEW y \in S, NEW t \in Seq(S)
  PROVE  <<x, y>> \o t = <<x>> \o (<<y>> \o t)
<1>1. <<x, y>> = <<x>> \o <<y>>
  BY Pair
<1>2. <<x>> \in Seq(S) /\ <<y>> \in Seq(S)
  OBVIOUS
<1> QED BY <1>1, <1>2, ConcatAssociative

\* The first job and the others of a queue that is not empty.
LEMMA Rest ==
  ASSUME NEW S, NEW t \in Seq(S), t # <<>>
  PROVE  Head(t) \in S /\ Tail(t) \in Seq(S)
OBVIOUS

-----------------------------------------------------------------------------
(* What flushes and buffers do to the bytes.                               *)

Buffers == [object : Files \cup {None}, chunk_id : 0 .. MaxId,
            data : Data, n_bytes : 0 .. ChunkSize, dirty : BOOLEAN]
FileVars == [file_size : Sizes, stored_size : Sizes, dirty : BOOLEAN]

\* The types of the variables, for those who do not ask how they are stated.
LEMMA Types ==
  ASSUME CacheType
  PROVE  /\ cache \in [Slots -> Buffers]
         /\ flash \in [Files -> [Ids -> Data \cup {Hole}]]
         /\ file \in [Files -> FileVars]
         /\ others \in Nat
         /\ doubt \subseteq Files \X Ids /\ cut_in \subseteq Files \X Ids
         /\ faults \in Nat
         /\ op \in [file : Files \cup {None}, jobs : Seq(JobTypes)]
         /\ \A c \in Slots : cache[c].object # None =>
               cache[c].object \in Files /\ cache[c].chunk_id \in Ids
<1>1. cache \in [Slots -> Buffers]
  BY DEF CacheType, TypeOK, Buffers
<1>2. file \in [Files -> FileVars]
  BY DEF CacheType, TypeOK, FileVars, Sizes
<1>3. \A c \in Slots : cache[c].object # None =>
         cache[c].object \in Files /\ cache[c].chunk_id \in Ids
  BY <1>1 DEF CacheType, Buffers
<1> QED BY <1>1, <1>2, <1>3 DEF CacheType, TypeOK

\* What a flush of buffer c may have done, for those who do not ask how.
Flushed(c, ok) ==
    /\ flash' \in [Files -> [Ids -> Data \cup {Hole}]]
    /\ file' \in [Files -> FileVars]
    /\ doubt' \subseteq Files \X Ids
    /\ faults' \in {faults, faults + 1}
    /\ \A g \in Files : file'[g].file_size = file[g].file_size
    /\ \A g \in Files, i \in Ids :
          flash'[g][i] =
              IF ok /\ cache[c].dirty /\ cache[c].object = g /\ cache[c].chunk_id = i
              THEN cache[c].data ELSE flash[g][i]
    /\ \A x \in doubt' \ doubt : faults' = faults + 1
    /\ \A x \in doubt \ doubt' :
          /\ ok /\ cache[c].dirty /\ cache[c].object # None
          /\ x = <<cache[c].object, cache[c].chunk_id>>
    /\ cache[c].object # None /\ cache[c].dirty /\ ~ok =>
          <<cache[c].object, cache[c].chunk_id>> \in doubt'

\* File f has a chunk i of n bytes: the size stored may go up.
LEMMA Raised ==
  ASSUME CacheType, NEW f \in Files, NEW i \in Ids, NEW n \in 0 .. ChunkSize
  PROVE  /\ RaisedFile(f, i, n) \in [Files -> FileVars]
         /\ \A g \in Files : /\ RaisedFile(f, i, n)[g].file_size = file[g].file_size
                             /\ RaisedFile(f, i, n)[g].dirty = file[g].dirty
<1>1. file \in [Files -> FileVars]
  BY Types
<1>2. (i - 1) * ChunkSize + n \in Sizes
  <2>1. (i - 1) * ChunkSize + n = Start(i) + n
    BY DEF Start
  <2> QED BY <2>1, StartOrder, Constants DEF Sizes
<1> DEFINE m == (i - 1) * ChunkSize + n
           s == Larger(file[f].stored_size, m)
<1>3. s \in Sizes
  BY <1>1, <1>2 DEF Larger, FileVars
<1>4. RaisedFile(f, i, n) = [file EXCEPT ![f].stored_size = s]
  BY DEF RaisedFile
<1> HIDE DEF s
<1> QED BY <1>1, <1>3, <1>4 DEF FileVars

\* yaffs_flush_single_cache() does no more than Flushed says.
LEMMA FlushFacts ==
  ASSUME CacheType, NEW c \in Slots, NEW ok \in BOOLEAN, flush_single_cache(c, ok)
  PROVE  Flushed(c, ok)
<1> DEFINE b == cache[c]
<1>1. b \in Buffers
  BY Types
<1>2. CASE ~(b.object # None /\ b.dirty)
  <2>1. ok /\ UNCHANGED <<flash, file, doubt, faults>>
    BY <1>2 DEF flush_single_cache
  <2>2. \A g \in Files : ~(b.dirty /\ b.object = g)
    BY <1>2, Constants
  <2> QED BY <2>1, <2>2, <1>2, Types DEF Flushed
<1>3. CASE b.object # None /\ b.dirty
  <2> DEFINE g == b.object
             i == b.chunk_id
  <2>1. /\ flash' = WrittenFlash(g, i, b.data, ok)
        /\ file' = RaisedFile(g, i, b.n_bytes)
        /\ doubt' = RefusedDoubt(g, i, ok)
        /\ Fault(ok)
    BY <1>3 DEF flush_single_cache
  <2>2. g \in Files /\ i \in Ids /\ b.n_bytes \in 0 .. ChunkSize /\ b.data \in Data
    BY <1>1, <1>3, Types DEF Buffers
  <2>3. /\ file' \in [Files -> FileVars]
        /\ \A h \in Files : file'[h].file_size = file[h].file_size
    BY <2>1, <2>2, Raised
  <2>4. flash' \in [Files -> [Ids -> Data \cup {Hole}]]
    BY <2>1, <2>2, Types DEF WrittenFlash
  <2>5. \A h \in Files, j \in Ids :
          flash'[h][j] = IF ok /\ b.dirty /\ g = h /\ i = j THEN b.data ELSE flash[h][j]
    BY <2>1, <2>2, <1>3, Types DEF WrittenFlash
  <2>6. faults' \in {faults, faults + 1} /\ (~ok => faults' = faults + 1)
    BY <2>1 DEF Fault
  <2>7. doubt' \subseteq Files \X Ids
    BY <2>1, <2>2, Types DEF RefusedDoubt
  <2>8. \A x \in doubt' \ doubt : faults' = faults + 1
    BY <2>1, <2>6 DEF RefusedDoubt
  <2>9. \A x \in doubt \ doubt' : ok /\ x = <<g, i>>
    BY <2>1 DEF RefusedDoubt
  <2>10. ~ok => <<g, i>> \in doubt'
    BY <2>1 DEF RefusedDoubt
  <2> HIDE DEF g, i, b
  <2>11. Flushed(c, ok)
    BY <2>3, <2>4, <2>5, <2>6, <2>7, <2>8, <2>9, <2>10, <1>3 DEF Flushed, g, i, b
  <2> QED BY <2>11
<1> QED BY <1>2, <1>3

-----------------------------------------------------------------------------
(* A buffer is flushed and turns into another: it is given up, it is clean *)
(* or it is taken for a chunk that had none.                               *)

Moved(c, ok, nb) ==
    /\ Flushed(c, ok)
    /\ nb \in Buffers
    /\ cache' = [cache EXCEPT ![c] = nb]
    /\ cut_in' = cut_in
    /\ ~nb.dirty
    /\ \/ nb.object = None
       \/ /\ nb.object = cache[c].object /\ nb.chunk_id = cache[c].chunk_id
          /\ nb.data = cache[c].data /\ nb.object \in Files /\ nb.chunk_id \in Ids
       \/ /\ nb.object \in Files /\ nb.chunk_id \in Ids
          /\ SlotsOf(nb.object, nb.chunk_id) = {}
          /\ nb.data = DataOn(flash, nb.object, nb.chunk_id)

\* What is read of the flash is a chunk of bytes.
LEMMA DataTyped ==
  ASSUME NEW fl \in [Files -> [Ids -> Data \cup {Hole}]], NEW f \in Files, NEW i \in Ids
  PROVE  DataOn(fl, f, i) \in Data /\ Zeros \in Data
<1>1. Zeros \in Data
  BY Constants DEF Zeros, Data
<1> QED BY <1>1 DEF DataOn

\* The flash of a chunk is what it was, or it is the data of its buffer.
LEMMA FlashAfter ==
  ASSUME CacheType, NEW c \in Slots, NEW ok \in BOOLEAN, Flushed(c, ok),
         NEW f \in Files, NEW i \in Ids
  PROVE  \/ flash'[f][i] = flash[f][i] /\ DataOn(flash', f, i) = DataOn(flash, f, i)
         \/ /\ ok /\ cache[c].dirty /\ c \in SlotsOf(f, i)
            /\ flash'[f][i] = cache[c].data /\ DataOn(flash', f, i) = cache[c].data
<1>1. cache[c].data # Hole
  BY Types, Constants DEF Buffers
<1>2. CASE ok /\ cache[c].dirty /\ cache[c].object = f /\ cache[c].chunk_id = i
  <2>1. flash'[f][i] = cache[c].data
    BY <1>2 DEF Flushed
  <2> QED BY <1>1, <1>2, <2>1 DEF DataOn, SlotsOf
<1>3. CASE ~(ok /\ cache[c].dirty /\ cache[c].object = f /\ cache[c].chunk_id = i)
  <2>1. flash'[f][i] = flash[f][i]
    BY <1>3 DEF Flushed
  <2> QED BY <2>1 DEF DataOn
<1> QED BY <1>2, <1>3

\* The buffers after a move.
LEMMA BuffersMoved ==
  ASSUME CacheType, NEW c \in Slots, NEW ok \in BOOLEAN, NEW nb, Moved(c, ok, nb)
  PROVE  /\ cache' \in [Slots -> Buffers]
         /\ cache'[c] = nb
         /\ \A d \in Slots \ {c} : cache'[d] = cache[d]
         /\ \A d \in Slots : cache'[d].object # None => cache'[d].chunk_id \in Ids
<1>1. cache \in [Slots -> Buffers]
  BY Types
<1>2. cache' \in [Slots -> Buffers] /\ cache'[c] = nb /\ \A d \in Slots \ {c} : cache'[d] = cache[d]
  BY <1>1 DEF Moved
<1>3. ASSUME NEW d \in Slots, cache'[d].object # None
      PROVE  cache'[d].chunk_id \in Ids
  <2>1. CASE d = c
    BY <1>2, <1>3, <2>1, Constants DEF Moved
  <2>2. CASE d # c
    BY <1>2, <1>3, <2>2, Types
  <2> QED BY <2>1, <2>2
<1> QED BY <1>2, <1>3

\* A move makes no second buffer of a chunk.
LEMMA MovedOne ==
  ASSUME CacheType, OneBuffer, NEW c \in Slots, NEW ok \in BOOLEAN, NEW nb, Moved(c, ok, nb)
  PROVE  OneBuffer'
<1>1. cache'[c] = nb /\ \A d \in Slots \ {c} : cache'[d] = cache[d]
  BY BuffersMoved
<1>2. ASSUME NEW d \in Slots, d # c, nb.object # None,
             cache[d].object = nb.object, cache[d].chunk_id = nb.chunk_id
      PROVE  FALSE
  <2>1. CASE nb.object = cache[c].object /\ nb.chunk_id = cache[c].chunk_id
    BY <1>2, <2>1 DEF OneBuffer
  <2>2. CASE SlotsOf(nb.object, nb.chunk_id) = {}
    BY <1>2, <2>2 DEF SlotsOf
  <2> QED BY <1>2, <2>1, <2>2 DEF Moved
<1>3. ASSUME NEW d \in Slots, NEW e \in Slots,
             cache'[d].object # None, cache'[d].object = cache'[e].object,
             cache'[d].chunk_id = cache'[e].chunk_id
      PROVE  d = e
  <2>1. CASE d = c /\ e # c
    BY <1>1, <1>2, <1>3, <2>1
  <2>2. CASE d # c /\ e = c
    BY <1>1, <1>2, <1>3, <2>2
  <2>3. CASE d # c /\ e # c
    BY <1>1, <1>3, <2>3 DEF OneBuffer
  <2> QED BY <2>1, <2>2, <2>3
<1> QED BY <1>3 DEF OneBuffer

\* A move brings nothing out where there was nothing.
LEMMA MovedBlank ==
  ASSUME CacheType, NEW c \in Slots, NEW ok \in BOOLEAN, NEW nb, Moved(c, ok, nb),
         NEW f \in Files, NEW i \in Ids, NEW k \in Cells, Blank(f, i, k)
  PROVE  Blank(f, i, k)'
<1>1. cache'[c] = nb /\ \A d \in Slots \ {c} : cache'[d] = cache[d]
  BY BuffersMoved
<1>2. DataOn(flash, f, i)[k] = Zero /\ \A d \in SlotsOf(f, i) : cache[d].data[k] = Zero
  BY DEF Blank
<1>3. DataOn(flash', f, i)[k] = Zero
  BY <1>2, FlashAfter DEF Moved
<1>4. ASSUME NEW d \in Slots, cache'[d].object = f, cache'[d].chunk_id = i
      PROVE  cache'[d].data[k] = Zero
  <2>1. CASE d # c
    BY <1>1, <1>2, <1>4, <2>1 DEF SlotsOf
  <2>2. CASE d = c
    <3>1. nb.object = f /\ nb.chunk_id = i /\ nb.object # None
      BY <1>1, <1>4, <2>2, Constants
    <3>2. CASE nb.object = cache[c].object /\ nb.chunk_id = cache[c].chunk_id /\ nb.data = cache[c].data
      BY <1>1, <1>2, <2>2, <3>1, <3>2 DEF SlotsOf
    <3>3. CASE nb.data = DataOn(flash, nb.object, nb.chunk_id)
      BY <1>1, <1>2, <2>2, <3>1, <3>3
    <3> QED BY <3>1, <3>2, <3>3 DEF Moved
  <2> QED BY <2>1, <2>2
<1>5. \A d \in SlotsOf(f, i)' : cache'[d].data[k] = Zero
  BY <1>4 DEF SlotsOf
<1> QED BY <1>3, <1>5 DEF Blank

\* After a move a clean buffer is what flash holds, or the chunk is in doubt.
LEMMA MovedClean ==
  ASSUME CacheType, OneBuffer, CleanInv,
         NEW c \in Slots, NEW ok \in BOOLEAN, NEW nb, Moved(c, ok, nb)
  PROVE  CleanInv'
<1>1. cache'[c] = nb /\ \A d \in Slots \ {c} : cache'[d] = cache[d]
  BY BuffersMoved
<1> SUFFICES ASSUME NEW d \in Slots, cache'[d].object # None, ~cache'[d].dirty
             PROVE  \/ cache'[d].data = DataOn(flash', cache'[d].object, cache'[d].chunk_id)
                    \/ <<cache'[d].object, cache'[d].chunk_id>> \in doubt'
  BY DEF CleanInv
<1>2. CASE d # c
  <2> DEFINE g == cache[d].object
             j == cache[d].chunk_id
  <2>1. cache'[d] = cache[d] /\ g \in Files /\ j \in Ids /\ ~cache[d].dirty
    BY <1>1, <1>2, Types
  <2>2. ~(cache[c].object = g /\ cache[c].chunk_id = j)
    BY <1>2, <2>1, Constants DEF OneBuffer
  <2>3. DataOn(flash', g, j) = DataOn(flash, g, j)
    BY <2>1, <2>2, FlashAfter DEF SlotsOf, Moved
  <2>4. <<g, j>> \in doubt => <<g, j>> \in doubt'
    BY <2>2 DEF Moved, Flushed
  <2>5. cache[d].data = DataOn(flash, g, j) \/ <<g, j>> \in doubt
    BY <2>1, Constants DEF CleanInv
  <2> QED BY <2>1, <2>3, <2>4, <2>5
<1>3. CASE d = c
  <2> DEFINE g == nb.object
             j == nb.chunk_id
  <2>1. cache'[d] = nb /\ g # None
    BY <1>1, <1>3
  <2>2. CASE g = cache[c].object /\ j = cache[c].chunk_id /\ nb.data = cache[c].data
             /\ g \in Files /\ j \in Ids
    <3>1. CASE cache[c].dirty /\ ok
      <4>1. flash'[g][j] = cache[c].data /\ cache[c].data # Hole
        BY <2>2, <3>1, Types, Constants DEF Moved, Flushed, Buffers
      <4> QED BY <2>1, <2>2, <4>1 DEF DataOn
    <3>2. CASE cache[c].dirty /\ ~ok
      BY <2>1, <2>2, <3>2 DEF Moved, Flushed
    <3>3. CASE ~cache[c].dirty
      <4>1. DataOn(flash', g, j) = DataOn(flash, g, j)
        BY <2>2, <3>3, FlashAfter DEF Moved
      <4>2. <<g, j>> \in doubt => <<g, j>> \in doubt'
        BY <3>3 DEF Moved, Flushed
      <4>3. nb.data = DataOn(flash, g, j) \/ <<g, j>> \in doubt
        BY <2>1, <2>2, <3>3 DEF CleanInv
      <4> QED BY <2>1, <4>1, <4>2, <4>3
    <3> QED BY <3>1, <3>2, <3>3
  <2>3. CASE g \in Files /\ j \in Ids /\ SlotsOf(g, j) = {} /\ nb.data = DataOn(flash, g, j)
    <3>1. c \notin SlotsOf(g, j)
      BY <2>3
    <3>2. DataOn(flash', g, j) = DataOn(flash, g, j)
      BY <2>3, <3>1, FlashAfter DEF Moved
    <3> QED BY <2>1, <2>3, <3>2
  <2> QED BY <2>1, <2>2, <2>3 DEF Moved
<1> QED BY <1>2, <1>3

-----------------------------------------------------------------------------
(* Counting chunks.                                                        *)

\* There are finitely many chunks.
LEMMA ChunksFinite ==
  ASSUME NEW S, S \subseteq Files \X Ids
  PROVE  IsFiniteSet(S) /\ Cardinality(S) \in Nat
<1>1. IsFiniteSet(Ids)
  BY FS_Interval, Constants DEF Ids
<1>2. IsFiniteSet(Files \X Ids)
  BY <1>1, Constants, FS_Product
<1> QED BY <1>2, FS_Subset, FS_CardinalityType

\* There are finitely many chunks on flash.
LEMMA OnFlashTyped ==
  /\ OnFlash \subseteq Files \X Ids
  /\ Cardinality(OnFlash) \in Nat
<1>1. OnFlash \subseteq Files \X Ids
  BY DEF OnFlash
<1> QED BY <1>1, ChunksFinite

\* There are no more dirty chunks than buffers.
LEMMA DirtyFew ==
  ASSUME NEW buf
  PROVE  /\ IsFiniteSet(DirtyIn(buf))
         /\ Cardinality(DirtyIn(buf)) \in Nat
         /\ Cardinality(DirtyIn(buf)) <= NCaches
<1> DEFINE S == {d \in Slots : buf[d].object # None /\ buf[d].dirty}
           T == DirtyIn(buf)
           F == [c \in S |-> <<buf[c].object, buf[c].chunk_id>>]
<1>1. IsFiniteSet(Slots) /\ Cardinality(Slots) = NCaches
  BY FS_Interval, Constants DEF Slots
<1>2. S \in SUBSET Slots
  OBVIOUS
<1>3. IsFiniteSet(S) /\ Cardinality(S) <= NCaches /\ Cardinality(S) \in Nat
  <2> HIDE DEF S
  <2> QED BY <1>1, <1>2, FS_Subset, FS_CardinalityType
<1>4. F \in Surjection(S, T)
  <2>1. T = {<<buf[c].object, buf[c].chunk_id>> : c \in S}
    BY DEF DirtyIn
  <2>2. F \in [S -> T]
    BY <2>1
  <2>3. \A t \in T : \E s \in S : F[s] = t
    BY <2>1
  <2> HIDE DEF S, T, F
  <2> QED BY <2>2, <2>3 DEF Surjection
<1> HIDE DEF S, T, F
<1>5. IsFiniteSet(T) /\ Cardinality(T) <= Cardinality(S)
  BY <1>3, <1>4, FS_Surjection
<1>6. Cardinality(T) \in Nat
  BY <1>5, FS_CardinalityType
<1> QED BY <1>3, <1>5, <1>6, Constants DEF T

\* While there is room outside the reserve, the dirty buffers at most can
\* go beyond it.
LEMMA RoomLeft ==
  ASSUME NEW S, S \subseteq Files \X Ids, NEW buf, NEW C, NEW n \in Nat,
         Room - Cardinality(S) - n >= 1
  PROVE  Cardinality((S \cup DirtyIn(buf)) \ C) + n <= Room + NCaches - 1
<1> DEFINE D == DirtyIn(buf)
           U == S \cup D
           V == U \ C
<1>1. /\ IsFiniteSet(S) /\ Cardinality(S) \in Nat
      /\ IsFiniteSet(D) /\ Cardinality(D) \in Nat /\ Cardinality(D) <= NCaches
  BY ChunksFinite, DirtyFew
<1> HIDE DEF D
<1>2. IsFiniteSet(S \cap D) /\ Cardinality(S \cap D) \in Nat
  BY <1>1, FS_Subset, FS_CardinalityType
<1>3. IsFiniteSet(U) /\ Cardinality(U) = Cardinality(S) + Cardinality(D) - Cardinality(S \cap D)
  BY <1>1, FS_Union
<1>4. V \in SUBSET U
  OBVIOUS
<1> HIDE DEF U, V
<1>5. Cardinality(V) <= Cardinality(U) /\ Cardinality(V) \in Nat
  BY <1>3, <1>4, FS_Subset, FS_CardinalityType
<1>6. Cardinality(V) + n <= Room + NCaches - 1
  BY <1>1, <1>2, <1>3, <1>5, Constants
<1> QED BY <1>6 DEF V, U, D

\* Only chunks of files are claimed.
LEMMA ClaimedTyped ==
  ASSUME CacheType
  PROVE  /\ DirtyIn(cache) \subseteq Files \X Ids
         /\ Claimed \subseteq Files \X Ids
<1>1. DirtyIn(cache) \subseteq Files \X Ids
  BY Types DEF DirtyIn
<1> QED BY <1>1, OnFlashTyped DEF Claimed

\* What claims no more keeps within the overdraft.
LEMMA FewerClaimed ==
  ASSUME CacheType, Overdraft, Claimed' \subseteq Claimed,
         others' \in Nat, others' <= others
  PROVE  Overdraft'
<1> DEFINE S == Claimed
           T == Claimed'
<1>1. T \in SUBSET S
  OBVIOUS
<1>2. IsFiniteSet(S) /\ Cardinality(S) \in Nat
  BY ClaimedTyped, ChunksFinite
<1>3. Cardinality(S) + others <= Room + NCaches - 1 /\ others \in Nat
  BY Types DEF Overdraft
<1> HIDE DEF S, T
<1>4. Cardinality(T) <= Cardinality(S) /\ Cardinality(T) \in Nat
  BY <1>1, <1>2, FS_Subset, FS_CardinalityType
<1>5. Cardinality(T) + others' <= Room + NCaches - 1
  BY <1>2, <1>3, <1>4, Constants
<1> QED BY <1>5 DEF T, Overdraft

\* A flush claims no more: it had been claimed by the dirty buffer.
LEMMA MovedOverdraft ==
  ASSUME CacheType, Overdraft, others' = others,
         NEW c \in Slots, NEW ok \in BOOLEAN, NEW nb, Moved(c, ok, nb)
  PROVE  Overdraft'
<1>1. cache'[c] = nb /\ \A d \in Slots \ {c} : cache'[d] = cache[d]
  BY BuffersMoved
<1>2. DirtyIn(cache') \subseteq DirtyIn(cache)
  <2>1. \A d \in Slots : cache'[d].dirty => d # c
    BY <1>1 DEF Moved
  <2> QED BY <1>1, <2>1 DEF DirtyIn
<1>3. ASSUME NEW f \in Files, NEW i \in Ids, flash'[f][i] # Hole
      PROVE  <<f, i>> \in OnFlash \cup DirtyIn(cache)
  <2>1. CASE flash'[f][i] = flash[f][i]
    BY <1>3, <2>1 DEF OnFlash
  <2>2. CASE cache[c].dirty /\ c \in SlotsOf(f, i)
    BY <2>2, Constants DEF SlotsOf, DirtyIn
  <2> QED BY <2>1, <2>2, FlashAfter DEF Moved
<1>4. OnFlash' \subseteq OnFlash \cup DirtyIn(cache)
  BY <1>3 DEF OnFlash
<1>5. Claimed' \subseteq Claimed
  BY <1>2, <1>4 DEF Claimed, Moved
<1> QED BY <1>5, FewerClaimed, Types

\* A move keeps what the invariant says of buffers and flash.
LEMMA MovedData ==
  ASSUME CacheType, DataInv, others' = others,
         NEW c \in Slots, NEW ok \in BOOLEAN, NEW nb, Moved(c, ok, nb)
  PROVE  DataInv'
<1> USE DEF DataInv
<1>1. OneBuffer' /\ CleanInv' /\ Overdraft'
  BY MovedOne, MovedClean, MovedOverdraft
<1>2. \A g \in Files : file'[g].file_size = file[g].file_size
  BY DEF Moved, Flushed
<1>3. Beyond'
  BY <1>2, MovedBlank DEF Beyond
<1>4. PastEnd'
  <2>1. faults' = 0 => faults = 0
    BY Types DEF Moved, Flushed
  <2> QED BY <1>2, <2>1, MovedBlank DEF PastEnd
<1>5. CutInv'
  <2>1. \A f \in Files, i \in Ids : <<f, i>> \in OnFlash => flash'[f][i] # Hole
    <3> SUFFICES ASSUME NEW f \in Files, NEW i \in Ids, <<f, i>> \in OnFlash
                 PROVE  flash'[f][i] # Hole
      OBVIOUS
    <3>1. flash[f][i] # Hole
      BY DEF OnFlash
    <3>2. cache[c].data # Hole
      BY Types, Constants DEF Buffers
    <3> QED BY <3>1, <3>2, FlashAfter DEF Moved
  <2>2. cut_in' \subseteq OnFlash'
    BY <2>1, Types DEF CutInv, OnFlash, Moved
  <2>3. \A x \in cut_in' : Start(x[2]) < file'[x[1]].file_size
    BY <1>2, Types DEF CutInv, Moved
  <2> QED BY <2>2, <2>3 DEF CutInv
<1> QED BY <1>1, <1>3, <1>4, <1>5

-----------------------------------------------------------------------------
(* What a read finds.                                                      *)

\* A read finds the buffer of the chunk, if there is one, or flash.
LEMMA ViewIs ==
  ASSUME OneBuffer, NEW f \in Files, NEW i \in Ids
  PROVE  /\ SlotsOf(f, i) = {} => View(f, i) = DataOn(flash, f, i)
         /\ \A c \in SlotsOf(f, i) : View(f, i) = cache[c].data
<1>1. \A c, d \in SlotsOf(f, i) : c = d
  BY Constants DEF OneBuffer, SlotsOf
<1>2. SlotsOf(f, i) # {} => (CHOOSE c \in SlotsOf(f, i) : TRUE) \in SlotsOf(f, i)
  OBVIOUS
<1> QED BY <1>1, <1>2 DEF View, rd_data_obj

\* So it does after a step.
LEMMA ViewIsNext ==
  ASSUME OneBuffer', NEW f \in Files, NEW i \in Ids
  PROVE  /\ SlotsOf(f, i)' = {} => View(f, i)' = DataOn(flash', f, i)
         /\ \A c \in SlotsOf(f, i)' : View(f, i)' = cache'[c].data
<1>1. \A c, d \in SlotsOf(f, i)' : c = d
  BY Constants DEF OneBuffer, SlotsOf
<1>2. SlotsOf(f, i)' # {} => (CHOOSE c \in SlotsOf(f, i)' : TRUE) \in SlotsOf(f, i)'
  OBVIOUS
<1>3. View(f, i)' = IF SlotsOf(f, i)' = {} THEN DataOn(flash', f, i)
                    ELSE cache'[CHOOSE c \in SlotsOf(f, i)' : TRUE].data
  BY DEF View, rd_data_obj
<1> QED BY <1>1, <1>2, <1>3

\* A read finds a chunk of bytes.
LEMMA ViewTyped ==
  ASSUME CacheType, OneBuffer, NEW f \in Files, NEW i \in Ids
  PROVE  View(f, i) \in Data
<1>1. CASE SlotsOf(f, i) = {}
  <2>1. View(f, i) = DataOn(flash, f, i)
    BY <1>1, ViewIs
  <2>2. DataOn(flash, f, i) \in Data
    BY DataTyped, Types
  <2> QED BY <2>1, <2>2
<1>2. CASE SlotsOf(f, i) # {}
  <2>1. PICK c \in SlotsOf(f, i) : TRUE
    BY <1>2
  <2>2. cache[c].data \in Data
    BY <2>1, Types DEF SlotsOf, Buffers
  <2> QED BY <2>1, <2>2, ViewIs
<1> QED BY <1>1, <1>2

\* A move does not show, but where the flash has refused a write.
LEMMA MovedView ==
  ASSUME CacheType, OneBuffer, CleanInv,
         NEW c \in Slots, NEW ok \in BOOLEAN, NEW nb, Moved(c, ok, nb),
         NEW f \in Files, NEW i \in Ids
  PROVE  View(f, i)' = View(f, i) \/ <<f, i>> \in doubt'
<1>1. cache'[c] = nb /\ \A d \in Slots \ {c} : cache'[d] = cache[d]
  BY BuffersMoved
<1>2. OneBuffer'
  BY MovedOne
<1>3. CASE \E d \in Slots \ {c} : d \in SlotsOf(f, i)
  <2>1. PICK d \in Slots \ {c} : d \in SlotsOf(f, i)
    BY <1>3
  <2>2. d \in SlotsOf(f, i)'
    BY <1>1, <2>1 DEF SlotsOf
  <2>3. View(f, i) = cache[d].data /\ View(f, i)' = cache'[d].data
    BY <1>2, <2>1, <2>2, ViewIs, ViewIsNext
  <2> QED BY <1>1, <2>1, <2>3
<1>4. CASE ~(\E d \in Slots \ {c} : d \in SlotsOf(f, i)) /\ c \in SlotsOf(f, i)
  <2>1. View(f, i) = cache[c].data
    BY <1>4, ViewIs
  <2>2. c \in Slots /\ cache[c].object = f /\ cache[c].chunk_id = i /\ f # None
    BY <1>4, Constants DEF SlotsOf
  <2>3. CASE c \in SlotsOf(f, i)'
    <3>1. nb.object = f /\ nb.chunk_id = i
      BY <1>1, <2>3 DEF SlotsOf
    <3>2. nb.data = cache[c].data
      BY <3>1, <2>2, <1>4 DEF Moved
    <3>3. View(f, i)' = cache'[c].data
      BY <1>2, <2>3, ViewIsNext
    <3> QED BY <1>1, <2>1, <3>2, <3>3
  <2>4. CASE c \notin SlotsOf(f, i)'
    <3>1. SlotsOf(f, i)' = {}
      BY <1>1, <1>4, <2>4 DEF SlotsOf
    <3>2. View(f, i)' = DataOn(flash', f, i)
      BY <1>2, <3>1, ViewIsNext
    <3>3. CASE cache[c].dirty /\ ok
      <4>1. flash'[f][i] = cache[c].data /\ cache[c].data # Hole
        BY <2>2, <3>3, Types, Constants DEF Moved, Flushed, Buffers
      <4> QED BY <2>1, <3>2, <4>1 DEF DataOn
    <3>4. CASE cache[c].dirty /\ ~ok
      BY <2>2, <3>4 DEF Moved, Flushed
    <3>5. CASE ~cache[c].dirty
      <4>1. DataOn(flash', f, i) = DataOn(flash, f, i)
        BY <3>5, FlashAfter DEF Moved
      <4>2. <<f, i>> \in doubt => <<f, i>> \in doubt'
        BY <3>5 DEF Moved, Flushed
      <4>3. cache[c].data = DataOn(flash, f, i) \/ <<f, i>> \in doubt
        BY <2>2, <3>5 DEF CleanInv
      <4> QED BY <2>1, <3>2, <4>1, <4>2, <4>3
    <3> QED BY <3>3, <3>4, <3>5
  <2> QED BY <2>3, <2>4
<1>5. CASE SlotsOf(f, i) = {}
  <2>1. View(f, i) = DataOn(flash, f, i)
    BY <1>5, ViewIs
  <2>2. DataOn(flash', f, i) = DataOn(flash, f, i)
    BY <1>5, FlashAfter DEF Moved
  <2>3. CASE c \in SlotsOf(f, i)'
    <3>1. nb.object = f /\ nb.chunk_id = i /\ f # None
      BY <1>1, <2>3, Constants DEF SlotsOf
    <3>2. nb.data = DataOn(flash, f, i)
      BY <3>1, <1>5 DEF Moved, SlotsOf
    <3>3. View(f, i)' = cache'[c].data
      BY <1>2, <2>3, ViewIsNext
    <3> QED BY <1>1, <2>1, <3>2, <3>3
  <2>4. CASE c \notin SlotsOf(f, i)'
    <3>1. SlotsOf(f, i)' = {}
      BY <1>1, <1>5, <2>4 DEF SlotsOf
    <3> QED BY <1>2, <2>1, <2>2, <3>1, ViewIsNext
  <2> QED BY <2>3, <2>4
<1>6. SlotsOf(f, i) \subseteq Slots
  BY DEF SlotsOf
<1> QED BY <1>3, <1>4, <1>5, <1>6

-----------------------------------------------------------------------------
(* The steps that move a buffer.                                           *)

\* Loading a chunk that has no buffer is a move.
LEMMA LoadMoves ==
  ASSUME CacheType, cut_in' = cut_in, NEW f \in Files, NEW i \in Ids,
         SlotsOf(f, i) = {}, LoadChunk(f, i)
  PROVE  \E c \in Slots, ok \in BOOLEAN, nb \in Buffers :
            Moved(c, ok, nb) /\ nb.object = f /\ nb.chunk_id = i
<1>1. Victims \subseteq Slots
  BY DEF Victims
<1>2. PICK c \in Victims, ok \in BOOLEAN :
        /\ flush_single_cache(c, ok)
        /\ cache' = [cache EXCEPT ![c] =
                        [Unused EXCEPT !.object = f, !.chunk_id = i,
                                       !.data = DataOn(flash', f, i)]]
  BY DEF LoadChunk
<1> DEFINE data == DataOn(flash', f, i)
           nb == [Unused EXCEPT !.object = f, !.chunk_id = i, !.data = data]
<1>3. c \in Slots /\ Flushed(c, ok)
  BY <1>1, <1>2, FlushFacts
<1>4. data \in Data /\ Zeros \in Data
  BY <1>3, DataTyped DEF Flushed
<1>5. data = DataOn(flash, f, i)
  BY <1>3, FlashAfter
<1>6. i \in 0 .. MaxId /\ 0 \in 0 .. ChunkSize
  BY Constants DEF Ids
<1>7. nb \in Buffers /\ nb.object = f /\ nb.chunk_id = i /\ nb.data = data /\ ~nb.dirty
  <2> HIDE DEF data
  <2> QED BY <1>4, <1>6, Constants DEF Unused, Buffers
<1>8. cache' = [cache EXCEPT ![c] = nb]
  BY <1>2
<1> HIDE DEF nb, data
<1>9. Moved(c, ok, nb)
  BY <1>3, <1>5, <1>7, <1>8 DEF Moved
<1> QED BY <1>3, <1>7, <1>9

\* An unused buffer is a clean buffer of no object.
LEMMA UnusedBuffer ==
  Unused \in Buffers /\ Unused.object = None /\ ~Unused.dirty
BY DataTyped, Constants DEF Unused, Buffers, Zeros, Data

\* Flushing a buffer is a move.
LEMMA FlushMoves ==
  ASSUME CacheType, cut_in' = cut_in, At("flush"), FlushBuffer, Job \in FlushJobs
  PROVE  \E c \in Slots, ok \in BOOLEAN, nb \in Buffers :
            /\ Moved(c, ok, nb)
            /\ cache[c].object \in Job.files
            /\ Job.discard => nb.object = None
<1>1. PICK c \in Flushable, ok \in BOOLEAN :
        /\ flush_single_cache(c, ok)
        /\ cache' = [cache EXCEPT ![c] = IF Job.discard THEN Unused
                                        ELSE [@ EXCEPT !.dirty = FALSE]]
  BY DEF FlushBuffer
<1>2. c \in Slots /\ cache[c].object \in Job.files
  BY DEF Flushable
<1>3. cache[c] \in Buffers /\ Job.files \subseteq Files /\ Job.discard \in BOOLEAN
  BY <1>2, Types DEF FlushJobs
<1> DEFINE nb == IF Job.discard THEN Unused ELSE [cache[c] EXCEPT !.dirty = FALSE]
<1>4. cache' = [cache EXCEPT ![c] = nb]
  BY <1>1
<1>5. Flushed(c, ok)
  BY <1>1, <1>2, FlushFacts
<1>6. CASE Job.discard
  <2>1. nb = Unused
    BY <1>6
  <2> HIDE DEF nb
  <2>2. Moved(c, ok, nb)
    BY <1>4, <1>5, <2>1, UnusedBuffer DEF Moved
  <2> QED BY <1>2, <1>6, <2>1, <2>2, UnusedBuffer
<1>7. CASE ~Job.discard
  <2>1. nb = [cache[c] EXCEPT !.dirty = FALSE]
    BY <1>7
  <2> HIDE DEF nb
  <2>2. /\ nb \in Buffers /\ ~nb.dirty
        /\ nb.object = cache[c].object /\ nb.chunk_id = cache[c].chunk_id
        /\ nb.data = cache[c].data
    BY <1>3, <2>1 DEF Buffers
  <2>3. nb.object \in Files /\ nb.chunk_id \in Ids
    BY <1>2, <1>3, <2>2, Types, Constants
  <2>4. Moved(c, ok, nb)
    BY <1>4, <1>5, <2>2, <2>3 DEF Moved
  <2> QED BY <1>2, <1>7, <2>2, <2>4
<1> QED BY <1>6, <1>7

\* The types after a step, from those of each variable.
LEMMA TypesNext ==
  ASSUME cache' \in [Slots -> Buffers],
         \A c \in Slots : cache'[c].object # None => cache'[c].chunk_id \in Ids,
         flash' \in [Files -> [Ids -> Data \cup {Hole}]],
         file' \in [Files -> FileVars],
         others' \in Nat, doubt' \subseteq Files \X Ids, cut_in' \subseteq Files \X Ids,
         faults' \in Nat,
         op' \in [file : Files \cup {None}, jobs : Seq(JobTypes)]
  PROVE  CacheType'
BY DEF CacheType, TypeOK, Buffers, FileVars, Sizes

\* A move keeps the types.
LEMMA MovedType ==
  ASSUME CacheType, others' = others,
         op' \in [file : Files \cup {None}, jobs : Seq(JobTypes)],
         NEW c \in Slots, NEW ok \in BOOLEAN, NEW nb, Moved(c, ok, nb)
  PROVE  CacheType'
<1>1. /\ flash' \in [Files -> [Ids -> Data \cup {Hole}]] /\ file' \in [Files -> FileVars]
      /\ doubt' \subseteq Files \X Ids /\ cut_in' \subseteq Files \X Ids
      /\ faults' \in Nat /\ others' \in Nat
  BY Types DEF Moved, Flushed
<1> QED BY <1>1, BuffersMoved, TypesNext

-----------------------------------------------------------------------------
(* The steps that leave the data alone.                                    *)

Still ==
    /\ UNCHANGED <<cache, flash, doubt, cut_in>>
    /\ file' \in [Files -> FileVars]
    /\ \A g \in Files : file'[g].file_size = file[g].file_size
    /\ faults' \in {faults, faults + 1}

\* Such a step keeps what the invariant says of buffers and flash.
LEMMA StillData ==
  ASSUME CacheType, DataInv, Still, others' = others
  PROVE  DataInv'
<1> USE DEF DataInv, Still
<1>1. OneBuffer' /\ CleanInv'
  BY DEF OneBuffer, CleanInv
<1>2. \A f, i, k : Blank(f, i, k)' = Blank(f, i, k)
  BY DEF Blank, SlotsOf
<1>3. Beyond'
  BY <1>2 DEF Beyond
<1>4. PastEnd'
  <2>1. faults' = 0 => faults = 0
    BY Types
  <2> QED BY <1>2, <2>1 DEF PastEnd
<1>5. CutInv'
  BY Types DEF CutInv, OnFlash
<1>6. Overdraft'
  BY FewerClaimed, Types DEF Claimed, OnFlash
<1> QED BY <1>1, <1>3, <1>4, <1>5, <1>6

\* Such a step keeps the types.
LEMMA StillType ==
  ASSUME CacheType, Still, others' \in Nat,
         op' \in [file : Files \cup {None}, jobs : Seq(JobTypes)]
  PROVE  CacheType'
<1>1. faults' \in Nat
  BY Types DEF Still
<1> QED BY <1>1, Types, TypesNext DEF Still

\* Such a step does not change what a read finds.
LEMMA StillView ==
  ASSUME Still, NEW f \in Files, NEW i \in Ids
  PROVE  View(f, i)' = View(f, i)
BY DEF Still, View, rd_data_obj, SlotsOf

-----------------------------------------------------------------------------
(* The jobs of a call.                                                     *)

\* The jobs that calls are made of.
LEMMA JobsTyped ==
  /\ HdrJob \in HdrJobs /\ HdrJob \in JobTypes
  /\ \A n \in Sizes : /\ HoleJob(n) \in HoleJobs /\ HoleJob(n).size = n
                      /\ GrowJob(n) \in GrowJobs /\ GrowJob(n).size = n
                      /\ DownJob(n) \in DownJobs /\ DownJob(n).size = n
  /\ \A n, b \in Sizes : /\ FillJob(n, b) \in FillJobs
                         /\ FillJob(n, b).size = n /\ FillJob(n, b).base = b
  /\ WriteJobs \subseteq JobTypes /\ HoleJobs \subseteq JobTypes /\ FillJobs \subseteq JobTypes
  /\ GrowJobs \subseteq JobTypes /\ DownJobs \subseteq JobTypes /\ FlushJobs \subseteq JobTypes
BY DEF JobTypes, WriteJobs, HoleJobs, FillJobs, GrowJobs, DownJobs, FlushJobs, HdrJobs,
       HdrJob, HoleJob, GrowJob, DownJob, FillJob

\* What each kind of job carries.
LEMMA JobKinds ==
  /\ \A j \in WriteJobs : j.do = "write"
  /\ \A j \in HoleJobs : j.do = "hole" /\ j.size \in Sizes
  /\ \A j \in FillJobs : j.do = "fill" /\ j.size \in Sizes /\ j.base \in Sizes
  /\ \A j \in GrowJobs : j.do = "grow" /\ j.size \in Sizes
  /\ \A j \in DownJobs : j.do = "down" /\ j.size \in Sizes
  /\ \A j \in FlushJobs : j.do = "flush"
  /\ \A j \in HdrJobs : j.do = "hdr" /\ j = HdrJob
BY DEF WriteJobs, HoleJobs, FillJobs, GrowJobs, DownJobs, FlushJobs, HdrJobs, HdrJob

\* What is known of the job at hand and of those after it.
LEMMA JobAt ==
  ASSUME CacheType, QueueInv
  PROVE  /\ op.jobs # <<>> => Tail(op.jobs) \in Seq(JobTypes)
         /\ At("write") => /\ op.file \in Files /\ Job \in WriteJobs
                           /\ WriteQueue(Job, Tail(op.jobs), SizeNow)
         /\ At("hole") => /\ op.file \in Files /\ Job \in HoleJobs
                          /\ Final(Tail(op.jobs), Job.size, SizeNow)
         /\ At("fill") => /\ op.file \in Files /\ Job \in FillJobs
                          /\ Final(Tail(op.jobs), Job.size, SizeNow)
         /\ At("grow") => /\ op.file \in Files /\ Job \in GrowJobs
                          /\ Tail(op.jobs) = <<HdrJob>> /\ SizeNow <= Job.size
         /\ At("down") => /\ op.file \in Files /\ Job \in DownJobs
                          /\ Tail(op.jobs) # <<>> /\ Head(Tail(op.jobs)) = HdrJob
                          /\ Finals(Tail(Tail(op.jobs)), Job.size)
         /\ At("hdr") => op.file \in Files /\ Finals(Tail(op.jobs), SizeNow)
         /\ At("flush") => /\ Job \in FlushJobs
                           /\ FlushQueue(Job, Tail(op.jobs), op.file, SizeNow)
<1>1. op.jobs # <<>> => Tail(op.jobs) \in Seq(JobTypes)
  BY Types, Rest
<1>2. ASSUME NEW d, At(d)
      PROVE  op.jobs # <<>> /\ Job.do = d /\ Queue(Job, Tail(op.jobs), op.file, SizeNow)
  BY <1>2 DEF At, QueueInv
<1> QED BY <1>1, <1>2, JobKinds DEF Queue

\* The queue after Continue().
LEMMA Continued ==
  ASSUME CacheType, NEW jobs \in Seq(JobTypes), Continue(jobs)
  PROVE  /\ op' \in [file : Files \cup {None}, jobs : Seq(JobTypes)]
         /\ op'.jobs = jobs
         /\ jobs # <<>> => op'.file = op.file
<1>1. op \in [file : Files \cup {None}, jobs : Seq(JobTypes)]
  BY Types
<1>2. CASE jobs = <<>>
  BY <1>2 DEF Continue, Idle
<1>3. CASE jobs # <<>>
  BY <1>1, <1>3 DEF Continue
<1> QED BY <1>2, <1>3

\* What may be left of a call is a queue, and not empty.
LEMMA FinalTyped ==
  ASSUME NEW s, NEW n \in Sizes, NEW z, Final(s, n, z)
  PROVE  s \in Seq(JobTypes) /\ s # <<>>
<1>1. CASE \E j \in WriteJobs : s = <<j>>
  BY <1>1, JobsTyped, Singleton
<1>2. CASE s = <<GrowJob(n), HdrJob>>
  <2>1. GrowJob(n) \in JobTypes /\ HdrJob \in JobTypes
    BY JobsTyped
  <2> HIDE DEF JobTypes
  <2> QED BY <1>2, <2>1, Pair
<1> QED BY <1>1, <1>2 DEF Final

\* Jobs that ask for nothing but their place in the queue.
Plain(h) ==
    \/ h \in HdrJobs \/ h \in GrowJobs \/ h \in HoleJobs \/ h \in FlushJobs
    \/ h \in WriteJobs /\ h.base = -1 /\ ~h.loaded

\* A queue that begins with a plain job keeps the invariant.
LEMMA PlainNext ==
  ASSUME \/ op'.jobs = <<>>
         \/ /\ Plain(Head(op'.jobs))
            /\ Queue(Head(op'.jobs), Tail(op'.jobs), op'.file, SizeNow')
  PROVE  CallInv'
<1>1. QueueInv'
  BY DEF QueueInv, Job
<1>2. CASE op'.jobs = <<>>
  BY <1>1, <1>2 DEF CallInv, FillInv, FillWriteInv, LoadedInv, DownInv, At
<1>3. CASE Plain(Head(op'.jobs))
  <2> DEFINE h == Head(op'.jobs)
  <2>1. h.do # "fill" /\ h.do # "down" /\ (h.do = "write" => h.base = -1 /\ ~h.loaded)
    BY <1>3, JobKinds DEF Plain
  <2>2. Job' = h
    BY DEF Job
  <2> HIDE DEF h
  <2> QED BY <1>1, <2>1, <2>2 DEF CallInv, FillInv, FillWriteInv, LoadedInv, DownInv, At
<1> QED BY <1>2, <1>3

\* So does what is left of a call when its hole is dealt with.
LEMMA FinalNext ==
  ASSUME NEW n \in Sizes, op'.file \in Files, Final(op'.jobs, n, SizeNow')
  PROVE  CallInv'
<1>1. CASE \E j \in WriteJobs : j.base = -1 /\ ~j.loaded /\ j.lo < j.hi /\ op'.jobs = <<j>>
  <2>1. PICK j \in WriteJobs : j.base = -1 /\ ~j.loaded /\ j.lo < j.hi /\ op'.jobs = <<j>>
    BY <1>1
  <2>2. Head(op'.jobs) = j /\ Tail(op'.jobs) = <<>>
    BY <2>1, Singleton
  <2>3. Plain(j) /\ Queue(j, <<>>, op'.file, SizeNow')
    BY <2>1 DEF Plain, Queue, WriteQueue
  <2> QED BY <2>2, <2>3, PlainNext
<1>2. CASE op'.jobs = <<GrowJob(n), HdrJob>> /\ SizeNow' <= n
  <2>1. Head(op'.jobs) = GrowJob(n) /\ Tail(op'.jobs) = <<HdrJob>>
    BY <1>2, JobsTyped, Pair
  <2>2. Plain(GrowJob(n)) /\ Queue(GrowJob(n), <<HdrJob>>, op'.file, SizeNow')
    BY <1>2, JobsTyped DEF Plain, Queue
  <2> QED BY <2>1, <2>2, PlainNext
<1> QED BY <1>1, <1>2 DEF Final

\* So does what is left, if anything.
LEMMA FinalsNext ==
  ASSUME op'.jobs # <<>> => op'.file \in Files, Finals(op'.jobs, SizeNow')
  PROVE  CallInv'
<1>1. CASE op'.jobs = <<>>
  BY <1>1, PlainNext
<1>2. CASE op'.jobs # <<>>
  BY <1>2, FinalNext DEF Finals
<1> QED BY <1>1, <1>2

\* So does a header to be written before it.
LEMMA HdrNext ==
  ASSUME NEW t \in Seq(JobTypes), op'.jobs = <<HdrJob>> \o t, op'.file \in Files,
         Finals(t, SizeNow')
  PROVE  CallInv'
<1>1. Head(op'.jobs) = HdrJob /\ Tail(op'.jobs) = t
  BY JobsTyped, Front
<1>2. Plain(HdrJob) /\ Queue(HdrJob, t, op'.file, SizeNow')
  BY JobsTyped DEF Plain, Queue
<1> QED BY <1>1, <1>2, PlainNext

\* What is left, if anything, is a queue.
LEMMA FinalsTyped ==
  ASSUME NEW s, NEW z, Finals(s, z)
  PROVE  s \in Seq(JobTypes)
<1>1. CASE s = <<>>
  BY <1>1, JobsTyped, Front
<1>2. CASE \E n \in Sizes : Final(s, n, z)
  BY <1>2, FinalTyped
<1> QED BY <1>1, <1>2 DEF Finals

-----------------------------------------------------------------------------
(* The calls keep the invariant.                                           *)

OpTypes == [file : Files \cup {None}, jobs : Seq(JobTypes)]

\* A call that begins changes nothing but the queue.
LEMMA Called ==
  ASSUME CacheType, DataInv, NEW f \in Files \cup {None}, NEW jobs \in Seq(JobTypes),
         Call(f, jobs)
  PROVE  /\ Still /\ others' = others /\ CacheType' /\ DataInv'
         /\ op = Idle /\ op'.file = f /\ op'.jobs = jobs
         /\ SizeNow' = file[f].file_size
<1>1. op = Idle /\ op' = [file |-> f, jobs |-> jobs]
      /\ UNCHANGED <<cache, flash, file, others, doubt, cut_in, faults>>
  BY DEF Call
<1>2. Still
  BY <1>1, Types DEF Still
<1>3. op' \in OpTypes /\ op'.file = f /\ op'.jobs = jobs
  BY <1>1 DEF OpTypes
<1>4. CacheType'
  BY <1>1, <1>2, <1>3, StillType, Types DEF OpTypes
<1>5. DataInv'
  BY <1>1, <1>2, StillData
<1> QED BY <1>1, <1>2, <1>3, <1>4, <1>5 DEF SizeNow

\* yaffs_wr_file() keeps the invariant.
LEMMA WriteFileKeeps ==
  ASSUME CacheInv, NEW f \in Files, NEW i \in Ids, NEW v \in Vals,
         NEW lo \in Cells, NEW hi \in lo + 1 .. ChunkSize, WriteFile(f, i, lo, hi, v)
  PROVE  CacheInv' /\ Still
<1> DEFINE n == (i - 1) * ChunkSize + lo
           j == WriteJob(i, lo, hi, v, -1)
<1>1. n \in Sizes
  <2>1. n = Start(i) + lo
    BY DEF Start
  <2> QED BY <2>1, StartOrder, Constants DEF Sizes, Cells
<1>2. j \in WriteJobs /\ j.base = -1 /\ ~j.loaded /\ j.lo < j.hi
  BY Constants DEF WriteJobs, WriteJob, Bytes, Cells
<1> DEFINE jobs == <<HoleJob(n), j>>
<1>3. /\ jobs \in Seq(JobTypes) /\ Head(jobs) = HoleJob(n) /\ Tail(jobs) = <<j>>
      /\ HoleJob(n) \in HoleJobs /\ HoleJob(n).size = n
  <2>1. HoleJob(n) \in JobTypes /\ j \in JobTypes
    BY <1>1, <1>2, JobsTyped
  <2> HIDE DEF j, n, JobTypes
  <2> QED BY <2>1, <1>1, Pair, JobsTyped
<1>4. Call(f, jobs)
  BY DEF WriteFile
<1> HIDE DEF n, j
<1>5. Final(<<j>>, n, file[f].file_size)
  BY <1>2 DEF Final
<1> HIDE DEF jobs
<1>6. Still /\ CacheType' /\ DataInv' /\ op'.file = f /\ op'.jobs = jobs
      /\ SizeNow' = file[f].file_size
  BY <1>3, <1>4, Called DEF CacheInv
<1>7. Plain(Head(op'.jobs)) /\ Queue(Head(op'.jobs), Tail(op'.jobs), op'.file, SizeNow')
  BY <1>3, <1>5, <1>6 DEF Plain, Queue
<1>8. CallInv'
  BY <1>7, PlainNext
<1> QED BY <1>6, <1>8 DEF CacheInv

\* A call that begins with a flush.
LEMMA FlushCall ==
  ASSUME CacheInv, NEW f \in Files \cup {None}, NEW j \in FlushJobs, NEW t \in Seq(JobTypes),
         FlushQueue(j, t, f, file[f].file_size), Call(f, <<j>> \o t)
  PROVE  CacheInv' /\ Still
<1> DEFINE jobs == <<j>> \o t
<1>1. jobs \in Seq(JobTypes) /\ Head(jobs) = j /\ Tail(jobs) = t
  BY JobsTyped, Front
<1>2. Call(f, jobs)
  OBVIOUS
<1> HIDE DEF jobs
<1>3. Still /\ CacheType' /\ DataInv' /\ op'.file = f /\ op'.jobs = jobs
      /\ SizeNow' = file[f].file_size
  BY <1>1, <1>2, Called DEF CacheInv
<1>4. Plain(Head(op'.jobs)) /\ Queue(Head(op'.jobs), Tail(op'.jobs), op'.file, SizeNow')
  BY <1>1, <1>3 DEF Plain, Queue
<1> QED BY <1>3, <1>4, PlainNext DEF CacheInv

\* yaffs_resize_file() keeps the invariant.
LEMMA ResizeFileKeeps ==
  ASSUME CacheInv, NEW f \in Files, NEW n \in Sizes, ResizeFile(f, n)
  PROVE  CacheInv' /\ Still
<1> DEFINE old == file[f].file_size
           j == FlushJob({f}, TRUE)
           t == IF n > old THEN <<HoleJob(n), GrowJob(n), HdrJob>>
                ELSE IF n < old THEN <<DownJob(n), HdrJob>>
                ELSE <<>>
<1>1. old \in Sizes /\ n \in Int
  BY Types DEF FileVars, CacheInv, Sizes
<1>2. j \in FlushJobs /\ j.discard /\ j.files = {f}
  BY DEF FlushJob, FlushJobs
<1>3. HoleJob(n) \in JobTypes /\ GrowJob(n) \in JobTypes /\ HdrJob \in JobTypes
      /\ DownJob(n) \in JobTypes
  BY JobsTyped
<1>4. Call(f, <<j>> \o t)
  BY DEF ResizeFile
<1>5. t \in Seq(JobTypes)
  <2> HIDE DEF JobTypes, old
  <2> QED BY <1>3, Triple, Pair, Front
<1>6. FlushQueue(j, t, f, old)
  <2>1. CASE n > old
    <3>1. t = <<HoleJob(n), GrowJob(n), HdrJob>> /\ old <= n
      BY <1>1, <2>1 DEF Sizes
    <3> HIDE DEF t, j, old
    <3> QED BY <1>2, <3>1 DEF FlushQueue
  <2>2. CASE n < old
    <3>1. t = <<DownJob(n), HdrJob>>
      BY <1>1, <2>2 DEF Sizes
    <3> HIDE DEF t, j, old
    <3> QED BY <1>2, <2>2, <3>1 DEF FlushQueue
  <2>3. CASE ~(n > old) /\ ~(n < old)
    BY <2>3 DEF FlushQueue
  <2> QED BY <2>1, <2>2, <2>3
<1> HIDE DEF j, t
<1> QED BY <1>2, <1>4, <1>5, <1>6, FlushCall

\* yaffs_flush_file() keeps the invariant.
LEMMA FlushFileKeeps ==
  ASSUME CacheInv, NEW f \in Files, NEW data_sync \in BOOLEAN, NEW discard \in BOOLEAN,
         FlushFile(f, data_sync, discard)
  PROVE  CacheInv' /\ Still
<1> DEFINE j == FlushJob({f}, discard)
           t == IF data_sync THEN <<>> ELSE <<HdrJob>>
<1>1. j \in FlushJobs
  BY DEF FlushJob, FlushJobs
<1>2. t \in Seq(JobTypes)
  BY JobsTyped, Front, Singleton
<1>3. FlushQueue(j, t, f, file[f].file_size)
  BY DEF FlushQueue
<1>4. Call(f, <<j>> \o t)
  BY DEF FlushFile
<1> HIDE DEF j, t
<1> QED BY <1>1, <1>2, <1>3, <1>4, FlushCall

\* yaffs_flush_whole_cache() keeps the invariant.
LEMMA FlushWholeKeeps ==
  ASSUME CacheInv, FlushWholeCache
  PROVE  CacheInv' /\ Still
<1> DEFINE j == FlushJob(Files, FALSE)
<1>1. j \in FlushJobs
  BY DEF FlushJob, FlushJobs
<1>2. <<j>> \o <<>> = <<j>> /\ <<>> \in Seq(JobTypes)
  BY <1>1, JobsTyped, Front
<1>3. FlushQueue(j, <<>>, None, file[None].file_size)
  BY DEF FlushQueue
<1>4. Call(None, <<j>> \o <<>>)
  BY <1>2 DEF FlushWholeCache
<1> HIDE DEF j
<1> QED BY <1>1, <1>2, <1>3, <1>4, FlushCall

\* yaffs_update_oh() keeps the invariant.
LEMMA UpdateHeaderKeeps ==
  ASSUME CacheInv, NEW f \in Files, UpdateHeader(f)
  PROVE  CacheInv' /\ Still
<1> DEFINE jobs == <<HdrJob>>
<1>1. jobs \in Seq(JobTypes) /\ Head(jobs) = HdrJob /\ Tail(jobs) = <<>>
  BY JobsTyped, Singleton
<1>2. Call(f, jobs)
  BY DEF UpdateHeader
<1> HIDE DEF jobs
<1>3. Still /\ CacheType' /\ DataInv' /\ op'.file = f /\ op'.jobs = jobs
  BY <1>1, <1>2, Called DEF CacheInv
<1>4. Plain(Head(op'.jobs)) /\ Queue(Head(op'.jobs), Tail(op'.jobs), op'.file, SizeNow')
  BY <1>1, <1>3, JobsTyped DEF Plain, Queue, Finals
<1> QED BY <1>3, <1>4, PlainNext DEF CacheInv

\* yaffs_file_rd() keeps the invariant, and loads a buffer at most.
LEMMA ReadFileKeeps ==
  ASSUME CacheInv, NEW f \in Files, NEW i \in Ids, ReadFile(f, i)
  PROVE  /\ CacheInv'
         /\ \E c \in Slots, ok \in BOOLEAN, nb \in Buffers : Moved(c, ok, nb)
<1>1. /\ op = Idle /\ SlotsOf(f, i) = {} /\ LoadChunk(f, i)
      /\ others' = others /\ op' = op /\ cut_in' = cut_in
  BY DEF ReadFile
<1>2. PICK c \in Slots, ok \in BOOLEAN, nb \in Buffers : Moved(c, ok, nb)
  BY <1>1, LoadMoves DEF CacheInv
<1>3. CacheType' /\ DataInv'
  BY <1>1, <1>2, MovedType, MovedData, Types DEF CacheInv
<1>4. op'.jobs = <<>>
  BY <1>1 DEF Idle
<1> QED BY <1>2, <1>3, <1>4, PlainNext DEF CacheInv

\* Other files take a chunk only while there is room, which keeps the invariant.
LEMMA OthersKeep ==
  ASSUME CacheInv, Others
  PROVE  /\ CacheInv'
         /\ UNCHANGED <<cache, flash, file, doubt, cut_in, faults, op>>
<1>1. /\ op = Idle /\ UNCHANGED <<cache, flash, file, doubt, cut_in, faults, op>>
      /\ \/ check_alloc_available(1) /\ others' = others + 1
         \/ others > 0 /\ others' = others - 1
  BY DEF Others, OthersWrite, OthersDelete
<1>2. others \in Nat /\ others' \in Nat
  BY <1>1, Types DEF CacheInv
<1>3. Still
  BY <1>1, Types DEF Still, CacheInv
<1>4. CacheType'
  BY <1>1, <1>2, <1>3, StillType, Types DEF CacheInv
<1>5. CallInv'
  <2>1. op'.jobs = <<>>
    BY <1>1 DEF Idle
  <2> QED BY <2>1, PlainNext
<1>6. OneBuffer' /\ CleanInv' /\ Beyond' /\ PastEnd' /\ CutInv'
  BY <1>1 DEF CacheInv, DataInv, OneBuffer, CleanInv, Beyond, PastEnd, Blank, SlotsOf,
              CutInv, OnFlash
<1>7. Overdraft'
  <2>1. CASE others' <= others
    BY <1>1, <1>2, <2>1, FewerClaimed DEF CacheInv, DataInv, Claimed, OnFlash
  <2>2. CASE check_alloc_available(1) /\ others' = others + 1
    <3>1. Room - Cardinality(OnFlash) - others' >= 1
      BY <2>2, <1>2, OnFlashTyped, Constants DEF check_alloc_available, n_free
    <3>2. Cardinality((OnFlash \cup DirtyIn(cache)) \ cut_in) + others' <= Room + NCaches - 1
      BY <1>2, <3>1, OnFlashTyped, RoomLeft
    <3>3. Claimed' = (OnFlash \cup DirtyIn(cache)) \ cut_in
      BY <1>1 DEF Claimed, OnFlash
    <3> QED BY <3>2, <3>3 DEF Overdraft
  <2> QED BY <1>1, <1>2, <2>1, <2>2
<1> QED BY <1>1, <1>4, <1>5, <1>6, <1>7 DEF CacheInv, DataInv

-----------------------------------------------------------------------------
(* Jobs that leave buffers and flash alone.                                *)

\* A step that only goes on to the next jobs.
LEMMA StillCalls ==
  ASSUME CacheInv, Still, others' = others, NEW jobs \in Seq(JobTypes), Continue(jobs)
  PROVE  /\ CacheType' /\ DataInv'
         /\ op'.jobs = jobs
         /\ jobs # <<>> => /\ op'.file = op.file
                           /\ op.file \in Files => SizeNow' = SizeNow
<1>1. op' \in [file : Files \cup {None}, jobs : Seq(JobTypes)] /\ op'.jobs = jobs
      /\ (jobs # <<>> => op'.file = op.file)
  BY Continued DEF CacheInv
<1>2. CacheType' /\ DataInv'
  BY <1>1, StillType, StillData, Types DEF CacheInv
<1> QED BY <1>1, <1>2 DEF SizeNow, Still

\* Such a step keeps what is known while a hole is filled.
LEMMA StillHole ==
  ASSUME Still, NEW f, NEW b, NEW z, HoleInv(f, b, z)
  PROVE  HoleInv(f, b, z)'
<1>1. \A i, k : Blank(f, i, k)' = Blank(f, i, k)
  BY DEF Blank, SlotsOf, Still
<1> QED BY <1>1 DEF HoleInv, SlotsOf, Still

\* A hole begins where the file ends: there is nothing beyond.
LEMMA HoleBegins ==
  ASSUME CacheInv, NEW f \in Files
  PROVE  LET b == file[f].file_size IN HoleInv(f, b, b)
<1> DEFINE b == file[f].file_size
<1>1. b \in Sizes
  BY Types DEF CacheInv, FileVars
<1>2. b <= b /\ ~(b < b)
  BY <1>1 DEF Sizes
<1>3. ASSUME NEW i \in Ids, Start(i) >= b
      PROVE  <<f, i>> \notin cut_in /\ \A k \in Cells : Blank(f, i, k)
  <2>1. ~(Start(i) < b)
    BY <1>1, <1>3, StartOrder DEF Sizes
  <2>2. <<f, i>> \in cut_in => Start(i) < b
    BY DEF CacheInv, DataInv, CutInv
  <2>3. \A k \in Cells : Blank(f, i, k)
    BY <1>3 DEF CacheInv, DataInv, Beyond
  <2> QED BY <2>1, <2>2, <2>3
<1> HIDE DEF b
<1>4. HoleInv(f, b, b)
  BY <1>2, <1>3 DEF HoleInv
<1> QED BY <1>4 DEF b

\* Such a step neither takes nor gives room.
LEMMA RoomStill ==
  ASSUME Still, others' = others
  PROVE  n_free' = n_free /\ \A n : check_alloc_available(n)' = check_alloc_available(n)
BY DEF Still, n_free, check_alloc_available, OnFlash

\* yaffs2_handle_hole() keeps the invariant: the hole to be filled is blank, and
\* there is room to begin with.
LEMMA HandleHoleKeeps ==
  ASSUME CacheInv, HandleHole
  PROVE  CacheInv' /\ Still
<1>0. PICK f, old, new, t :
        f = op.file /\ old = SizeNow /\ new = Job.size /\ t = Tail(op.jobs)
  OBVIOUS
<1>1. /\ f \in Files /\ Job \in HoleJobs /\ new \in Sizes /\ old \in Sizes
      /\ Final(t, new, old) /\ t \in Seq(JobTypes) /\ t # <<>>
  <2>1. f \in Files /\ Job \in HoleJobs /\ Final(t, new, old)
    BY <1>0, JobAt DEF CacheInv, CallInv, HandleHole
  <2> QED BY <1>0, <2>1, JobKinds, Types, FinalTyped DEF CacheInv, FileVars, SizeNow
<1>2. Still /\ others' = others
  BY Types DEF HandleHole, Still, CacheInv
<1>3. Continue((IF new <= old THEN <<>>
                ELSE IF FillsHole(old, new) THEN <<FillJob(new, old)>>
                ELSE <<HdrJob>>) \o t)
  BY <1>0 DEF HandleHole, SizeNow
<1>4. CASE new <= old
  <2>1. Continue(t)
    BY <1>1, <1>3, <1>4, JobsTyped, Front
  <2>2. CacheType' /\ DataInv' /\ op'.jobs = t /\ op'.file = f /\ SizeNow' = old
    BY <1>0, <1>1, <1>2, <2>1, StillCalls
  <2> QED BY <1>1, <1>2, <2>2, FinalNext DEF CacheInv
<1>5. CASE ~(new <= old) /\ ~FillsHole(old, new)
  <2>1. Continue(<<HdrJob>> \o t)
    BY <1>3, <1>5
  <2>2. <<HdrJob>> \o t \in Seq(JobTypes) /\ <<HdrJob>> \o t # <<>>
    BY <1>1, JobsTyped, Front
  <2>3. CacheType' /\ DataInv' /\ op'.jobs = <<HdrJob>> \o t /\ op'.file = f /\ SizeNow' = old
    BY <1>1, <1>2, <2>1, <2>2, StillCalls, <1>0
  <2>4. Finals(t, SizeNow')
    BY <1>1, <2>3 DEF Finals
  <2> QED BY <1>1, <1>2, <2>3, <2>4, HdrNext DEF CacheInv
<1>6. CASE ~(new <= old) /\ FillsHole(old, new)
  <2> DEFINE j == FillJob(new, old)
             jobs == <<j>> \o t
  <2>1. j \in FillJobs /\ j.size = new /\ j.base = old /\ j.do = "fill" /\ j \in JobTypes
    BY <1>1, JobsTyped, JobKinds
  <2>2. Continue(jobs)
    BY <1>3, <1>6
  <2> HIDE DEF j
  <2>3. jobs \in Seq(JobTypes) /\ jobs # <<>> /\ Head(jobs) = j /\ Tail(jobs) = t
    BY <1>1, <2>1, Front
  <2> HIDE DEF jobs
  <2>4. CacheType' /\ DataInv' /\ op'.jobs = jobs /\ op'.file = f /\ SizeNow' = old
    BY <1>1, <1>2, <2>2, <2>3, StillCalls, <1>0
  <2>5. Job' = j /\ Tail(op.jobs)' = t
    BY <2>3, <2>4 DEF Job
  <2>6. QueueInv'
    BY <1>1, <2>1, <2>4, <2>5 DEF QueueInv, Queue
  <2>7. HoleInv(f, old, old)'
    <3>1. HoleInv(f, old, old)
      BY <1>0, <1>1, HoleBegins DEF SizeNow
    <3> QED BY <3>1, <1>2, StillHole
  <2>8. check_alloc_available(1)'
    <3>1. check_alloc_available(SmallHole + 1)
      BY <1>6 DEF FillsHole
    <3>2. check_alloc_available(1)
      BY <3>1, Constants, OnFlashTyped, Types DEF check_alloc_available, n_free, CacheInv
    <3> QED BY <3>2, <1>2, RoomStill
  <2>9. Past(old, old)
    BY <1>1 DEF Past, Sizes
  <2>10. HoleInv(op.file, Job.base, SizeNow)'
    BY <2>1, <2>4, <2>5, <2>7
  <2>11. FillInv'
    BY <2>1, <2>4, <2>5, <2>8, <2>9, <2>10 DEF FillInv
  <2>12. FillWriteInv' /\ LoadedInv' /\ DownInv'
    BY <2>1, <2>5 DEF FillWriteInv, LoadedInv, DownInv, At
  <2> QED BY <1>2, <2>4, <2>6, <2>11, <2>12 DEF CacheInv, CallInv
<1> QED BY <1>4, <1>5, <1>6

\* Whole division: the remainder is less than the divisor.
LEMMA Division ==
  ASSUME NEW c \in Nat, NEW k \in Nat \ {0}
  PROVE  /\ c \div k \in Nat
         /\ (c \div k) * k <= c
         /\ c < (c \div k) * k + k
BY SMT

\* The chunk a byte lies in.
LEMMA ChunkFound ==
  ASSUME NEW p \in Nat, p < MaxSize
  PROVE  LET i == p \div ChunkSize + 1
         IN  /\ i \in Ids
             /\ Start(i) = (p \div ChunkSize) * ChunkSize
             /\ Start(i) <= p /\ p < Start(i) + ChunkSize
<1> DEFINE d == p \div ChunkSize
<1>1. d \in Nat /\ d * ChunkSize <= p /\ p < d * ChunkSize + ChunkSize
  BY Division, Constants
<1> HIDE DEF d
<1>2. d < MaxId
  <2>1. ASSUME MaxId <= d PROVE FALSE
    <3>1. PICK z \in Nat : d = MaxId + z
      <4>1. d - MaxId \in Nat /\ d = MaxId + (d - MaxId)
        BY <1>1, <2>1, Constants
      <4> QED BY <4>1
    <3>2. d * ChunkSize = MaxId * ChunkSize + z * ChunkSize
      BY <3>1, Constants
    <3>3. z * ChunkSize \in Nat /\ MaxId * ChunkSize \in Nat
      BY <3>1, Constants
    <3> QED BY <1>1, <3>2, <3>3 DEF MaxSize
  <2> QED BY <1>1, <2>1, Constants
<1>3. d + 1 \in Ids /\ Start(d + 1) = d * ChunkSize
  BY <1>1, <1>2, Constants DEF Ids, Start
<1> QED BY <1>1, <1>3 DEF d

\* The turns of the loop that fills a hole keep the invariant: each writes up to
\* where a chunk ends, and the first one dirties the chunk in which the hole
\* begins.
LEMMA FillHoleKeeps ==
  ASSUME CacheInv, FillHole
  PROVE  CacheInv' /\ Still
<1>0. PICK f, p, n, b, t :
        /\ f = op.file /\ p = SizeNow /\ n = Job.size /\ b = Job.base
        /\ t = Tail(op.jobs)
  OBVIOUS
<1> DEFINE e == EdgeAfter(p, 0)
           e2 == EdgeAfter(p, b)
           q == Smaller(n, Smaller(e, e2))
           start == (p \div ChunkSize) * ChunkSize
           i == p \div ChunkSize + 1
           j == WriteJob(i, p - start, q - start, Zero, b)
<1>1. /\ At("fill") /\ f \in Files /\ Job \in FillJobs /\ n \in Sizes /\ p \in Sizes /\ b \in Sizes
      /\ Final(t, n, p) /\ t \in Seq(JobTypes) /\ t # <<>>
      /\ op.jobs \in Seq(JobTypes) /\ op.jobs # <<>>
  <2>1. f \in Files /\ Job \in FillJobs /\ Final(t, n, p)
    BY <1>0, JobAt DEF CacheInv, CallInv, FillHole
  <2>2. p \in Sizes
    BY <1>0, <2>1, Types DEF CacheInv, FileVars, SizeNow
  <2> QED BY <1>0, <2>1, <2>2, JobKinds, Types, FinalTyped DEF CacheInv, FillHole, At
<1>2. Still /\ others' = others
  BY Types DEF FillHole, Still, CacheInv
<1>3. Continue(IF p >= n THEN t ELSE <<j>> \o op.jobs)
  BY <1>0 DEF FillHole, SizeNow
<1>4. CASE p >= n
  <2>1. Continue(t)
    BY <1>3, <1>4
  <2>2. CacheType' /\ DataInv' /\ op'.jobs = t /\ op'.file = f /\ SizeNow' = p
    BY <1>0, <1>1, <1>2, <2>1, StillCalls
  <2> QED BY <1>1, <1>2, <2>2, FinalNext DEF CacheInv
<1>5. CASE ~(p >= n)
  <2>0. p \in Nat /\ n \in Nat /\ b \in Nat /\ p < n /\ n <= MaxSize
    BY <1>1, <1>5 DEF Sizes
  <2>1. /\ i \in Ids /\ Start(i) = start /\ Start(i) <= p /\ p < Start(i) + ChunkSize
    BY <2>0, ChunkFound, Constants
  <2>2. HoleInv(f, b, p) /\ (p = b => check_alloc_available(1)) /\ Past(b, p)
    <3>1. HoleInv(f, b, p) /\ (p = b => check_alloc_available(1)) /\ (Past(b, p) \/ n <= p)
      BY <1>0, <1>1 DEF CacheInv, CallInv, FillInv
    <3> QED BY <3>1, <2>0
  <2>3. b <= p
    BY <2>2 DEF HoleInv
  <2>4. e = Start(i) + ChunkSize
    <3>1. e = (p \div ChunkSize + 1) * ChunkSize
      <4>1. p - 0 = p
        BY <2>0
      <4>2. (p \div ChunkSize + 1) * ChunkSize \in Int
        BY <2>0, Division, Constants
      <4> QED BY <4>1, <4>2 DEF EdgeAfter
    <3>2. (p \div ChunkSize + 1) * ChunkSize = (p \div ChunkSize) * ChunkSize + ChunkSize
      BY <2>0, Division, Constants
    <3> QED BY <3>1, <3>2, <2>1
  <2>5. e2 \in Int /\ p < e2 /\ b + ChunkSize <= e2
    <3> DEFINE d == (p - b) \div ChunkSize
    <3>1. p - b \in Nat
      BY <2>0, <2>3
    <3>2. d \in Nat /\ p - b < d * ChunkSize + ChunkSize /\ d * ChunkSize \in Nat
      BY <3>1, Division, Constants
    <3>3. e2 = b + (d + 1) * ChunkSize
      BY DEF EdgeAfter
    <3> HIDE DEF d, e2
    <3>4. (d + 1) * ChunkSize = d * ChunkSize + ChunkSize
      BY <3>2, Constants
    <3> QED BY <2>0, <3>2, <3>3, <3>4, Constants
  <2> HIDE DEF e, e2
  <2>6. /\ q \in Int /\ p < q /\ q <= n /\ q <= Start(i) + ChunkSize
        /\ p = b => q = n \/ q = Start(i) + ChunkSize
    <3>1. Start(i) \in Nat
      BY <2>1, StartOrder
    <3> HIDE DEF i, start
    <3> QED BY <2>0, <2>1, <2>4, <2>5, <3>1, Constants DEF Smaller
  <2> HIDE DEF q
  <2>7. /\ p - start \in Cells /\ q - start \in 1 .. ChunkSize /\ p - start < q - start
        /\ start + (p - start) = p /\ start + (q - start) = q
        /\ (p - start = 0 => p = start)
    <3>1. start \in Nat
      BY <2>1, StartOrder
    <3> HIDE DEF i, start
    <3> QED BY <2>0, <2>1, <2>6, <3>1, Constants DEF Cells
  <2> HIDE DEF i, start
  <2>8. /\ j \in WriteJobs /\ j.do = "write" /\ j.base = b /\ j.base # -1 /\ ~j.loaded
        /\ j.val = Zero /\ j.id = i /\ j.lo = p - start /\ j.hi = q - start
    BY <1>1, <2>0, <2>1, <2>7, Constants DEF WriteJobs, WriteJob
  <2> HIDE DEF j
  <2> DEFINE jobs == <<j>> \o op.jobs
  <2>9. jobs \in Seq(JobTypes) /\ jobs # <<>> /\ Head(jobs) = j /\ Tail(jobs) = op.jobs
    <3>1. j \in JobTypes
      BY <2>8, JobsTyped
    <3> QED BY <1>1, <3>1, Front
  <2>10. Continue(jobs)
    BY <1>3, <1>5
  <2> HIDE DEF jobs
  <2>11. CacheType' /\ DataInv' /\ op'.jobs = jobs /\ op'.file = f /\ SizeNow' = p
    BY <1>0, <1>1, <1>2, <2>9, <2>10, StillCalls
  <2>12. Job' = j /\ Tail(op.jobs)' = op.jobs
    BY <2>9, <2>11 DEF Job
  <2>13. WriteQueue(j, op.jobs, p)
    <3>1. Head(op.jobs) = Job
      BY DEF Job
    <3>2. j.lo < j.hi /\ Start(j.id) + j.lo = p /\ Start(j.id) + j.hi = q
      BY <2>1, <2>7, <2>8
    <3> QED BY <1>0, <1>1, <2>6, <2>8, <3>1, <3>2 DEF WriteQueue
  <2>14. QueueInv'
    BY <1>1, <2>8, <2>11, <2>12, <2>13 DEF QueueInv, Queue
  <2>15. FillWriteInv'
    <3>1. HoleInv(op.file, Job.base, SizeNow)'
      <4>1. HoleInv(f, b, p)'
        BY <1>2, <2>2, StillHole
      <4> QED BY <4>1, <2>8, <2>11, <2>12
    <3>2. Past(Job.base, SizeNow)'
      BY <2>2, <2>8, <2>11, <2>12
    <3>3. (SizeNow = Job.base => check_alloc_available(1))'
      BY <1>2, <2>2, <2>8, <2>11, <2>12, RoomStill
    <3>4. p # b \/ j.hi = ChunkSize \/ Start(j.id) + j.hi = n
      <4>1. q - start = ChunkSize \/ q # Start(i) + ChunkSize
        <5>1. start \in Nat
          BY <2>1, StartOrder
        <5> QED BY <2>1, <5>1, <2>6, Constants
      <4> QED BY <2>1, <2>6, <2>7, <2>8, <4>1
    <3>5. Head(Tail(op.jobs)').size = n
      BY <1>0, <2>12 DEF Job
    <3>6. (\/ SizeNow # Job.base \/ Job.lo = 0 \/ Job.hi = ChunkSize
           \/ Start(Job.id) + Job.hi = Head(Tail(op.jobs)).size)'
      BY <2>8, <2>11, <2>12, <3>4, <3>5
    <3> QED BY <3>1, <3>2, <3>3, <3>6 DEF FillWriteInv
  <2>16. FillInv' /\ LoadedInv' /\ DownInv'
    BY <2>8, <2>12 DEF FillInv, LoadedInv, DownInv, At
  <2> QED BY <1>2, <2>11, <2>14, <2>15, <2>16 DEF CacheInv, CallInv
<1> QED BY <1>4, <1>5

\* When everything is flushed, and given up before a truncation, the call goes on.
LEMMA FlushEndKeeps ==
  ASSUME CacheInv, FlushEnd
  PROVE  CacheInv' /\ Still
<1>0. PICK f, z, t : f = op.file /\ z = SizeNow /\ t = Tail(op.jobs)
  OBVIOUS
<1>1. Job \in FlushJobs /\ FlushQueue(Job, t, f, z) /\ t \in Seq(JobTypes) /\ op.jobs # <<>>
  <2>1. At("flush")
    BY DEF FlushEnd
  <2>2. op.jobs # <<>>
    BY <2>1 DEF At
  <2> QED BY <1>0, <2>1, <2>2, JobAt DEF CacheInv, CallInv
<1>2. Still /\ others' = others
  BY Types DEF FlushEnd, Still, CacheInv
<1>3. Continue(t) /\ Flushable = {}
  BY <1>0 DEF FlushEnd, NextJob
<1>4. /\ CacheType' /\ DataInv' /\ op'.jobs = t
      /\ t # <<>> => op'.file = f /\ (f \in Files => SizeNow' = z)
  BY <1>0, <1>1, <1>2, <1>3, StillCalls
<1>5. CASE t = <<>>
  BY <1>2, <1>4, <1>5, PlainNext DEF CacheInv
<1>6. CASE f \in Files /\ t = <<HdrJob>>
  <2>1. t = <<HdrJob>> \o <<>> /\ <<>> \in Seq(JobTypes) /\ t # <<>>
    BY <1>6, JobsTyped, Front
  <2>2. Finals(<<>>, z)
    BY DEF Finals
  <2> QED BY <1>2, <1>4, <1>6, <2>1, <2>2, HdrNext DEF CacheInv
<1>7. ASSUME NEW n \in Sizes, f \in Files, z <= n, t = <<HoleJob(n), GrowJob(n), HdrJob>>
      PROVE  CallInv'
  <2>1. /\ t # <<>> /\ Head(t) = HoleJob(n) /\ Tail(t) = <<GrowJob(n), HdrJob>>
    <3>1. HoleJob(n) \in JobTypes /\ GrowJob(n) \in JobTypes /\ HdrJob \in JobTypes
      BY JobsTyped
    <3> HIDE DEF JobTypes
    <3> QED BY <1>7, <3>1, Triple
  <2>2. Final(Tail(t), n, z)
    BY <1>7, <2>1 DEF Final
  <2>3. Plain(HoleJob(n)) /\ Queue(HoleJob(n), Tail(t), f, z)
    BY <1>7, <2>2, JobsTyped DEF Plain, Queue
  <2> QED BY <1>4, <1>7, <2>1, <2>3, PlainNext
<1>8. ASSUME NEW n \in Sizes, f \in Files, Job.discard, Job.files = {f}, n < z,
             t = <<DownJob(n), HdrJob>>
      PROVE  CallInv'
  <2>1. /\ t # <<>> /\ Head(t) = DownJob(n) /\ Tail(t) = <<HdrJob>>
        /\ Tail(t) # <<>> /\ Head(Tail(t)) = HdrJob /\ Tail(Tail(t)) = <<>>
    <3>1. DownJob(n) \in JobTypes /\ HdrJob \in JobTypes
      BY JobsTyped
    <3> HIDE DEF JobTypes
    <3> QED BY <1>8, <3>1, Pair, Singleton
  <2>2. Job' = DownJob(n) /\ Tail(op.jobs)' = Tail(t) /\ op'.jobs # <<>> /\ op'.file = f
        /\ SizeNow' = z
    BY <1>4, <1>8, <2>1 DEF Job
  <2>3. DownJob(n) \in DownJobs /\ DownJob(n).size = n /\ DownJob(n).do = "down"
    BY JobsTyped, JobKinds
  <2>4. QueueInv'
    BY <1>8, <2>1, <2>2, <2>3 DEF QueueInv, Queue, Finals
  <2>5. \A c \in Slots : cache[c].object # f
    BY <1>3, <1>8 DEF Flushable
  <2>6. CutBuffers(f, n)'
    <3>1. \A c \in Slots : cache'[c].object # f
      BY <1>2, <2>5 DEF Still
    <3> QED BY <3>1 DEF CutBuffers, SlotsOf
  <2>7. DownInv'
    <3>1. n <= z
      BY <1>0, <1>1, <1>8, Types DEF CacheInv, FileVars, SizeNow, Sizes
    <3>2. CutBuffers(op.file, Job.size)'
      BY <2>2, <2>3, <2>6
    <3>3. Shorter(n, z)
      BY <1>8 DEF Shorter
    <3> QED BY <2>2, <2>3, <3>1, <3>2, <3>3 DEF DownInv
  <2>8. FillInv' /\ FillWriteInv' /\ LoadedInv'
    BY <2>2, <2>3 DEF FillInv, FillWriteInv, LoadedInv, At
  <2> QED BY <2>4, <2>7, <2>8 DEF CallInv
<1> QED BY <1>1, <1>2, <1>4, <1>5, <1>6, <1>7, <1>8 DEF FlushQueue, CacheInv

\* yaffs_update_oh() keeps the invariant, written or refused.
LEMMA WriteHdrKeeps ==
  ASSUME CacheInv, WriteHdr
  PROVE  CacheInv' /\ Still
<1>0. PICK f, z, t : f = op.file /\ z = SizeNow /\ t = Tail(op.jobs)
  OBVIOUS
<1>1. f \in Files /\ Finals(t, z) /\ t \in Seq(JobTypes)
  <2>1. At("hdr")
    BY DEF WriteHdr
  <2>2. op.jobs # <<>>
    BY <2>1 DEF At
  <2> QED BY <1>0, <2>1, <2>2, JobAt DEF CacheInv, CallInv
<1>2. PICK ok \in BOOLEAN :
        /\ Fault(ok)
        /\ file' = IF ok THEN [file EXCEPT ![f].dirty = DirtyAfterHdr] ELSE file
  BY <1>0 DEF WriteHdr
<1>3. Still /\ others' = others
  <2>1. file \in [Files -> FileVars]
    BY Types DEF CacheInv
  <2>2. DirtyAfterHdr \in BOOLEAN
    BY DEF DirtyAfterHdr
  <2>3. /\ file' \in [Files -> FileVars]
        /\ \A g \in Files : file'[g].file_size = file[g].file_size
    <3>1. CASE ok
      <4> DEFINE d == DirtyAfterHdr
      <4>1. file' = [file EXCEPT ![f].dirty = d]
        BY <1>2, <3>1
      <4> HIDE DEF d
      <4> QED BY <1>1, <2>1, <2>2, <4>1 DEF FileVars, d
    <3>2. CASE ~ok
      BY <1>2, <2>1, <3>2
    <3> QED BY <3>1, <3>2
  <2>4. faults' \in {faults, faults + 1}
    BY <1>2 DEF Fault
  <2> QED BY <2>3, <2>4 DEF WriteHdr, Still
<1>4. Continue(t)
  BY <1>0 DEF WriteHdr, NextJob
<1>5. /\ CacheType' /\ DataInv' /\ op'.jobs = t
      /\ t # <<>> => op'.file = f /\ SizeNow' = z
  BY <1>0, <1>1, <1>3, <1>4, StillCalls
<1>6. Finals(op'.jobs, SizeNow')
  BY <1>1, <1>5 DEF Finals
<1> QED BY <1>1, <1>3, <1>5, <1>6, FinalsNext DEF CacheInv

-----------------------------------------------------------------------------
(* Writes that fail, and those that have to load first.                    *)

\* A hole that is being filled may be cut off again.
LEMMA HoleCut ==
  ASSUME CacheType, NEW f \in Files, NEW b \in Nat, NEW z \in Nat,
         HoleInv(f, b, z), Past(b, z), b < z \/ \A i \in Ids : ~Within(i, b)
  PROVE  CutBuffers(f, b)
<1>1. ASSUME NEW i \in Ids, NEW c \in Slots, b <= Start(i), c \in SlotsOf(f, i)
      PROVE  cache[c].data = Zeros /\ <<f, i>> \notin cut_in
  <2>1. Start(i) \in Nat
    BY StartOrder
  <2>2. <<f, i>> \notin cut_in /\ \A k \in Cells : Blank(f, i, k)
    BY <1>1, <2>1 DEF HoleInv
  <2>3. \A k \in Cells : cache[c].data[k] = Zero
    BY <1>1, <2>2 DEF Blank
  <2>4. cache[c].data \in Data
    BY Types DEF Buffers
  <2> QED BY <2>2, <2>3, <2>4 DEF Data, Zeros, Cells
<1>2. ASSUME NEW i \in Ids, NEW c \in Slots, Within(i, b), c \in SlotsOf(f, i)
      PROVE  /\ cache[c].dirty
             /\ \A k \in Cells : b <= Start(i) + k => cache[c].data[k] = Zero
  <2>1. b < z
    BY <1>2
  <2>2. Start(i) + ChunkSize <= z /\ Start(i) \in Nat
    BY <1>2, <2>1, StartOrder DEF Past
  <2>3. \A k \in Cells : Start(i) + k < z
    BY <2>2, Constants DEF Cells
  <2> QED BY <1>2, <2>1, <2>3 DEF HoleInv
<1> QED BY <1>1, <1>2 DEF CutBuffers

\* A write that fails ends the call, or has the hole cut off that it should have
\* filled, which the buffers allow.
LEMMA FailedNext ==
  ASSUME CacheInv, At("write"), NEW fl \in [Files -> FileVars],
         \A g \in Files : fl[g].file_size = file[g].file_size,
         Failed(fl),
         \A f, b : f = op.file /\ b = Job.base /\ b # -1 =>
            CutBuffers(f, b)' /\ Shorter(b, SizeNow)
  PROVE  /\ op' \in [file : Files \cup {None}, jobs : Seq(JobTypes)]
         /\ file' \in [Files -> FileVars]
         /\ \A g \in Files : file'[g].file_size = file[g].file_size
         /\ CallInv'
<1>0. PICK f, z, t, b : f = op.file /\ z = SizeNow /\ t = Tail(op.jobs) /\ b = Job.base
  OBVIOUS
<1>1. f \in Files /\ Job \in WriteJobs /\ WriteQueue(Job, t, z) /\ t \in Seq(JobTypes)
  <2>1. op.jobs # <<>>
    BY DEF At
  <2> QED BY <1>0, <2>1, JobAt DEF CacheInv, CallInv
<1>2. file' = [fl EXCEPT ![f].dirty = TRUE]
  BY <1>0 DEF Failed
<1>3. /\ file' \in [Files -> FileVars]
      /\ \A g \in Files : file'[g].file_size = file[g].file_size
  BY <1>1, <1>2 DEF FileVars
<1>4. z \in Sizes /\ file[f].file_size = z
  BY <1>0, <1>1, Types DEF CacheInv, FileVars, SizeNow
<1>5. CASE b = -1
  <2>1. t = <<>>
    BY <1>0, <1>1, <1>5 DEF WriteQueue
  <2>2. Continue(t)
    BY <1>0, <1>5 DEF Failed, NextJob
  <2>3. op' \in [file : Files \cup {None}, jobs : Seq(JobTypes)] /\ op'.jobs = <<>>
    BY <1>1, <2>1, <2>2, Continued DEF CacheInv
  <2> QED BY <1>3, <2>3, PlainNext
<1>6. CASE b # -1
  <2>0. PICK n : n = Head(t).size
    OBVIOUS
  <2>1. /\ t # <<>> /\ Head(t) \in FillJobs /\ Head(t).base = b /\ Final(Tail(t), n, z)
    BY <1>0, <1>1, <1>6, <2>0 DEF WriteQueue
  <2>2. n \in Sizes /\ b \in Sizes
    BY <2>0, <2>1, JobKinds
  <2>3. b <= z
    BY <1>0, <1>6 DEF CacheInv, CallInv, FillWriteInv, HoleInv
  <2> DEFINE r == Tail(t)
             jobs == <<DownJob(b), HdrJob>> \o r
  <2>4. r \in Seq(JobTypes) /\ r # <<>>
    BY <2>1, <2>2, FinalTyped
  <2>5. Final(r, n, b)
    BY <2>1, <2>2, <2>3, <1>4 DEF Final, Sizes
  <2>6. Continue(jobs)
    BY <1>0, <1>6 DEF Failed
  <2> HIDE DEF r
  <2>7. DownJob(b) \in JobTypes /\ HdrJob \in JobTypes
    BY <2>2, JobsTyped
  <2>8. jobs = <<DownJob(b)>> \o (<<HdrJob>> \o r)
    BY <2>4, <2>7, FrontTwo
  <2>9. /\ <<HdrJob>> \o r \in Seq(JobTypes) /\ <<HdrJob>> \o r # <<>>
        /\ Head(<<HdrJob>> \o r) = HdrJob /\ Tail(<<HdrJob>> \o r) = r
    BY <2>4, <2>7, Front
  <2> HIDE DEF jobs
  <2>10. jobs \in Seq(JobTypes) /\ jobs # <<>> /\ Head(jobs) = DownJob(b)
         /\ Tail(jobs) = <<HdrJob>> \o r
    BY <2>7, <2>8, <2>9, Front
  <2>11. op' \in [file : Files \cup {None}, jobs : Seq(JobTypes)] /\ op'.jobs = jobs
         /\ op'.file = f
    BY <1>0, <2>6, <2>10, Continued DEF CacheInv
  <2>12. Job' = DownJob(b) /\ Tail(op.jobs)' = <<HdrJob>> \o r
    BY <2>10, <2>11 DEF Job
  <2>13. DownJob(b) \in DownJobs /\ DownJob(b).size = b /\ DownJob(b).do = "down"
    BY <2>2, JobsTyped, JobKinds
  <2>14. SizeNow' = z
    BY <1>1, <1>3, <1>4, <2>11 DEF SizeNow
  <2>15. QueueInv'
    <3>1. Finals(r, b)
      BY <2>2, <2>5 DEF Finals
    <3> QED BY <1>1, <2>9, <2>11, <2>12, <2>13, <3>1 DEF QueueInv, Queue
  <2>16. DownInv'
    <3>1. CutBuffers(f, b)' /\ Shorter(b, z)
      BY <1>0, <1>6
    <3>2. CutBuffers(op.file, Job.size)'
      BY <2>11, <2>12, <2>13, <3>1
    <3> QED BY <2>3, <2>12, <2>13, <2>14, <3>1, <3>2 DEF DownInv
  <2>17. FillInv' /\ FillWriteInv' /\ LoadedInv'
    BY <2>12, <2>13 DEF FillInv, FillWriteInv, LoadedInv, At
  <2> QED BY <1>3, <2>11, <2>15, <2>16, <2>17 DEF CallInv
<1> QED BY <1>5, <1>6

\* A write that helps to fill a hole is refused at the start of a chunk.
LEMMA RefusedWhere ==
  ASSUME CacheInv, At("write"), Job.base # -1, Refused
  PROVE  Job.base < SizeNow
<1>0. PICK f, z, b, i : f = op.file /\ z = SizeNow /\ b = Job.base /\ i = Job.id
  OBVIOUS
<1>1. Job \in WriteJobs /\ f \in Files /\ WriteQueue(Job, Tail(op.jobs), z)
  BY <1>0, JobAt DEF CacheInv, CallInv
<1>2. z \in Nat /\ b \in Nat /\ b <= z
  <2>1. b \in Sizes
    BY <1>0, <1>1 DEF WriteJobs
  <2>2. z \in Sizes
    BY <1>0, <1>1, Types DEF CacheInv, FileVars, SizeNow
  <2>3. b <= z
    BY <1>0 DEF CacheInv, CallInv, FillWriteInv, HoleInv
  <2> QED BY <2>1, <2>2, <2>3 DEF Sizes
<1>3. z # b
  <2> SUFFICES ASSUME z = b PROVE FALSE
    OBVIOUS
  <2>1. ~check_alloc_available(1) /\ \A c \in Cached : ~Job.loaded
    BY DEF Refused
  <2>2. Job.loaded
    BY <1>0, <2>1 DEF CacheInv, CallInv, FillWriteInv
  <2>3. Cached # {}
    BY <2>2 DEF CacheInv, CallInv, LoadedInv
  <2> QED BY <2>1, <2>2, <2>3
<1> QED BY <1>0, <1>2, <1>3

\* A write for which there is no room keeps the invariant.
LEMMA WriteRefusedKeeps ==
  ASSUME CacheInv, WriteRefused
  PROVE  CacheInv' /\ Still
<1>0. PICK f, z, b, fl : f = op.file /\ z = SizeNow /\ b = Job.base /\ fl = file
  OBVIOUS
<1>1. /\ At("write") /\ Refused /\ Failed(fl)
      /\ UNCHANGED <<cache, flash, others, doubt, cut_in, faults>>
  BY <1>0 DEF WriteRefused
<1>2. fl \in [Files -> FileVars] /\ \A g \in Files : fl[g].file_size = file[g].file_size
  BY <1>0, Types DEF CacheInv
<1>3. b # -1 => CutBuffers(f, b)' /\ Shorter(b, z)
  <2> SUFFICES ASSUME b # -1 PROVE CutBuffers(f, b)' /\ Shorter(b, z)
    OBVIOUS
  <2>1. b < z
    BY <1>0, <1>1, RefusedWhere
  <2>2. HoleInv(f, b, z) /\ Past(b, z)
    BY <1>0, <1>1 DEF CacheInv, CallInv, FillWriteInv
  <2>3. Job \in WriteJobs /\ f \in Files
    BY <1>0, <1>1, JobAt DEF CacheInv, CallInv
  <2>4. b \in Nat /\ z \in Nat
    <3>1. b \in Sizes
      BY <1>0, <2>3 DEF WriteJobs
    <3>2. z \in Sizes
      BY <1>0, <2>3, Types DEF CacheInv, FileVars, SizeNow
    <3> QED BY <3>1, <3>2 DEF Sizes
  <2>5. CutBuffers(f, b)
    BY <2>1, <2>2, <2>3, <2>4, HoleCut DEF CacheInv
  <2> QED BY <1>1, <2>1, <2>5 DEF CutBuffers, SlotsOf, Shorter
<1>4. /\ op' \in [file : Files \cup {None}, jobs : Seq(JobTypes)]
      /\ file' \in [Files -> FileVars]
      /\ \A g \in Files : file'[g].file_size = file[g].file_size
      /\ CallInv'
  BY <1>0, <1>1, <1>2, <1>3, FailedNext
<1>5. Still /\ others' = others
  BY <1>1, <1>4, Types DEF Still, CacheInv
<1> QED BY <1>4, <1>5, StillType, StillData, Types DEF CacheInv

\* A chunk is loaded where the file has reached.
LEMMA MovedHole ==
  ASSUME CacheType, NEW c \in Slots, NEW ok \in BOOLEAN, NEW nb, Moved(c, ok, nb),
         NEW f \in Files, NEW j \in Ids, nb.object = f, nb.chunk_id = j, SlotsOf(f, j) = {},
         NEW b \in Nat, NEW z \in Nat, HoleInv(f, b, z), Past(b, z),
         Start(j) <= z, z < Start(j) + ChunkSize
  PROVE  HoleInv(f, b, z)'
<1>1. cache'[c] = nb /\ \A d \in Slots \ {c} : cache'[d] = cache[d]
  BY BuffersMoved
<1>2. cut_in' = cut_in
  BY DEF Moved
<1>3. ASSUME NEW i \in Ids, Start(i) >= b
      PROVE  <<f, i>> \notin cut_in' /\ \A k \in Cells : Blank(f, i, k)'
  BY <1>2, <1>3, MovedBlank DEF HoleInv
<1>4. ASSUME b < z, NEW i \in Ids, NEW d \in Slots, Within(i, b), d \in SlotsOf(f, i)'
      PROVE  /\ cache'[d].dirty
             /\ \A k \in Cells : b <= Start(i) + k /\ Start(i) + k < z => cache'[d].data[k] = Zero
  <2>1. d # c
    <3> SUFFICES ASSUME d = c PROVE FALSE
      OBVIOUS
    <3>1. i = j
      BY <1>1, <1>4 DEF SlotsOf
    <3>2. Start(j) + ChunkSize <= z /\ Start(j) \in Nat
      BY <1>4, <3>1, StartOrder DEF Past
    <3> QED BY <3>2, Constants
  <2>2. d \in SlotsOf(f, i) /\ cache'[d] = cache[d]
    BY <1>1, <1>4, <2>1 DEF SlotsOf
  <2> QED BY <1>4, <2>2 DEF HoleInv
<1>5. ASSUME b < z, NEW i \in Ids, Within(i, z)
      PROVE  FALSE
  <2>1. i = j
    BY <1>5, StartOrder, Constants DEF Within
  <2>2. \E d \in SlotsOf(f, i) : cache[d].dirty
    BY <1>5 DEF HoleInv
  <2> QED BY <2>1, <2>2
<1>6. b <= z
  BY DEF HoleInv
<1> QED BY <1>3, <1>4, <1>5, <1>6 DEF HoleInv

\* A chunk more on flash.
LEMMA OneMore ==
  ASSUME CacheType, NEW x, OnFlash' \subseteq OnFlash \cup {x}, others' = others, n_free >= 2
  PROVE  n_free' >= 1
<1> DEFINE S == OnFlash
           T == OnFlash'
           U == S \cup {x}
<1>1. IsFiniteSet(S) /\ Cardinality(S) \in Nat
  BY OnFlashTyped, ChunksFinite
<1>2. T \in SUBSET U
  OBVIOUS
<1>3. n_free = Room - Cardinality(S) - others /\ n_free' = Room - Cardinality(T) - others
  BY DEF n_free
<1> HIDE DEF S, T
<1>4. IsFiniteSet(U) /\ Cardinality(U) = IF x \in S THEN Cardinality(S) ELSE Cardinality(S) + 1
  BY <1>1, FS_AddElement
<1> HIDE DEF U
<1>5. Cardinality(T) <= Cardinality(U) /\ Cardinality(T) \in Nat
  BY <1>2, <1>4, FS_Subset, FS_CardinalityType
<1> QED BY <1>1, <1>3, <1>4, <1>5, Types, Constants

\* Loading a chunk to write to it keeps the invariant: there is still room after
\* the flush it may take.
LEMMA WriteLoadKeeps ==
  ASSUME CacheInv, WriteLoad
  PROVE  /\ CacheInv'
         /\ \E c \in Slots, ok \in BOOLEAN, nb \in Buffers : Moved(c, ok, nb)
<1>0. PICK f, z, t, h, i :
        f = op.file /\ z = SizeNow /\ t = Tail(op.jobs) /\ h = Job /\ i = Job.id
  OBVIOUS
<1>1. /\ At("write") /\ SlotsOf(f, i) = {} /\ check_alloc_available(1) /\ LoadChunk(f, i)
      /\ op' = [op EXCEPT !.jobs = <<[h EXCEPT !.loaded = TRUE]>> \o t]
      /\ others' = others /\ cut_in' = cut_in
  BY <1>0 DEF WriteLoad, Cached
<1>2. f \in Files /\ h \in WriteJobs /\ WriteQueue(h, t, z) /\ t \in Seq(JobTypes) /\ i \in Ids
  <2>1. op.jobs # <<>>
    BY <1>1 DEF At
  <2>2. f \in Files /\ h \in WriteJobs /\ WriteQueue(h, t, z) /\ t \in Seq(JobTypes)
    BY <1>0, <1>1, <2>1, JobAt DEF CacheInv, CallInv
  <2> QED BY <1>0, <2>2 DEF WriteJobs
<1>3. PICK c \in Slots, ok \in BOOLEAN, nb \in Buffers :
        Moved(c, ok, nb) /\ nb.object = f /\ nb.chunk_id = i
  BY <1>1, <1>2, LoadMoves DEF CacheInv
<1>4. \A g \in Files : file'[g].file_size = file[g].file_size
  BY <1>3 DEF Moved, Flushed
<1> DEFINE j == [h EXCEPT !.loaded = TRUE]
           jobs == <<j>> \o t
<1>5. /\ j \in WriteJobs /\ j.do = "write" /\ j.loaded /\ j.base = h.base
      /\ j.id = h.id /\ j.lo = h.lo /\ j.hi = h.hi /\ j.val = h.val
  BY <1>2 DEF WriteJobs
<1> HIDE DEF j
<1>6. jobs \in Seq(JobTypes) /\ jobs # <<>> /\ Head(jobs) = j /\ Tail(jobs) = t
  <2>1. j \in JobTypes
    BY <1>5, JobsTyped
  <2> QED BY <1>2, <2>1, Front
<1> HIDE DEF jobs
<1>7. op' \in [file : Files \cup {None}, jobs : Seq(JobTypes)] /\ op'.jobs = jobs /\ op'.file = f
  <2>1. op' = [op EXCEPT !.jobs = jobs]
    BY <1>1 DEF jobs, j
  <2> QED BY <1>0, <1>6, <2>1, Types DEF CacheInv
<1>8. CacheType' /\ DataInv'
  BY <1>1, <1>3, <1>7, MovedType, MovedData DEF CacheInv
<1>9. Job' = j /\ Tail(op.jobs)' = t
  BY <1>6, <1>7 DEF Job
<1>10. SizeNow' = z /\ z \in Sizes
  BY <1>0, <1>2, <1>4, <1>7, Types DEF SizeNow, CacheInv, FileVars
<1>11. QueueInv'
  <2>1. WriteQueue(j, t, z)
    BY <1>2, <1>5 DEF WriteQueue
  <2> QED BY <1>2, <1>5, <1>7, <1>9, <1>10, <2>1 DEF QueueInv, Queue
<1>12. FillWriteInv'
  <2> SUFFICES ASSUME h.base # -1
               PROVE  /\ HoleInv(op.file, Job.base, SizeNow)'
                      /\ Past(Job.base, SizeNow)'
                      /\ (\/ SizeNow # Job.base \/ Job.lo = 0 \/ Job.hi = ChunkSize
                          \/ Start(Job.id) + Job.hi = Head(Tail(op.jobs)).size)'
    BY <1>5, <1>9 DEF FillWriteInv
  <2>1. /\ HoleInv(f, h.base, z) /\ Past(h.base, z)
        /\ \/ z # h.base \/ h.lo = 0 \/ h.hi = ChunkSize
           \/ Start(h.id) + h.hi = Head(t).size
    BY <1>0, <1>1 DEF CacheInv, CallInv, FillWriteInv
  <2>2. h.base \in Nat /\ z \in Nat
    BY <1>2, <1>10 DEF WriteJobs, Sizes
  <2>3. Start(i) <= z /\ z < Start(i) + ChunkSize
    <3>1. Start(i) + h.lo = z /\ h.lo \in Cells
      BY <1>0, <1>2 DEF WriteQueue, WriteJobs
    <3> QED BY <1>2, <3>1, StartOrder, Constants DEF Cells
  <2>4. PICK b : b = h.base
    OBVIOUS
  <2>5. HoleInv(f, b, z)'
    BY <1>1, <1>2, <1>3, <2>1, <2>2, <2>3, <2>4, MovedHole DEF CacheInv
  <2>6. HoleInv(op.file, Job.base, SizeNow)'
    BY <1>5, <1>7, <1>9, <1>10, <2>4, <2>5
  <2> QED BY <1>5, <1>7, <1>9, <1>10, <2>1, <2>6
<1>13. LoadedInv'
  <2>1. n_free >= 2
    BY <1>1, Types, OnFlashTyped, Constants DEF check_alloc_available, n_free, CacheInv
  <2>2. n_free' >= 1
    <3>1. ASSUME NEW g \in Files, NEW k \in Ids, flash'[g][k] # Hole
          PROVE  <<g, k>> \in OnFlash \cup {<<cache[c].object, cache[c].chunk_id>>}
      <4>1. CASE flash'[g][k] = flash[g][k]
        BY <3>1, <4>1 DEF OnFlash
      <4>2. CASE c \in SlotsOf(g, k)
        BY <4>2 DEF SlotsOf
      <4> QED BY <1>3, <4>1, <4>2, FlashAfter DEF Moved, CacheInv
    <3>2. PICK x : x = <<cache[c].object, cache[c].chunk_id>>
      OBVIOUS
    <3>3. OnFlash' \subseteq OnFlash \cup {x}
      BY <3>1, <3>2 DEF OnFlash
    <3> QED BY <1>1, <2>1, <3>3, OneMore DEF CacheInv
  <2>3. c \in SlotsOf(f, i)'
    <3>1. cache'[c] = nb
      BY <1>3, BuffersMoved DEF CacheInv
    <3> QED BY <1>3, <3>1 DEF SlotsOf
  <2>4. Cached' # {}
    <3>1. Job'.id = i
      BY <1>0, <1>5, <1>9
    <3> QED BY <1>7, <2>3, <3>1 DEF Cached, SlotsOf
  <2> QED BY <2>2, <2>4 DEF LoadedInv
<1>14. FillInv' /\ DownInv'
  BY <1>5, <1>9 DEF FillInv, DownInv, At
<1> QED BY <1>3, <1>8, <1>11, <1>12, <1>13, <1>14 DEF CacheInv, CallInv

\* The turns of yaffs_flush_file_cache() keep the invariant.
LEMMA FlushBufferKeeps ==
  ASSUME CacheInv, FlushBuffer
  PROVE  /\ CacheInv'
         /\ \E c \in Slots, ok \in BOOLEAN, nb \in Buffers : Moved(c, ok, nb)
<1>1. At("flush") /\ others' = others /\ op' = op /\ cut_in' = cut_in
  BY DEF FlushBuffer
<1>2. Job \in FlushJobs /\ FlushQueue(Job, Tail(op.jobs), op.file, SizeNow) /\ op.jobs # <<>>
  <2>1. op.jobs # <<>>
    BY <1>1 DEF At
  <2> QED BY <1>1, <2>1, JobAt DEF CacheInv, CallInv
<1>3. PICK c \in Slots, ok \in BOOLEAN, nb \in Buffers : Moved(c, ok, nb)
  BY <1>1, <1>2, FlushMoves DEF CacheInv
<1>4. CacheType' /\ DataInv'
  BY <1>1, <1>3, MovedType, MovedData, Types DEF CacheInv
<1>5. CallInv'
  <2>1. op.file \in Files => SizeNow' = SizeNow
    BY <1>1, <1>3 DEF Moved, Flushed, SizeNow
  <2>2. FlushQueue(Job, Tail(op.jobs), op.file, SizeNow')
    BY <1>2, <2>1 DEF FlushQueue
  <2>3. Plain(Head(op'.jobs)) /\ Queue(Head(op'.jobs), Tail(op'.jobs), op'.file, SizeNow')
    BY <1>1, <1>2, <2>2 DEF Plain, Queue, Job
  <2> QED BY <2>3, PlainNext
<1> QED BY <1>3, <1>4, <1>5 DEF CacheInv

-----------------------------------------------------------------------------
(* Writes that succeed.                                                    *)

\* A write that is done makes its file reach as far as it wrote.
LEMMA DoneFacts ==
  ASSUME NEW fl \in [Files -> FileVars], NEW f \in Files, NEW i \in Ids,
         f = op.file, i = Job.id, Job \in WriteJobs, Done(fl)
  PROVE  /\ file' \in [Files -> FileVars]
         /\ file'[f].file_size = Larger(fl[f].file_size, Start(i) + Job.hi)
         /\ \A g \in Files \ {f} : file'[g].file_size = fl[g].file_size
         /\ fl[f].file_size <= file'[f].file_size
         /\ Start(i) + Job.hi <= file'[f].file_size
<1> DEFINE e == Start(i) + Job.hi
           s == Larger(fl[f].file_size, e)
<1>1. e \in Sizes
  <2>1. Job.hi \in 1 .. ChunkSize
    BY DEF WriteJobs
  <2> QED BY <2>1, StartOrder, Constants DEF Sizes
<1>2. fl[f].file_size \in Sizes
  BY DEF FileVars
<1> HIDE DEF e
<1>3. s \in Sizes /\ fl[f].file_size <= s /\ e <= s
  BY <1>1, <1>2 DEF Larger, Sizes
<1>4. file' = [fl EXCEPT ![f].file_size = s, ![f].dirty = TRUE]
  BY DEF Done, s, e, Start
<1> HIDE DEF s
<1>5. /\ file' \in [Files -> FileVars] /\ file'[f].file_size = s
      /\ \A g \in Files \ {f} : file'[g].file_size = fl[g].file_size
  BY <1>3, <1>4 DEF FileVars
<1> QED BY <1>3, <1>5 DEF s, e

\* What is left of the call when a write has been done.
LEMMA WrittenNext ==
  ASSUME CacheInv, At("write"), NextJob, NEW f, NEW i, f = op.file, i = Job.id,
         cut_in' = cut_in,
         file'[f].file_size = Larger(file[f].file_size, Start(i) + Job.hi),
         Job.val = Zero =>
            \A m \in Ids, k \in Cells : Blank(f, m, k) => Blank(f, m, k)',
         \A m \in Ids \ {i}, d \in Slots :
            d \in SlotsOf(f, m)' => d \in SlotsOf(f, m) /\ cache'[d] = cache[d],
         \A d \in SlotsOf(f, i)' :
            /\ cache'[d].dirty
            /\ \A k \in Cells : Job.lo <= k /\ k < Job.hi => cache'[d].data[k] = Job.val,
         Job.hi < ChunkSize => SlotsOf(f, i)' # {}
  PROVE  op' \in [file : Files \cup {None}, jobs : Seq(JobTypes)] /\ CallInv'
<1>0. PICK z, t, h, b : z = SizeNow /\ t = Tail(op.jobs) /\ h = Job /\ b = Job.base
  OBVIOUS
<1>1. f \in Files /\ h \in WriteJobs /\ WriteQueue(h, t, z) /\ t \in Seq(JobTypes) /\ i \in Ids
  <2>1. op.jobs # <<>>
    BY DEF At
  <2>2. f \in Files /\ h \in WriteJobs /\ WriteQueue(h, t, z) /\ t \in Seq(JobTypes)
    BY <1>0, <2>1, JobAt DEF CacheInv, CallInv
  <2> QED BY <1>0, <2>2 DEF WriteJobs
<1>2. /\ op' \in [file : Files \cup {None}, jobs : Seq(JobTypes)] /\ op'.jobs = t
      /\ t # <<>> => op'.file = f
  <2>1. Continue(t)
    BY <1>0 DEF NextJob
  <2> QED BY <1>1, <2>1, Continued DEF CacheInv
<1>3. CASE b = -1
  <2>1. t = <<>>
    BY <1>0, <1>1, <1>3 DEF WriteQueue
  <2> QED BY <1>2, <2>1, PlainNext
<1>4. CASE b # -1
  <2>0. PICK n, y : n = Head(t).size /\ y = Start(i) + h.hi
    OBVIOUS
  <2>1. /\ t # <<>> /\ Head(t) \in FillJobs /\ Head(t).base = b /\ Final(Tail(t), n, z)
        /\ Start(i) + h.lo = z /\ y <= n /\ h.val = Zero /\ h.lo < h.hi
    BY <1>0, <1>1, <1>4, <2>0 DEF WriteQueue
  <2>2. /\ h.lo \in Nat /\ h.lo < ChunkSize /\ h.hi \in Nat /\ h.hi <= ChunkSize
        /\ Start(i) \in Nat
    BY <1>1, StartOrder, Constants DEF WriteJobs, Cells
  <2>3. z \in Nat /\ y \in Nat /\ z < y /\ Start(i) <= z /\ z < Start(i) + ChunkSize
        /\ y <= Start(i) + ChunkSize /\ n \in Sizes /\ n \in Nat
    <3>1. n \in Sizes /\ n \in Nat
      BY <2>0, <2>1, JobKinds DEF Sizes
    <3>2. ChunkSize \in Nat
      BY Constants
    <3> QED BY <2>0, <2>1, <2>2, <3>1, <3>2
  <2>4. b \in Sizes /\ b \in Nat
    BY <2>1, JobKinds DEF Sizes
  <2>5. /\ HoleInv(f, b, z) /\ Past(b, z) /\ b <= z
        /\ \/ z # b \/ h.lo = 0 \/ h.hi = ChunkSize \/ y = n
    BY <1>0, <1>4, <2>0 DEF CacheInv, CallInv, FillWriteInv, HoleInv
  <2>6. SizeNow' = y
    <3>1. file'[f].file_size = Larger(z, y)
      BY <1>0, <2>0 DEF SizeNow
    <3> QED BY <1>2, <2>1, <2>3, <3>1 DEF Larger, SizeNow
  <2>7. \A m \in Ids : Within(m, b) /\ b = z => m = i
    <3> SUFFICES ASSUME NEW m \in Ids, Within(m, z) PROVE m = i
      OBVIOUS
    <3> QED BY <1>1, <2>3, StartOrder, Constants DEF Within
  <2>8. HoleInv(f, b, y)'
    <3>1. b <= y
      BY <2>3, <2>4, <2>5
    <3>2. ASSUME NEW m \in Ids, Start(m) >= b
          PROVE  <<f, m>> \notin cut_in' /\ \A k \in Cells : Blank(f, m, k)'
      BY <1>0, <2>1, <2>5, <3>2 DEF HoleInv
    <3>3. ASSUME NEW m \in Ids, NEW d \in Slots, Within(m, b), d \in SlotsOf(f, m)'
          PROVE  /\ cache'[d].dirty
                 /\ \A k \in Cells :
                       b <= Start(m) + k /\ Start(m) + k < y => cache'[d].data[k] = Zero
      <4>1. CASE m # i
        <5>1. d \in SlotsOf(f, m) /\ cache'[d] = cache[d]
          BY <3>3, <4>1
        <5>2. b < z
          BY <2>3, <2>4, <2>5, <2>7, <3>3, <4>1
        <5>3. Start(m) + ChunkSize <= z /\ Start(m) \in Nat
          BY <2>5, <3>3, <5>2, StartOrder DEF Past
        <5>4. \A k \in Cells : Start(m) + k < z
          BY <5>3, <2>3, Constants DEF Cells
        <5> QED BY <2>5, <3>3, <5>1, <5>2, <5>4 DEF HoleInv
      <4>2. CASE m = i
        <5>1. ~(b < z)
          <6>1. b < z => Start(i) + ChunkSize <= z
            BY <2>5, <3>3, <4>2 DEF Past
          <6> QED BY <2>2, <2>3, <2>4, <6>1, Constants
        <5>2. b = z
          BY <2>3, <2>4, <2>5, <5>1
        <5>3. ASSUME NEW k \in Cells, b <= Start(i) + k, Start(i) + k < y
              PROVE  h.lo <= k /\ k < h.hi
          BY <2>0, <2>1, <2>2, <5>2, <5>3, Constants DEF Cells
        <5> QED BY <1>0, <2>1, <3>3, <4>2, <5>3
      <4> QED BY <4>1, <4>2
    <3>4. ASSUME NEW m \in Ids, Within(m, y)
          PROVE  \E d \in SlotsOf(f, m)' : cache'[d].dirty
      <4>1. m = i
        BY <1>1, <2>2, <2>3, <3>4, StartOrder, Constants DEF Within
      <4>2. h.hi < ChunkSize
        BY <2>0, <2>2, <3>4, <4>1, Constants DEF Within
      <4> QED BY <1>0, <4>1, <4>2
    <3> QED BY <3>1, <3>2, <3>3, <3>4 DEF HoleInv
  <2>9. Past(b, y) \/ n <= y
    <3>1. CASE b < z
      <4>1. ASSUME NEW m \in Ids, Within(m, b)
            PROVE  Start(m) + ChunkSize <= y
        <5>1. Start(m) + ChunkSize <= z /\ Start(m) \in Nat
          BY <2>5, <3>1, <4>1, StartOrder DEF Past
        <5> QED BY <5>1, <2>3, Constants
      <4> QED BY <4>1 DEF Past
    <3>2. CASE b = z
      <4>1. CASE y = n
        BY <4>1, <2>3
      <4>2. CASE h.lo = 0
        <5>1. \A m \in Ids : ~Within(m, b)
          <6> SUFFICES ASSUME NEW m \in Ids, Within(m, b) PROVE FALSE
            OBVIOUS
          <6>1. m = i
            BY <2>7, <3>2
          <6> QED BY <2>1, <2>2, <3>2, <4>2, <6>1 DEF Within
        <5> QED BY <5>1 DEF Past
      <4>3. CASE h.hi = ChunkSize
        <5>1. \A m \in Ids : Within(m, b) => Start(m) + ChunkSize <= y
          BY <2>0, <2>3, <2>7, <3>2, <4>3
        <5> QED BY <5>1 DEF Past
      <4> QED BY <2>5, <3>2, <4>1, <4>2, <4>3
    <3> QED BY <2>3, <2>4, <2>5, <3>1, <3>2
  <2>10. Job' = Head(t) /\ Tail(op.jobs)' = Tail(t)
    BY <1>2 DEF Job
  <2>11. QueueInv'
    <3>1. Final(Tail(t), n, y)
      BY <2>1 DEF Final
    <3> QED BY <1>1, <1>2, <2>0, <2>1, <2>6, <2>10, <3>1 DEF QueueInv, Queue
  <2>12. FillInv'
    <3>1. HoleInv(op.file, Job.base, SizeNow)'
      BY <1>2, <2>1, <2>6, <2>8, <2>10
    <3>2. SizeNow' # Job'.base
      BY <2>1, <2>3, <2>4, <2>5, <2>6, <2>10
    <3>3. Past(Job.base, SizeNow)' \/ Job'.size <= SizeNow'
      BY <2>0, <2>1, <2>6, <2>9, <2>10
    <3> QED BY <3>1, <3>2, <3>3 DEF FillInv
  <2>13. FillWriteInv' /\ LoadedInv' /\ DownInv'
    <3>1. Job'.do = "fill"
      BY <2>1, <2>10, JobKinds
    <3> QED BY <3>1 DEF FillWriteInv, LoadedInv, DownInv, At
  <2> QED BY <1>2, <2>11, <2>12, <2>13 DEF CallInv
<1> QED BY <1>3, <1>4

\* File f grows, and nothing else changes but what lies before its end.
LEMMA GrownData ==
  ASSUME CacheInv, NEW f \in Files, cut_in' = cut_in, OnFlash \subseteq OnFlash',
         file' \in [Files -> FileVars], faults' \in {faults, faults + 1},
         file[f].file_size <= file'[f].file_size,
         \A g \in Files \ {f} : file'[g].file_size = file[g].file_size,
         \A g \in Files, m \in Ids, k \in Cells :
            Blank(g, m, k) /\ Start(m) + k >= file'[g].file_size => Blank(g, m, k)'
  PROVE  Beyond' /\ PastEnd' /\ CutInv'
<1>1. \A g \in Files : /\ file[g].file_size \in Sizes /\ file'[g].file_size \in Sizes
                       /\ file[g].file_size <= file'[g].file_size
  <2> SUFFICES ASSUME NEW g \in Files
               PROVE  /\ file[g].file_size \in Sizes /\ file'[g].file_size \in Sizes
                      /\ file[g].file_size <= file'[g].file_size
    OBVIOUS
  <2>1. file[g].file_size \in Sizes /\ file'[g].file_size \in Sizes
    BY Types DEF CacheInv, FileVars
  <2>2. CASE g = f
    BY <2>1, <2>2
  <2>3. CASE g # f
    BY <2>1, <2>3 DEF Sizes
  <2> QED BY <2>2, <2>3
<1>2. ASSUME NEW g \in Files, NEW m \in Ids, Start(m) >= file'[g].file_size, NEW k \in Cells
      PROVE  Blank(g, m, k)'
  <2>1. Start(m) \in Nat
    BY StartOrder
  <2>2. Start(m) >= file[g].file_size
    BY <1>1, <1>2, <2>1 DEF Sizes
  <2>3. Blank(g, m, k)
    BY <2>2 DEF CacheInv, DataInv, Beyond
  <2>4. Start(m) + k >= file'[g].file_size
    BY <1>1, <1>2, <2>1, Constants DEF Sizes, Cells
  <2> QED BY <2>3, <2>4
<1>3. ASSUME faults' = 0, NEW g \in Files, NEW m \in Ids, NEW k \in Cells,
             Start(m) + k >= file'[g].file_size
      PROVE  Blank(g, m, k)'
  <2>1. Start(m) \in Nat
    BY StartOrder
  <2>2. Start(m) + k >= file[g].file_size
    BY <1>1, <1>3, <2>1, Constants DEF Sizes, Cells
  <2>3. faults = 0
    BY <1>3, Types DEF CacheInv
  <2>4. Blank(g, m, k)
    BY <2>2, <2>3 DEF CacheInv, DataInv, PastEnd
  <2> QED BY <1>3, <2>4
<1>4. CutInv'
  <2>1. cut_in \subseteq OnFlash /\ \A x \in cut_in : Start(x[2]) < file[x[1]].file_size
    BY DEF CacheInv, DataInv, CutInv
  <2>2. ASSUME NEW x \in cut_in PROVE Start(x[2]) < file'[x[1]].file_size
    <3>1. x[1] \in Files /\ x[2] \in Ids
      BY Types DEF CacheInv
    <3>2. Start(x[2]) \in Nat
      BY <3>1, StartOrder
    <3> QED BY <1>1, <2>1, <3>1, <3>2 DEF Sizes
  <2> QED BY <2>1, <2>2 DEF CutInv
<1> QED BY <1>2, <1>3, <1>4 DEF Beyond, PastEnd

\* yaffs_resize_file() to a larger size keeps the invariant: what is then inside
\* the file was blank.
LEMMA GrowKeeps ==
  ASSUME CacheInv, Grow
  PROVE  CacheInv'
<1>0. PICK f, z, n : f = op.file /\ z = SizeNow /\ n = Job.size
  OBVIOUS
<1>1. /\ f \in Files /\ n \in Sizes /\ Tail(op.jobs) = <<HdrJob>> /\ z <= n
      /\ file' = [file EXCEPT ![f].file_size = n]
      /\ Continue(Tail(op.jobs))
      /\ UNCHANGED <<cache, flash, others, doubt, cut_in, faults>>
  BY <1>0, JobAt, JobKinds DEF CacheInv, CallInv, Grow, NextJob
<1>2. /\ file' \in [Files -> FileVars] /\ file'[f].file_size = n
      /\ \A g \in Files \ {f} : file'[g].file_size = file[g].file_size
      /\ file[f].file_size = z /\ z \in Sizes
  BY <1>0, <1>1, Types DEF CacheInv, FileVars, SizeNow
<1>3. op' \in [file : Files \cup {None}, jobs : Seq(JobTypes)] /\ op'.jobs = <<HdrJob>>
      /\ op'.file = f
  <2>1. <<HdrJob>> \in Seq(JobTypes) /\ <<HdrJob>> # <<>>
    BY JobsTyped, Singleton
  <2> QED BY <1>0, <1>1, <2>1, Continued DEF CacheInv
<1>4. CacheType'
  BY <1>1, <1>2, <1>3, Types, TypesNext DEF CacheInv
<1>5. \A g, m, k : Blank(g, m, k)' = Blank(g, m, k)
  BY <1>1 DEF Blank, SlotsOf
<1>6. Beyond' /\ PastEnd' /\ CutInv'
  BY <1>1, <1>2, <1>5, GrownData DEF OnFlash
<1>7. OneBuffer' /\ CleanInv'
  BY <1>1 DEF CacheInv, DataInv, OneBuffer, CleanInv
<1>8. Overdraft'
  BY <1>1, FewerClaimed, Types DEF CacheInv, DataInv, Claimed, OnFlash
<1>9. CallInv'
  <2>1. <<HdrJob>> = <<HdrJob>> \o <<>> /\ <<>> \in Seq(JobTypes)
    BY JobsTyped, Front
  <2>2. Finals(<<>>, SizeNow')
    BY DEF Finals
  <2> QED BY <1>1, <1>3, <2>1, <2>2, HdrNext
<1> QED BY <1>4, <1>6, <1>7, <1>8, <1>9 DEF CacheInv, DataInv

\* The chunk has one buffer, c, and it alone takes the bytes of the write.
Written(f, i, h, c) ==
    /\ SlotsOf(f, i) = {c}
    /\ cache' \in [Slots -> Buffers]
    /\ cache'[c].object = f /\ cache'[c].chunk_id = i /\ cache'[c].dirty
    /\ cache'[c].data = [k \in Cells |-> IF h.lo <= k /\ k < h.hi THEN h.val
                                         ELSE cache[c].data[k]]
    /\ \A d \in Slots \ {c} : cache'[d] = cache[d]

\* A buffer is found for the chunk, it is the only one, and bytes of it are
\* overwritten.
LEMMA WriteCachedFacts ==
  ASSUME CacheInv, WriteCached, NEW f, NEW i, NEW h, f = op.file, i = Job.id, h = Job
  PROVE  /\ At("write") /\ f \in Files /\ i \in Ids /\ h \in WriteJobs
         /\ WriteQueue(h, Tail(op.jobs), SizeNow)
         /\ ~Refused /\ NextJob /\ Done(file)
         /\ UNCHANGED <<flash, others, doubt, cut_in, faults>>
         /\ \E c \in SlotsOf(f, i) : Written(f, i, h, c)
<1>1. /\ At("write") /\ ~Refused /\ NextJob /\ Done(file)
      /\ UNCHANGED <<flash, others, doubt, cut_in, faults>>
  BY DEF WriteCached
<1>2. f \in Files /\ h \in WriteJobs /\ WriteQueue(h, Tail(op.jobs), SizeNow)
  BY <1>1, JobAt DEF CacheInv, CallInv
<1>3. i \in Ids /\ h.lo \in Cells /\ h.hi \in 1 .. ChunkSize /\ h.val \in Bytes
  BY <1>2 DEF WriteJobs
<1>4. PICK c \in SlotsOf(f, i) :
        cache' = [cache EXCEPT
            ![c].data = [k \in 0 .. ChunkSize - 1 |->
                            IF h.lo <= k /\ k < h.hi THEN h.val ELSE @[k]],
            ![c].n_bytes = n_writeback,
            ![c].dirty = TRUE]
  BY DEF WriteCached, Cached
<1>5. c \in Slots /\ cache[c] \in Buffers /\ cache[c].object = f /\ cache[c].chunk_id = i
  BY <1>4, Types DEF CacheInv, SlotsOf
<1>6. SlotsOf(f, i) = {c}
  BY <1>2, <1>4, Constants DEF CacheInv, DataInv, OneBuffer, SlotsOf
<1>7. n_writeback \in 0 .. ChunkSize
  <2>1. file[op.file].file_size \in Int
    BY <1>2, Types DEF CacheInv, FileVars, Sizes
  <2>2. (i - 1) * ChunkSize \in Int
    BY <1>3, Constants DEF Ids
  <2> DEFINE rest == file[op.file].file_size - (i - 1) * ChunkSize
  <2>3. rest \in Int
    BY <2>1, <2>2
  <2>4. n_writeback = Larger(Smaller(Larger(rest, 0), ChunkSize), h.hi)
    BY DEF n_writeback
  <2> HIDE DEF rest
  <2> QED BY <1>3, <2>3, <2>4, Constants DEF Larger, Smaller
<1> DEFINE data == [k \in Cells |-> IF h.lo <= k /\ k < h.hi THEN h.val ELSE cache[c].data[k]]
           n == n_writeback
<1>8. data \in Data
  BY <1>3, <1>5 DEF Data, Cells, Buffers
<1>9. cache' = [cache EXCEPT ![c].data = data, ![c].n_bytes = n, ![c].dirty = TRUE]
  BY <1>4 DEF Cells
<1>10. n \in 0 .. ChunkSize /\ cache \in [Slots -> Buffers]
  BY <1>7, Types DEF CacheInv
<1> HIDE DEF data, n
<1>11. /\ cache' \in [Slots -> Buffers]
       /\ cache'[c].object = f /\ cache'[c].chunk_id = i /\ cache'[c].dirty
       /\ cache'[c].data = data
       /\ \A d \in Slots \ {c} : cache'[d] = cache[d]
  BY <1>5, <1>8, <1>9, <1>10 DEF Buffers
<1>12. Written(f, i, h, c)
  BY <1>6, <1>11 DEF Written, data
<1> QED BY <1>1, <1>2, <1>3, <1>4, <1>12

\* A write into a buffer keeps the invariant: a buffer turns dirty only while
\* there is room for it.
LEMMA WriteCachedKeeps ==
  ASSUME CacheInv, WriteCached
  PROVE  CacheInv'
<1>0. PICK f, i, h : f = op.file /\ i = Job.id /\ h = Job
  OBVIOUS
<1>1. /\ At("write") /\ f \in Files /\ i \in Ids /\ h \in WriteJobs
      /\ WriteQueue(h, Tail(op.jobs), SizeNow)
      /\ ~Refused /\ NextJob /\ Done(file)
      /\ UNCHANGED <<flash, others, doubt, cut_in, faults>>
  BY <1>0, WriteCachedFacts
<1>s. PICK c \in SlotsOf(f, i) : Written(f, i, h, c)
  BY <1>0, WriteCachedFacts
<1>2. /\ c \in SlotsOf(f, i) /\ SlotsOf(f, i) = {c}
      /\ cache' \in [Slots -> Buffers]
      /\ cache'[c].object = f /\ cache'[c].chunk_id = i /\ cache'[c].dirty
      /\ cache'[c].data = [k \in Cells |-> IF h.lo <= k /\ k < h.hi THEN h.val
                                           ELSE cache[c].data[k]]
      /\ \A d \in Slots \ {c} : cache'[d] = cache[d]
  BY <1>s DEF Written
<1>3. c \in Slots /\ cache[c].object = f /\ cache[c].chunk_id = i
  BY <1>2 DEF SlotsOf
<1>4. /\ file' \in [Files -> FileVars]
      /\ file'[f].file_size = Larger(file[f].file_size, Start(i) + h.hi)
      /\ \A g \in Files \ {f} : file'[g].file_size = file[g].file_size
      /\ file[f].file_size <= file'[f].file_size
      /\ Start(i) + h.hi <= file'[f].file_size
  <2>1. file \in [Files -> FileVars]
    BY Types DEF CacheInv
  <2>2. PICK fl : fl = file
    OBVIOUS
  <2> QED BY <1>0, <1>1, <2>1, <2>2, DoneFacts
<1>5. \A d \in Slots : /\ cache'[d].object = cache[d].object
                       /\ cache'[d].chunk_id = cache[d].chunk_id
  BY <1>2, <1>3
<1>6. \A g, m : SlotsOf(g, m)' = SlotsOf(g, m)
  BY <1>5 DEF SlotsOf
<1>7. OneBuffer'
  BY <1>5 DEF CacheInv, DataInv, OneBuffer
<1>8. CleanInv'
  BY <1>1, <1>2 DEF CacheInv, DataInv, CleanInv
<1>9. ASSUME NEW g \in Files, NEW m \in Ids, NEW k \in Cells, Blank(g, m, k),
             h.val = Zero \/ ~(g = f /\ m = i /\ h.lo <= k /\ k < h.hi)
      PROVE  Blank(g, m, k)'
  <2>1. ASSUME NEW d \in SlotsOf(g, m) PROVE cache'[d].data[k] = Zero
    <3>1. cache[d].data[k] = Zero /\ d \in Slots /\ cache[d].object = g /\ cache[d].chunk_id = m
      BY <1>9, <2>1 DEF Blank, SlotsOf
    <3>2. CASE d # c
      BY <1>2, <3>1, <3>2
    <3>3. CASE d = c
      BY <1>2, <1>3, <1>9, <3>1, <3>3
    <3> QED BY <3>2, <3>3
  <2> QED BY <1>1, <1>6, <1>9, <2>1 DEF Blank
<1>10. Beyond' /\ PastEnd' /\ CutInv'
  <2>1. ASSUME NEW g \in Files, NEW m \in Ids, NEW k \in Cells, Blank(g, m, k),
               Start(m) + k >= file'[g].file_size
        PROVE  Blank(g, m, k)'
    <3>1. ~(g = f /\ m = i /\ k < h.hi)
      <4>1. Start(i) \in Nat /\ h.hi \in Nat /\ file'[f].file_size \in Nat
        BY <1>1, <1>4, StartOrder DEF WriteJobs, FileVars, Sizes
      <4> QED BY <1>4, <2>1, <4>1 DEF Cells
    <3> QED BY <1>9, <2>1, <3>1
  <2>2. OnFlash \subseteq OnFlash'
    BY <1>1 DEF OnFlash
  <2> QED BY <1>1, <1>4, <2>1, <2>2, GrownData
<1>11. Overdraft'
  <2>1. CASE cache[c].dirty
    <3>1. \A d \in Slots : cache'[d].dirty = cache[d].dirty
      <4>1. cache[c].dirty = TRUE /\ cache'[c].dirty = TRUE
        BY <1>2, <1>3, <2>1, Types DEF CacheInv, Buffers
      <4> QED BY <1>2, <4>1
    <3>2. DirtyIn(cache') = DirtyIn(cache)
      BY <1>5, <3>1 DEF DirtyIn
    <3>3. Claimed' = Claimed
      BY <1>1, <3>2 DEF Claimed, OnFlash
    <3> QED BY <1>1, <3>3, FewerClaimed, Types DEF CacheInv, DataInv
  <2>2. CASE ~cache[c].dirty
    <3>1. n_free >= 1
      <4>1. CASE check_alloc_available(1)
        BY <4>1, Types, OnFlashTyped, Constants DEF CacheInv, check_alloc_available, n_free
      <4>2. CASE Job.loaded
        BY <1>1, <4>2 DEF CacheInv, CallInv, LoadedInv
      <4> QED BY <1>0, <1>1, <1>2, <2>2, <4>1, <4>2 DEF Refused, Cached
    <3>2. Room - Cardinality(OnFlash) - others >= 1 /\ others \in Nat
      BY <3>1, Types DEF n_free, CacheInv
    <3>3. Cardinality((OnFlash \cup DirtyIn(cache')) \ cut_in) + others <= Room + NCaches - 1
      <4>1. PICK S, buf, C, n : S = OnFlash /\ buf = cache' /\ C = cut_in /\ n = others
        OBVIOUS
      <4>2. S \subseteq Files \X Ids /\ Room - Cardinality(S) - n >= 1 /\ n \in Nat
        BY <3>2, <4>1, OnFlashTyped
      <4>3. Cardinality((S \cup DirtyIn(buf)) \ C) + n <= Room + NCaches - 1
        BY <4>2, RoomLeft
      <4> QED BY <4>1, <4>3
    <3>4. Claimed' = (OnFlash \cup DirtyIn(cache')) \ cut_in
      BY <1>1 DEF Claimed, OnFlash
    <3> QED BY <1>1, <3>3, <3>4 DEF Overdraft
  <2> QED BY <2>1, <2>2
<1>12. op' \in [file : Files \cup {None}, jobs : Seq(JobTypes)] /\ CallInv'
  <2>1. Job.val = Zero => \A m \in Ids, k \in Cells : Blank(f, m, k) => Blank(f, m, k)'
    BY <1>0, <1>1, <1>9
  <2>2. ASSUME NEW m \in Ids \ {i}, NEW d \in Slots, d \in SlotsOf(f, m)'
        PROVE  d \in SlotsOf(f, m) /\ cache'[d] = cache[d]
    BY <1>2, <1>3, <1>6, <2>2 DEF SlotsOf
  <2>3. ASSUME NEW d \in SlotsOf(f, i)'
        PROVE  /\ cache'[d].dirty
               /\ \A k \in Cells : Job.lo <= k /\ k < Job.hi => cache'[d].data[k] = Job.val
    <3>1. d = c
      BY <1>2, <1>6, <2>3
    <3> QED BY <1>0, <1>2, <3>1
  <2>4. SlotsOf(f, i)' # {}
    BY <1>2, <1>6
  <2> QED BY <1>0, <1>1, <1>4, <2>1, <2>2, <2>3, <2>4, WrittenNext
<1>13. CacheType'
  <2>1. \A d \in Slots : cache'[d].object # None => cache'[d].chunk_id \in Ids
    BY <1>5, Types DEF CacheInv
  <2> QED BY <1>1, <1>2, <1>4, <1>12, <2>1, Types, TypesNext DEF CacheInv
<1> QED BY <1>7, <1>8, <1>10, <1>11, <1>12, <1>13 DEF CacheInv, DataInv

-----------------------------------------------------------------------------
(* Writes past the cache.                                                  *)

\* What a write past the cache may have done.
DirectStep(f, i, h) ==
    /\ At("write") /\ f \in Files /\ i \in Ids /\ h \in WriteJobs
    /\ WriteQueue(h, Tail(op.jobs), SizeNow)
    /\ h.lo = 0 /\ h.hi = ChunkSize
    /\ others' = others /\ cut_in' = cut_in
    /\ cache' \in [Slots -> Buffers]
    /\ \A d \in Slots : \/ d \in SlotsOf(f, i) /\ cache'[d].object = None
                        \/ d \notin SlotsOf(f, i) /\ cache'[d] = cache[d]
    /\ flash' \in [Files -> [Ids -> Data \cup {Hole}]]
    /\ doubt' \subseteq Files \X Ids
    /\ faults' \in {faults, faults + 1}
    /\ \A x \in doubt' \ doubt : faults' = faults + 1
    /\ \A x \in doubt \ doubt' : x = <<f, i>>
    /\ \A g \in Files, m \in Ids : <<g, m>> # <<f, i>> => flash'[g][m] = flash[g][m]
    /\ \E fl \in [Files -> FileVars] :
         /\ \A g \in Files : fl[g].file_size = file[g].file_size
         /\ \/ /\ Done(fl) /\ NextJob /\ n_free >= 2
               /\ flash'[f][i] = [k \in Cells |-> h.val]
               /\ flash'[f][i] # Hole
               /\ <<f, i>> \notin doubt'
            \/ Failed(fl) /\ flash' = flash

\* A write past the cache does no more than DirectStep says.
LEMMA WriteDirectFacts ==
  ASSUME CacheInv, WriteDirect, NEW f, NEW i, NEW h, f = op.file, i = Job.id, h = Job
  PROVE  DirectStep(f, i, h)
<1>1. At("write") /\ Direct /\ others' = others /\ cut_in' = cut_in
  BY DEF WriteDirect
<1>2. f \in Files /\ h \in WriteJobs /\ WriteQueue(h, Tail(op.jobs), SizeNow)
  BY <1>1, JobAt DEF CacheInv, CallInv
<1>3. i \in Ids /\ h.val \in Bytes /\ h.lo = 0 /\ h.hi = ChunkSize
  BY <1>1, <1>2 DEF WriteJobs, Direct
<1> DEFINE data == [k \in 0 .. ChunkSize - 1 |-> h.val]
<1>0. PICK fl : fl = RaisedFile(f, i, ChunkSize)
  OBVIOUS
<1>4. PICK ok \in BOOLEAN :
        /\ IF HasRoom(FALSE)
           THEN Fault(ok) /\ doubt' = RefusedDoubt(f, i, ok)
           ELSE ~ok /\ UNCHANGED <<doubt, faults>>
        /\ flash' = WrittenFlash(f, i, data, ok)
        /\ IF ok THEN Done(fl) /\ NextJob ELSE Failed(fl)
        /\ cache' = invalidate_chunk_cache(f, i)
  BY <1>0 DEF WriteDirect
<1>5. data \in Data /\ data # Hole /\ data = [k \in Cells |-> h.val]
  BY <1>3, Constants DEF Data, Cells
<1> HIDE DEF data
<1>6. /\ cache' \in [Slots -> Buffers]
      /\ \A d \in Slots : \/ d \in SlotsOf(f, i) /\ cache'[d].object = None
                          \/ d \notin SlotsOf(f, i) /\ cache'[d] = cache[d]
  <2>1. cache' = [d \in Slots |-> IF d \in SlotsOf(f, i) THEN Unused ELSE cache[d]]
    BY <1>4 DEF invalidate_chunk_cache
  <2> QED BY <2>1, UnusedBuffer, Types DEF CacheInv
<1>7. fl \in [Files -> FileVars] /\ \A g \in Files : fl[g].file_size = file[g].file_size
  <2>1. ChunkSize \in 0 .. ChunkSize
    BY Constants
  <2> QED BY <1>0, <1>2, <1>3, <2>1, Raised DEF CacheInv
<1>8. /\ flash' \in [Files -> [Ids -> Data \cup {Hole}]]
      /\ \A g \in Files, m \in Ids : <<g, m>> # <<f, i>> => flash'[g][m] = flash[g][m]
      /\ ok => flash'[f][i] = data
      /\ ~ok => flash' = flash
  BY <1>2, <1>3, <1>4, <1>5, Types DEF CacheInv, WrittenFlash
<1>9. /\ doubt' \subseteq Files \X Ids
      /\ \A x \in doubt \ doubt' : x = <<f, i>>
      /\ ok => <<f, i>> \notin doubt'
  <2>1. doubt \subseteq Files \X Ids /\ <<f, i>> \in Files \X Ids
    BY <1>2, <1>3, Types DEF CacheInv
  <2>2. CASE ok
    <3>1. doubt' = doubt \ {<<f, i>>}
      BY <1>4, <2>2 DEF RefusedDoubt
    <3> QED BY <2>1, <3>1
  <2>3. CASE ~ok
    <3>1. doubt' = doubt \cup {<<f, i>>} \/ doubt' = doubt
      BY <1>4, <2>3 DEF RefusedDoubt
    <3> QED BY <2>1, <2>3, <3>1
  <2> QED BY <2>2, <2>3
<1>10. /\ faults' \in {faults, faults + 1}
       /\ \A x \in doubt' \ doubt : faults' = faults + 1
  BY <1>4 DEF RefusedDoubt, Fault
<1>11. ok => n_free >= 2
  <2>1. ok => n_free > 1
    BY <1>4 DEF HasRoom, check_alloc_available
  <2> QED BY <2>1, Types, OnFlashTyped, Constants DEF CacheInv, n_free
<1>12. \/ /\ Done(fl) /\ NextJob /\ n_free >= 2
          /\ flash'[f][i] = [k \in Cells |-> h.val]
          /\ flash'[f][i] # Hole
          /\ <<f, i>> \notin doubt'
       \/ Failed(fl) /\ flash' = flash
  BY <1>4, <1>5, <1>8, <1>9, <1>11
<1> QED BY <1>1, <1>2, <1>3, <1>6, <1>7, <1>8, <1>9, <1>10, <1>12 DEF DirectStep

\* A write past the cache keeps the invariant, done or refused: no buffer of the
\* chunk is left.
LEMMA WriteDirectKeeps ==
  ASSUME CacheInv, WriteDirect
  PROVE  CacheInv'
<1>0. PICK f, i, h, z, b :
        f = op.file /\ i = Job.id /\ h = Job /\ z = SizeNow /\ b = Job.base
  OBVIOUS
<1>s. DirectStep(f, i, h)
  BY <1>0, WriteDirectFacts
<1>1. /\ At("write") /\ f \in Files /\ i \in Ids /\ h \in WriteJobs
      /\ WriteQueue(h, Tail(op.jobs), SizeNow)
      /\ h.lo = 0 /\ h.hi = ChunkSize
      /\ others' = others /\ cut_in' = cut_in
      /\ cache' \in [Slots -> Buffers]
      /\ \A d \in Slots : \/ d \in SlotsOf(f, i) /\ cache'[d].object = None
                          \/ d \notin SlotsOf(f, i) /\ cache'[d] = cache[d]
      /\ flash' \in [Files -> [Ids -> Data \cup {Hole}]]
      /\ doubt' \subseteq Files \X Ids
      /\ faults' \in {faults, faults + 1}
      /\ \A x \in doubt \ doubt' : x = <<f, i>>
      /\ \A g \in Files, m \in Ids : <<g, m>> # <<f, i>> => flash'[g][m] = flash[g][m]
  BY <1>s DEF DirectStep
<1>2. PICK fl \in [Files -> FileVars] :
        /\ \A g \in Files : fl[g].file_size = file[g].file_size
        /\ \/ /\ Done(fl) /\ NextJob /\ n_free >= 2
              /\ flash'[f][i] = [k \in Cells |-> h.val]
              /\ flash'[f][i] # Hole
           \/ Failed(fl) /\ flash' = flash
  BY <1>s DEF DirectStep
<1>3. \A d \in Slots : cache'[d].object # None =>
         cache'[d] = cache[d] /\ d \notin SlotsOf(f, i)
  BY <1>1
<1>4. \A g \in Files, m \in Ids : \A d \in SlotsOf(g, m)' :
         d \in SlotsOf(g, m) /\ cache'[d] = cache[d]
  BY <1>3, Constants DEF SlotsOf
<1>5. SlotsOf(f, i)' = {}
  BY <1>1, <1>3, Constants DEF SlotsOf
<1>6. OneBuffer'
  BY <1>3 DEF CacheInv, DataInv, OneBuffer
<1>7. CleanInv'
  <2> SUFFICES ASSUME NEW d \in Slots, cache'[d].object # None, ~cache'[d].dirty
               PROVE  \/ cache'[d].data = DataOn(flash', cache'[d].object, cache'[d].chunk_id)
                      \/ <<cache'[d].object, cache'[d].chunk_id>> \in doubt'
    BY DEF CleanInv
  <2>1. cache'[d] = cache[d] /\ d \notin SlotsOf(f, i)
    BY <1>3
  <2> DEFINE g == cache[d].object
             m == cache[d].chunk_id
  <2>2. g \in Files /\ m \in Ids /\ <<g, m>> # <<f, i>>
    BY <2>1, Types DEF CacheInv, SlotsOf
  <2>3. DataOn(flash', g, m) = DataOn(flash, g, m)
    BY <1>1, <2>2 DEF DataOn
  <2>4. cache[d].data = DataOn(flash, g, m) \/ <<g, m>> \in doubt
    BY <2>1 DEF CacheInv, DataInv, CleanInv
  <2>5. <<g, m>> \in doubt => <<g, m>> \in doubt'
    BY <1>1, <2>2
  <2> QED BY <2>1, <2>3, <2>4, <2>5
<1>8. ASSUME NEW g \in Files, NEW m \in Ids, NEW k \in Cells, Blank(g, m, k),
             \/ <<g, m>> # <<f, i>> \/ flash' = flash
             \/ flash'[f][i] = [j \in Cells |-> h.val] /\ flash'[f][i] # Hole /\ h.val = Zero
      PROVE  Blank(g, m, k)'
  <2>1. DataOn(flash', g, m)[k] = Zero
    BY <1>1, <1>8 DEF Blank, DataOn
  <2>2. \A d \in SlotsOf(g, m)' : cache'[d].data[k] = Zero
    BY <1>4, <1>8 DEF Blank
  <2> QED BY <2>1, <2>2 DEF Blank
<1>9. CASE Failed(fl) /\ flash' = flash
  <2>1. b # -1 => CutBuffers(f, b)' /\ Shorter(b, z)
    <3> SUFFICES ASSUME b # -1 PROVE CutBuffers(f, b)' /\ Shorter(b, z)
      OBVIOUS
    <3>1. HoleInv(f, b, z) /\ Past(b, z)
      BY <1>0, <1>1 DEF CacheInv, CallInv, FillWriteInv
    <3>2. b \in Nat /\ z \in Nat
      <4>1. b \in Sizes
        BY <1>0, <1>1 DEF WriteJobs
      <4>2. z \in Sizes
        BY <1>0, <1>1, Types DEF CacheInv, FileVars, SizeNow
      <4> QED BY <4>1, <4>2 DEF Sizes
    <3>3. b < z \/ \A m \in Ids : ~Within(m, b)
      <4>1. b <= z
        BY <3>1 DEF HoleInv
      <4>2. Start(i) = z /\ Start(i) \in Nat
        BY <1>0, <1>1, StartOrder DEF WriteQueue
      <4>3. ASSUME b = z, NEW m \in Ids, Within(m, b) PROVE FALSE
        BY <1>1, <4>2, <4>3, StartOrder, Constants DEF Within
      <4> QED BY <3>2, <4>1, <4>3
    <3>4. CutBuffers(f, b)
      BY <1>1, <3>1, <3>2, <3>3, HoleCut DEF CacheInv
    <3>5. CutBuffers(f, b)'
      <4>1. f \in Files /\ cut_in' = cut_in
        BY <1>1
      <4>2. \A m \in Ids, d \in Slots : d \in SlotsOf(f, m)' =>
                d \in SlotsOf(f, m) /\ cache'[d] = cache[d]
        BY <1>4, <4>1
      <4> QED BY <3>4, <4>1, <4>2 DEF CutBuffers
    <3> QED BY <3>3, <3>4, <3>5 DEF Shorter
  <2>2. /\ op' \in [file : Files \cup {None}, jobs : Seq(JobTypes)]
        /\ file' \in [Files -> FileVars]
        /\ \A g \in Files : file'[g].file_size = file[g].file_size
        /\ CallInv'
    BY <1>0, <1>1, <1>2, <1>9, <2>1, FailedNext
  <2>3. \A g \in Files, m \in Ids, k \in Cells : Blank(g, m, k) => Blank(g, m, k)'
    BY <1>8, <1>9
  <2>4. Beyond' /\ PastEnd' /\ CutInv'
    <3>1. OnFlash \subseteq OnFlash'
      BY <1>9 DEF OnFlash
    <3>2. file[f].file_size <= file'[f].file_size
      <4>1. file[f].file_size \in Nat
        BY <1>1, Types DEF CacheInv, FileVars, Sizes
      <4> QED BY <1>1, <2>2, <4>1
    <3> QED BY <1>1, <2>2, <2>3, <3>1, <3>2, GrownData
  <2>5. Overdraft'
    <3>1. DirtyIn(cache') \subseteq DirtyIn(cache)
      BY <1>3 DEF DirtyIn
    <3>2. Claimed' \subseteq Claimed
      BY <1>1, <1>9, <3>1 DEF Claimed, OnFlash
    <3> QED BY <1>1, <3>2, FewerClaimed, Types DEF CacheInv, DataInv
  <2>6. CacheType'
    <3>1. \A d \in Slots : cache'[d].object # None => cache'[d].chunk_id \in Ids
      BY <1>3, Types DEF CacheInv
    <3> QED BY <1>1, <2>2, <3>1, Types, TypesNext DEF CacheInv
  <2> QED BY <1>6, <1>7, <2>2, <2>4, <2>5, <2>6 DEF CacheInv, DataInv
<1>10. CASE Done(fl) /\ NextJob /\ n_free >= 2
            /\ flash'[f][i] = [k \in Cells |-> h.val] /\ flash'[f][i] # Hole
  <2>1. /\ file' \in [Files -> FileVars]
        /\ file'[f].file_size = Larger(file[f].file_size, Start(i) + h.hi)
        /\ \A g \in Files \ {f} : file'[g].file_size = file[g].file_size
        /\ file[f].file_size <= file'[f].file_size
        /\ Start(i) + h.hi <= file'[f].file_size
    <3>1. /\ file' \in [Files -> FileVars]
          /\ file'[f].file_size = Larger(fl[f].file_size, Start(i) + Job.hi)
          /\ \A g \in Files \ {f} : file'[g].file_size = fl[g].file_size
          /\ fl[f].file_size <= file'[f].file_size
          /\ Start(i) + Job.hi <= file'[f].file_size
      BY <1>0, <1>1, <1>10, DoneFacts
    <3> QED BY <1>0, <1>1, <1>2, <3>1
  <2>2. op' \in [file : Files \cup {None}, jobs : Seq(JobTypes)] /\ CallInv'
    <3>1. Job.val = Zero => \A m \in Ids, k \in Cells : Blank(f, m, k) => Blank(f, m, k)'
      BY <1>0, <1>1, <1>8, <1>10
    <3>2. \A m \in Ids \ {i}, d \in Slots :
            d \in SlotsOf(f, m)' => d \in SlotsOf(f, m) /\ cache'[d] = cache[d]
      BY <1>1, <1>4
    <3>3. ~(Job.hi < ChunkSize)
      BY <1>0, <1>1, Constants
    <3>4. file'[f].file_size = Larger(file[f].file_size, Start(i) + Job.hi)
      BY <1>0, <2>1
    <3> QED BY <1>0, <1>1, <1>5, <1>10, <3>1, <3>2, <3>3, <3>4, WrittenNext
  <2>3. ASSUME NEW g \in Files, NEW m \in Ids, NEW k \in Cells, Blank(g, m, k),
               Start(m) + k >= file'[g].file_size
        PROVE  Blank(g, m, k)'
    <3>1. <<g, m>> # <<f, i>>
      <4>1. Start(i) \in Nat /\ file'[f].file_size \in Nat
        BY <1>1, <2>1, StartOrder DEF FileVars, Sizes
      <4>2. ~(g = f /\ m = i)
        BY <1>1, <2>1, <2>3, <4>1, Constants DEF Cells
      <4> QED BY <4>2
    <3> QED BY <1>8, <2>3, <3>1
  <2>4. OnFlash \subseteq OnFlash' /\ OnFlash' \subseteq OnFlash \cup {<<f, i>>}
    <3>1. ASSUME NEW g \in Files, NEW m \in Ids, flash[g][m] # Hole
          PROVE  flash'[g][m] # Hole
      BY <1>1, <1>10, <3>1
    <3>2. ASSUME NEW g \in Files, NEW m \in Ids, flash'[g][m] # Hole
          PROVE  flash[g][m] # Hole \/ <<g, m>> = <<f, i>>
      BY <1>1, <3>2
    <3> QED BY <3>1, <3>2 DEF OnFlash
  <2>5. Beyond' /\ PastEnd' /\ CutInv'
    BY <1>1, <2>1, <2>3, <2>4, GrownData
  <2>6. Overdraft'
    <3>1. PICK x : x = <<f, i>>
      OBVIOUS
    <3>2. n_free' >= 1
      BY <1>1, <1>10, <2>4, <3>1, OneMore DEF CacheInv
    <3>3. PICK S, buf, C, n : S = OnFlash' /\ buf = cache' /\ C = cut_in' /\ n = others'
      OBVIOUS
    <3>4. S \subseteq Files \X Ids /\ Room - Cardinality(S) - n >= 1 /\ n \in Nat
      <4>1. S \subseteq Files \X Ids
        BY <3>3 DEF OnFlash
      <4>2. n \in Nat
        BY <1>1, <3>3, Types DEF CacheInv
      <4>3. Room - Cardinality(S) - n >= 1
        BY <3>2, <3>3 DEF n_free
      <4> QED BY <4>1, <4>2, <4>3
    <3>5. Cardinality((S \cup DirtyIn(buf)) \ C) + n <= Room + NCaches - 1
      BY <3>4, RoomLeft
    <3>6. Claimed' = (S \cup DirtyIn(buf)) \ C
      BY <3>3 DEF Claimed
    <3> QED BY <3>3, <3>5, <3>6 DEF Overdraft
  <2>7. CacheType'
    <3>1. \A d \in Slots : cache'[d].object # None => cache'[d].chunk_id \in Ids
      BY <1>3, Types DEF CacheInv
    <3> QED BY <1>1, <2>1, <2>2, <3>1, Types, TypesNext DEF CacheInv
  <2> QED BY <1>6, <1>7, <2>2, <2>5, <2>6, <2>7 DEF CacheInv, DataInv
<1> QED BY <1>2, <1>9, <1>10

-----------------------------------------------------------------------------
(* Truncation.                                                             *)

\* The chunk in which n bytes end: those after it begin at n or later, and it is
\* cut in two unless n is a multiple of the chunk size.
LEMMA EndsFacts ==
  ASSUME NEW n \in Sizes
  PROVE  /\ Ends(n) \in Nat
         /\ \A i \in Ids : i > Ends(n) <=> Start(i) >= n
         /\ n % ChunkSize # 0 =>
              /\ Ends(n) \in Ids /\ Within(Ends(n), n)
              /\ n = Start(Ends(n)) + (n % ChunkSize)
              /\ n % ChunkSize \in 1 .. ChunkSize - 1
         /\ n % ChunkSize = 0 => \A i \in Ids : ~Within(i, n)
<1> DEFINE E == Ends(n)
           d == n \div ChunkSize
           r == n % ChunkSize
<1>1. n \in Nat /\ n <= MaxSize
  BY DEF Sizes
<1>2. E \in Nat /\ E * ChunkSize <= n + ChunkSize - 1 /\ n + ChunkSize - 1 < E * ChunkSize + ChunkSize
  <2>1. n + ChunkSize - 1 \in Nat
    BY <1>1, Constants
  <2> QED BY <2>1, Division, Constants DEF Ends
<1>3. d \in Nat /\ r \in 0 .. ChunkSize - 1 /\ n = d * ChunkSize + r
  BY <1>1, Constants
<1> HIDE DEF E, d, r
<1>4. ASSUME NEW a \in Nat, NEW b \in Nat, a < b
      PROVE  a * ChunkSize + ChunkSize <= b * ChunkSize
  <2>1. PICK z \in Nat : b = a + 1 + z
    <3>1. b - a - 1 \in Nat /\ b = a + 1 + (b - a - 1)
      BY <1>4
    <3> QED BY <3>1
  <2>2. b * ChunkSize = a * ChunkSize + ChunkSize + z * ChunkSize
    BY <2>1, Constants
  <2>3. z * ChunkSize \in Nat /\ a * ChunkSize \in Nat
    BY <2>1, Constants
  <2> QED BY <2>2, <2>3, Constants
<1>5. \A a \in Nat : a * ChunkSize \in Nat
  BY Constants
<1>6. ASSUME NEW i \in Ids
      PROVE  i - 1 \in Nat /\ Start(i) = (i - 1) * ChunkSize /\ Start(i) \in Nat
  BY Constants, StartOrder DEF Ids, Start
<1>7. ASSUME NEW i \in Ids
      PROVE  i > E <=> Start(i) >= n
  <2>1. CASE i > E
    <3>1. i - 1 = E \/ E < i - 1
      BY <1>2, <2>1, Constants DEF Ids
    <3>2. E * ChunkSize <= Start(i)
      <4>1. CASE i - 1 = E
        BY <1>5, <1>6, <4>1
      <4>2. CASE E < i - 1
        BY <1>2, <1>4, <1>5, <1>6, <4>2, Constants
      <4> QED BY <3>1, <4>1, <4>2
    <3>3. n <= E * ChunkSize
      BY <1>1, <1>2, <1>5, Constants
    <3> QED BY <1>1, <1>2, <1>5, <1>6, <2>1, <3>2, <3>3
  <2>2. CASE i <= E
    <3>1. i - 1 < E
      BY <1>2, <2>2, Constants DEF Ids
    <3>2. Start(i) + ChunkSize <= E * ChunkSize
      BY <1>2, <1>4, <1>6, <3>1
    <3>3. Start(i) < n
      BY <1>1, <1>2, <1>5, <1>6, <3>2, Constants
    <3> QED BY <1>1, <1>2, <1>6, <2>2, <3>3 DEF Ids
  <2> QED BY <1>2, <2>1, <2>2, Constants DEF Ids
<1>8. ASSUME r # 0
      PROVE  E \in Ids /\ Within(E, n) /\ n = Start(E) + r /\ r \in 1 .. ChunkSize - 1
  <2>1. r \in 1 .. ChunkSize - 1
    BY <1>3, <1>8, Constants
  <2>2. d < MaxId
    <3>1. d * ChunkSize < MaxId * ChunkSize
      BY <1>1, <1>3, <1>5, <2>1, Constants DEF MaxSize
    <3>2. ASSUME MaxId <= d PROVE FALSE
      <4>1. CASE MaxId = d
        BY <3>1, <4>1, <1>3, <1>5
      <4>2. CASE MaxId < d
        BY <3>1, <4>2, <1>3, <1>4, <1>5, Constants
      <4> QED BY <1>3, <3>2, <4>1, <4>2, Constants
    <3> QED BY <1>3, <3>2, Constants
  <2>3. d + 1 \in Ids /\ Start(d + 1) = d * ChunkSize
    BY <1>3, <2>2, Constants DEF Ids, Start
  <2>4. E = d + 1
    <3>1. ~(E <= d)
      <4> SUFFICES ASSUME E <= d PROVE FALSE
        OBVIOUS
      <4>1. E * ChunkSize <= d * ChunkSize
        <5>1. CASE E = d
          BY <1>3, <1>5, <5>1
        <5>2. CASE E < d
          BY <1>2, <1>3, <1>4, <1>5, <5>2, Constants
        <5> QED BY <1>2, <1>3, <5>1, <5>2
      <4> QED BY <1>1, <1>2, <1>3, <1>5, <2>1, <4>1, Constants
    <3>2. ~(d + 1 < E)
      <4> SUFFICES ASSUME d + 1 < E PROVE FALSE
        OBVIOUS
      <4>1. (d + 1) * ChunkSize + ChunkSize <= E * ChunkSize
        BY <1>2, <1>3, <1>4
      <4>2. (d + 1) * ChunkSize = d * ChunkSize + ChunkSize
        BY <1>3, Constants
      <4> QED BY <1>1, <1>2, <1>3, <1>5, <2>1, <4>1, <4>2, Constants
    <3> QED BY <1>2, <1>3, <3>1, <3>2
  <2>5. n = Start(E) + r
    BY <1>3, <2>3, <2>4
  <2> QED BY <2>1, <2>3, <2>4, <2>5, <1>5, <1>3, Constants DEF Within
<1>9. ASSUME r = 0, NEW i \in Ids, Within(i, n)
      PROVE  FALSE
  <2>1. n = d * ChunkSize
    BY <1>3, <1>5, <1>9
  <2>2. (i - 1) * ChunkSize < d * ChunkSize /\ d * ChunkSize < (i - 1) * ChunkSize + ChunkSize
    BY <1>6, <1>9, <2>1 DEF Within
  <2>3. CASE i - 1 < d
    BY <1>3, <1>4, <1>5, <1>6, <2>2, <2>3, Constants
  <2>4. CASE d <= i - 1
    <3>1. CASE d = i - 1
      BY <1>5, <1>6, <2>2, <3>1
    <3>2. CASE d < i - 1
      BY <1>3, <1>4, <1>5, <1>6, <2>2, <3>2, Constants
    <3> QED BY <1>3, <1>6, <1>9, <2>4, <3>1, <3>2
  <2>5. i - 1 \in Nat /\ d \in Nat
    BY <1>3, <1>6, <1>9
  <2>6. i - 1 < d \/ d <= i - 1
    BY <2>5
  <2> QED BY <2>3, <2>4, <2>6
<1> QED BY <1>2, <1>7, <1>8, <1>9 DEF E, r

\* What a truncation of file f to n bytes may have done.
DownStep(f, n, ok) ==
    /\ f \in Files /\ n \in Sizes
    /\ n <= file[f].file_size /\ Shorter(n, file[f].file_size)
    /\ CutBuffers(f, n)
    /\ cache' = cache /\ others' = others
    /\ file' \in [Files -> FileVars]
    /\ file'[f].file_size = n
    /\ \A g \in Files \ {f} : file'[g].file_size = file[g].file_size
    /\ faults' \in {faults, faults + 1}
    /\ ~ok => faults' = faults + 1
    /\ flash' \in [Files -> [Ids -> Data \cup {Hole}]]
    /\ \A g \in Files \ {f}, i \in Ids : flash'[g][i] = flash[g][i]
    \* the chunks beyond
    /\ \A i \in Ids : n <= Start(i) =>
          /\ DataOn(flash', f, i) = Zeros
          /\ flash'[f][i] # Hole => flash[f][i] # Hole /\ file[f].file_size <= Start(i)
    \* those before
    /\ \A i \in Ids : Start(i) < n /\ (~ok \/ ~Within(i, n)) => flash'[f][i] = flash[f][i]
    \* the one in which it ends
    /\ \A i \in Ids : Within(i, n) /\ ok =>
          /\ flash'[f][i] # Hole
          /\ \A k \in Cells :
                DataOn(flash', f, i)[k] =
                    IF Start(i) + k < n THEN DataOn(flash, f, i)[k] ELSE Zero
    /\ doubt' \subseteq Files \X Ids
    /\ \A x \in doubt' \ doubt : faults' = faults + 1
    /\ \A i \in Ids : Within(i, n) /\ ~ok => <<f, i>> \in doubt'
    /\ \A g \in Files, i \in Ids : <<g, i>> \in doubt \ doubt' => g = f /\ (n <= Start(i) \/ Within(i, n))
    /\ cut_in' \subseteq Files \X Ids
    /\ \A g \in Files, i \in Ids : <<g, i>> \in cut_in' =>
          \/ <<g, i>> \in cut_in /\ (g # f \/ Start(i) < n)
          \/ g = f /\ Within(i, n) /\ ok
    /\ \A g \in Files, i \in Ids : <<g, i>> \in cut_in \ cut_in' => g = f /\ n <= Start(i)
    /\ \A i \in Ids : Within(i, n) /\ ok /\ flash[f][i] = Hole => <<f, i>> \in cut_in'

\* yaffs_resize_file_down() does no more than DownStep says.
LEMMA ResizeDownFacts ==
  ASSUME CacheInv, ResizeDown, NEW f, NEW n, f = op.file, n = Job.size
  PROVE  /\ At("down") /\ NextJob
         /\ \E ok \in BOOLEAN : DownStep(f, n, ok)
<1>1. At("down") /\ NextJob /\ cache' = cache /\ others' = others
  BY DEF ResizeDown
<1>2. /\ f \in Files /\ n \in Sizes /\ n <= file[f].file_size
      /\ Shorter(n, file[f].file_size) /\ CutBuffers(f, n)
  BY <1>1, JobAt, JobKinds DEF CacheInv, CallInv, DownInv, SizeNow
<1>0. PICK last, partial, z :
        last = Ends(n) /\ partial = n % ChunkSize /\ z = file[f].file_size
  OBVIOUS
<1> DEFINE pruned == (last + 1) .. Ends(z)
           left == [i \in Ids |-> IF i \in pruned THEN Hole ELSE flash[f][i]]
           gone == {f} \X pruned
<1>3. PICK ok \in BOOLEAN :
        /\ IF partial = 0 THEN ok /\ UNCHANGED faults ELSE Fault(ok)
        /\ flash' = [flash EXCEPT ![f] =
                        IF partial = 0 \/ ~ok THEN left
                        ELSE [left EXCEPT ![last] = Padded(f, last, partial)]]
        /\ doubt' = (IF partial = 0 THEN doubt ELSE RefusedDoubt(f, last, ok)) \ gone
        /\ cut_in' = (cut_in \ gone) \cup
                (IF partial # 0 /\ ok /\ flash[f][last] = Hole
                 THEN {<<f, last>>} ELSE {})
        /\ file' = [file EXCEPT ![f].file_size = n, ![f].stored_size = n]
  BY <1>0 DEF ResizeDown
<1>4. z \in Sizes /\ n \in Nat /\ z \in Nat /\ n <= z
  BY <1>0, <1>2, Types DEF CacheInv, FileVars, Sizes
<1>5. /\ last \in Nat
      /\ \A i \in Ids : i > last <=> Start(i) >= n
      /\ partial # 0 => /\ last \in Ids /\ Within(last, n)
                        /\ n = Start(last) + partial
                        /\ partial \in 1 .. ChunkSize - 1
      /\ partial = 0 => \A i \in Ids : ~Within(i, n)
  <2>1. /\ Ends(n) \in Nat
        /\ \A i \in Ids : i > Ends(n) <=> Start(i) >= n
        /\ n % ChunkSize # 0 =>
             /\ Ends(n) \in Ids /\ Within(Ends(n), n)
             /\ n = Start(Ends(n)) + (n % ChunkSize)
             /\ n % ChunkSize \in 1 .. ChunkSize - 1
        /\ n % ChunkSize = 0 => \A i \in Ids : ~Within(i, n)
    BY <1>2, EndsFacts
  <2>2. last = Ends(n) /\ partial = n % ChunkSize
    BY <1>0
  <2> QED BY <2>1, <2>2
<1>6. Ends(z) \in Nat /\ \A i \in Ids : i > Ends(z) <=> Start(i) >= z
  BY <1>4, EndsFacts
<1>7. \A i \in Ids : i \in pruned <=> n <= Start(i) /\ Start(i) < z
  <2> SUFFICES ASSUME NEW i \in Ids PROVE i \in pruned <=> n <= Start(i) /\ Start(i) < z
    OBVIOUS
  <2>1. Start(i) \in Nat
    BY StartOrder
  <2>2. i \in pruned <=> i > last /\ ~(i > Ends(z))
    BY <1>5, <1>6 DEF Ids
  <2> QED BY <1>4, <1>5, <1>6, <2>1, <2>2
<1>8. \A i \in Ids : Within(i, n) <=> partial # 0 /\ i = last
  <2> SUFFICES ASSUME NEW i \in Ids, Within(i, n), partial # 0 PROVE i = last
    BY <1>5
  <2> QED BY <1>4, <1>5, StartOrder, Constants DEF Within
<1>9. gone = {f} \X pruned
  OBVIOUS
<1>10. \A g \in Files, i \in Ids : <<g, i>> \in gone <=> g = f /\ n <= Start(i) /\ Start(i) < z
  BY <1>7, <1>9
<1>11. left \in [Ids -> Data \cup {Hole}]
       /\ \A i \in Ids : left[i] = IF n <= Start(i) /\ Start(i) < z THEN Hole ELSE flash[f][i]
  BY <1>2, <1>7, Types DEF CacheInv
<1> HIDE DEF pruned, left, gone
<1> DEFINE pad == Padded(f, last, partial)
<1>12. partial # 0 => /\ pad \in Data
                      /\ \A k \in Cells : pad[k] = IF Start(last) + k < n
                                                   THEN DataOn(flash, f, last)[k] ELSE Zero
  <2> SUFFICES ASSUME partial # 0
               PROVE  /\ pad \in Data
                      /\ \A k \in Cells : pad[k] = IF Start(last) + k < n
                                                   THEN DataOn(flash, f, last)[k] ELSE Zero
    OBVIOUS
  <2>1. DataOn(flash, f, last) \in Data
    BY <1>2, <1>5, DataTyped, Types DEF CacheInv
  <2>2. pad = [k \in Cells |-> IF k < partial THEN DataOn(flash, f, last)[k] ELSE Zero]
    BY DEF Padded, rd_data_obj, Cells
  <2>3. Start(last) \in Nat
    BY <1>5, StartOrder
  <2>4. \A k \in Cells : Start(last) + k < n <=> k < partial
    BY <1>5, <2>3 DEF Cells
  <2> HIDE DEF pad
  <2> QED BY <2>1, <2>2, <2>4, Constants DEF Data, Cells
<1> HIDE DEF pad
<1>13. /\ flash' \in [Files -> [Ids -> Data \cup {Hole}]]
       /\ \A g \in Files \ {f}, i \in Ids : flash'[g][i] = flash[g][i]
       /\ \A i \in Ids : flash'[f][i] = IF partial # 0 /\ ok /\ i = last THEN pad ELSE left[i]
  <2> DEFINE row == IF partial = 0 \/ ~ok THEN left ELSE [left EXCEPT ![last] = pad]
  <2>1. row \in [Ids -> Data \cup {Hole}]
        /\ \A i \in Ids : row[i] = IF partial # 0 /\ ok /\ i = last THEN pad ELSE left[i]
    BY <1>5, <1>11, <1>12
  <2>2. flash' = [flash EXCEPT ![f] = row]
    BY <1>3 DEF pad
  <2> HIDE DEF row
  <2> QED BY <1>2, <2>1, <2>2, Types DEF CacheInv
<1>14. /\ file' \in [Files -> FileVars] /\ file'[f].file_size = n
       /\ \A g \in Files \ {f} : file'[g].file_size = file[g].file_size
  <2>1. f \in Files /\ n \in Sizes /\ file \in [Files -> FileVars]
    BY <1>2, Types DEF CacheInv
  <2>2. file' = [file EXCEPT ![f].file_size = n, ![f].stored_size = n]
    BY <1>3
  <2> QED BY <2>1, <2>2 DEF FileVars
<1>15. faults' \in {faults, faults + 1} /\ (~ok => partial # 0 /\ faults' = faults + 1)
  BY <1>3 DEF Fault
<1>16. ASSUME NEW i \in Ids, n <= Start(i)
       PROVE  /\ DataOn(flash', f, i) = Zeros
              /\ flash'[f][i] # Hole => flash[f][i] # Hole /\ z <= Start(i)
  <2>1. Start(i) \in Nat /\ ~Within(i, n)
    BY <1>4, <1>16, StartOrder DEF Within
  <2>2. flash'[f][i] = left[i]
    BY <1>8, <1>13, <2>1
  <2>3. CASE Start(i) < z
    BY <1>11, <1>16, <2>2, <2>3 DEF DataOn
  <2>4. CASE ~(Start(i) < z)
    <3>1. flash'[f][i] = flash[f][i]
      BY <1>11, <2>2, <2>4
    <3>2. z <= Start(i)
      BY <1>4, <2>1, <2>4
    <3>3. \A k \in Cells : DataOn(flash, f, i)[k] = Zero
      BY <1>0, <1>2, <3>2 DEF CacheInv, DataInv, Beyond, Blank
    <3>4. DataOn(flash, f, i) \in Data
      BY <1>2, DataTyped, Types DEF CacheInv
    <3>5. DataOn(flash, f, i) = Zeros
      BY <3>3, <3>4 DEF Data, Zeros, Cells
    <3> QED BY <3>1, <3>2, <3>5 DEF DataOn
  <2> QED BY <2>3, <2>4
<1>17. ASSUME NEW i \in Ids, Start(i) < n, ~ok \/ ~Within(i, n)
       PROVE  flash'[f][i] = flash[f][i]
  <2>1. Start(i) \in Nat
    BY StartOrder
  <2> QED BY <1>4, <1>8, <1>11, <1>13, <1>17, <2>1
<1>18. ASSUME NEW i \in Ids, Within(i, n), ok
       PROVE  /\ flash'[f][i] # Hole
              /\ \A k \in Cells :
                    DataOn(flash', f, i)[k] =
                        IF Start(i) + k < n THEN DataOn(flash, f, i)[k] ELSE Zero
  <2>1. partial # 0 /\ i = last
    BY <1>8, <1>18
  <2>2. flash'[f][i] = pad /\ pad # Hole
    BY <1>12, <1>13, <1>18, <2>1, Constants
  <2> QED BY <1>12, <2>1, <2>2 DEF DataOn
<1>19. /\ doubt' \subseteq Files \X Ids
       /\ \A x \in doubt' \ doubt : faults' = faults + 1
       /\ \A i \in Ids : Within(i, n) /\ ~ok => <<f, i>> \in doubt'
       /\ \A g \in Files, i \in Ids :
            <<g, i>> \in doubt \ doubt' => g = f /\ (n <= Start(i) \/ Within(i, n))
  <2>1. doubt \subseteq Files \X Ids
    BY Types DEF CacheInv
  <2>2. CASE partial = 0
    <3>1. doubt' = doubt \ gone /\ \A i \in Ids : ~Within(i, n)
      BY <1>3, <1>5, <2>2
    <3> QED BY <1>10, <2>1, <3>1
  <2>3. CASE partial # 0 /\ ok
    <3>1. doubt' = (doubt \ {<<f, last>>}) \ gone /\ last \in Ids /\ Within(last, n)
      BY <1>3, <1>5, <2>3 DEF RefusedDoubt
    <3> QED BY <1>10, <2>1, <2>3, <3>1
  <2>4. CASE partial # 0 /\ ~ok
    <3>1. doubt' = (doubt \cup {<<f, last>>}) \ gone /\ last \in Ids /\ Within(last, n)
      BY <1>3, <1>5, <2>4 DEF RefusedDoubt
    <3>2. <<f, last>> \notin gone
      <4>1. Start(last) \in Nat
        BY <3>1, StartOrder
      <4> QED BY <1>2, <1>4, <1>10, <3>1, <4>1 DEF Within
    <3>3. faults' = faults + 1
      BY <1>15, <2>4
    <3> QED BY <1>2, <1>8, <1>10, <2>1, <2>4, <3>1, <3>2, <3>3
  <2> QED BY <2>2, <2>3, <2>4
<1>20. /\ cut_in' \subseteq Files \X Ids
       /\ \A g \in Files, i \in Ids : <<g, i>> \in cut_in' =>
             \/ <<g, i>> \in cut_in /\ (g # f \/ Start(i) < n)
             \/ g = f /\ Within(i, n) /\ ok
       /\ \A g \in Files, i \in Ids : <<g, i>> \in cut_in \ cut_in' => g = f /\ n <= Start(i)
       /\ \A i \in Ids : Within(i, n) /\ ok /\ flash[f][i] = Hole => <<f, i>> \in cut_in'
  <2>1. cut_in \subseteq Files \X Ids /\ \A x \in cut_in : Start(x[2]) < file[x[1]].file_size
    BY Types DEF CacheInv, DataInv, CutInv
  <2>2. PICK new : new = IF partial # 0 /\ ok /\ flash[f][last] = Hole THEN {<<f, last>>} ELSE {}
    OBVIOUS
  <2>3. cut_in' = (cut_in \ gone) \cup new
    BY <1>3, <2>2
  <2>4. new \subseteq Files \X Ids /\ \A g \in Files, i \in Ids :
           <<g, i>> \in new <=> g = f /\ Within(i, n) /\ ok /\ flash[f][i] = Hole
    BY <1>2, <1>5, <1>8, <2>2
  <2>5. \A i \in Ids : <<f, i>> \in cut_in /\ <<f, i>> \notin gone => Start(i) < n
    <3> SUFFICES ASSUME NEW i \in Ids, <<f, i>> \in cut_in, <<f, i>> \notin gone
                 PROVE  Start(i) < n
      OBVIOUS
    <3>1. Start(i) < z /\ Start(i) \in Nat
      BY <1>0, <2>1, StartOrder
    <3> QED BY <1>2, <1>4, <1>10, <3>1
  <2>6. cut_in' \subseteq Files \X Ids
    BY <2>1, <2>3, <2>4
  <2>7. \A g \in Files, i \in Ids : <<g, i>> \in cut_in' =>
             \/ <<g, i>> \in cut_in /\ (g # f \/ Start(i) < n)
             \/ g = f /\ Within(i, n) /\ ok
    BY <2>3, <2>4, <2>5
  <2>8. \A g \in Files, i \in Ids : <<g, i>> \in cut_in \ cut_in' => g = f /\ n <= Start(i)
    BY <1>10, <2>3
  <2>9. \A i \in Ids : Within(i, n) /\ ok /\ flash[f][i] = Hole => <<f, i>> \in cut_in'
    BY <1>2, <2>3, <2>4
  <2> QED BY <2>6, <2>7, <2>8, <2>9
<1>21. DownStep(f, n, ok)
  BY <1>0, <1>1, <1>2, <1>13, <1>14, <1>15, <1>16, <1>17, <1>18, <1>19, <1>20 DEF DownStep
<1> QED BY <1>1, <1>21

\* Beyond the new end nothing is left but zeros.
LEMMA DownBlank ==
  ASSUME CacheInv, NEW f, NEW n, NEW ok \in BOOLEAN, DownStep(f, n, ok)
  PROVE  Beyond' /\ PastEnd'
<1>1. /\ f \in Files /\ n \in Sizes /\ cache' = cache
      /\ \A g \in Files \ {f} : file'[g].file_size = file[g].file_size
      /\ \A g \in Files \ {f}, i \in Ids : flash'[g][i] = flash[g][i]
      /\ file'[f].file_size = n
  BY DEF DownStep
<1>2. \A g \in Files \ {f}, i \in Ids, k \in Cells : Blank(g, i, k) => Blank(g, i, k)'
  BY <1>1 DEF Blank, SlotsOf, DataOn
<1>3. ASSUME NEW i \in Ids, n <= Start(i), NEW k \in Cells
      PROVE  Blank(f, i, k)'
  <2>1. DataOn(flash', f, i) = Zeros
    BY <1>3 DEF DownStep
  <2>2. \A c \in SlotsOf(f, i) : cache[c].data = Zeros
    BY <1>3 DEF DownStep, CutBuffers, SlotsOf
  <2>3. Zeros[k] = Zero
    BY DEF Zeros, Cells
  <2> QED BY <1>1, <2>1, <2>2, <2>3 DEF Blank, SlotsOf
<1>4. ASSUME NEW i \in Ids, Within(i, n), ok, NEW k \in Cells, n <= Start(i) + k
      PROVE  Blank(f, i, k)'
  <2>1. DataOn(flash', f, i)[k] = Zero
    <3>1. Start(i) \in Nat
      BY StartOrder
    <3>2. ~(Start(i) + k < n)
      BY <1>1, <1>4, <3>1 DEF Sizes, Cells
    <3> QED BY <1>4, <3>2 DEF DownStep
  <2>2. \A c \in SlotsOf(f, i) : cache[c].data[k] = Zero
    BY <1>4 DEF DownStep, CutBuffers, SlotsOf
  <2> QED BY <1>1, <2>1, <2>2 DEF Blank, SlotsOf
<1>5. Beyond'
  <2> SUFFICES ASSUME NEW g \in Files, NEW i \in Ids, Start(i) >= file'[g].file_size, NEW k \in Cells
               PROVE  Blank(g, i, k)'
    BY DEF Beyond
  <2>1. CASE g = f
    <3>1. n <= Start(i)
      BY <1>1, <2>1, StartOrder DEF Sizes
    <3> QED BY <1>3, <2>1, <3>1
  <2>2. CASE g # f
    BY <1>1, <1>2, <2>2 DEF CacheInv, DataInv, Beyond
  <2> QED BY <2>1, <2>2
<1>6. PastEnd'
  <2> SUFFICES ASSUME faults' = 0, NEW g \in Files, NEW i \in Ids, NEW k \in Cells,
                      Start(i) + k >= file'[g].file_size
               PROVE  Blank(g, i, k)'
    BY DEF PastEnd
  <2>1. faults = 0 /\ ok
    BY Types DEF CacheInv, DownStep
  <2>2. CASE g = f
    <3>1. Start(i) \in Nat /\ n \in Nat /\ k \in Nat /\ k < ChunkSize /\ n <= Start(i) + k
      BY <1>1, <2>2, StartOrder, Constants DEF Sizes, Cells
    <3>2. n <= Start(i) \/ Within(i, n)
      BY <3>1, Constants DEF Within
    <3> QED BY <1>3, <1>4, <2>1, <2>2, <3>1, <3>2
  <2>3. CASE g # f
    BY <1>1, <1>2, <2>1, <2>3 DEF CacheInv, DataInv, PastEnd
  <2> QED BY <2>2, <2>3
<1> QED BY <1>5, <1>6

\* A clean buffer is still what flash holds.
LEMMA DownClean ==
  ASSUME CacheInv, NEW f, NEW n, NEW ok \in BOOLEAN, DownStep(f, n, ok)
  PROVE  CleanInv'
<1> SUFFICES ASSUME NEW c \in Slots, cache'[c].object # None, ~cache'[c].dirty
             PROVE  \/ cache'[c].data = DataOn(flash', cache'[c].object, cache'[c].chunk_id)
                    \/ <<cache'[c].object, cache'[c].chunk_id>> \in doubt'
  BY DEF CleanInv
<1>1. cache' = cache /\ n \in Sizes
  BY DEF DownStep
<1>2. PICK g, i : g = cache[c].object /\ i = cache[c].chunk_id
  OBVIOUS
<1>3. g \in Files /\ i \in Ids /\ c \in SlotsOf(g, i)
  BY <1>1, <1>2, Types DEF CacheInv, SlotsOf
<1>4. cache[c].data = DataOn(flash, g, i) \/ <<g, i>> \in doubt
  BY <1>1, <1>2 DEF CacheInv, DataInv, CleanInv
<1>5. CASE g = f /\ n <= Start(i)
  <2>1. DataOn(flash', f, i) = Zeros
    BY <1>3, <1>5 DEF DownStep
  <2>2. cache[c].data = Zeros
    BY <1>3, <1>5 DEF DownStep, CutBuffers
  <2> QED BY <1>1, <1>2, <1>5, <2>1, <2>2
<1>6. CASE g = f /\ Within(i, n)
  <2>1. cache[c].dirty
    BY <1>3, <1>6 DEF DownStep, CutBuffers
  <2> QED BY <1>1, <2>1
<1>7. CASE g # f \/ (Start(i) < n /\ ~Within(i, n))
  <2>0. n \in Nat /\ Start(i) \in Nat
    BY <1>1, <1>3, StartOrder DEF Sizes
  <2>1. flash'[g][i] = flash[g][i]
    BY <1>3, <1>7 DEF DownStep
  <2>2. DataOn(flash', g, i) = DataOn(flash, g, i)
    BY <2>1 DEF DataOn
  <2>3. <<g, i>> \in doubt => <<g, i>> \in doubt'
    BY <1>3, <1>7, <2>0 DEF DownStep
  <2> QED BY <1>1, <1>2, <1>4, <2>2, <2>3
<1>8. n <= Start(i) \/ Start(i) < n
  <2>1. n \in Nat /\ Start(i) \in Nat
    BY <1>1, <1>3, StartOrder DEF Sizes
  <2> QED BY <2>1
<1> QED BY <1>5, <1>6, <1>7, <1>8

\* A truncation claims no chunk but the one it may make out of a hole.
LEMMA DownCut ==
  ASSUME CacheInv, NEW f, NEW n, NEW ok \in BOOLEAN, DownStep(f, n, ok)
  PROVE  CutInv' /\ Overdraft'
<1>1. /\ f \in Files /\ n \in Sizes /\ cache' = cache /\ others' = others
      /\ \A g \in Files \ {f} : file'[g].file_size = file[g].file_size
      /\ \A g \in Files \ {f}, i \in Ids : flash'[g][i] = flash[g][i]
      /\ file'[f].file_size = n /\ cut_in' \subseteq Files \X Ids
  BY DEF DownStep
<1>2. /\ cut_in \subseteq Files \X Ids
      /\ \A g \in Files, i \in Ids : <<g, i>> \in cut_in => flash[g][i] # Hole /\ Start(i) < file[g].file_size
  BY Types DEF CacheInv, DataInv, CutInv, OnFlash
<1>3. ASSUME NEW g \in Files, NEW i \in Ids, <<g, i>> \in cut_in'
      PROVE  flash'[g][i] # Hole /\ Start(i) < file'[g].file_size
  <2>1. CASE g = f /\ Within(i, n) /\ ok
    BY <1>1, <2>1 DEF DownStep, Within
  <2>2. CASE <<g, i>> \in cut_in /\ g # f
    BY <1>1, <1>2, <2>2
  <2>3. CASE <<g, i>> \in cut_in /\ g = f /\ Start(i) < n /\ ~(Within(i, n) /\ ok)
    <3>1. flash'[f][i] = flash[f][i]
      BY <2>3 DEF DownStep
    <3> QED BY <1>1, <1>2, <2>3, <3>1
  <2>4. \/ <<g, i>> \in cut_in /\ (g # f \/ Start(i) < n)
        \/ g = f /\ Within(i, n) /\ ok
    BY <1>3 DEF DownStep
  <2> QED BY <2>1, <2>2, <2>3, <2>4
<1>4. CutInv'
  <2>1. cut_in' \subseteq OnFlash'
    BY <1>1, <1>3 DEF OnFlash
  <2>2. \A x \in cut_in' : Start(x[2]) < file'[x[1]].file_size
    BY <1>1, <1>3
  <2> QED BY <2>1, <2>2 DEF CutInv
<1>5. ASSUME NEW g \in Files, NEW i \in Ids, <<g, i>> \notin cut_in',
             flash'[g][i] # Hole \/ \E c \in Slots : c \in SlotsOf(g, i) /\ cache[c].dirty
      PROVE  <<g, i>> \notin cut_in
  <2> SUFFICES ASSUME <<g, i>> \in cut_in PROVE FALSE
    OBVIOUS
  <2>1. g = f /\ n <= Start(i)
    BY <1>5 DEF DownStep
  <2>2. CASE flash'[g][i] # Hole
    <3>1. file[f].file_size <= Start(i) /\ Start(i) < file[f].file_size
      BY <1>2, <2>1, <2>2 DEF DownStep
    <3>2. file[f].file_size \in Nat /\ Start(i) \in Nat
      BY <1>1, Types, StartOrder DEF CacheInv, FileVars, Sizes
    <3> QED BY <3>1, <3>2
  <2>3. CASE \E c \in Slots : c \in SlotsOf(g, i) /\ cache[c].dirty
    BY <2>1, <2>3 DEF DownStep, CutBuffers
  <2> QED BY <1>5, <2>2, <2>3
<1>6. ASSUME NEW g \in Files, NEW i \in Ids, <<g, i>> \notin cut_in', flash'[g][i] # Hole
      PROVE  flash[g][i] # Hole
  <2>1. CASE g # f
    BY <1>1, <1>6, <2>1
  <2>2. CASE g = f /\ n <= Start(i)
    BY <1>6, <2>2 DEF DownStep
  <2>3. CASE g = f /\ Start(i) < n
    BY <1>6, <2>3 DEF DownStep
  <2>4. n <= Start(i) \/ Start(i) < n
    BY <1>1, StartOrder DEF Sizes
  <2> QED BY <2>1, <2>2, <2>3, <2>4
<1>7. \A x \in DirtyIn(cache) : \E c \in Slots : x = <<cache[c].object, cache[c].chunk_id>>
         /\ cache[c].dirty /\ c \in SlotsOf(x[1], x[2])
  BY DEF DirtyIn, SlotsOf
<1>8. Claimed' \subseteq Claimed
  <2> SUFFICES ASSUME NEW x \in Claimed' PROVE x \in Claimed
    OBVIOUS
  <2>1. x \notin cut_in' /\ (x \in OnFlash' \/ x \in DirtyIn(cache))
    BY <1>1 DEF Claimed
  <2>2. PICK g \in Files, i \in Ids : x = <<g, i>>
    <3>1. x \in Files \X Ids
      BY <2>1, ClaimedTyped DEF CacheInv, OnFlash
    <3> QED BY <3>1
  <2>3. CASE x \in OnFlash'
    <3>1. flash'[g][i] # Hole
      BY <2>2, <2>3 DEF OnFlash
    <3>2. flash[g][i] # Hole /\ x \notin cut_in
      BY <1>5, <1>6, <2>1, <2>2, <3>1
    <3> QED BY <2>2, <3>2 DEF Claimed, OnFlash
  <2>4. CASE x \in DirtyIn(cache)
    <3>1. \E c \in Slots : c \in SlotsOf(g, i) /\ cache[c].dirty
      BY <1>7, <2>2, <2>4
    <3>2. x \notin cut_in
      BY <1>5, <2>1, <2>2, <3>1
    <3> QED BY <2>4, <3>2 DEF Claimed
  <2> QED BY <2>1, <2>3, <2>4
<1> QED BY <1>1, <1>4, <1>8, FewerClaimed, Types DEF CacheInv, DataInv

\* yaffs_resize_file_down() keeps the invariant.
LEMMA ResizeDownKeeps ==
  ASSUME CacheInv, ResizeDown
  PROVE  CacheInv'
<1>0. PICK f, n, t : f = op.file /\ n = Job.size /\ t = Tail(op.jobs)
  OBVIOUS
<1>1. At("down") /\ NextJob
  BY <1>0, ResizeDownFacts
<1>2. PICK ok \in BOOLEAN : DownStep(f, n, ok)
  BY <1>0, ResizeDownFacts
<1>3. /\ f \in Files /\ t \in Seq(JobTypes) /\ t # <<>> /\ Head(t) = HdrJob
      /\ Finals(Tail(t), n)
  <2>1. op.jobs # <<>>
    BY <1>1 DEF At
  <2> QED BY <1>0, <1>1, <2>1, JobAt DEF CacheInv, CallInv
<1>4. /\ op' \in [file : Files \cup {None}, jobs : Seq(JobTypes)]
      /\ op'.jobs = t /\ op'.file = f
  <2>1. Continue(t)
    BY <1>0, <1>1 DEF NextJob
  <2> QED BY <1>0, <1>3, <2>1, Continued DEF CacheInv
<1>5. Beyond' /\ PastEnd' /\ CleanInv' /\ CutInv' /\ Overdraft'
  BY <1>2, DownBlank, DownClean, DownCut
<1>6. /\ cache' = cache /\ others' = others
      /\ file' \in [Files -> FileVars] /\ file'[f].file_size = n
      /\ faults' \in {faults, faults + 1}
      /\ flash' \in [Files -> [Ids -> Data \cup {Hole}]]
      /\ doubt' \subseteq Files \X Ids /\ cut_in' \subseteq Files \X Ids
  BY <1>2 DEF DownStep
<1>7. OneBuffer'
  BY <1>6 DEF CacheInv, DataInv, OneBuffer
<1>8. CacheType'
  <2>1. faults' \in Nat
    BY <1>6, Types DEF CacheInv
  <2> QED BY <1>4, <1>6, <2>1, Types, TypesNext DEF CacheInv
<1>9. CallInv'
  <2>1. SizeNow' = n
    BY <1>4, <1>6 DEF SizeNow
  <2>2. Plain(HdrJob) /\ Queue(HdrJob, Tail(t), f, n)
    BY <1>3, JobsTyped DEF Plain, Queue
  <2> QED BY <1>3, <1>4, <2>1, <2>2, PlainNext
<1> QED BY <1>5, <1>7, <1>8, <1>9 DEF CacheInv, DataInv

-----------------------------------------------------------------------------
(* The invariant.                                                          *)

\* The invariant holds on an empty device.
LEMMA CacheInit ==
  ASSUME Init
  PROVE  CacheInv
<1> USE DEF Init
<1>1. CacheType
  <2>1. cache \in [Slots -> Buffers] /\ \A c \in Slots : cache[c].object = None
    BY UnusedBuffer
  <2>2. flash \in [Files -> [Ids -> Data \cup {Hole}]] /\ file \in [Files -> FileVars]
    BY Constants DEF FileVars, Sizes
  <2>3. op \in [file : Files \cup {None}, jobs : Seq(JobTypes)]
    BY DEF Idle
  <2> QED BY <2>1, <2>2, <2>3 DEF CacheType, TypeOK, Buffers, FileVars, Sizes
<1>2. \A c \in Slots : cache[c].object = None /\ ~cache[c].dirty
  BY DEF Unused
<1>3. \A f \in Files, i \in Ids, k \in Cells : Blank(f, i, k)
  <2>1. \A f \in Files, i \in Ids : SlotsOf(f, i) = {}
    BY <1>2, Constants DEF SlotsOf
  <2>2. \A f \in Files, i \in Ids : DataOn(flash, f, i) = Zeros
    BY DEF DataOn
  <2>3. \A k \in Cells : Zeros[k] = Zero
    BY DEF Zeros, Cells
  <2> QED BY <2>1, <2>2, <2>3 DEF Blank
<1>4. OneBuffer /\ Beyond /\ PastEnd /\ CleanInv /\ CutInv
  BY <1>2, <1>3 DEF OneBuffer, Beyond, PastEnd, CleanInv, CutInv
<1>5. Overdraft
  <2>1. OnFlash = {}
    BY DEF OnFlash
  <2>2. DirtyIn(cache) = {}
    BY <1>2 DEF DirtyIn
  <2>3. Claimed = {}
    BY <2>1, <2>2 DEF Claimed
  <2> QED BY <2>3, FS_EmptySet, Constants DEF Overdraft
<1>6. CallInv
  <2>1. op.jobs = <<>>
    BY DEF Idle
  <2> QED BY <2>1 DEF CallInv, QueueInv, FillInv, FillWriteInv, LoadedInv, DownInv, At
<1> QED BY <1>1, <1>4, <1>5, <1>6 DEF CacheInv, DataInv

\* A step that changes nothing keeps the invariant.
LEMMA StutterKeeps ==
  ASSUME CacheInv, UNCHANGED vars
  PROVE  CacheInv'
<1>1. UNCHANGED <<cache, flash, file, others, op, doubt, cut_in, faults>>
  BY DEF vars
<1>2. Still
  BY <1>1, Types DEF Still, CacheInv
<1>3. CacheType' /\ DataInv'
  BY <1>1, <1>2, StillType, StillData, Types DEF CacheInv
<1>4. CallInv'
  <2>1. \A f, i, k : Blank(f, i, k)' = Blank(f, i, k)
    BY <1>1 DEF Blank, SlotsOf
  <2>2. \A f, b, z : HoleInv(f, b, z)' = HoleInv(f, b, z)
    BY <1>1, <2>1 DEF HoleInv, SlotsOf
  <2>3. \A f, b : CutBuffers(f, b)' = CutBuffers(f, b)
    BY <1>1 DEF CutBuffers, SlotsOf
  <2>4. /\ op' = op /\ SizeNow' = SizeNow /\ n_free' = n_free
        /\ check_alloc_available(1)' = check_alloc_available(1)
    BY <1>1 DEF SizeNow, n_free, OnFlash, check_alloc_available
  <2>5. QueueInv'
    BY <2>4 DEF CacheInv, CallInv, QueueInv, Job
  <2>6. FillInv'
    BY <2>2, <2>4 DEF CacheInv, CallInv, FillInv, At, Job
  <2>7. FillWriteInv'
    BY <2>2, <2>4 DEF CacheInv, CallInv, FillWriteInv, At, Job
  <2>8. LoadedInv'
    BY <1>1, <2>4 DEF CacheInv, CallInv, LoadedInv, At, Job, Cached, SlotsOf
  <2>9. DownInv'
    BY <2>3, <2>4 DEF CacheInv, CallInv, DownInv, At, Job
  <2> QED BY <2>5, <2>6, <2>7, <2>8, <2>9 DEF CallInv
<1> QED BY <1>3, <1>4 DEF CacheInv

\* What a step does to the bytes that a read finds, for those that change none.
Quiet ==
    \/ Still
    \/ \E c \in Slots, ok \in BOOLEAN, nb \in Buffers : Moved(c, ok, nb)

\* A call that begins keeps the invariant and changes no byte.
LEMMA CallsKeep ==
  ASSUME CacheInv, Calls
  PROVE  CacheInv' /\ Quiet
<1> USE DEF Quiet
<1>1. ASSUME NEW f \in Files, NEW i \in Ids, NEW v \in Vals,
             NEW lo \in 0 .. ChunkSize - 1, NEW hi \in lo + 1 .. ChunkSize,
             WriteFile(f, i, lo, hi, v)
      PROVE  CacheInv' /\ Quiet
  BY <1>1, WriteFileKeeps DEF Cells
<1>2. ASSUME NEW f \in Files, NEW n \in 0 .. MaxSize, ResizeFile(f, n)
      PROVE  CacheInv' /\ Quiet
  BY <1>2, ResizeFileKeeps DEF Sizes
<1>3. ASSUME NEW f \in Files, NEW data_sync \in BOOLEAN, NEW discard \in BOOLEAN,
             FlushFile(f, data_sync, discard)
      PROVE  CacheInv' /\ Quiet
  BY <1>3, FlushFileKeeps
<1>4. CASE FlushWholeCache
  BY <1>4, FlushWholeKeeps
<1>5. ASSUME NEW f \in Files, UpdateHeader(f)
      PROVE  CacheInv' /\ Quiet
  BY <1>5, UpdateHeaderKeeps
<1>6. ASSUME NEW f \in Files, NEW i \in Ids, ReadFile(f, i)
      PROVE  CacheInv' /\ Quiet
  BY <1>6, ReadFileKeeps
<1> QED BY <1>1, <1>2, <1>3, <1>4, <1>5, <1>6 DEF Calls

\* Every step keeps the invariant.
LEMMA StepKeeps ==
  ASSUME CacheInv, [Next]_vars
  PROVE  CacheInv'
<1>1. CASE Calls
  BY <1>1, CallsKeep
<1>2. CASE Others
  BY <1>2, OthersKeep
<1>3. CASE Jobs
  BY <1>3, HandleHoleKeeps, FillHoleKeeps, GrowKeeps, WriteDirectKeeps, WriteLoadKeeps,
     WriteCachedKeeps, WriteRefusedKeeps, FlushBufferKeeps, FlushEndKeeps, ResizeDownKeeps,
     WriteHdrKeeps DEF Jobs
<1>4. CASE UNCHANGED vars
  BY <1>4, StutterKeeps
<1> QED BY <1>1, <1>2, <1>3, <1>4 DEF Next

\* The inductive invariant of the short-operation cache holds in every behaviour:
\* the jobs of a call follow one another as the code calls them, and each finds
\* buffers and flash in the state it needs.
THEOREM CacheInvariance == Spec => []CacheInv
<1>1. Init => CacheInv
  BY CacheInit
<1>2. CacheInv /\ [Next]_vars => CacheInv'
  BY StepKeeps
<1> QED BY <1>1, <1>2, PTL DEF Spec

\* There is one buffer of a chunk at most, and no byte but zero beyond the end of
\* a file until the flash refuses a write, for any number of files, chunks and
\* buffers: yaffs_find_chunk_cache() may return the first that it finds, and
\* a file that grows brings out zeros.
THEOREM BuffersKnown == Spec => []BuffersSound
<1>1. CacheInv => BuffersSound
  <2> SUFFICES ASSUME CacheInv PROVE BuffersSound
    OBVIOUS
  <2>1. TypeOK
    BY DEF CacheInv, CacheType
  <2>2. ASSUME NEW f \in Files, NEW i \in Ids
        PROVE  Cardinality(SlotsOf(f, i)) <= 1
    <3>1. CASE SlotsOf(f, i) = {}
      BY <3>1, FS_EmptySet
    <3>2. CASE SlotsOf(f, i) # {}
      <4>1. PICK c \in SlotsOf(f, i) : TRUE
        BY <3>2
      <4>2. SlotsOf(f, i) = {c}
        BY <4>1, Constants DEF CacheInv, DataInv, OneBuffer, SlotsOf
      <4>3. Cardinality(SlotsOf(f, i)) = 1
        BY <4>2, FS_Singleton
      <4> QED BY <4>3
    <3> QED BY <3>1, <3>2
  <2>3. ASSUME faults = 0, NEW f \in Files, NEW i \in Ids, NEW k \in 0 .. ChunkSize - 1,
               (i - 1) * ChunkSize + k >= file[f].file_size
        PROVE  View(f, i)[k] = Zero
    <3>1. Blank(f, i, k)
      BY <2>3 DEF CacheInv, DataInv, PastEnd, Cells, Start
    <3>2. CASE SlotsOf(f, i) = {}
      BY <3>1, <3>2, ViewIs DEF CacheInv, DataInv, Blank
    <3>3. CASE SlotsOf(f, i) # {}
      BY <3>1, <3>3, ViewIs DEF CacheInv, DataInv, Blank
    <3> QED BY <3>2, <3>3
  <2> QED BY <2>1, <2>2, <2>3 DEF BuffersSound, OneBufferPerChunk, NothingPastTheEnd
<1> QED BY <1>1, CacheInvariance, PTL

\* Writing back the cache takes no more of the reserve than one chunk for each
\* buffer, and those that truncations have made out of holes, whatever the number
\* of buffers and the room: the check of yaffs_do_file_wr() when a buffer turns
\* dirty is enough.
THEOREM ReserveTaken == Spec => []ReserveOverdraft
<1>1. CacheInv => ReserveOverdraft
  <2> SUFFICES ASSUME CacheInv PROVE ReserveOverdraft
    OBVIOUS
  <2> DEFINE S == OnFlash
             K == cut_in
             D == S \ K
             U == Claimed
  <2>1. /\ IsFiniteSet(S) /\ Cardinality(S) \in Nat
        /\ IsFiniteSet(U) /\ Cardinality(U) \in Nat
    BY OnFlashTyped, ClaimedTyped, ChunksFinite DEF CacheInv
  <2>2. K \in SUBSET S /\ D \in SUBSET U
    BY DEF CacheInv, DataInv, CutInv, Claimed
  <2>3. Cardinality(U) + others <= Room + NCaches - 1 /\ others \in Nat
    BY Types DEF CacheInv, DataInv, Overdraft
  <2>4. S = K \cup D /\ K \cap D = {}
    BY <2>2
  <2> HIDE DEF S, K, D, U
  <2>5. IsFiniteSet(K) /\ IsFiniteSet(D) /\ Cardinality(D) <= Cardinality(U)
        /\ Cardinality(K) \in Nat /\ Cardinality(D) \in Nat
    BY <2>1, <2>2, FS_Subset, FS_CardinalityType
  <2>6. Cardinality(S) = Cardinality(K) + Cardinality(D)
    BY <2>4, <2>5, FS_Union, FS_EmptySet
  <2>7. Room - Cardinality(S) - others + Cardinality(K) >= 1 - NCaches
    BY <2>1, <2>3, <2>5, <2>6, Constants
  <2> QED BY <2>7 DEF ReserveOverdraft, n_free, S, K
<1> QED BY <1>1, CacheInvariance, PTL

-----------------------------------------------------------------------------
(* The bytes of the files.                                                 *)

Offsets == 0 .. MaxSize - 1
FileBytes == [f \in Files |-> BytesOfFile(f)]
FileSizes == [f \in Files |-> file[f].file_size]

\* The offsets and chunks of YaffsBytes are those of the cache.
LEMMA StoreNames ==
  /\ Store!Offsets = Offsets /\ Store!Ids = Ids
  /\ \A o : Store!ChunkOf(o) = o \div ChunkSize + 1
BY DEF Store!Offsets, Store!Ids, Store!ChunkOf, Offsets, Ids, MaxSize

\* A byte lies in a chunk, at some place in it.
LEMMA OffsetFacts ==
  ASSUME NEW o \in Offsets
  PROVE  /\ o \div ChunkSize + 1 \in Ids
         /\ o % ChunkSize \in Cells
         /\ o = Start(o \div ChunkSize + 1) + (o % ChunkSize)
<1>1. o \in Nat /\ o < MaxSize
  BY Constants DEF Offsets
<1>2. /\ o \div ChunkSize + 1 \in Ids
      /\ Start(o \div ChunkSize + 1) = (o \div ChunkSize) * ChunkSize
  BY <1>1, ChunkFound
<1>3. o % ChunkSize \in Cells /\ o = (o \div ChunkSize) * ChunkSize + (o % ChunkSize)
  BY <1>1, Constants DEF Cells
<1> QED BY <1>2, <1>3

\* The byte at a place of a chunk lies in that chunk.
LEMMA OffsetOf ==
  ASSUME NEW i \in Ids, NEW k \in Cells
  PROVE  /\ Start(i) + k \in Offsets
         /\ Store!ChunkOf(Start(i) + k) = i
<1>1. Start(i) \in Nat /\ Start(i) + ChunkSize <= MaxSize /\ MaxSize \in Nat
  BY StartOrder, Constants
<1>2. Start(i) + k \in Offsets
  BY <1>1, Constants DEF Offsets, Cells
<1> DEFINE o == Start(i) + k
           j == o \div ChunkSize + 1
           m == o % ChunkSize
<1>3. j \in Ids /\ m \in Cells /\ o = Start(j) + m
  BY <1>2, OffsetFacts
<1>4. o = Start(i) + k
  OBVIOUS
<1> HIDE DEF j, m, o
<1>5. j = i
  <2>1. Start(j) \in Nat
    BY <1>3, StartOrder
  <2>2. ~(i < j)
    BY <1>1, <1>3, <1>4, <2>1, StartOrder, Constants DEF Cells
  <2>3. ~(j < i)
    BY <1>1, <1>3, <1>4, <2>1, StartOrder, Constants DEF Cells
  <2> QED BY <1>3, <2>2, <2>3, StartOrder
<1> QED BY <1>2, <1>4, <1>5, StoreNames DEF j, o

\* Every byte of a file is a byte.
LEMMA FileBytesTyped ==
  ASSUME CacheType, OneBuffer
  PROVE  FileBytes \in [Files -> [Offsets -> Bytes]]
<1>1. ASSUME NEW f \in Files, NEW o \in Offsets
      PROVE  View(f, o \div ChunkSize + 1)[o % ChunkSize] \in Bytes
  <2>1. o \div ChunkSize + 1 \in Ids /\ o % ChunkSize \in Cells
    BY OffsetFacts
  <2>2. View(f, o \div ChunkSize + 1) \in Data
    BY <2>1, ViewTyped
  <2> QED BY <2>1, <2>2 DEF Data, Cells
<1> QED BY <1>1 DEF FileBytes, BytesOfFile, Offsets

\* A byte of a file is the one that is read in its chunk, before and after a step.
LEMMA FileBytesAt ==
  ASSUME NEW f \in Files, NEW o \in Offsets
  PROVE  /\ FileBytes[f][o] = View(f, o \div ChunkSize + 1)[o % ChunkSize]
         /\ FileBytes'[f][o] = View(f, o \div ChunkSize + 1)'[o % ChunkSize]
BY DEF FileBytes, BytesOfFile, Offsets

\* What is read in a chunk are the bytes of the file.
LEMMA ViewAt ==
  ASSUME NEW f \in Files, NEW i \in Ids, NEW k \in Cells
  PROVE  FileBytes[f][Start(i) + k] = View(f, i)[k]
<1>1. PICK o \in Offsets : o = Start(i) + k
  BY OffsetOf
<1>2. o \div ChunkSize + 1 = i
  BY <1>1, OffsetOf, StoreNames
<1>3. o % ChunkSize = k
  <2>1. o % ChunkSize \in Cells /\ o = Start(i) + (o % ChunkSize)
    BY <1>2, OffsetFacts
  <2>2. PICK m : m = o % ChunkSize
    OBVIOUS
  <2> QED BY <1>1, <2>1, <2>2, StartOrder, Constants DEF Cells
<1> QED BY <1>1, <1>2, <1>3, FileBytesAt

\* There is one request at most, and it stays within the file.
LEMMA RequestTyped ==
  ASSUME CacheInv
  PROVE  Asked \subseteq Store!Requests /\ \A r, s \in Asked : r = s
<1>1. CASE At("write")
  <2>1. op.file \in Files /\ Job \in WriteJobs
    BY <1>1, JobAt DEF CacheInv, CallInv
  <2>2. PICK i, lo, hi, v : i = Job.id /\ lo = Job.lo /\ hi = Job.hi /\ v = Job.val
    OBVIOUS
  <2>3. i \in Ids /\ lo \in Cells /\ hi \in 1 .. ChunkSize /\ v \in Bytes
    BY <2>1, <2>2 DEF WriteJobs
  <2>4. Start(i) \in Nat /\ Start(i) + ChunkSize <= MaxSize
    BY <2>3, StartOrder
  <2>5. Start(i) + lo \in Offsets /\ Start(i) + hi \in 1 .. MaxSize
    BY <2>3, <2>4, Constants DEF Offsets, Cells
  <2>6. Asked = {[file |-> op.file, lo |-> Start(i) + lo, hi |-> Start(i) + hi, val |-> v]}
    BY <1>1, <2>2 DEF Asked, Start
  <2>7. [file |-> op.file, lo |-> Start(i) + lo, hi |-> Start(i) + hi, val |-> v]
           \in [file : Files, lo : Offsets, hi : 1 .. MaxSize, val : Bytes]
    BY <2>1, <2>3, <2>5
  <2> QED BY <2>6, <2>7, StoreNames DEF Store!Requests, MaxSize
<1>2. CASE ~At("write") /\ (At("grow") \/ At("down"))
  <2>1. op.file \in Files /\ Job.size \in Sizes
    BY <1>2, JobAt, JobKinds DEF CacheInv, CallInv
  <2>2. Asked = {[file |-> op.file, size |-> Job.size]}
    BY <1>2 DEF Asked
  <2>3. [file |-> op.file, size |-> Job.size] \in [file : Files, size : 0 .. MaxSize]
    BY <2>1 DEF Sizes
  <2> QED BY <2>2, <2>3 DEF Store!Requests, MaxSize
<1>3. CASE ~At("write") /\ ~(At("grow") \/ At("down"))
  BY <1>3 DEF Asked
<1> QED BY <1>1, <1>2, <1>3

\* The bytes and the request are well formed, now and after a step.
Shown == /\ FileBytes \in [Files -> [Offsets -> Bytes]]
         /\ Asked \subseteq Store!Requests /\ \A r, s \in Asked : r = s

\* The invariant makes the bytes and the request well formed.
LEMMA CacheShown == CacheInv => Shown
BY FileBytesTyped, RequestTyped DEF CacheInv, DataInv, Shown

\* What all steps have in common.
Refusals ==
    /\ faults' \in {faults, faults + 1}
    /\ \A x \in doubt' \ doubt : x \in Files \X Ids /\ faults' = faults + 1

\* A step that gives each chunk its content, or has it open, gives the file its
\* content: from what is read of chunks to bytes of files.
LEMMA BecomesBut ==
  ASSUME Shown', Refusals, NEW f \in Files, NEW content, NEW open,
         \A g \in Files, i \in Ids, k \in Cells :
            \/ <<g, i>> \in open
            \/ View(g, i)'[k] = IF g = f THEN content[Start(i) + k] ELSE View(g, i)[k]
  PROVE  Store!BecomesBut(f, content, open)
<1>1. /\ FileBytes' \in [Files -> [Store!Offsets -> Bytes]]
      /\ Asked' \subseteq Store!Requests /\ \A r, s \in Asked' : r = s
  BY StoreNames DEF Shown
<1>2. ASSUME NEW g \in Files, NEW o \in Store!Offsets
      PROVE  \/ <<g, Store!ChunkOf(o)>> \in open
             \/ FileBytes'[g][o] = IF g = f THEN content[o] ELSE FileBytes[g][o]
  <2>1. PICK i \in Ids, k \in Cells :
          i = o \div ChunkSize + 1 /\ k = o % ChunkSize /\ o = Start(i) + k
    BY <1>2, OffsetFacts, StoreNames
  <2>2. FileBytes[g][o] = View(g, i)[k] /\ FileBytes'[g][o] = View(g, i)'[k]
    BY <2>1, <1>2, FileBytesAt, StoreNames
  <2>3. Store!ChunkOf(o) = i
    BY <2>1, StoreNames
  <2> QED BY <2>1, <2>2, <2>3
<1>3. /\ faults' \in {faults, faults + 1}
      /\ \A x \in doubt' \ doubt : x \in Files \X Store!Ids /\ faults' = faults + 1
  BY StoreNames DEF Refusals
<1> QED BY <1>1, <1>2, <1>3 DEF Store!BecomesBut, FileBytes

\* Loading, evicting and flushing do not show, but where the flash refuses.
LEMMA QuietStores ==
  ASSUME CacheInv, Shown', Quiet
  PROVE  Store!Next
<1>1. PICK f \in Files : TRUE
  BY Constants
<1>2. Refusals /\ \A g \in Files : file'[g].file_size = file[g].file_size
  <2>1. CASE Still
    BY <2>1, Types DEF Still, Refusals, CacheInv
  <2>2. CASE \E c \in Slots, ok \in BOOLEAN, nb \in Buffers : Moved(c, ok, nb)
    BY <2>2 DEF Moved, Flushed, Refusals
  <2> QED BY <2>1, <2>2 DEF Quiet
<1>3. ASSUME NEW g \in Files, NEW i \in Ids
      PROVE  View(g, i)' = View(g, i) \/ <<g, i>> \in doubt'
  <2>1. CASE Still
    BY <2>1, StillView
  <2>2. CASE \E c \in Slots, ok \in BOOLEAN, nb \in Buffers : Moved(c, ok, nb)
    BY <2>2, MovedView DEF CacheInv, DataInv
  <2> QED BY <2>1, <2>2 DEF Quiet
<1>4. PICK content, open : content = FileBytes[f] /\ open = doubt'
  OBVIOUS
<1>5. ASSUME NEW g \in Files, NEW i \in Ids, NEW k \in Cells
      PROVE  \/ <<g, i>> \in open
             \/ View(g, i)'[k] = IF g = f THEN content[Start(i) + k] ELSE View(g, i)[k]
  <2>1. content[Start(i) + k] = View(f, i)[k]
    BY <1>4, ViewAt
  <2> QED BY <1>3, <1>4, <2>1
<1>6. Store!BecomesBut(f, content, open)
  BY <1>2, <1>5, BecomesBut
<1>7. Store!Becomes(f, FileBytes[f])
  BY <1>4, <1>6 DEF Store!Becomes
<1>8. FileSizes' = FileSizes
  BY <1>2 DEF FileSizes
<1> QED BY <1>7, <1>8 DEF Store!Next, Store!Keep, FileBytes, FileSizes

\* What other files do does not show.
LEMMA OthersStore ==
  ASSUME CacheInv, Others
  PROVE  Quiet
BY OthersKeep, Types DEF CacheInv, Quiet, Still

\* The request of a write.
LEMMA WriteAsked ==
  ASSUME CacheInv, At("write"), NEW f, NEW i, NEW h, f = op.file, i = Job.id, h = Job,
         NEW r, r = [file |-> f, lo |-> Start(i) + h.lo, hi |-> Start(i) + h.hi, val |-> h.val]
  PROVE  /\ r \in Asked /\ Store!Writes(r)
         /\ f \in Files /\ i \in Ids /\ h \in WriteJobs
<1>1. f \in Files /\ h \in WriteJobs /\ i \in Ids
  BY JobAt DEF CacheInv, CallInv, WriteJobs
<1>2. r \in Asked
  BY DEF Asked, Start
<1> QED BY <1>1, <1>2 DEF Store!Writes

\* A write that is done gives the bytes and the size asked for.
LEMMA WriteStores ==
  ASSUME CacheInv, Shown', Refusals, At("write"),
         NEW f, NEW i, NEW h, f = op.file, i = Job.id, h = Job,
         file'[f].file_size = Larger(file[f].file_size, Start(i) + h.hi),
         \A g \in Files \ {f} : file'[g].file_size = file[g].file_size,
         \A g \in Files, m \in Ids : <<g, m>> # <<f, i>> =>
            View(g, m)' = View(g, m) \/ <<g, m>> \in doubt',
         \A k \in Cells : View(f, i)'[k] = IF h.lo <= k /\ k < h.hi THEN h.val
                                           ELSE View(f, i)[k]
  PROVE  Store!Next
<1>0. PICK r : r = [file |-> f, lo |-> Start(i) + h.lo, hi |-> Start(i) + h.hi, val |-> h.val]
  OBVIOUS
<1>1. r \in Asked /\ Store!Writes(r) /\ f \in Files /\ i \in Ids /\ h \in WriteJobs
  BY <1>0, WriteAsked
<1>2. PICK content, open :
        /\ content = [o \in Offsets |-> IF r.lo <= o /\ o < r.hi THEN r.val
                                                             ELSE FileBytes[f][o]]
        /\ open = doubt'
  OBVIOUS
<1>3. ASSUME NEW g \in Files, NEW m \in Ids, NEW k \in Cells
      PROVE  \/ <<g, m>> \in open
             \/ View(g, m)'[k] = IF g = f THEN content[Start(m) + k] ELSE View(g, m)[k]
  <2>1. CASE g # f
    BY <1>2, <2>1
  <2>2. CASE g = f
    <3>1. content[Start(m) + k] = IF r.lo <= Start(m) + k /\ Start(m) + k < r.hi THEN r.val
                                  ELSE View(f, m)[k]
      <4>1. Start(m) + k \in Offsets /\ FileBytes[f][Start(m) + k] = View(f, m)[k]
        BY <1>1, OffsetOf, ViewAt
      <4> QED BY <1>2, <4>1
    <3>2. h.lo \in Nat /\ h.hi \in Nat /\ h.hi <= ChunkSize /\ Start(m) \in Nat /\ Start(i) \in Nat
          /\ k \in Nat /\ k < ChunkSize
      BY <1>1, StartOrder, Constants DEF WriteJobs, Cells
    <3>3. CASE m = i
      <4>1. (r.lo <= Start(m) + k /\ Start(m) + k < r.hi) <=> (h.lo <= k /\ k < h.hi)
        BY <1>0, <3>2, <3>3
      <4> QED BY <1>0, <2>2, <3>1, <3>3, <4>1
    <3>4. CASE m # i
      <4>1. ~(r.lo <= Start(m) + k /\ Start(m) + k < r.hi)
        <5>1. r.lo = Start(i) + h.lo /\ r.hi = Start(i) + h.hi
          BY <1>0
        <5>2. CASE m < i
          <6>1. Start(m) + ChunkSize <= Start(i)
            BY <1>1, <5>2, StartOrder
          <6> QED BY <3>2, <5>1, <6>1, Constants
        <5>3. CASE i < m
          <6>1. Start(i) + ChunkSize <= Start(m)
            BY <1>1, <5>3, StartOrder
          <6> QED BY <3>2, <5>1, <6>1, Constants
        <5> QED BY <1>1, <3>4, <5>2, <5>3, StartOrder
      <4>2. View(f, m)' = View(f, m) \/ <<f, m>> \in open
        BY <1>1, <1>2, <3>4
      <4> QED BY <2>2, <3>1, <4>1, <4>2
    <3> QED BY <3>3, <3>4
  <2> QED BY <2>1, <2>2
<1>4. Store!BecomesBut(f, content, open)
  BY <1>1, <1>3, BecomesBut
<1>5. Store!Becomes(r.file, [o \in Store!Offsets |-> IF r.lo <= o /\ o < r.hi THEN r.val
                                                     ELSE FileBytes[r.file][o]])
  BY <1>0, <1>2, <1>4, StoreNames DEF Store!Becomes
<1>6. FileSizes' = [FileSizes EXCEPT ![r.file] = IF r.hi > @ THEN r.hi ELSE @]
  <2>1. file[f].file_size \in Nat /\ r.hi \in Nat /\ r.file = f
    <3>1. h.hi \in Nat /\ Start(i) \in Nat
      BY <1>1, StartOrder DEF WriteJobs
    <3>2. file[f].file_size \in Nat
      BY <1>1, Types DEF CacheInv, FileVars, Sizes
    <3> QED BY <1>0, <3>1, <3>2
  <2>2. file'[f].file_size = IF r.hi > file[f].file_size THEN r.hi ELSE file[f].file_size
    BY <1>0, <2>1 DEF Larger
  <2> QED BY <1>1, <2>1, <2>2 DEF FileSizes
<1>7. Store!Write(r)
  BY <1>1, <1>5, <1>6 DEF Store!Write, FileBytes, FileSizes
<1> QED BY <1>1, <1>7 DEF Store!Next

\* A write into a buffer is the write asked for.
LEMMA WriteCachedStores ==
  ASSUME CacheInv, CacheInv', Shown', WriteCached
  PROVE  Store!Next
<1>0. PICK f, i, h : f = op.file /\ i = Job.id /\ h = Job
  OBVIOUS
<1>1. /\ At("write") /\ f \in Files /\ i \in Ids /\ h \in WriteJobs /\ Done(file)
      /\ UNCHANGED <<flash, others, doubt, cut_in, faults>>
  BY <1>0, WriteCachedFacts
<1>s. PICK c \in SlotsOf(f, i) : Written(f, i, h, c)
  BY <1>0, WriteCachedFacts
<1>2. /\ c \in SlotsOf(f, i) /\ SlotsOf(f, i) = {c}
      /\ cache' \in [Slots -> Buffers]
      /\ cache'[c].object = f /\ cache'[c].chunk_id = i /\ cache'[c].dirty
      /\ cache'[c].data = [k \in Cells |-> IF h.lo <= k /\ k < h.hi THEN h.val
                                           ELSE cache[c].data[k]]
      /\ \A d \in Slots \ {c} : cache'[d] = cache[d]
  BY <1>s DEF Written
<1>3. c \in Slots /\ cache[c].object = f /\ cache[c].chunk_id = i
  BY <1>2 DEF SlotsOf
<1>4. /\ file'[f].file_size = Larger(file[f].file_size, Start(i) + h.hi)
      /\ \A g \in Files \ {f} : file'[g].file_size = file[g].file_size
  <2>1. file \in [Files -> FileVars]
    BY Types DEF CacheInv
  <2>2. PICK fl : fl = file
    OBVIOUS
  <2> QED BY <1>0, <1>1, <2>1, <2>2, DoneFacts
<1>5. \A g, m : SlotsOf(g, m)' = SlotsOf(g, m)
  BY <1>2, <1>3 DEF SlotsOf
<1>6. OneBuffer /\ OneBuffer'
  BY DEF CacheInv, DataInv
<1>7. ASSUME NEW g \in Files, NEW m \in Ids, <<g, m>> # <<f, i>>
      PROVE  View(g, m)' = View(g, m)
  <2>1. CASE SlotsOf(g, m) = {}
    <3>1. DataOn(flash', g, m) = DataOn(flash, g, m)
      BY <1>1 DEF DataOn
    <3> QED BY <1>5, <1>6, <2>1, <3>1, ViewIs, ViewIsNext
  <2>2. CASE SlotsOf(g, m) # {}
    <3>1. PICK d \in SlotsOf(g, m) : TRUE
      BY <2>2
    <3>2. d \in Slots \ {c}
      BY <1>3, <1>7, <3>1 DEF SlotsOf
    <3>3. View(g, m) = cache[d].data /\ View(g, m)' = cache'[d].data
      BY <1>5, <1>6, <3>1, ViewIs, ViewIsNext
    <3> QED BY <1>2, <3>2, <3>3
  <2> QED BY <2>1, <2>2
<1>8. View(f, i) = cache[c].data /\ View(f, i)' = cache'[c].data
  BY <1>1, <1>2, <1>5, <1>6, ViewIs, ViewIsNext
<1>9. \A k \in Cells : View(f, i)'[k] = IF h.lo <= k /\ k < h.hi THEN h.val ELSE View(f, i)[k]
  BY <1>2, <1>8
<1>10. Refusals
  BY <1>1, Types DEF Refusals, CacheInv
<1> QED BY <1>0, <1>1, <1>4, <1>7, <1>9, <1>10, WriteStores

\* Bytes past the cache: done, or refused, and then the chunk is in doubt.
LEMMA DirectViews ==
  ASSUME CacheInv, CacheInv', NEW f, NEW i, NEW h, DirectStep(f, i, h)
  PROVE  /\ \A g \in Files, m \in Ids : <<g, m>> # <<f, i>> => View(g, m)' = View(g, m)
         /\ flash'[f][i] # Hole => View(f, i)' = flash'[f][i]
         /\ Refusals
<1>1. /\ f \in Files /\ i \in Ids
      /\ \A d \in Slots : \/ d \in SlotsOf(f, i) /\ cache'[d].object = None
                          \/ d \notin SlotsOf(f, i) /\ cache'[d] = cache[d]
      /\ \A g \in Files, m \in Ids : <<g, m>> # <<f, i>> => flash'[g][m] = flash[g][m]
  BY DEF DirectStep
<1>2. OneBuffer /\ OneBuffer'
  BY DEF CacheInv, DataInv
<1>3. ASSUME NEW g \in Files, NEW m \in Ids, <<g, m>> # <<f, i>>
      PROVE  View(g, m)' = View(g, m)
  <2>1. SlotsOf(g, m)' = SlotsOf(g, m) /\ \A d \in SlotsOf(g, m) : cache'[d] = cache[d]
    BY <1>1, <1>3, Constants DEF SlotsOf
  <2>2. CASE SlotsOf(g, m) = {}
    <3>1. DataOn(flash', g, m) = DataOn(flash, g, m)
      BY <1>1, <1>3 DEF DataOn
    <3> QED BY <1>2, <2>1, <2>2, <3>1, ViewIs, ViewIsNext
  <2>3. CASE SlotsOf(g, m) # {}
    <3>1. PICK d \in SlotsOf(g, m) : TRUE
      BY <2>3
    <3>2. View(g, m) = cache[d].data /\ View(g, m)' = cache'[d].data
      BY <1>2, <2>1, <3>1, ViewIs, ViewIsNext
    <3> QED BY <2>1, <3>1, <3>2
  <2> QED BY <2>2, <2>3
<1>4. ASSUME flash'[f][i] # Hole
      PROVE  View(f, i)' = flash'[f][i]
  <2>1. SlotsOf(f, i)' = {}
    BY <1>1, Constants DEF SlotsOf
  <2>2. DataOn(flash', f, i) = flash'[f][i]
    BY <1>4 DEF DataOn
  <2> QED BY <1>1, <1>2, <2>1, <2>2, ViewIsNext
<1>5. Refusals
  BY DEF DirectStep, Refusals
<1> QED BY <1>3, <1>4, <1>5

\* A write past the cache is the write asked for, or refused.
LEMMA WriteDirectStores ==
  ASSUME CacheInv, CacheInv', Shown', WriteDirect
  PROVE  Store!Next
<1>0. PICK f, i, h : f = op.file /\ i = Job.id /\ h = Job
  OBVIOUS
<1>s. DirectStep(f, i, h)
  BY <1>0, WriteDirectFacts
<1>1. /\ At("write") /\ f \in Files /\ i \in Ids /\ h \in WriteJobs
      /\ h.lo = 0 /\ h.hi = ChunkSize
  BY <1>s DEF DirectStep
<1>2. PICK fl \in [Files -> FileVars] :
        /\ \A g \in Files : fl[g].file_size = file[g].file_size
        /\ \/ /\ Done(fl)
              /\ flash'[f][i] = [k \in Cells |-> h.val]
              /\ flash'[f][i] # Hole
           \/ Failed(fl) /\ flash' = flash
  BY <1>s DEF DirectStep
<1>3. /\ \A g \in Files, m \in Ids : <<g, m>> # <<f, i>> => View(g, m)' = View(g, m)
      /\ flash'[f][i] # Hole => View(f, i)' = flash'[f][i]
      /\ Refusals
  BY <1>s, DirectViews
<1>4. CASE Done(fl) /\ flash'[f][i] = [k \in Cells |-> h.val] /\ flash'[f][i] # Hole
  <2>1. /\ file'[f].file_size = Larger(file[f].file_size, Start(i) + h.hi)
        /\ \A g \in Files \ {f} : file'[g].file_size = file[g].file_size
    <3>1. /\ file'[f].file_size = Larger(fl[f].file_size, Start(i) + Job.hi)
          /\ \A g \in Files \ {f} : file'[g].file_size = fl[g].file_size
      BY <1>0, <1>1, <1>4, DoneFacts
    <3> QED BY <1>0, <1>1, <1>2, <3>1
  <2>2. \A k \in Cells : View(f, i)'[k] = IF h.lo <= k /\ k < h.hi THEN h.val
                                          ELSE View(f, i)[k]
    <3>1. \A k \in Cells : h.lo <= k /\ k < h.hi
      BY <1>1, Constants DEF Cells
    <3>2. \A k \in Cells : View(f, i)'[k] = h.val
      BY <1>3, <1>4
    <3> QED BY <3>1, <3>2
  <2> QED BY <1>0, <1>1, <1>3, <2>1, <2>2, WriteStores
<1>5. CASE Failed(fl) /\ flash' = flash
  <2>0. PICK r : r = [file |-> f, lo |-> Start(i) + h.lo, hi |-> Start(i) + h.hi, val |-> h.val]
    OBVIOUS
  <2>1. r \in Asked /\ Store!Writes(r)
    BY <1>0, <1>1, <2>0, WriteAsked
  <2>2. Start(i) \in Nat
    BY <1>1, StartOrder
  <2>3. r.file = f /\ r.lo = Start(i) + 0 /\ r.hi - r.lo = ChunkSize
    BY <1>1, <2>0, <2>2, Constants
  <2>4. Store!ChunkOf(r.lo) = i
    <3>1. 0 \in Cells
      BY Constants DEF Cells
    <3> QED BY <1>1, <2>3, <3>1, OffsetOf
  <2>5. PICK content, open : content = FileBytes[f] /\ open = doubt' \cup {<<f, i>>}
    OBVIOUS
  <2>6. ASSUME NEW g \in Files, NEW m \in Ids, NEW k \in Cells
        PROVE  \/ <<g, m>> \in open
               \/ View(g, m)'[k] = IF g = f THEN content[Start(m) + k] ELSE View(g, m)[k]
    <3>1. content[Start(m) + k] = View(f, m)[k]
      BY <1>1, <2>5, ViewAt
    <3> QED BY <1>3, <2>5, <3>1
  <2>7. Store!BecomesBut(f, content, open)
    BY <1>1, <1>3, <2>6, BecomesBut
  <2>8. FileSizes' = FileSizes
    <3>1. file' = [fl EXCEPT ![f].dirty = TRUE]
      BY <1>0, <1>5 DEF Failed
    <3>2. \A g \in Files : file'[g].file_size = file[g].file_size
      BY <1>1, <1>2, <3>1 DEF FileVars
    <3> QED BY <3>2 DEF FileSizes
  <2>9. Store!BecomesBut(r.file, FileBytes[r.file],
                         doubt' \cup {<<r.file, Store!ChunkOf(r.lo)>>})
    BY <2>3, <2>4, <2>5, <2>7
  <2>10. Store!Refuse(r)
    BY <2>1, <2>3, <2>8, <2>9 DEF Store!Refuse, FileBytes, FileSizes
  <2> QED BY <2>1, <2>10 DEF Store!Next
<1> QED BY <1>2, <1>4, <1>5

\* A file that gets the size asked for.
LEMMA SizeStores ==
  ASSUME CacheInv, Shown', Refusals, At("grow") \/ At("down"),
         NEW f, NEW n, f = op.file, n = Job.size, f \in Files,
         file'[f].file_size = n,
         \A g \in Files \ {f} : file'[g].file_size = file[g].file_size,
         \A g \in Files \ {f}, i \in Ids : View(g, i)' = View(g, i),
         \A i \in Ids, k \in Cells :
            \/ <<f, i>> \in doubt'
            \/ View(f, i)'[k] = IF n < file[f].file_size /\ n <= Start(i) + k THEN Zero
                                ELSE View(f, i)[k]
  PROVE  Store!Next
<1>0. PICK r : r = [file |-> f, size |-> n]
  OBVIOUS
<1>1. r \in Asked /\ ~Store!Writes(r)
  <2>1. ~At("write")
    BY DEF At
  <2>2. r \in Asked
    BY <1>0, <2>1 DEF Asked
  <2> QED BY <1>0, <2>2 DEF Store!Writes
<1>2. PICK content, open :
        /\ content = [o \in Offsets |-> IF r.size < FileSizes[r.file] /\ r.size <= o THEN Zero
                                        ELSE FileBytes[r.file][o]]
        /\ open = doubt'
  OBVIOUS
<1>3. ASSUME NEW g \in Files, NEW m \in Ids, NEW k \in Cells
      PROVE  \/ <<g, m>> \in open
             \/ View(g, m)'[k] = IF g = f THEN content[Start(m) + k] ELSE View(g, m)[k]
  <2>1. CASE g # f
    BY <2>1
  <2>2. CASE g = f
    <3>1. Start(m) + k \in Offsets /\ FileBytes[f][Start(m) + k] = View(f, m)[k]
      BY OffsetOf, ViewAt
    <3>2. content[Start(m) + k] = IF n < file[f].file_size /\ n <= Start(m) + k THEN Zero
                                  ELSE View(f, m)[k]
      BY <1>0, <1>2, <3>1 DEF FileSizes
    <3> QED BY <1>2, <2>2, <3>2
  <2> QED BY <2>1, <2>2
<1>4. Store!BecomesBut(f, content, open)
  BY <1>3, BecomesBut
<1>5. Store!Becomes(r.file,
        [o \in Store!Offsets |-> IF r.size < FileSizes[r.file] /\ r.size <= o THEN Zero
                                 ELSE FileBytes[r.file][o]])
  BY <1>0, <1>2, <1>4, StoreNames DEF Store!Becomes
<1>6. FileSizes' = [FileSizes EXCEPT ![r.file] = r.size]
  BY <1>0 DEF FileSizes
<1>7. Store!Resize(r)
  BY <1>1, <1>5, <1>6 DEF Store!Resize, FileBytes, FileSizes
<1> QED BY <1>1, <1>7 DEF Store!Next

\* yaffs_resize_file() to a larger size is the change of size asked for.
LEMMA GrowStores ==
  ASSUME CacheInv, Shown', Grow
  PROVE  Store!Next
<1>0. PICK f, z, n : f = op.file /\ z = SizeNow /\ n = Job.size
  OBVIOUS
<1>1. /\ At("grow") /\ f \in Files /\ n \in Sizes /\ z <= n
      /\ file' = [file EXCEPT ![f].file_size = n]
      /\ UNCHANGED <<cache, flash, others, doubt, cut_in, faults>>
  BY <1>0, JobAt, JobKinds DEF CacheInv, CallInv, Grow
<1>2. /\ file'[f].file_size = n /\ file[f].file_size = z /\ z \in Sizes
      /\ \A g \in Files \ {f} : file'[g].file_size = file[g].file_size
  BY <1>0, <1>1, Types DEF CacheInv, FileVars, SizeNow
<1>3. \A g, i : View(g, i)' = View(g, i)
  BY <1>1 DEF View, rd_data_obj, SlotsOf
<1>4. Refusals
  BY <1>1, Types DEF Refusals, CacheInv
<1>5. ~(n < file[f].file_size)
  BY <1>1, <1>2 DEF Sizes
<1>6. /\ \A g \in Files \ {f}, i \in Ids : View(g, i)' = View(g, i)
      /\ \A i \in Ids, k \in Cells :
            \/ <<f, i>> \in doubt'
            \/ View(f, i)'[k] = IF n < file[f].file_size /\ n <= Start(i) + k THEN Zero
                                ELSE View(f, i)[k]
  BY <1>3, <1>5
<1> QED BY <1>0, <1>1, <1>2, <1>4, <1>6, SizeStores

\* yaffs_resize_file_down() is the change of size asked for, and leaves the chunk
\* in doubt in which it could not write zeros.
LEMMA ResizeDownStores ==
  ASSUME CacheInv, CacheInv', Shown', ResizeDown
  PROVE  Store!Next
<1>0. PICK f, n, z : f = op.file /\ n = Job.size /\ z = file[f].file_size
  OBVIOUS
<1>1. At("down")
  BY DEF ResizeDown
<1>2. PICK ok \in BOOLEAN : DownStep(f, n, ok)
  BY <1>0, ResizeDownFacts
<1>3. /\ f \in Files /\ n \in Sizes /\ n <= z /\ Shorter(n, z) /\ cache' = cache
      /\ file'[f].file_size = n
      /\ \A g \in Files \ {f} : file'[g].file_size = file[g].file_size
      /\ \A g \in Files \ {f}, i \in Ids : flash'[g][i] = flash[g][i]
  BY <1>0, <1>2 DEF DownStep
<1>4. OneBuffer /\ OneBuffer' /\ z \in Nat /\ n \in Nat
  BY <1>0, <1>3, Types DEF CacheInv, DataInv, FileVars, Sizes
<1>5. \A g, i : SlotsOf(g, i)' = SlotsOf(g, i)
  BY <1>3 DEF SlotsOf
\* A chunk whose flash reads the same is read the same.
<1>6. ASSUME NEW g \in Files, NEW i \in Ids, NEW k \in Cells,
             DataOn(flash', g, i)[k] = DataOn(flash, g, i)[k]
      PROVE  View(g, i)'[k] = View(g, i)[k]
  <2>1. CASE SlotsOf(g, i) = {}
    BY <1>4, <1>5, <1>6, <2>1, ViewIs, ViewIsNext
  <2>2. CASE SlotsOf(g, i) # {}
    <3>1. PICK d \in SlotsOf(g, i) : TRUE
      BY <2>2
    <3> QED BY <1>3, <1>4, <1>5, <3>1, ViewIs, ViewIsNext
  <2> QED BY <2>1, <2>2
\* Zeros on flash and in the buffer are read as zeros.
<1>7. ASSUME NEW i \in Ids, NEW k \in Cells, DataOn(flash', f, i)[k] = Zero,
             \A d \in SlotsOf(f, i) : cache[d].data[k] = Zero
      PROVE  View(f, i)'[k] = Zero
  <2>1. CASE SlotsOf(f, i) = {}
    BY <1>3, <1>4, <1>5, <1>7, <2>1, ViewIsNext
  <2>2. CASE SlotsOf(f, i) # {}
    <3>1. PICK d \in SlotsOf(f, i) : TRUE
      BY <2>2
    <3> QED BY <1>3, <1>4, <1>5, <1>7, <3>1, ViewIsNext
  <2> QED BY <2>1, <2>2
<1>8. ASSUME NEW g \in Files \ {f}, NEW i \in Ids
      PROVE  View(g, i)' = View(g, i)
  <2>1. DataOn(flash', g, i) = DataOn(flash, g, i)
    BY <1>3 DEF DataOn
  <2>2. CASE SlotsOf(g, i) = {}
    BY <1>4, <1>5, <2>1, <2>2, ViewIs, ViewIsNext
  <2>3. CASE SlotsOf(g, i) # {}
    <3>1. PICK d \in SlotsOf(g, i) : TRUE
      BY <2>3
    <3> QED BY <1>3, <1>4, <1>5, <3>1, ViewIs, ViewIsNext
  <2> QED BY <2>2, <2>3
<1>9. ASSUME NEW i \in Ids, NEW k \in Cells
      PROVE  \/ <<f, i>> \in doubt'
             \/ View(f, i)'[k] = IF n < z /\ n <= Start(i) + k THEN Zero ELSE View(f, i)[k]
  <2>1. Start(i) \in Nat /\ k \in Nat /\ k < ChunkSize
    BY StartOrder, Constants DEF Cells
  <2>2. CASE n <= Start(i)
    <3>1. DataOn(flash', f, i) = Zeros /\ Zeros[k] = Zero
      BY <1>2, <2>2 DEF DownStep, Zeros, Cells
    <3>2. \A d \in SlotsOf(f, i) : cache[d].data = Zeros
      BY <1>2, <2>2 DEF DownStep, CutBuffers, SlotsOf
    <3>3. View(f, i)'[k] = Zero
      BY <1>7, <3>1, <3>2
    <3>4. CASE n < z
      <4>1. n <= Start(i) + k
        BY <1>4, <2>1, <2>2
      <4> QED BY <3>3, <3>4, <4>1
    <3>5. CASE n = z
      <4>1. Blank(f, i, k)
        <5>1. Start(i) >= file[f].file_size
          BY <1>0, <1>4, <2>1, <2>2, <3>5
        <5> QED BY <1>3, <5>1 DEF CacheInv, DataInv, Beyond
      <4>2. View(f, i)[k] = Zero
        <5>1. CASE SlotsOf(f, i) = {}
          BY <1>3, <1>4, <4>1, <5>1, ViewIs DEF Blank
        <5>2. CASE SlotsOf(f, i) # {}
          BY <1>3, <1>4, <4>1, <5>2, ViewIs DEF Blank
        <5> QED BY <5>1, <5>2
      <4> QED BY <3>3, <4>2
    <3> QED BY <1>3, <1>4, <3>4, <3>5
  <2>3. CASE Start(i) < n /\ ~Within(i, n)
    <3>1. DataOn(flash', f, i) = DataOn(flash, f, i)
      BY <1>2, <2>3 DEF DownStep, DataOn
    <3>2. View(f, i)'[k] = View(f, i)[k]
      BY <1>3, <1>6, <3>1
    <3>3. ~(n <= Start(i) + k)
      BY <1>4, <2>1, <2>3, Constants DEF Within
    <3> QED BY <3>2, <3>3
  <2>4. CASE Within(i, n) /\ ok
    <3>1. n < z
      BY <1>3, <2>4 DEF Shorter
    <3>2. DataOn(flash', f, i)[k] = IF Start(i) + k < n THEN DataOn(flash, f, i)[k] ELSE Zero
      BY <1>2, <2>4 DEF DownStep
    <3>3. CASE Start(i) + k < n
      <4>1. View(f, i)'[k] = View(f, i)[k]
        BY <1>3, <1>6, <3>2, <3>3
      <4>2. ~(n <= Start(i) + k)
        BY <1>4, <2>1, <3>3
      <4> QED BY <4>1, <4>2
    <3>4. CASE n <= Start(i) + k
      <4>1. \A d \in SlotsOf(f, i) : cache[d].data[k] = Zero
        BY <1>2, <2>4, <3>4 DEF DownStep, CutBuffers, SlotsOf
      <4>2. DataOn(flash', f, i)[k] = Zero
        BY <1>4, <2>1, <3>2, <3>4
      <4> QED BY <1>7, <3>1, <3>4, <4>1, <4>2
    <3> QED BY <1>4, <2>1, <3>3, <3>4
  <2>5. CASE Within(i, n) /\ ~ok
    BY <1>2, <2>5 DEF DownStep
  <2>6. n <= Start(i) \/ Start(i) < n
    BY <1>4, <2>1
  <2> QED BY <2>2, <2>3, <2>4, <2>5, <2>6
<1>10. Refusals
  BY <1>2 DEF DownStep, Refusals
<1> QED BY <1>0, <1>1, <1>3, <1>8, <1>9, <1>10, SizeStores

\* An empty device holds empty files.
LEMMA StoreInit ==
  ASSUME Init
  PROVE  Store!Init
<1>1. CacheInv
  BY CacheInit
<1>2. \A f \in Files, i \in Ids, k \in Cells : View(f, i)[k] = Zero
  <2>1. \A f \in Files, i \in Ids : SlotsOf(f, i) = {}
    BY Constants DEF Init, Unused, SlotsOf
  <2>2. \A f \in Files, i \in Ids : View(f, i) = Zeros
    BY <2>1 DEF Init, View, rd_data_obj, DataOn
  <2> QED BY <2>2 DEF Zeros, Cells
<1>3. ASSUME NEW f \in Files, NEW o \in Offsets
      PROVE  FileBytes[f][o] = Zero
  BY <1>2, OffsetFacts, FileBytesAt
<1>4. FileBytes = [f \in Files |-> [o \in Store!Offsets |-> Zero]]
  <2>1. FileBytes \in [Files -> [Offsets -> Bytes]]
    BY <1>1, FileBytesTyped DEF CacheInv, DataInv
  <2> QED BY <1>3, <2>1, StoreNames
<1>5. FileSizes = [f \in Files |-> 0]
  BY DEF FileSizes, Init
<1>6. Asked = {} /\ doubt = {} /\ faults = 0
  BY DEF Init, Asked, At, Idle
<1> QED BY <1>4, <1>5, <1>6 DEF Store!Init, FileBytes, FileSizes

\* Every step of the cache is a step of the files.
LEMMA StoreStep ==
  ASSUME CacheInv, CacheInv', Shown', [Next]_vars
  PROVE  Store!Next
<1>1. CASE Calls
  BY <1>1, CallsKeep, QuietStores
<1>2. CASE Others
  BY <1>2, OthersStore, QuietStores
<1>3. CASE Jobs
  <2>1. CASE HandleHole \/ FillHole \/ WriteLoad \/ WriteRefused \/ FlushBuffer
                \/ FlushEnd \/ WriteHdr
    <3>1. Quiet
      BY <2>1, HandleHoleKeeps, FillHoleKeeps, WriteLoadKeeps, WriteRefusedKeeps,
         FlushBufferKeeps, FlushEndKeeps, WriteHdrKeeps DEF Quiet
    <3> QED BY <3>1, QuietStores
  <2>2. CASE Grow \/ WriteDirect \/ WriteCached \/ ResizeDown
    BY <2>2, GrowStores, WriteDirectStores, WriteCachedStores, ResizeDownStores
  <2> QED BY <1>3, <2>1, <2>2 DEF Jobs
<1>4. CASE UNCHANGED vars
  <2>1. Quiet
    BY <1>4, Types DEF Quiet, Still, CacheInv, vars
  <2> QED BY <2>1, QuietStores
<1> QED BY <1>1, <1>2, <1>3, <1>4 DEF Next

\* Through the short-operation cache, files are arrays of bytes with a size, which
\* nothing changes but the request being carried out, and a refusal of the flash
\* only in the chunk refused: the cache implements YaffsBytes.
THEOREM BytesImplemented == Spec => ImplementsBytes
<1>1. Init => Store!Init
  BY StoreInit
<1>2. CacheInv => Shown
  BY CacheShown
<1>3. CacheInv /\ CacheInv' /\ Shown' /\ [Next]_vars => Store!Next
  BY StoreStep
<1> QED BY <1>1, <1>2, <1>3, CacheInvariance, PTL DEF Spec, ImplementsBytes, Store!Spec
=============================================================================
