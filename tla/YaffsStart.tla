------------------------------ MODULE YaffsStart ------------------------------
(***************************************************************************)
(* The start and the end of a device (yaffs_guts_ll_init(),                *)
(* yaffs_guts_initialise(), yaffs_deinitialise() of core/yaffs_guts.c):    *)
(* the numbers worked out from the size of the flash, what is allocated    *)
(* and freed when something on the way cannot be had, and the temporary    *)
(* buffers the mounted device lends.                                       *)
(***************************************************************************)
EXTENDS Integers, FiniteSets, SequencesExt

CONSTANTS
    DevParams,   \* parameters: is_yaffs2, inband, bytes, chunks, start, end,
                 \* reserved, wide (tnodes), summary
    TagBytes,    \* sizeof(struct yaffs_packed_tags2_tags_only)
    TnodeBits,   \* width of a tnode entry unless the flash needs more: 16
    BlockSizes,  \* s_blocksize
    NTemp,       \* YAFFS_N_TEMP_BUFFERS
    TempUsers    \* bound: buffers lent at a time

ASSUME StartAssumption ==
    /\ TnodeBits \in Nat /\ NTemp \in Nat /\ TempUsers \in Nat
    /\ \A p \in DevParams : p.bytes > TagBytes /\ p.chunks > 0

VARIABLES
    param,   \* the device's parameters: they never change
    start,   \* the device: what it has, what it has lost hold of
    lent,    \* user -> its temporary buffer
    tried    \* history: what could not be had again in the last attempt to start
             \* without a checkpoint a device that can be written

startVars == <<param, start, lent, tried>>

-----------------------------------------------------------------------------
(* The numbers.                                                            *)

\* calc_shifts() and calc_shifts_ceiling().
calc_shifts(x) == CHOOSE k \in 0 .. 31 : x % 2^k = 0 /\ x % 2^(k + 1) # 0
calc_shifts_ceiling(x) == CHOOSE k \in 0 .. 31 : 2^k >= x /\ \A j \in 0 .. k - 1 : 2^j < x

\* The blocks are counted from one: block 0 of the flash is block 1.
Offset(p) == IF p.start = 0 THEN 1 ELSE 0
InternalEnd(p) == p.end + Offset(p)

GeometryOk(p) ==
    /\ p.is_yaffs2 /\ ~p.inband => p.bytes >= 1024
    /\ ~p.is_yaffs2 => p.bytes >= 512 /\ ~p.inband
    /\ p.chunks >= 2 /\ p.reserved >= 2
    /\ InternalEnd(p) > p.start + Offset(p) + p.reserved + 2

DataBytes(p) == IF p.inband THEN p.bytes - TagBytes ELSE p.bytes

ChunkShift(p) == calc_shifts(DataBytes(p))
ChunkDiv(p) == DataBytes(p) \div 2^ChunkShift(p)

\* yaffs_addr_to_chunk().
addr_to_chunk(p, addr) ==
    LET shifted == addr \div 2^ChunkShift(p)
        chunk == shifted \div ChunkDiv(p)
    IN  IF ChunkDiv(p) = 1 THEN <<shifted, addr % 2^ChunkShift(p)>>
        ELSE <<chunk, addr - chunk * DataBytes(p)>>

ChunkBits(p) == calc_shifts_ceiling(p.chunks * (InternalEnd(p) + 1))

\* Wide tnodes have an even number of bits.
Even(k) == k + (k % 2)

TnodeWidth(p) ==
    LET even == Even(ChunkBits(p))
    IN  IF p.wide /\ even > TnodeBits THEN even ELSE TnodeBits

GroupBits(p) ==
    LET bits == IF p.wide THEN Even(ChunkBits(p)) ELSE ChunkBits(p)
    IN  IF bits <= TnodeWidth(p) THEN 0 ELSE bits - TnodeWidth(p)

\* The group of chunks an entry may stand for lies within a block.
GroupFits(p) == 2^GroupBits(p) <= p.chunks

\* yaffs_statfs(): the blocks that n free chunks make.
statfs(p, bsize, n) ==
    CASE ChunkDiv(p) # 1 -> (n * DataBytes(p)) \div bsize
      [] ChunkDiv(p) = 1 /\ bsize > DataBytes(p) -> n \div (bsize \div DataBytes(p))
      [] OTHER -> n * (DataBytes(p) \div bsize)

-----------------------------------------------------------------------------
(* Starting and ending.                                                    *)

\* dirs: the fake directories are there; wild: memory was used that is not the
\* device's, and nothing is known of it any more.
Nothing == [has |-> {}, lost |-> {}, ll_init |-> FALSE, is_mounted |-> FALSE,
            dirs |-> FALSE, wild |-> FALSE]

\* Steps that allocate and may fail, in the order they are taken.
InitSteps(p) ==
    <<"caches", "gc_cleanup_list", "blocks", "objects", "directories">>
        \o (IF p.is_yaffs2 /\ p.summary THEN <<"summary">> ELSE <<>>)

\* What had been allocated before is lost: the pointer is written over.
Take(d, x) == [d EXCEPT !.lost = IF x \in d.has THEN @ \cup {x} ELSE @, !.has = @ \cup {x}]

\* yaffs_guts_ll_init(): a second one does nothing.
ll_init(d, fails) ==
    LET temp == Take(d, "temp")
    IN  CASE d.ll_init -> d
          [] ~d.ll_init /\ (~GeometryOk(param) \/ "drivers" \in fails) -> d
          [] ~d.ll_init /\ GeometryOk(param) /\ "drivers" \notin fails ->
                 IF fails \cap {"temp", "nand"} # {} THEN temp
                 ELSE [Take(temp, "nand") EXCEPT !.ll_init = TRUE]

slip_deinitialise(d) ==     \* the cleanup list stays
    IF ~d.is_mounted THEN d
    ELSE [d EXCEPT !.has = @ \cap {"gc_cleanup_list"}, !.ll_init = FALSE, !.is_mounted = FALSE,
                   !.dirs = FALSE]

\* yaffs_deinitialise().
deinitialise(d) ==
    IF ~d.is_mounted THEN d
    ELSE [d EXCEPT !.has = {}, !.ll_init = FALSE, !.is_mounted = FALSE, !.dirs = FALSE]

\* One step of yaffs_guts_initialise(): the lists of objects are set up even
\* when something has failed, and what fails may have been had in part.
InitStep(d, x, fails) ==
    IF d.failed /\ x # "objects" THEN d
    ELSE [Take(d, x) EXCEPT !.failed = @ \/ x \in fails,
                            !.dirs = @ \/ (x = "directories" /\ x \notin fails)]

\* No checkpoint: what an aborted load has left goes, and the device begins
\* again before it is scanned.
Again(d, again) ==
    FoldLeft(LAMBDA e, x : InitStep(e, x, again),
             [d EXCEPT !.has = @ \ {"blocks", "objects", "directories"}, !.dirs = FALSE],
             <<"blocks", "objects", "directories">>)

\* yaffs_guts_cleanup(): it walks through the directories of a device that can
\* be written, and some of them are not, or no longer, there if "harm" is done.
Cleanup(d, read_only, harm) == [d EXCEPT !.wild = ~read_only /\ ~d.dirs /\ harm]

\* yaffs1 has no checkpoint to begin with.
Scan(d, t, harm) ==
    LET e == IF param.is_yaffs2 /\ "checkpoint" \in t.fails THEN Again(d, t.again) ELSE d
        scans == ~param.is_yaffs2 \/ "checkpoint" \in t.fails
    IN  IF d.failed THEN d
        ELSE Cleanup([e EXCEPT !.failed = @ \/ (scans /\ "scan" \in t.fails)], t.read_only, harm)

Mounted(d, t, harm) ==
    Scan(FoldLeft(LAMBDA e, x : InitStep(e, x, t.fails), d @@ [failed |-> FALSE],
                  InitSteps(param)),
         t, harm)

Settled(d) ==
    LET e == [f \in DOMAIN Nothing |-> d[f]]
    IN  IF d.failed THEN deinitialise(e) ELSE e

\* A group of chunks that is too large is noticed when the device is said to be
\* mounted already, and so it stays.
initialise(d, t, harm) ==
    LET e == [d EXCEPT !.is_mounted = TRUE]
    IN  IF ~d.ll_init \/ d.is_mounted THEN d
        ELSE IF ~GroupFits(param) THEN e
        ELSE Settled(Mounted(e, t, harm))

-----------------------------------------------------------------------------
(* The temporary buffers, and the calls.                                   *)

StartInit ==
    /\ param \in DevParams
    /\ start = Nothing
    /\ lent = <<>>
    /\ tried = {}

MayFail == {"drivers", "temp", "nand", "scan", "checkpoint"} \cup {"caches", "gc_cleanup_list",
            "blocks", "directories", "summary"}

\* One thing that cannot be had, with or without a checkpoint, and one that
\* cannot be had the second time.
Initialise ==
    /\ ~start.wild
    /\ \E x \in MayFail \cup {"none"}, y \in {"checkpoint", "none"},
          again \in {{}, {"blocks"}, {"directories"}}, read_only, harm \in BOOLEAN :
          LET t == [fails |-> {x, y}, again |-> again, read_only |-> read_only]
          IN  /\ start' = initialise(ll_init(start, t.fails), t, harm)
              /\ tried' = CASE start.is_mounted -> tried
                            [] ~start.is_mounted /\ param.is_yaffs2 /\ "checkpoint" \in t.fails
                                 /\ ~read_only -> again
                            [] OTHER -> {}
    /\ UNCHANGED <<param, lent>>

\* yaffs_guts_format_dev() starts no more than the flash.
FormatDev ==
    /\ ~start.is_mounted /\ ~start.wild
    /\ \E x \in {"drivers", "temp", "nand", "none"} : start' = ll_init(start, {x})
    /\ UNCHANGED <<param, lent, tried>>

\* Without lists of objects there is a BUG(), after which only some builds go on.
Deinitialise ==
    /\ start.is_mounted /\ ~start.wild /\ lent = <<>>
    /\ \E wild \in IF "objects" \in start.has THEN {FALSE} ELSE BOOLEAN :
          start' = [deinitialise(start) EXCEPT !.wild = wild]
    /\ UNCHANGED <<param, lent, tried>>

\* yaffs_get_temp_buffer(): the first one free, or one that is not managed: 0.
GetTemp ==
    /\ start.is_mounted /\ ~start.wild /\ Len(lent) < TempUsers
    /\ LET free == {b \in 1 .. NTemp : \A i \in DOMAIN lent : lent[i] # b}
       IN  lent' = Append(lent, IF free = {} THEN 0 ELSE CHOOSE b \in free : \A c \in free : b <= c)
    /\ UNCHANGED <<param, start, tried>>

\* yaffs_release_temp_buffer(), in any order.
ReleaseTemp ==
    /\ \E i \in DOMAIN lent : lent' = RemoveAt(lent, i)
    /\ UNCHANGED <<param, start, tried>>

StartNext == Initialise \/ FormatDev \/ Deinitialise \/ GetTemp \/ ReleaseTemp

-----------------------------------------------------------------------------
(* Properties.                                                             *)

All == {"temp", "nand"} \cup ToSet(InitSteps(param))

\* (yaffs_guts_initialise(), yaffs_deinitialise())  A device is mounted with all
\* it needs or not at all; what an attempt that failed had is freed, or taken up
\* by the next one; no pointer to memory is written over.  Only the temporary
\* buffers of an attempt that fails before the flash is started are lost.  But a
\* device whose groups of chunks are too large is said to be mounted with the
\* flash only, and ending it is a BUG(); and one that can be written and has no
\* checkpoint loses its hold on memory when something it has had cannot be had
\* again.
StartsWhole ==
    IF start.wild
    THEN ~GroupFits(param) \/ tried # {}
    ELSE /\ start.is_mounted => /\ start.ll_init
                                /\ start.has = IF GroupFits(param) THEN All
                                               ELSE {"temp", "nand"}
         /\ ~start.is_mounted => start.has \subseteq {"temp", "nand"}
         /\ start.ll_init => {"temp", "nand"} \subseteq start.has
         /\ start.lost \subseteq {"temp"}

\* (yaffs_addr_to_chunk(), the widths of yaffs_guts_initialise(), yaffs_statfs())
\* On a device that starts every address is in the chunk it is said to be in, an
\* entry of a tnode has room for every chunk, and statfs() tells the free space in
\* whole blocks.
NumbersFit ==
    GeometryOk(param) =>
        /\ \A k \in 0 .. 3, off \in {0, 1, DataBytes(param) - 1} :
              addr_to_chunk(param, k * DataBytes(param) + off) = <<k, off>>
        /\ (param.chunks * (InternalEnd(param) + 1) - 1) \div 2^GroupBits(param) < 2^TnodeWidth(param)
        /\ \A bsize \in BlockSizes, n \in {0, 1, 63, 1000} :
              statfs(param, bsize, n) = (n * DataBytes(param)) \div bsize

\* No managed buffer has two users (yaffs_get_temp_buffer()).
LentOnce ==
    \A i, j \in DOMAIN lent : i # j /\ lent[i] # 0 => lent[i] # lent[j]

StartSound == StartsWhole /\ NumbersFit /\ LentOnce
=============================================================================
