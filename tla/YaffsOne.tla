------------------------------- MODULE YaffsOne -------------------------------
(***************************************************************************)
(* yaffs1 mode: small-page flash whose pages may be programmed twice, so   *)
(* that a chunk that is replaced or deleted is marked deleted where it     *)
(* lies, and a two-bit serial number tells which of two live copies is the *)
(* newer (yaffs1_scan() of core/yaffs_yaffs1.c, yaffs_put_chunk_in_file(), *)
(* yaffs_chunk_del(), yaffs_update_oh() and the collector of               *)
(* core/yaffs_guts.c).  Files are deleted softly.                          *)
(*                                                                         *)
(* A call is an operator on the record "dev": it programs, marks and       *)
(* erases in the order the code does and collects in dev.past the flash as *)
(* it was before each of those operations.  A power failure during the     *)
(* call leaves one of them behind for the next mount.                      *)
(***************************************************************************)
EXTENDS Integers, FiniteSets, SequencesExt

CONSTANTS
    Files,       \* object numbers, 1 ..
    Ids,         \* chunks of a file, 1 ..
    Names,
    Vals,
    Hole,
    NoFile,
    NBlocks,
    PagesPerBlock,
    GcMaxCopies, \* live chunks one round of the collector copies
    MaxCalls,    \* bound: calls and collections
    MaxCrashes   \* bound: power failures

ASSUME OneAssumption ==
    /\ NBlocks \in Nat \ {0} /\ PagesPerBlock \in Nat \ {0}
    /\ GcMaxCopies \in Nat \ {0} /\ MaxCalls \in Nat /\ MaxCrashes \in Nat
    /\ Hole \notin Vals

VARIABLES dev, calls, crashes

vars == <<dev, calls, crashes>>

Blocks == 1 .. NBlocks
Pages == 1 .. NBlocks * PagesPerBlock
BlockOf(p) == ((p - 1) \div PagesPerBlock) + 1
PagesOf(b) == {p \in Pages : BlockOf(p) = b}
PageOf(b, k) == (b - 1) * PagesPerBlock + k

\* What a page says: the tags, and of the chunk what the mount reads.  A page
\* marked deleted says nothing else.
Blank == [kind |-> "blank"]
Deleted == [kind |-> "deleted"]
DataPage(f, i, s, v) == [kind |-> "data", obj |-> f, id |-> i, serial |-> s, val |-> v]
HdrPage(f, s, dir, n, sh) ==
    [kind |-> "hdr", obj |-> f, id |-> 0, serial |-> s,
     dir |-> dir, name |-> n, shadows |-> sh]

-----------------------------------------------------------------------------
(* The device record.                                                      *)

\* struct yaffs_dev and the objects of a device that is about to scan the
\* flash "fl".  dir is the object's parent: the root directory, the directory
\* of deleted objects, lost+found, or "nil".
NewDevice(fl) ==
    [flash |-> fl, past |-> {},
     state |-> [b \in Blocks |-> "SCAN"],
     bits |-> {}, soft |-> [b \in Blocks |-> 0], shrink |-> {},
     free |-> 0, alloc |-> 0, page |-> 0, finder |-> 0, last |-> 0,
     gcblock |-> 0, gcpage |-> 1, gcoff |-> FALSE, cleanups |-> {}, pick |-> 0,
     ex |-> {}, valid |-> {}, fixers |-> <<>>,
     hdr |-> [f \in Files |-> 0], serial |-> [f \in Files |-> 0],
     dir |-> [f \in Files |-> "nil"], name |-> [f \in Files |-> Hole],
     map |-> [f \in Files |-> [i \in Ids |-> 0]],
     ndata |-> [f \in Files |-> 0],
     deleted |-> {}, softdel |-> {}]

\* One flash operation: the flash becomes fl.
Program(d, fl) == [d EXCEPT !.past = @ \cup {d.flash}, !.flash = fl]

Put(d, p, page) == Program(d, [d.flash EXCEPT ![p] = page])

EraseBlock(d, b) ==
    LET e == Program(d, [p \in Pages |->
                            IF p \in PagesOf(b) THEN Blank ELSE d.flash[p]])
    IN  [e EXCEPT !.state[b] = "EMPTY", !.soft[b] = 0, !.shrink = @ \ {b},
                  !.gcblock = IF @ = b THEN 0 ELSE @]

InUse(d, b) == d.bits \cap PagesOf(b)

\* A block that lost its last live chunk is erased, unless it is still being
\* filled or scanned, or holds the header of a file on its way out.
Drop(d, p) == [d EXCEPT !.bits = @ \ {p}, !.free = @ + 1]

EraseIfDone(d, b) ==
    IF InUse(d, b) = {} /\ b \notin d.shrink /\ d.state[b] \notin {"ALLOC", "SCAN"}
    THEN EraseBlock(d, b)
    ELSE d

ChunkDel(d, p, mark) ==
    IF p = 0 THEN d
    ELSE EraseIfDone(Drop(IF mark /\ d.state[BlockOf(p)] # "COLLECTING"
                          THEN Put(d, p, Deleted) ELSE d, p),
                     BlockOf(p))

\* yaffs_find_alloc_block(): the next empty block after the one last taken.
NextEmpty(d) ==
    LET after(k) == ((d.finder + k - 1) % NBlocks) + 1
        hits == {k \in 1 .. NBlocks : d.state[after(k)] = "EMPTY"}
    IN  after(CHOOSE k \in hits : \A j \in hits : k <= j)

\* yaffs_alloc_chunk() and the write: the page written is d.last.
WriteAt(d, page, b, k) ==
    [Put(d, PageOf(b, k), page) EXCEPT
        !.state[b] = IF k = PagesPerBlock THEN "FULL" ELSE "ALLOC",
        !.bits = @ \cup {PageOf(b, k)}, !.free = @ - 1, !.last = PageOf(b, k),
        !.alloc = IF k = PagesPerBlock THEN 0 ELSE b, !.page = k + 1, !.finder = b]

WriteNewChunk(d, page) ==
    IF d.alloc # 0 THEN WriteAt(d, page, d.alloc, d.page)
    ELSE WriteAt(d, page, NextEmpty(d), 1)

Next2(s) == (s + 1) % 4     \* the serial number's two bits

-----------------------------------------------------------------------------
(* Deleting objects, and the collector.                                    *)

GenericObjDel(d, f) ==
    LET e == ChunkDel(d, d.hdr[f], TRUE)
    IN  [e EXCEPT !.hdr[f] = 0, !.ex = @ \ {f}, !.valid = @ \ {f},
                  !.dir[f] = "nil", !.name[f] = Hole, !.serial[f] = 0,
                  !.deleted = @ \ {f}, !.softdel = @ \ {f}]

\* A chunk of a softly deleted file is dropped: it was counted free when the
\* file went.  Anything else moves on, with the next serial number, and a
\* header loses the marks of a shrink and of a rename in progress.
GcDrop(d, p, f) ==
    ChunkDel([d EXCEPT !.free = @ - 1, !.soft[BlockOf(p)] = @ - 1, !.ndata[f] = @ - 1,
                       !.cleanups = IF d.ndata[f] <= 1 THEN @ \cup {f} ELSE @],
             p, FALSE)

Refer(d, pg) ==
    IF pg.kind = "data" THEN [d EXCEPT !.map[pg.obj][pg.id] = d.last]
    ELSE [d EXCEPT !.hdr[pg.obj] = d.last, !.serial[pg.obj] = pg.serial]

GcCopy(d, p, pg) == ChunkDel(Refer(WriteNewChunk(d, pg), pg), p, TRUE)

GcProcessChunk(d, p) ==
    LET pg == d.flash[p]
        s == Next2(pg.serial)
    IN  CASE pg.obj \notin d.ex -> ChunkDel(d, p, TRUE)
          [] pg.obj \in d.ex /\ pg.kind = "data" /\ pg.obj \in d.softdel ->
                 GcDrop(d, p, pg.obj)
          [] OTHER -> GcCopy(d, p, IF pg.kind = "data" THEN [pg EXCEPT !.serial = s]
                                   ELSE [pg EXCEPT !.serial = s, !.shadows = 0])

\* The pages from gcpage on, until the round has copied its share or the block
\* is gone.
GcPages(d, b) ==
    LET round(a, k) ==
            IF k < a.d.gcpage \/ a.left = 0 \/ a.d.state[b] # "COLLECTING" THEN a
            ELSE LET live == PageOf(b, k) \in a.d.bits
                     e == IF live THEN GcProcessChunk(a.d, PageOf(b, k)) ELSE a.d
                 IN  [d |-> [e EXCEPT !.gcpage = k + 1],
                      left |-> IF live THEN a.left - 1 ELSE a.left]
    IN  FoldLeft(round, [d |-> d, left |-> GcMaxCopies],
                 [k \in 1 .. PagesPerBlock |-> k]).d

GcEnd(d, b) ==
    IF d.state[b] = "COLLECTING" THEN [d EXCEPT !.state[b] = "FULL", !.gcoff = FALSE]
    ELSE [FoldLeft(GenericObjDel, d, SetToSeq(d.cleanups \cap d.ex))
          EXCEPT !.gcblock = 0, !.gcpage = 1, !.cleanups = {}, !.gcoff = FALSE]

GcRound(d, b) == IF InUse(d, b) = {} THEN EraseBlock(d, b) ELSE GcPages(d, b)

GcBlock(d, b) ==
    GcEnd(GcRound([d EXCEPT !.state[b] = IF @ = "FULL" THEN "COLLECTING" ELSE @,
                            !.shrink = @ \ {b}, !.gcblock = b,
                            !.gcpage = IF d.gcblock = b THEN @ ELSE 1, !.gcoff = TRUE,
                            !.cleanups = IF d.gcblock = b THEN @ ELSE {}],
                  b), b)

\* yaffs_check_gc(): whether it collects, and which block, is up to how dirty
\* the blocks are and how long it has held off: d.pick.  A block begun is
\* finished first.
CheckGc(d) ==
    IF d.gcoff \/ d.pick = 0 THEN d
    ELSE GcBlock([d EXCEPT !.pick = 0], IF d.gcblock # 0 THEN d.gcblock ELSE d.pick)

-----------------------------------------------------------------------------
(* Writing data and headers.                                               *)

\* The chunk it replaces is looked up after the collector may have moved it.
Counted(d, f, prev) == [d EXCEPT !.ndata[f] = IF prev = 0 THEN @ + 1 ELSE @]

SerialAfter(d, prev) == IF prev = 0 THEN 1 ELSE Next2(d.flash[prev].serial)

Replace(d, page, prev) ==
    ChunkDel(Counted(Refer(WriteNewChunk(d, page), page), page.obj, prev), prev, TRUE)

WrChunk(d, f, i, v, prev) == Replace(d, DataPage(f, i, SerialAfter(d, prev), v), prev)

NewChunk(d, f, i, v) == WrChunk(d, f, i, v, d.map[f][i])

slip_WrDataObj(d, f, i, v) ==     \* looks the old chunk up too early
    Replace(CheckGc(d), DataPage(f, i, SerialAfter(d, d.map[f][i]), v), d.map[f][i])

WrDataObj(d, f, i, v) == NewChunk(CheckGc(d), f, i, v)

Shrunk(d, isShrink) ==
    IF isShrink THEN [d EXCEPT !.shrink = @ \cup {BlockOf(d.last)}] ELSE d

\* The serial number and the parent are the object's.
OhPage(d, f, shadows) == HdrPage(f, Next2(d.serial[f]), d.dir[f], d.name[f], shadows)

WriteOh(d, page) == Refer(WriteNewChunk(d, page), page)

slip_NewOh(d, f, isShrink, shadows) ==     \* deletes before it writes
    Shrunk(WriteOh(ChunkDel(d, d.hdr[f], TRUE), OhPage(d, f, shadows)), isShrink)

NewOh(d, f, isShrink, shadows) ==
    Shrunk(ChunkDel(WriteOh(d, OhPage(d, f, shadows)), d.hdr[f], TRUE), isShrink)

UpdateOh(d, f, isShrink, shadows) == NewOh(CheckGc(d), f, isShrink, shadows)

ChangeObjName(d, f, dir, n, shadows) ==
    UpdateOh([d EXCEPT !.dir[f] = dir, !.name[f] = n], f, dir = "deleted", shadows)

Mapped(d, f) == {i \in Ids : d.map[f][i] # 0}

\* The data stay on flash, counted free and out of the tree.
SoftDelWorker(d, f) ==
    LET soft(a, i) == [a EXCEPT !.soft[BlockOf(a.map[f][i])] = @ + 1,
                                !.free = @ + 1, !.map[f][i] = 0]
    IN  FoldLeft(soft, d, SetToSeq(Mapped(d, f)))

SoftDelFile(d, f) ==
    IF d.ndata[f] <= 0 THEN GenericObjDel(d, f)
    ELSE [SoftDelWorker(d, f) EXCEPT !.softdel = @ \cup {f}]

\* yaffs_del_file() and yaffs_unlink_file_if_needed() of a file nobody has open.
SoftDelOnce(d, f) ==
    IF f \in d.softdel THEN d ELSE SoftDelFile([d EXCEPT !.deleted = @ \cup {f}], f)

DelFile(d, f) ==
    IF d.ndata[f] <= 0 THEN GenericObjDel(d, f)
    ELSE SoftDelOnce(IF d.dir[f] = "deleted" THEN d
                     ELSE ChangeObjName(d, f, "deleted", Hole, 0), f)

\* yaffs_resize_file_down() to k whole chunks, backwards.
ResizeFileDown(d, f, k) ==
    LET gone(a, i) ==
            IF a.map[f][i] = 0 THEN a
            ELSE ChunkDel([a EXCEPT !.map[f][i] = 0, !.ndata[f] = @ - 1],
                          a.map[f][i], TRUE)
        last == Cardinality(Ids)
    IN  UpdateOh(FoldLeft(gone, d, [j \in 1 .. last - k |-> last + 1 - j]), f, FALSE, 0)

\* The collector is off until the target is gone: it would drop the shadow.
RenameOver(d, f, n, g) ==
    [DelFile(ChangeObjName([d EXCEPT !.gcoff = TRUE], f, "root", n, g), g)
     EXCEPT !.gcoff = FALSE]

RenameObj(d, f, n) ==
    LET targets == {g \in d.ex \ {f} : d.dir[g] = "root" /\ d.name[g] = n}
    IN  ChangeObjName(IF targets = {} THEN d
                      ELSE RenameOver(d, f, n, CHOOSE g \in targets : TRUE),
                      f, "root", n, 0)

CreateObj(d, f, n) ==
    UpdateOh([d EXCEPT !.ex = @ \cup {f}, !.valid = @ \cup {f}, !.dir[f] = "root",
                       !.name[f] = n], f, FALSE, 0)


-----------------------------------------------------------------------------
(* The mount: yaffs1_scan() reads blocks and pages in the order they lie.  *)

\* yaffs_put_chunk_in_file() of a scan: of two copies the one whose serial
\* number follows the other's is the newer, and the loser is marked deleted.
PutScannedChunk(d, p) ==
    LET pg == d.flash[p]
        old == d.map[pg.obj][pg.id]
        put == [d EXCEPT !.map[pg.obj][pg.id] = p]
    IN  CASE old = 0 -> [put EXCEPT !.ndata[pg.obj] = @ + 1]
          [] old # 0 /\ Next2(d.flash[old].serial) = pg.serial -> ChunkDel(put, old, TRUE)
          [] OTHER -> ChunkDel(d, p, TRUE)

ScanData(d, p) ==
    PutScannedChunk([d EXCEPT !.bits = @ \cup {p}, !.ex = @ \cup {d.flash[p].obj}], p)

\* A header that shadows another object is remembered whichever copy wins.
ScanHeader(d, p) ==
    LET pg == d.flash[p]
        f == pg.obj
        seen == [d EXCEPT !.bits = @ \cup {p}, !.ex = @ \cup {f},
                          !.fixers = IF pg.shadows # 0 THEN <<<<f, pg.shadows>>>> \o @ ELSE @]
        load(e) == [e EXCEPT !.valid = @ \cup {f}, !.hdr[f] = p, !.serial[f] = pg.serial,
                             !.dir[f] = pg.dir, !.name[f] = pg.name]
    IN  CASE f \notin d.valid -> load(seen)
          [] f \in d.valid /\ Next2(d.serial[f]) = pg.serial ->
                 load(ChunkDel(seen, d.hdr[f], TRUE))
          [] OTHER -> ChunkDel(seen, p, TRUE)

ScanChunk(d, p) ==
    CASE d.flash[p].kind = "deleted" -> [d EXCEPT !.free = @ + 1]
      [] d.flash[p].kind = "blank" -> [d EXCEPT !.free = @ + 1]
      [] d.flash[p].kind = "data" -> ScanData(d, p)
      [] d.flash[p].kind = "hdr" -> ScanHeader(d, p)

\* A block half written counts as full; one with nothing live is erased.
ScanPages(d, b) ==
    [FoldLeft(ScanChunk, d, [k \in 1 .. PagesPerBlock |-> PageOf(b, k)])
     EXCEPT !.state[b] = "FULL",
            !.finder = IF d.flash[PageOf(b, PagesPerBlock)] = Blank THEN b ELSE @]

ScanBlock(d, b) == IF d.state[b] = "EMPTY" THEN d ELSE EraseIfDone(ScanPages(d, b), b)

\* Finish a rename that power cut off: the object shadowed goes, and the
\* header is written again without the shadow.
Unshadow(d, f) == IF f \in d.ex THEN UpdateOh(d, f, FALSE, 0) ELSE d

FixShadow(d, fixer) ==
    Unshadow(IF fixer[2] \in d.ex THEN DelFile(d, fixer[2]) ELSE d, fixer[1])

StripDeletedObjs(d) ==
    FoldLeft(DelFile, d, SetToSeq({f \in d.ex : d.dir[f] = "deleted"}))

FixHangingObjs(d) ==
    [d EXCEPT !.dir = [f \in Files |->
                          IF f \in d.ex /\ d.dir[f] = "nil" THEN "lost" ELSE d.dir[f]]]

\* yaffs_query_init_block_state(): the first page tells an empty block.
FixShadows(d) == [FoldLeft(FixShadow, d, d.fixers) EXCEPT !.fixers = <<>>]

Yaffs1Scan(fl) ==
    LET empty == {b \in Blocks : fl[PageOf(b, 1)] = Blank}
        start == [NewDevice(fl) EXCEPT
                     !.state = [b \in Blocks |-> IF b \in empty THEN "EMPTY" ELSE "SCAN"],
                     !.free = PagesPerBlock * Cardinality(empty)]
    IN  FixShadows(FoldLeft(ScanBlock, start, [b \in 1 .. NBlocks |-> b]))

Mount(fl) == [FixHangingObjs(StripDeletedObjs(Yaffs1Scan(fl))) EXCEPT !.last = 0]

-----------------------------------------------------------------------------
(* Calls, collections and power failures.                                  *)

Init ==
    /\ dev = [Mount([p \in Pages |-> Blank]) EXCEPT !.past = {}]
    /\ calls = 0
    /\ crashes = 0

Erased(d) == {p \in Pages : d.state[BlockOf(p)] = "EMPTY"}
                 \cup {p \in PagesOf(d.alloc) : d.alloc # 0 /\ p >= PageOf(d.alloc, d.page)}

\* What aggressive collection and the reserve maintain: room for a call that
\* writes up to three chunks, and for the live pages of the block it collects.
Roomy(d) == Cardinality(Erased(d)) >= 3 + PagesPerBlock

\* The block the call's yaffs_check_gc() collects, 0 for none.
Picks == {0} \cup {b \in Blocks : dev.state[b] = "FULL"}

\* The call that makes d of the device, whole, or cut off by a power failure
\* that leaves the flash as it was before one of its operations.  The mount
\* after it may be cut off in the same way, once.
Outcome(d) ==
    /\ calls < MaxCalls
    /\ calls' = calls + 1
    /\ \/ dev' = [d EXCEPT !.past = {}, !.pick = 0, !.last = 0] /\ UNCHANGED crashes
       \/ /\ crashes < MaxCrashes
          /\ crashes' = crashes + 1
          /\ \E fl \in d.past : \E at \in {fl} \cup Mount(fl).past :
                dev' = [Mount(at) EXCEPT !.past = {}]

Live(f) == f \in dev.ex /\ dev.dir[f] = "root"

Create(f, n) ==
    /\ Roomy(dev) /\ f \notin dev.ex
    /\ ~\E g \in Files : Live(g) /\ dev.name[g] = n
    /\ \E p \in Picks : Outcome(CreateObj([dev EXCEPT !.pick = p], f, n))

Write(f, i, v) ==
    /\ Roomy(dev) /\ Live(f)
    /\ \E p \in Picks : Outcome(WrDataObj([dev EXCEPT !.pick = p], f, i, v))

Truncate(f, k) ==
    /\ Roomy(dev) /\ Live(f)
    /\ \E p \in Picks : Outcome(ResizeFileDown([dev EXCEPT !.pick = p], f, k))

Rename(f, n) ==
    /\ Roomy(dev) /\ Live(f)
    /\ \E p \in Picks : Outcome(RenameObj([dev EXCEPT !.pick = p], f, n))

Delete(f) ==
    /\ Roomy(dev) /\ Live(f)
    /\ \E p \in Picks : Outcome(DelFile([dev EXCEPT !.pick = p], f))

\* The background collector.
Collect(b) ==
    /\ dev.state[b] = "FULL"
    /\ dev.gcblock \in {0, b}
    /\ Cardinality(Erased(dev)) >= PagesPerBlock
    /\ Outcome(GcBlock(dev, b))

\* Power fails between two calls.
PowerFail ==
    /\ crashes < MaxCrashes
    /\ crashes' = crashes + 1
    /\ \E fl \in {dev.flash} \cup Mount(dev.flash).past :
          dev' = [Mount(fl) EXCEPT !.past = {}]
    /\ UNCHANGED calls

\* The bounds are used up.
Done == calls = MaxCalls /\ UNCHANGED vars

Next ==
    \/ \E f \in Files, n \in Names : Create(f, n) \/ Rename(f, n)
    \/ \E f \in Files, i \in Ids, v \in Vals : Write(f, i, v)
    \/ \E f \in Files, k \in {0} \cup Ids : Truncate(f, k)
    \/ \E f \in Files : Delete(f)
    \/ \E b \in Blocks : Collect(b)
    \/ PowerFail
    \/ Done

Spec == Init /\ [][Next]_vars

-----------------------------------------------------------------------------
(* Properties.                                                             *)

Contents ==
    [f \in Files |->
        IF Live(f)
        THEN [name |-> dev.name[f],
              data |-> [i \in Ids |-> IF dev.map[f][i] = 0 THEN Hole
                                      ELSE dev.flash[dev.map[f][i]].val]]
        ELSE NoFile]

FileSystem == INSTANCE YaffsFiles WITH files <- Contents

(* Every call, collection, power failure and mount does to the files what   *)
(* one call of the abstract file system does, or nothing: a write, rename  *)
(* or deletion cut off anywhere, even with the mount after it cut off too, *)
(* has happened or has not, no old copy of a chunk and no deleted file     *)
(* comes back, and the collector changes nothing.  It holds as long as     *)
(* the collector finishes a block in one round.                            *)
CallsAreAtomic == FileSystem!Spec

(* The chunks in use are exactly those some file or header refers to and   *)
(* the softly deleted ones, the free count is what is left plus those, and *)
(* every object has a header on flash that names it.                       *)
Referenced ==
    LET soft == {p \in dev.bits : /\ dev.flash[p].kind = "data"
                                  /\ dev.flash[p].obj \in dev.softdel}
        refs == {dev.hdr[f] : f \in dev.ex}
                    \cup {dev.map[f][i] : f \in dev.ex, i \in Ids}
    IN  /\ dev.bits = (refs \ {0}) \cup soft
        /\ (refs \ {0}) \cap soft = {}
        /\ dev.free = Cardinality(Pages \ dev.bits) + Cardinality(soft)
        /\ \A b \in Blocks : dev.soft[b] = Cardinality(soft \cap PagesOf(b))
        /\ \A f \in dev.ex :
              /\ dev.hdr[f] # 0
              /\ dev.flash[dev.hdr[f]].obj = f
              /\ dev.flash[dev.hdr[f]].name = dev.name[f]
              /\ f \in dev.softdel => dev.ndata[f] > 0
=============================================================================
