----------------------------- MODULE YaffsHandles -----------------------------
(***************************************************************************)
(* The tables of direct/yaffsfs.c: handles, file descriptors, open objects *)
(* and directory searches, shared by all devices and all threads, and the  *)
(* calls that work on them.                                                *)
(*                                                                         *)
(* One lock makes every call a single step, except read and write: they    *)
(* let the lock go after each piece of YAFFSFS_RW_SIZE bytes.  A piece is  *)
(* the unit of sizes and positions here.  Names lead to objects of the     *)
(* root directory of a device; the path is resolved in the step itself.    *)
(* A call that fails before it has changed anything is no step.            *)
(***************************************************************************)
EXTENDS Integers, FiniteSets, Sequences, SequencesExt, TLC

CONSTANTS
    Devs,      \* devices; each is also the name of its root directory
    Objs,      \* the other objects that can exist
    Names,     \* names in a root directory
    Threads,
    NHandles,  \* YAFFSFS_N_HANDLES
    NDsc,      \* YAFFSFS_N_DSC
    Modes,     \* flags and sharing a file is opened with, see FdMode
    MaxSize,   \* bound: pieces in a file
    None

ASSUME HandlesAssumption ==
    /\ {NHandles, NDsc, MaxSize} \subseteq Nat \ {0}
    /\ None \notin Devs \cup Objs \cup Names \cup Threads
    /\ Devs \cap Objs = {}

VARIABLES
    fs,     \* the tables and the objects in memory
    dev,    \* is_mounted and read_only of each device
    io,     \* the read or write each thread is in
    opened  \* history: handles that open or dup gave out, until they are closed
            \* or taken back

vars == <<fs, dev, io, opened>>

Slots == 0 .. NHandles - 1
Searches == 0 .. NDsc - 1

FdMode == [reading : BOOLEAN, writing : BOOLEAN, append : BOOLEAN,
           shareRead : BOOLEAN, shareWrite : BOOLEAN]
NoMode == [reading |-> FALSE, writing |-> FALSE, append |-> FALSE,
           shareRead |-> FALSE, shareWrite |-> FALSE]

\* Free entries.  What the next user of an entry clears is cleared on release.
FreeHandle == [fdId |-> -1, useCount |-> 0]
FreeFd == [inodeId |-> -1, handleCount |-> 0, mode |-> NoMode, position |-> 0, dir |-> -1]
FreeInode == [count |-> 0, iObj |-> None]
FreeDsc == [inUse |-> FALSE, dirObj |-> None, nextReturn |-> None, due |-> {}]

Quiet == [kind |-> "none"]

RootObj(d) == [type |-> "dir", dev |-> d, name |-> None, unlinked |-> FALSE,
               my_inode |-> FALSE, size |-> 0]

\* yaffsfs_InitHandles(), and devices with an empty root directory.
InitHandles ==
    [handle   |-> [h \in Slots |-> FreeHandle],
     fd       |-> [k \in Slots |-> FreeFd],
     inode    |-> [i \in Slots |-> FreeInode],
     dsc      |-> [c \in Searches |-> FreeDsc],
     objs     |-> [d \in Devs |-> RootObj(d)],
     children |-> [d \in Devs |-> <<>>]]

Least(S) == CHOOSE i \in S : \A j \in S : i <= j

-----------------------------------------------------------------------------
(* From a handle to an object.                                             *)

HandleToFileDes(s, h) == IF s.handle[h].useCount > 0 THEN s.handle[h].fdId ELSE -1

HandleToInode(s, h) ==
    LET k == HandleToFileDes(s, h)
    IN  IF k # -1 /\ s.fd[k].handleCount > 0 THEN s.fd[k].inodeId ELSE -1

HandleToObject(s, h) ==
    LET i == HandleToInode(s, h) IN IF i # -1 THEN s.inode[i].iObj ELSE None

FdsOf(s, o) ==
    {k \in Slots : /\ s.fd[k].handleCount > 0
                   /\ s.fd[k].inodeId # -1
                   /\ s.inode[s.fd[k].inodeId].iObj = o}

FindInodeId(s, o) ==
    LET found == {i \in Slots : s.inode[i].iObj = o}
    IN  IF found # {} THEN Least(found) ELSE -1

FindByName(s, d, n) ==
    LET found == {o \in DOMAIN s.objs : /\ s.objs[o].dev = d
                                        /\ s.objs[o].name = n
                                        /\ ~s.objs[o].unlinked}
    IN  IF found # {} THEN CHOOSE o \in found : TRUE ELSE None

-----------------------------------------------------------------------------
(* Directory lists and the searches in them.                               *)

\* The entry after o, the oldest last.
DirAdvance(s, o) ==
    LET list == s.children[s.objs[o].dev]
        at == CHOOSE k \in DOMAIN list : list[k] = o
    IN  IF at < Len(list) THEN list[at + 1] ELSE None

\* Slip: a search is left pointing at the entry that goes.
slip_RemoveObjectCallback(s, o) ==
    [c \in Searches |-> [s.dsc[c] EXCEPT !.due = @ \ {o}]]

\* An entry that goes is passed over by the searches that would return it next.
RemoveObjectCallback(s, o) ==
    [c \in Searches |->
        [s.dsc[c] EXCEPT
            !.nextReturn = IF @ = o THEN DirAdvance(s, o) ELSE @,
            !.due = @ \ {o}]]

InDir(s, o) == o \in Range(s.children[s.objs[o].dev])

remove_obj_from_dir(s, o) ==
    IF InDir(s, o)
    THEN [s EXCEPT !.dsc = RemoveObjectCallback(s, o),
                   !.children[s.objs[o].dev] = SelectSeq(@, LAMBDA e : e # o)]
    ELSE s

\* yaffs_add_obj_to_dir(): a new entry comes first, before any search.
add_obj_to_dir(s, o) ==
    [remove_obj_from_dir(s, o) EXCEPT !.children[s.objs[o].dev] = <<o>> \o @]

\* The object is deleted; its memory serves another.
del_obj(s, o) ==
    LET t == remove_obj_from_dir(s, o)
    IN  [t EXCEPT !.objs = [x \in DOMAIN @ \ {o} |-> @[x]]]

\* yaffs_unlink_obj() of an object without hard links: an open one is moved to
\* the unlinked directory.
unlink_obj(s, o) ==
    IF s.objs[o].my_inode
    THEN [remove_obj_from_dir(s, o) EXCEPT !.objs[o].unlinked = TRUE]
    ELSE del_obj(s, o)

SetDirRewound(s, c) ==
    LET list == s.children[s.dsc[c].dirObj]
    IN  IF s.dsc[c].dirObj \in Devs
        THEN [s EXCEPT !.dsc[c].nextReturn = IF list = <<>> THEN None ELSE list[1],
                       !.dsc[c].due = Range(list)]
        ELSE s

\* opendir: the first search context not in use.
FreeSearches(s) == {c \in Searches : ~s.dsc[c].inUse}
OpenDir(s, o) ==
    LET c == Least(FreeSearches(s))
    IN  SetDirRewound([s EXCEPT !.dsc[c] = [FreeDsc EXCEPT !.inUse = TRUE, !.dirObj = o]], c)

-----------------------------------------------------------------------------
(* Taking and releasing entries.                                           *)

FreeHandles(s) == {h \in Slots : s.handle[h].useCount < 1}
FreeFds(s) == {k \in Slots : s.fd[k].handleCount < 1}

GetInodeIdForObject(s, o) ==
    LET i == IF FindInodeId(s, o) # -1 THEN FindInodeId(s, o)
             ELSE Least({j \in Slots : s.inode[j].iObj = None})
    IN  [id |-> i,
         fs |-> [s EXCEPT !.inode[i] = [count |-> @.count + 1, iObj |-> o],
                          !.objs[o].my_inode = TRUE]]

\* An unlinked object goes with its last descriptor.
ReleaseInode(s, i) ==
    LET o == s.inode[i].iObj
        t == [s EXCEPT !.inode[i] = FreeInode, !.objs[o].my_inode = FALSE]
    IN  IF s.objs[o].unlinked THEN del_obj(t, o) ELSE t

PutInode(s, i) ==
    IF s.inode[i].count > 1 THEN [s EXCEPT !.inode[i].count = @ - 1]
    ELSE ReleaseInode(s, i)

PutFileDes(s, k) ==
    IF s.fd[k].handleCount > 1 THEN [s EXCEPT !.fd[k].handleCount = @ - 1]
    ELSE LET c == s.fd[k].dir
             i == s.fd[k].inodeId
             t == [s EXCEPT !.fd[k] = FreeFd,
                            !.dsc = IF c # -1 THEN [@ EXCEPT ![c] = FreeDsc] ELSE @]
         IN  IF i # -1 THEN PutInode(t, i) ELSE t

\* Slip: a call in progress does not hold the handle.
slip_GetHandle(s, h) == s

GetHandle(s, h) == [s EXCEPT !.handle[h].useCount = @ + 1]

PutHandle(s, h) ==
    IF s.handle[h].useCount = 0 THEN s
    ELSE IF s.handle[h].useCount > 1 THEN [s EXCEPT !.handle[h].useCount = @ - 1]
    ELSE PutFileDes([s EXCEPT !.handle[h] = FreeHandle], s.handle[h].fdId)

\* Every handle of every device is taken back, but only the descriptors of d
\* are released, and no search is closed.
BreakDeviceHandles(s, d) ==
    LET mine == {k \in Slots : \E h \in Slots :
                    /\ HandleToFileDes(s, h) = k
                    /\ HandleToObject(s, h) # None
                    /\ s.objs[HandleToObject(s, h)].dev = d}
        t == [s EXCEPT !.handle = [h \in Slots |->
                            IF @[h].useCount > 0 THEN [fdId |-> 0, useCount |-> 0] ELSE @[h]],
                       !.fd = [k \in Slots |-> IF k \in mine THEN FreeFd ELSE @[k]]]
        Put(x, k) == PutInode(x, s.fd[k].inodeId)
    IN  FoldSet(LAMBDA k, x : Put(x, k), t, mine)

IsDevBusy(s, d) ==
    \E h \in Slots : LET o == HandleToObject(s, h) IN o # None /\ s.objs[o].dev = d

-----------------------------------------------------------------------------
(* open, dup, close.                                                       *)

\* Slip: what the others are doing is not looked at.
slip_SharingDenied(s, o, m) ==
    \E k \in FdsOf(s, o) : LET x == s.fd[k].mode IN
        \/ ~x.shareRead /\ m.reading
        \/ ~x.shareWrite /\ m.writing

\* What another descriptor of the object allows, and is opened for, against
\* what is asked.
SharingDenied(s, o, m) ==
    \E k \in FdsOf(s, o) : LET x == s.fd[k].mode IN
        \/ ~x.shareRead /\ m.reading
        \/ ~m.shareRead /\ x.reading
        \/ ~x.shareWrite /\ m.writing
        \/ ~m.shareWrite /\ x.writing

\* A directory is opened for reading only, with a search of its own.
OpenMode(s, o, m) ==
    IF s.objs[o].type = "dir" THEN [m EXCEPT !.reading = TRUE, !.writing = FALSE] ELSE m

\* The end of open: the handle, the descriptor and the inode are taken and
\* hooked up, and O_TRUNC cuts the file.
Opened(s, o, m, trunc) ==
    LET h == Least(FreeHandles(s))
        k == Least(FreeFds(s))
        isDir == s.objs[o].type = "dir"
        g == GetInodeIdForObject(IF isDir THEN OpenDir(s, o) ELSE s, o)
    IN  [g.fs EXCEPT
            !.handle[h] = [fdId |-> k, useCount |-> 1],
            !.fd[k] = [inodeId |-> g.id, handleCount |-> 1, mode |-> m, position |-> 0,
                       dir |-> IF isDir THEN Least(FreeSearches(s)) ELSE -1],
            !.objs[o].size = IF trunc /\ ~isDir /\ m.writing THEN 0 ELSE @]

TakeHandle ==
    /\ FreeHandles(fs) # {} /\ FreeFds(fs) # {}
    /\ opened' = opened \cup {Least(FreeHandles(fs))}

OpenExisting(o, want, trunc) ==
    LET m == OpenMode(fs, o, want)
    IN  /\ TakeHandle
        /\ ~fs.objs[o].unlinked
        /\ fs.objs[o].type = "dir" => FreeSearches(fs) # {}
        /\ m.writing => ~dev[fs.objs[o].dev].read_only
        /\ ~SharingDenied(fs, o, m)
        /\ fs' = Opened(fs, o, m, trunc)
        /\ UNCHANGED <<dev, io>>

\* A new object of a directory that can be written; a file is also opened.
Created(s, d, n, o, type) ==
    add_obj_to_dir([s EXCEPT !.objs = @ @@
        (o :> [RootObj(d) EXCEPT !.type = type, !.name = n])], o)

CanCreate(d, n, o) ==
    /\ dev[d].mounted /\ ~dev[d].read_only
    /\ FindByName(fs, d, n) = None
    /\ o \in Objs \ DOMAIN fs.objs

OpenCreate(d, n, o, m) ==
    /\ TakeHandle
    /\ CanCreate(d, n, o)
    /\ fs' = Opened(Created(fs, d, n, o, "file"), o, m, FALSE)
    /\ UNCHANGED <<dev, io>>

Mkdir(d, n, o) ==
    /\ CanCreate(d, n, o)
    /\ fs' = Created(fs, d, n, o, "dir")
    /\ UNCHANGED <<dev, io, opened>>

\* History: the handles given out and the calls in progress when a use of h
\* is given back by somebody who has none.  It is the holder's that goes, or
\* else that of a call.
Deprived(h, given, calls) ==
    LET users == {t \in Threads : /\ calls[t] # Quiet
                                  /\ calls[t].handle = h /\ ~calls[t].orphan}
    IN  IF h \in given \/ users = {} THEN [opened |-> given \ {h}, io |-> calls]
        ELSE [opened |-> given,
              io |-> [calls EXCEPT ![CHOOSE t \in users : TRUE].orphan = TRUE]]

Dup(h) ==
    LET k == HandleToFileDes(fs, h)
    IN  /\ k # -1
        /\ FreeHandles(fs) # {}
        /\ LET n == Least(FreeHandles(fs))
           IN  /\ fs' = [fs EXCEPT !.handle[n] = [fdId |-> k, useCount |-> 1],
                                   !.fd[k].handleCount = @ + 1]
               /\ opened' = opened \cup {n}
        /\ UNCHANGED <<dev, io>>

Close(h) ==
    /\ HandleToObject(fs, h) # None
    /\ fs' = PutHandle(fs, h)
    /\ LET left == Deprived(h, opened, io)
       IN  opened' = left.opened /\ io' = left.io
    /\ UNCHANGED dev

-----------------------------------------------------------------------------
(* read and write, piece by piece.  c is the call: its handle and the      *)
(* descriptor it found at the start, where it is and how much is left, the *)
(* object it began on, and whether its use of the handle has been taken    *)
(* back.  pread and pwrite, which begin elsewhere and leave the position   *)
(* alone, are left out.                                                    *)

Finished(s, c) ==
    LET t == PutHandle(s, c.handle)
    IN  IF (c.kind = "read" \/ c.total > 0) /\ t.fd[c.fd].handleCount > 0
        THEN [t EXCEPT !.fd[c.fd].position = c.start + c.total]
        ELSE t

\* "Need to reverify object in case the device was remounted or unmounted in
\* another thread.": the handle is looked up again, and no more than that.
Transfer(s, t, c, room) ==
    LET o == HandleToObject(s, c.handle)
        pos == c.start + c.total
        ok == /\ o # None
              /\ c.kind = "write" => room /\ ~dev[s.objs[o].dev].read_only
        u == IF ok /\ c.kind = "write" /\ s.objs[o].size <= pos
             THEN [s EXCEPT !.objs[o].size = pos + 1] ELSE s
        d == IF ok THEN [c EXCEPT !.total = @ + 1, !.left = @ - 1]
             ELSE [c EXCEPT !.left = 0]
        calls == [io EXCEPT ![t] = Quiet]
        left == IF c.orphan THEN Deprived(c.handle, opened, calls)
                ELSE [opened |-> opened, io |-> calls]
    IN  IF d.left > 0
        THEN fs' = u /\ io' = [io EXCEPT ![t] = d] /\ UNCHANGED opened
        ELSE fs' = Finished(u, d) /\ io' = left.io /\ opened' = left.opened

Begun(kind, h, start, left) ==
    [kind |-> kind, handle |-> h, fd |-> HandleToFileDes(fs, h), start |-> start,
     left |-> left, total |-> 0, obj |-> HandleToObject(fs, h), orphan |-> FALSE]

Smaller(a, b) == IF a < b THEN a ELSE b

\* The length is limited once, at the start.
Read(t, h, n) ==
    LET k == HandleToFileDes(fs, h)
        o == HandleToObject(fs, h)
        start == fs.fd[k].position
        left == Smaller(n, fs.objs[o].size - start)
    IN  /\ io[t] = Quiet
        /\ o # None /\ fs.objs[o].type = "file" /\ fs.fd[k].mode.reading
        /\ left > 0
        /\ Transfer(GetHandle(fs, h), t, Begun("read", h, start, left), TRUE)
        /\ UNCHANGED dev

Write(t, h, n) ==
    LET k == HandleToFileDes(fs, h)
        o == HandleToObject(fs, h)
        start == IF fs.fd[k].mode.append THEN fs.objs[o].size ELSE fs.fd[k].position
    IN  /\ io[t] = Quiet
        /\ o # None /\ fs.fd[k].mode.writing /\ ~dev[fs.objs[o].dev].read_only
        /\ start + n <= MaxSize
        /\ \E room \in BOOLEAN :
              Transfer(GetHandle(fs, h), t, Begun("write", h, start, n), room)
        /\ UNCHANGED dev

NextPiece(t) ==
    /\ io[t] # Quiet
    /\ \E room \in BOOLEAN : Transfer(fs, t, io[t], room)
    /\ UNCHANGED dev

\* lseek and ftruncate.
Lseek(h, pos) ==
    LET k == HandleToFileDes(fs, h)
    IN  /\ HandleToObject(fs, h) # None
        /\ fs' = IF fs.fd[k].dir = -1 THEN [fs EXCEPT !.fd[k].position = pos]
                 ELSE [fs EXCEPT !.fd[k].dir = -1]
        /\ UNCHANGED <<dev, io, opened>>

Ftruncate(h, n) ==
    LET o == HandleToObject(fs, h)
    IN  /\ o # None
        /\ fs.fd[HandleToFileDes(fs, h)].mode.writing
        /\ ~dev[fs.objs[o].dev].read_only
        /\ fs' = [fs EXCEPT !.objs[o].size = n]
        /\ UNCHANGED <<dev, io, opened>>

-----------------------------------------------------------------------------
(* Names.                                                                  *)

UnlinkObj(o) ==
    /\ o \in DOMAIN fs.objs \ Devs
    /\ ~dev[fs.objs[o].dev].read_only
    /\ fs' = unlink_obj(fs, o)
    /\ UNCHANGED <<dev, io, opened>>

Unlink(o) == InDir(fs, o) /\ fs.objs[o].type = "file" /\ UnlinkObj(o)
Rmdir(o) == InDir(fs, o) /\ fs.objs[o].type = "dir" /\ UnlinkObj(o)

\* What a handle leads to may have been unlinked before.
Funlink(h) == HandleToObject(fs, h) # None /\ UnlinkObj(HandleToObject(fs, h))

\* The object that has the new name already is unlinked.
Rename(o, n) ==
    /\ o \notin Devs
    /\ InDir(fs, o) /\ ~dev[fs.objs[o].dev].read_only
    /\ LET target == FindByName(fs, fs.objs[o].dev, n)
           s == IF target = None THEN fs ELSE unlink_obj(fs, target)
       IN  /\ target # o
           /\ target # None => fs.objs[target].type = fs.objs[o].type
           /\ fs' = add_obj_to_dir([s EXCEPT !.objs[o].name = n], o)
    /\ UNCHANGED <<dev, io, opened>>

-----------------------------------------------------------------------------
(* Directory searches.                                                     *)

Opendir(o) ==
    /\ o \in DOMAIN fs.objs
    /\ fs.objs[o].type = "dir" /\ ~fs.objs[o].unlinked
    /\ FreeSearches(fs) # {}
    /\ fs' = OpenDir(fs, o)
    /\ UNCHANGED <<dev, io, opened>>

Readdir(c) ==
    LET o == fs.dsc[c].nextReturn
    IN  /\ fs.dsc[c].inUse /\ o # None
        /\ fs' = [fs EXCEPT !.dsc[c].nextReturn = DirAdvance(fs, o),
                            !.dsc[c].due = @ \ {o}]
        /\ UNCHANGED <<dev, io, opened>>

Rewinddir(c) ==
    /\ fs.dsc[c].inUse
    /\ fs' = SetDirRewound(fs, c)
    /\ UNCHANGED <<dev, io, opened>>

\* The context of a descriptor is not known to any caller.
Closedir(c) ==
    /\ fs.dsc[c].inUse
    /\ \A k \in Slots : fs.fd[k].dir # c
    /\ fs' = [fs EXCEPT !.dsc[c] = FreeDsc]
    /\ UNCHANGED <<dev, io, opened>>

-----------------------------------------------------------------------------
(* Mounts.                                                                 *)

\* What is left in memory of device d: nothing.  Linked objects are on flash,
\* unlinked ones go with the next mount.
Deinitialised(s, d) ==
    LET kept == {o \in DOMAIN s.objs : s.objs[o].dev # d \/ ~s.objs[o].unlinked}
    IN  [s EXCEPT !.objs = [o \in kept |->
            IF @[o].dev = d THEN [@[o] EXCEPT !.my_inode = FALSE] ELSE @[o]]]

Unmounted(s, d) ==
    Deinitialised(IF IsDevBusy(s, d) THEN BreakDeviceHandles(s, d) ELSE s, d)

LetGo(d, force) ==
    /\ dev[d].mounted
    /\ IsDevBusy(fs, d) => force
    /\ IF IsDevBusy(fs, d)
       THEN /\ opened' = {}
            /\ io' = [t \in Threads |-> IF io[t] = Quiet THEN Quiet
                                        ELSE [io[t] EXCEPT !.orphan = TRUE]]
       ELSE UNCHANGED <<opened, io>>

\* yaffs_unmount2_common().
Unmount(d, force) ==
    /\ LetGo(d, force)
    /\ fs' = Unmounted(fs, d)
    /\ dev' = [dev EXCEPT ![d].mounted = FALSE]

\* yaffs_format_common() of a mounted device.
Format(d, force, remount) ==
    /\ LetGo(d, force)
    /\ LET s == Unmounted(fs, d)
       IN  fs' = [s EXCEPT !.children[d] = <<>>,
                           !.objs = [o \in {x \in DOMAIN @ : x = d \/ @[x].dev # d} |-> @[o]]]
    /\ dev' = [dev EXCEPT ![d].mounted = remount]

\* yaffs_mount_common(): the scan may find the entries in any order.
Mount(d, read_only) ==
    /\ ~dev[d].mounted
    /\ \E list \in SetToSeqs(Range(fs.children[d])) :
          fs' = [fs EXCEPT !.children[d] = list]
    /\ dev' = [dev EXCEPT ![d] = [mounted |-> TRUE, read_only |-> read_only]]
    /\ UNCHANGED <<io, opened>>

\* yaffs_remount_common().
Remount(d, force, read_only) ==
    /\ dev[d].mounted
    /\ force \/ ~IsDevBusy(fs, d)
    /\ dev' = [dev EXCEPT ![d].read_only = read_only]
    /\ UNCHANGED <<fs, io, opened>>

-----------------------------------------------------------------------------
Init ==
    /\ fs = InitHandles
    /\ dev = [d \in Devs |-> [mounted |-> TRUE, read_only |-> FALSE]]
    /\ io = [t \in Threads |-> Quiet]
    /\ opened = {}

OnPath(d) ==
    /\ dev[d].mounted
    /\ \/ \E o \in DOMAIN fs.objs, m \in Modes, trunc \in BOOLEAN :
            fs.objs[o].dev = d /\ OpenExisting(o, m, trunc)
       \/ \E n \in Names, o \in Objs, m \in Modes : OpenCreate(d, n, o, m)
       \/ \E n \in Names, o \in Objs : Mkdir(d, n, o)
       \/ \E o \in DOMAIN fs.objs : fs.objs[o].dev = d /\ (Unlink(o) \/ Rmdir(o))
       \/ \E o \in DOMAIN fs.objs, n \in Names : fs.objs[o].dev = d /\ Rename(o, n)
       \/ \E o \in DOMAIN fs.objs : fs.objs[o].dev = d /\ Opendir(o)

OnHandle(h) ==
    \/ Dup(h) \/ Close(h) \/ Funlink(h)
    \/ \E t \in Threads : Read(t, h, MaxSize) \/ Write(t, h, MaxSize)
    \/ Lseek(h, 0)
    \/ Ftruncate(h, 0)

OnSearch(c) == Readdir(c) \/ Rewinddir(c) \/ Closedir(c)

\* Force makes a difference to a busy device only.
OnDevice(d) ==
    \E force \in IF IsDevBusy(fs, d) THEN BOOLEAN ELSE {FALSE} :
        \/ Unmount(d, force)
        \/ \E remount \in BOOLEAN : Format(d, force, remount)
        \/ \E read_only \in BOOLEAN : Mount(d, read_only) \/ Remount(d, force, read_only)

Next ==
    \/ \E t \in Threads : NextPiece(t)
    \/ \E d \in Devs : OnPath(d) \/ OnDevice(d)
    \/ \E h \in Slots : OnHandle(h)
    \/ \E c \in Searches : OnSearch(c)

Spec == Init /\ [][Next]_vars
-----------------------------------------------------------------------------
(* Properties.                                                             *)

\* Entries keep their types.
TypeOK ==
    /\ fs.handle \in [Slots -> [fdId : Slots \cup {-1}, useCount : Nat]]
    /\ fs.fd \in [Slots -> [inodeId : Slots \cup {-1}, handleCount : Nat, mode : FdMode,
                            position : 0 .. MaxSize, dir : Searches \cup {-1}]]
    /\ fs.inode \in [Slots -> [count : Nat, iObj : DOMAIN fs.objs \cup {None}]]
    /\ DOMAIN fs.objs \subseteq Devs \cup Objs
    /\ \A o \in DOMAIN fs.objs : fs.objs[o].size \in 0 .. MaxSize
    /\ \A d \in Devs : fs.children[d] \in Seq(Objs)

\* Descriptors of one object keep what each was promised when it was opened:
\* nobody reads or writes beside one that does not share it (yaffs_open_sharing()).
SharesKept ==
    \A k, l \in Slots :
        /\ k # l
        /\ fs.fd[k].handleCount > 0 /\ fs.fd[l].handleCount > 0
        /\ fs.fd[k].inodeId = fs.fd[l].inodeId
        => /\ fs.fd[k].mode.reading => fs.fd[l].mode.shareRead
           /\ fs.fd[k].mode.writing => fs.fd[l].mode.shareWrite

Users(h) == {t \in Threads : io[t] # Quiet /\ io[t].handle = h /\ ~io[t].orphan}

\* The three tables count each other: a handle is used by its holder and by
\* the calls in progress on it, but for those whose use was taken back, a descriptor by its handles, an inode by its
\* descriptors, and my_inode says which objects have one.  So an unlinked
\* object is there as long as it is open, and not longer.
TablesAgree ==
    /\ TypeOK
    /\ SharesKept
    /\ \A h \in Slots :
          fs.handle[h].useCount = Cardinality(Users(h)) + (IF h \in opened THEN 1 ELSE 0)
    /\ \A k \in Slots :
          fs.fd[k].handleCount =
              Cardinality({h \in Slots : HandleToFileDes(fs, h) = k})
    /\ \A i \in Slots :
          LET fds == {k \in Slots : fs.fd[k].handleCount > 0 /\ fs.fd[k].inodeId = i}
          IN  /\ fs.inode[i].count = Cardinality(fds)
              /\ fs.inode[i].iObj # None <=> fds # {}
    /\ \A i, j \in Slots :
          fs.inode[i].iObj = fs.inode[j].iObj /\ fs.inode[i].iObj # None => i = j
    /\ \A o \in DOMAIN fs.objs :
          /\ fs.objs[o].my_inode <=> FindInodeId(fs, o) # -1
          /\ fs.objs[o].unlinked => fs.objs[o].my_inode

\* "Need to reverify object in case the device was unmounted in another
\* thread.": a call that has let the lock go comes back to the file and the
\* descriptor it began on or to none, whatever was closed, opened, unlinked or
\* renamed meanwhile, as long as its use of the handle is not taken back: by a
\* device unmounted by force, or by one close too many.  The call does not
\* notice then, and may go on with another file: with one that is open under
\* the same handle.
CallKeepsFile ==
    \A t \in Threads :
        io[t] # Quiet /\ HandleToObject(fs, io[t].handle) # None =>
            IF io[t].orphan
            THEN io[t].handle \in opened \/ Users(io[t].handle) # {}
            ELSE /\ HandleToFileDes(fs, io[t].handle) = io[t].fd
                 /\ HandleToObject(fs, io[t].handle) = io[t].obj

\* What a search has still to return is just what was in the directory when it
\* was opened or rewound and has been neither returned, removed nor renamed.
EntriesOnce ==
    \A c \in Searches : fs.dsc[c].inUse =>
        LET e == fs.dsc[c].nextReturn
            list == IF fs.dsc[c].dirObj \in Devs THEN fs.children[fs.dsc[c].dirObj] ELSE <<>>
        IN  /\ e # None => e \in Range(list)
            /\ fs.dsc[c].due = {list[j] : j \in {x \in DOMAIN list :
                    e # None /\ x >= CHOOSE y \in DOMAIN list : list[y] = e}}
=============================================================================
