------------------------------ MODULE YaffsPaths ------------------------------
(***************************************************************************)
(* Paths of the direct interface: how they are walked over devices,        *)
(* directories, hard links and symbolic links, and what each call by path  *)
(* or by handle checks, in its order, before it changes something.         *)
(*                                                                         *)
(* A path is the sequence of its components; a divider at its end leaves   *)
(* an empty one there, runs of dividers count for one.                     *)
(***************************************************************************)
EXTENDS Integers, Sequences, FiniteSets, SequencesExt, TLC

CONSTANTS
    MountPoints,    \* devices, each with the components of its name
    LongNames,      \* names of YAFFS_MAX_NAME_LENGTH characters
    MaxDividers,    \* 100 in yaffsfs_CheckPath()
    MaxDereferences,\* YAFFSFS_MAX_SYMLINK_DEREFERENCES
    MaxObjects,     \* param.max_objects, 0 for no limit
    WalkPaths,      \* the paths that are walked
    CallPaths,      \* and those that calls are made with
    Aliases,        \* [abs, c]: what symbolic links say
    Starts,         \* name spaces to start from
    PathCalls,      \* bound: calls made
    NullPath, NoObj, Endless

VARIABLES
    space,   \* the objects and the state of the devices
    made,    \* calls made
    kept     \* history: every call has done what it says, and no more

pathVars == <<space, made, kept>>

Stack == 8     \* of the C stack: a walk that goes deeper does not end
-----------------------------------------------------------------------------
(* The name space s: s.obj[i] for an object, s.dev[d] for a device.        *)

Devices == DOMAIN MountPoints
\* A root directory is numbered like its device, and has no parent.
Attr == [mode |-> {"r", "w"}, time |-> 0, size |-> 0, xattr |-> FALSE]
Object(type, d, parent, name) ==
    [type |-> type, dev |-> d, parent |-> parent, name |-> name,
     alias |-> NoObj, equiv |-> NoObj, attr |-> Attr]

yaffs_get_equivalent_obj(s, o) ==
    IF o # NoObj /\ s.obj[o].type = "link" THEN s.obj[o].equiv ELSE o

yaffs_find_by_name(s, dir, name) ==
    LET hits == {o \in DOMAIN s.obj : s.obj[o].parent = dir /\ s.obj[o].name = name}
    IN  IF hits = {} THEN NoObj ELSE CHOOSE o \in hits : TRUE

IsDir(s, o) == o # NoObj /\ s.obj[o].type = "dir"
ReadOnly(s, o) == s.dev[s.obj[o].dev].read_only

\* A root also holds lost+found.
yaffs_is_non_empty_dir(s, o) ==
    LET e == yaffs_get_equivalent_obj(s, o)
    IN  IsDir(s, e) /\ (e \in Devices \/ \E x \in DOMAIN s.obj : s.obj[x].parent = e)

-----------------------------------------------------------------------------
(* Walking.                                                                *)

CheckPath(p) ==
    /\ \A i \in 1 .. Len(p) - 1 : p[i] \notin LongNames
    /\ \A i \in DOMAIN p : i >= MaxDividers => p[i] = ""

\* yaffsfs_alt_dir_path(): without the dividers at the end.
alt_dir_path(p) == IF p # <<>> /\ Last(p) = "" THEN Front(p) ELSE p

Text(d) == Len(MountPoints[d])

slip_FindDevice(p) ==
    LET hits == {d \in Devices : IsPrefix(MountPoints[d], p)}
    IN  IF hits = {} THEN NoObj ELSE CHOOSE d \in hits : \A e \in hits : Text(d) <= Text(e)

\* "Need to return the longest match": the device, or NoObj.
FindDevice(p) ==
    LET hits == {d \in Devices : IsPrefix(MountPoints[d], p)}
    IN  IF hits = {} THEN NoObj ELSE CHOOSE d \in hits : \A e \in hits : Text(d) >= Text(e)

RestOf(p) == IF FindDevice(p) = NoObj THEN p ELSE SubSeq(p, Text(FindDevice(p)) + 1, Len(p))

FindMountPoint(p) ==
    IF FindDevice(p) # NoObj /\ alt_dir_path(RestOf(p)) = <<>> THEN FindDevice(p) ELSE NoObj

FindRoot(s, p) ==
    IF FindDevice(p) # NoObj /\ s.dev[FindDevice(p)].mounted THEN FindDevice(p) ELSE NoObj

Nowhere == [dir |-> NoObj, name |-> "", obj |-> NoObj, notDir |-> FALSE, loop |-> FALSE,
            deep |-> FALSE]
Join(f, g) == [g EXCEPT !.loop = @ \/ f.loop, !.deep = @ \/ f.deep]

RECURSIVE FollowLink(_, _, _, _), Followed(_, _, _, _), DirWalk(_, _, _, _, _),
          Stepped(_, _, _, _, _), FindDirectory(_, _, _, _, _), FindObject(_, _, _, _, _, _)

\* The loop of yaffsfs_FollowLink(), which counts symDepth up for each link
\* that leads to another; n is the room left on the stack.
FollowLink(s, obj, symDepth, n) ==
    LET o == yaffs_get_equivalent_obj(s, obj)
        a == s.obj[o].alias
        start == IF a.abs THEN NoObj ELSE s.obj[o].parent
    IN  IF o = NoObj \/ s.obj[o].type # "symlink" THEN [Nowhere EXCEPT !.obj = o]
        ELSE IF n = 0 THEN [Nowhere EXCEPT !.deep = TRUE]
        ELSE Followed(s, FindObject(s, start, a.c, symDepth, TRUE, n - 1), symDepth, n)

Followed(s, f, symDepth, n) == Join(f, FollowLink(s, f.obj, symDepth + 1, n - 1))

\* yaffsfs_DoFindDirectory(), from dir on.
DirWalk(s, dir, p, symDepth, n) ==
    IF dir = NoObj THEN Nowhere
    ELSE IF Len(p) <= 1
    THEN [Nowhere EXCEPT !.dir = dir, !.name = IF p = <<>> THEN "" ELSE p[1]]
    ELSE IF p[1] = "." THEN DirWalk(s, dir, Tail(p), symDepth, n)
    ELSE IF p[1] = ".." THEN DirWalk(s, s.obj[dir].parent, Tail(p), symDepth, n)
    ELSE Stepped(s, FollowLink(s, yaffs_find_by_name(s, dir, p[1]), symDepth, n), p, symDepth, n)

Stepped(s, f, p, symDepth, n) ==
    Join(f, IF f.obj # NoObj /\ ~IsDir(s, f.obj) THEN [Nowhere EXCEPT !.notDir = TRUE]
            ELSE DirWalk(s, f.obj, Tail(p), symDepth, n))

\* relDir is NoObj for a path from the root.
FindDirectory(s, relDir, p, symDepth, n) ==
    IF symDepth > MaxDereferences THEN [Nowhere EXCEPT !.loop = TRUE]
    ELSE IF relDir # NoObj THEN DirWalk(s, relDir, p, symDepth, n)
    ELSE DirWalk(s, FindRoot(s, p), RestOf(p), symDepth, n)

\* The name that a walk ends with, in the directory it ends in.
Named(s, d, getEquiv) ==
    LET o == IF d.dir = NoObj THEN NoObj
             ELSE IF d.name = ".." THEN s.obj[d.dir].parent
             ELSE IF d.name \in {".", ""} THEN d.dir
             ELSE yaffs_find_by_name(s, d.dir, d.name)
    IN  [d EXCEPT !.obj = IF getEquiv THEN yaffs_get_equivalent_obj(s, o) ELSE o]

FindObject(s, relDir, p, symDepth, getEquiv, n) ==
    Named(s, FindDirectory(s, relDir, p, symDepth, n), getEquiv)

DirOf(s, p) == FindDirectory(s, NoObj, p, 0, Stack)
ObjOf(s, p) == FindObject(s, NoObj, p, 0, FALSE, Stack)
FileOf(s, p) == FindObject(s, NoObj, p, 0, TRUE, Stack)

\* What nearly every call begins with: the object, and the first error met.
\* One without a path, CheckMemRegion(), is refused first.
FirstError(f) ==
    IF f.dir = NoObj /\ f.notDir THEN "ENOTDIR"
    ELSE IF f.loop THEN "ELOOP"
    ELSE IF f.dir = NoObj \/ f.obj = NoObj THEN "ENOENT" ELSE "0"
Verdict(f) == [obj |-> f.obj, deep |-> f.deep, err |-> FirstError(f)]

AtItsEnd(s, f) ==
    [Join(f, FollowLink(s, f.obj, 0, Stack)) EXCEPT !.dir = f.dir, !.notDir = f.notDir]

LookedUp(s, p, follow) ==
    IF follow THEN Verdict(AtItsEnd(s, FileOf(s, p))) ELSE Verdict(FileOf(s, p))

Lookup(s, p, follow) ==
    IF p = NullPath THEN [obj |-> NoObj, deep |-> FALSE, err |-> "EFAULT"]
    ELSE IF ~CheckPath(p) THEN [obj |-> NoObj, deep |-> FALSE, err |-> "ENAMETOOLONG"]
    ELSE LookedUp(s, p, follow)

-----------------------------------------------------------------------------
(* Calls that look: each gives err and what it answers.                    *)

DoStat(s, o) ==
    [err |-> "0", ino |-> o, type |-> s.obj[o].type, attr |-> s.obj[o].attr,
     nlink |-> 1 + Cardinality({x \in DOMAIN s.obj : s.obj[x].equiv = o})]

Failed(err) == [err |-> err]

DoStatOrLStat(s, p, doLStat) ==
    LET f == Lookup(s, p, ~doLStat)
    IN  IF f.err # "0" THEN Failed(f.err) ELSE DoStat(s, f.obj)

fstat(s, o) == IF o = NoObj THEN Failed("EBADF") ELSE DoStat(s, o)

access(s, p, amode) ==
    LET f == Lookup(s, p, TRUE)
    IN  Failed(IF f.err \in {"EFAULT", "ENAMETOOLONG"} THEN f.err
               ELSE IF ~(amode \subseteq {"r", "w", "x"}) THEN "EINVAL"
               ELSE IF f.err # "0" THEN f.err
               ELSE IF "w" \in amode /\ ReadOnly(s, f.obj) THEN "EROFS"
               ELSE IF ~(amode \subseteq s.obj[f.obj].attr.mode) THEN "EACCES"
               ELSE "0")

\* There is no check of the path.
readlink(s, p) ==
    LET f == LookedUp(s, p, FALSE)
    IN  IF p = NullPath THEN Failed("EFAULT")
        ELSE IF f.err # "0" THEN Failed(f.err)
        ELSE IF s.obj[f.obj].type # "symlink" THEN Failed("EINVAL")
        ELSE [err |-> "0", alias |-> s.obj[f.obj].alias]

\* yaffs_get_xattrib() of the one attribute; the list is empty without it.
attr_xattr(s, o) == Failed(IF s.obj[o].attr.xattr THEN "0" ELSE "ENODATA")
getxattr(s, p, follow) ==
    LET f == Lookup(s, p, follow)
    IN  IF f.err # "0" THEN Failed(f.err) ELSE attr_xattr(s, f.obj)
fgetxattr(s, o) == IF o = NoObj THEN Failed("EBADF") ELSE attr_xattr(s, o)

attr_names(s, o) ==
    [err |-> "0", names |-> IF s.obj[o].attr.xattr THEN {"x"} ELSE {}]
listxattr(s, p, follow) ==
    LET f == Lookup(s, p, follow)
    IN  IF f.err # "0" THEN Failed(f.err) ELSE attr_names(s, f.obj)
flistxattr(s, o) == IF o = NoObj THEN Failed("EBADF") ELSE attr_names(s, o)

\* Calls on the device that a path lies on: free and total space, objects.
DeviceOf(p) ==
    IF p = NullPath THEN Failed("EFAULT")
    ELSE IF ~CheckPath(p) THEN Failed("ENAMETOOLONG")
    ELSE [err |-> "0", dev |-> FindDevice(p)]

OnDevice(s, d) == {o \in DOMAIN s.obj : s.obj[o].dev = d}
Links(s, d) == {o \in OnDevice(s, d) : s.obj[o].type = "link"}

IsUp(s, d) == d # NoObj /\ s.dev[d].mounted

\* yaffs_freespace_common() and yaffs_totalspace_common().
spacecall(s, p) ==
    LET d == DeviceOf(p)
    IN  IF d.err # "0" THEN d ELSE IF IsUp(s, d.dev) THEN d ELSE Failed("EINVAL")

inodecount(s, p) ==
    LET d == spacecall(s, p)
    IN  IF d.err # "0" THEN d
        ELSE d @@ [n |-> Cardinality(OnDevice(s, d.dev)) - Cardinality(Links(s, d.dev))]

\* What a sync, and a background collection, of the device of a path answers.
bg_gc_common(s, p) ==
    LET d == DeviceOf(p)
    IN  IF d.err # "0" THEN d
        ELSE IF d.dev = NoObj THEN Failed("ENODEV")
        ELSE IF ~s.dev[d.dev].mounted THEN Failed("EINVAL") ELSE d
sync_common(s, p) ==
    LET d == bg_gc_common(s, p)
    IN  IF d.err = "0" /\ s.dev[d.dev].read_only THEN Failed("EROFS") ELSE d

-----------------------------------------------------------------------------
(* Calls that change something: each gives err and the space after it.     *)

Refused(s, err) == [err |-> err, s |-> s]
Done(s) == [err |-> "0", s |-> s]

TooManyObjects(s, o) ==
    MaxObjects > 0 /\ Cardinality(OnDevice(s, s.obj[o].dev)) > MaxObjects

\* yaffs_create_obj(): FALSE for a name that is there.
Created(s, type, dir, name, extra) ==
    LET free == (1 .. Cardinality(DOMAIN s.obj) + 1) \ DOMAIN s.obj
        id == CHOOSE n \in free : \A m \in free : n <= m
    IN  [s EXCEPT !.obj = (id :> (extra @@ Object(type, s.obj[dir].dev, dir, name))) @@ @]

\* What a walk to a directory meets first.
DirError(d) ==
    IF d.dir = NoObj /\ d.notDir THEN "ENOTDIR" ELSE IF d.loop THEN "ELOOP"
    ELSE IF d.dir = NoObj THEN "ENOENT" ELSE "0"

PathError(p) == IF p = NullPath THEN "EFAULT" ELSE IF CheckPath(p) THEN "0" ELSE "ENAMETOOLONG"

mkdir(s, p) ==
    LET d == DirOf(s, alt_dir_path(p))
    IN  IF PathError(p) # "0" THEN Refused(s, PathError(p))
        ELSE IF DirError(d) # "0" THEN Refused(s, DirError(d))
        ELSE IF TooManyObjects(s, d.dir) THEN Refused(s, "ENFILE")
        ELSE IF d.name = "" THEN Refused(s, "EEXIST")
        ELSE IF ReadOnly(s, d.dir) THEN Refused(s, "EROFS")
        ELSE IF yaffs_find_by_name(s, d.dir, d.name) # NoObj THEN Refused(s, "EEXIST")
        ELSE Done(Created(s, "dir", d.dir, d.name, <<>>))

symlink(s, a, p) ==
    LET d == DirOf(s, p)
        e == DirError(d)
    IN  IF PathError(p) = "EFAULT" THEN Refused(s, "EFAULT")
        ELSE IF ~CheckPath(p) \/ ~CheckPath(a.c) THEN Refused(s, "ENAMETOOLONG")
        ELSE IF e \in {"ENOTDIR", "ELOOP"} THEN Refused(s, e)
        ELSE IF e # "0" \/ d.name = "" THEN Refused(s, "ENOENT")
        ELSE IF TooManyObjects(s, d.dir) THEN Refused(s, "ENFILE")
        ELSE IF ReadOnly(s, d.dir) THEN Refused(s, "EROFS")
        ELSE IF yaffs_find_by_name(s, d.dir, d.name) # NoObj THEN Refused(s, "EEXIST")
        ELSE Done(Created(s, "symlink", d.dir, d.name, [alias |-> a]))

\* yaffs_open_sharing_reldir() without the handles; mode is what the file may
\* be opened for once it is made.
Flags(flags) ==
    LET excl == flags \ (IF "creat" \in flags THEN {} ELSE {"excl"})
    IN  excl \ (IF {"creat", "excl"} \subseteq excl THEN {"trunc"} ELSE {})

OpenFound(s, o, rw, flags) ==
    LET asked == IF IsDir(s, o) THEN {"r"} ELSE rw
        denied == ~(asked \subseteq s.obj[o].attr.mode)
    IN  IF {"creat", "excl"} \subseteq flags THEN Refused(s, "EEXIST")
        ELSE IF "w" \in asked /\ ReadOnly(s, o) THEN Refused(s, "EROFS")
        ELSE IF denied THEN Refused(s, "EACCES")
        ELSE IF ~IsDir(s, o) /\ "trunc" \in flags /\ "w" \in asked
        THEN Done([s EXCEPT !.obj[o].attr.size = 0])
        ELSE Done(s)

OpenMissing(s, p, loop, flags) ==
    LET d == DirOf(s, p)
        e == DirError([d EXCEPT !.loop = @ \/ loop])
    IN  IF e # "0" THEN Refused(s, e)
        ELSE IF "creat" \notin flags THEN Refused(s, "ENOENT")
        ELSE IF ReadOnly(s, d.dir) THEN Refused(s, "EROFS")
        ELSE IF TooManyObjects(s, d.dir) THEN Refused(s, "ENFILE")
        ELSE IF yaffs_find_by_name(s, d.dir, d.name) # NoObj THEN Refused(s, "ENOSPC")
        ELSE Done(Created(s, "file", d.dir, d.name, <<>>))

OpenAt(s, p, t, rw, flags) ==
    IF t.obj # NoObj /\ s.obj[t.obj].type \in {"file", "dir"}
    THEN OpenFound(s, t.obj, rw, flags) ELSE OpenMissing(s, p, t.loop, flags)

open(s, p, rw, flags) ==
    IF PathError(p) # "0" THEN Refused(s, PathError(p))
    ELSE OpenAt(s, p, FollowLink(s, FileOf(s, p).obj, 0, Stack), rw, Flags(flags))

\* A link of a link is one of the file.
link(s, p, q) ==
    LET f == FileOf(s, p)
        lnk == ObjOf(s, q).obj
        d == DirOf(s, q)
    IN  IF NullPath \in {p, q} THEN Refused(s, "EFAULT")
        ELSE IF ~CheckPath(p) \/ ~CheckPath(q) THEN Refused(s, "ENAMETOOLONG")
        ELSE IF "ENOTDIR" \in {DirError(f), DirError(d)} THEN Refused(s, "ENOTDIR")
        ELSE IF f.loop \/ d.loop THEN Refused(s, "ELOOP")
        ELSE IF NoObj \in {f.dir, d.dir, f.obj} THEN Refused(s, "ENOENT")
        ELSE IF ReadOnly(s, f.obj) THEN Refused(s, "EROFS")
        ELSE IF TooManyObjects(s, f.obj) THEN Refused(s, "ENFILE")
        ELSE IF lnk # NoObj THEN Refused(s, "EEXIST")
        ELSE IF s.obj[d.dir].dev # s.obj[f.obj].dev THEN Refused(s, "EXDEV")
        ELSE IF d.name = "" THEN Refused(s, "ENOENT")
        ELSE Done(Created(s, "link", d.dir, d.name, [equiv |-> f.obj]))

\* yaffs_unlink_obj(): a file with links takes the place of one of them.
HardLinks(s, o) == {x \in DOMAIN s.obj : s.obj[x].equiv = o}

HeirOf(s, o) == CHOOSE x \in HardLinks(s, o) : \A y \in HardLinks(s, o) : y <= x

Unlinked(s, o) ==
    LET links == HardLinks(s, o)
        heir == HeirOf(s, o)
        gone == IF links = {} THEN o ELSE heir
        moved == IF links = {} THEN s
                 ELSE [s EXCEPT !.obj[o].parent = s.obj[heir].parent,
                                !.obj[o].name = s.obj[heir].name]
    IN  [moved EXCEPT !.obj = [x \in DOMAIN s.obj \ {gone} |-> @[x]]]

DoUnlink(s, p, isDirectory) ==
    LET o == ObjOf(s, p).obj
        d == DirOf(s, p)
        e == DirError(d)
        target == yaffs_find_by_name(s, d.dir, d.name)
    IN  IF PathError(p) # "0" THEN Refused(s, PathError(p))
        ELSE IF e # "0" THEN Refused(s, e)
        ELSE IF d.name = "." THEN Refused(s, "EINVAL")
        ELSE IF o = NoObj THEN Refused(s, "ENOENT")
        ELSE IF ReadOnly(s, o) THEN Refused(s, "EROFS")
        ELSE IF ~isDirectory /\ IsDir(s, o) THEN Refused(s, "EISDIR")
        ELSE IF isDirectory /\ ~IsDir(s, o) THEN Refused(s, "ENOTDIR")
        ELSE IF isDirectory /\ o \in Devices THEN Refused(s, "EBUSY")
        ELSE IF target = NoObj \/ yaffs_is_non_empty_dir(s, target)
        THEN Refused(s, "ENOTEMPTY")
        ELSE Done(Unlinked(s, target))

unlink(s, p) == DoUnlink(s, p, FALSE)
rmdir(s, p) == IF p = NullPath \/ ~CheckPath(p) THEN Refused(s, PathError(p))
               ELSE DoUnlink(s, alt_dir_path(p), TRUE)

RECURSIVE Under(_, _, _)
Under(s, x, o) == x # NoObj /\ (x = o \/ Under(s, s.obj[x].parent, o))

\* yaffs_rename_obj(): its failure sets no error of its own.  A file cannot take
\* the name of its newest link when the link has just taken the file's: both
\* keep it.
RenameObj(s, o, newdir, newname) ==
    LET target == yaffs_find_by_name(s, newdir, newname)
        same == target # NoObj /\ o \in HardLinks(s, target) /\ o = HeirOf(s, target)
        t == IF target \in {NoObj, o} \/ same THEN s ELSE Unlinked(s, target)
        Move(x) == [t EXCEPT !.obj[x].parent = newdir, !.obj[x].name = newname]
    IN  IF o = NoObj \/ o \in Devices \/ yaffs_is_non_empty_dir(s, target) THEN Refused(s, "stale")
        ELSE Done(Move(o))

rename(s, p, q0) ==
    LET q == alt_dir_path(q0)
        od == DirOf(s, p)
        nd == DirOf(s, q)
        o == ObjOf(s, p).obj
        n == ObjOf(s, q).obj
        itself == od.dir = o      \* the path of a directory that ends in a divider
        dir == IsDir(s, o)
    IN  IF NullPath \in {p, q0} THEN Refused(s, "EFAULT")
        ELSE IF ~CheckPath(p) \/ ~CheckPath(q0) THEN Refused(s, "ENAMETOOLONG")
        ELSE IF "ENOTDIR" \in {DirError(od), DirError(nd)} THEN Refused(s, "ENOTDIR")
        ELSE IF od.loop \/ nd.loop THEN Refused(s, "ELOOP")
        ELSE IF od.dir # NoObj /\ ~itself /\ od.name = "." THEN Refused(s, "EINVAL")
        ELSE IF NoObj \in {od.dir, nd.dir, o} THEN Refused(s, "ENOENT")
        ELSE IF ReadOnly(s, o) THEN Refused(s, "EROFS")
        ELSE IF ~dir /\ IsDir(s, n) THEN Refused(s, "EISDIR")
        ELSE IF dir /\ n # NoObj /\ ~IsDir(s, n) THEN Refused(s, "ENOTDIR")
        ELSE IF yaffs_is_non_empty_dir(s, n) THEN Refused(s, "ENOTEMPTY")
        ELSE IF s.obj[od.dir].dev # s.obj[nd.dir].dev THEN Refused(s, "EXDEV")
        ELSE IF dir /\ Under(s, nd.dir, o) THEN Refused(s, "EINVAL")
        ELSE RenameObj(s, IF itself THEN o ELSE yaffs_find_by_name(s, od.dir, od.name),
                       nd.dir, nd.name)

\* Calls on one object, by path or by handle: o is NoObj for a bad handle.
DoUtime(s, o, time) ==
    IF ReadOnly(s, o) THEN Refused(s, "EROFS") ELSE Done([s EXCEPT !.obj[o].attr.time = time])
utime(s, p, time) ==
    LET f == Lookup(s, p, FALSE)
    IN  IF f.err # "0" THEN Refused(s, f.err) ELSE DoUtime(s, f.obj, time)
futime(s, o, time) == IF o = NoObj THEN Refused(s, "EBADF") ELSE DoUtime(s, o, time)

DoChMod(s, o, mode) ==
    IF ReadOnly(s, o) THEN Refused(s, "EROFS") ELSE Done([s EXCEPT !.obj[o].attr.mode = mode])
BadMode(mode) == ~(mode \subseteq {"r", "w", "x"})
chmod(s, p, mode) ==
    LET f == Lookup(s, p, TRUE)
    IN  IF PathError(p) # "0" THEN Refused(s, PathError(p))
        ELSE IF BadMode(mode) THEN Refused(s, "EINVAL")
        ELSE IF f.err # "0" THEN Refused(s, f.err) ELSE DoChMod(s, f.obj, mode)
fchmod(s, o, mode) ==
    IF BadMode(mode) THEN Refused(s, "EINVAL")
    ELSE IF o = NoObj THEN Refused(s, "EBADF") ELSE DoChMod(s, o, mode)

\* Neither call asks whether the device is read only.
set_xattrib(s, o, there) ==
    IF ~there /\ ~s.obj[o].attr.xattr THEN Refused(s, "ENODATA")
    ELSE Done([s EXCEPT !.obj[o].attr.xattr = there])
setxattr(s, p, follow) ==
    LET f == Lookup(s, p, follow)
    IN  IF f.err # "0" THEN Refused(s, f.err) ELSE set_xattrib(s, f.obj, TRUE)
fsetxattr(s, o) == IF o = NoObj THEN Refused(s, "EBADF") ELSE set_xattrib(s, o, TRUE)
removexattr(s, p, follow) ==
    LET f == Lookup(s, p, follow)
    IN  IF f.err # "0" THEN Refused(s, f.err) ELSE set_xattrib(s, f.obj, FALSE)
fremovexattr(s, o) == IF o = NoObj THEN Refused(s, "EBADF") ELSE set_xattrib(s, o, FALSE)

truncate(s, p, size) ==
    LET f == Lookup(s, p, TRUE)
    IN  IF f.err # "0" THEN Refused(s, f.err)
        ELSE IF ReadOnly(s, f.obj) THEN Refused(s, "EROFS")
        ELSE IF s.obj[f.obj].type # "file" THEN Refused(s, "EISDIR")
        ELSE IF size < 0 THEN Refused(s, "EINVAL")
        ELSE Done([s EXCEPT !.obj[f.obj].attr.size = size])

\* yaffs_fsync(): what it flushes is not here.
Dofsync(s, o) == Refused(s, IF o = NoObj THEN "EBADF" ELSE IF ReadOnly(s, o) THEN "EROFS" ELSE "0")

\* A mount that is read only or not, and an unmount with nothing open.
MountAs(s, p, read_only) ==
    LET d == DeviceOf(p)
        m == IF d.err = "0" THEN FindMountPoint(p) ELSE NoObj
    IN  IF d.err # "0" THEN Refused(s, d.err)
        ELSE IF m = NoObj THEN Refused(s, "ENODEV")
        ELSE IF s.dev[m].mounted THEN Refused(s, "EBUSY")
        ELSE Done([s EXCEPT !.dev[m] = [mounted |-> TRUE, read_only |-> read_only]])
Unmount(s, p) ==
    LET d == DeviceOf(p)
        m == IF d.err = "0" THEN FindMountPoint(p) ELSE NoObj
    IN  IF d.err # "0" THEN Refused(s, d.err)
        ELSE IF m = NoObj THEN Refused(s, "ENODEV")
        ELSE IF ~s.dev[m].mounted THEN Refused(s, "EINVAL")
        ELSE Done([s EXCEPT !.dev[m].mounted = FALSE])

-----------------------------------------------------------------------------
(* What paths mean, by a list of components still to go: a symbolic link   *)
(* puts its own in front of the rest, n of them at most.                   *)

\* The device whose name holds that of every other on the way.
Holder(s, p) ==
    LET ds == {d \in Devices : IsPrefix(MountPoints[d], p) /\ s.dev[d].mounted}
        Within(d) == \A e \in Devices : IsPrefix(MountPoints[e], p) => IsPrefix(MountPoints[e], MountPoints[d])
        here == {d \in ds : Within(d)}
    IN  IF here = {} THEN NoObj ELSE CHOOSE d \in here : TRUE

RECURSIVE Leads(_, _, _, _, _)
Leads(s, dir, todo, follow, n) ==
    IF dir \in {NoObj, Endless} THEN dir
    ELSE IF todo = <<>> THEN dir
    ELSE IF ~IsDir(s, dir) THEN NoObj
    ELSE IF Head(todo) \in {"", "."} THEN Leads(s, dir, Tail(todo), follow, n)
    ELSE IF Head(todo) = ".." THEN Leads(s, s.obj[dir].parent, Tail(todo), follow, n)
    ELSE LET o == yaffs_get_equivalent_obj(s, yaffs_find_by_name(s, dir, Head(todo)))
         IN  IF o = NoObj \/ s.obj[o].type # "symlink" \/ (Len(todo) = 1 /\ ~follow)
             THEN Leads(s, o, Tail(todo), follow, n)
             ELSE IF n = 0 THEN Endless
             ELSE LET a == s.obj[o].alias
                  IN  IF a.abs
                      THEN LET d == Holder(s, a.c)
                           IN  IF d = NoObj THEN NoObj
                               ELSE Leads(s, d, SubSeq(a.c, Text(d) + 1, Len(a.c)) \o Tail(todo),
                                          follow, n - 1)
                      ELSE Leads(s, s.obj[o].parent, a.c \o Tail(todo), follow, n - 1)

LeadsFrom(s, p, follow, n) ==
    IF p = NullPath THEN NoObj
    ELSE IF ~CheckPath(p) \/ Holder(s, p) = NoObj THEN NoObj
    ELSE Leads(s, Holder(s, p), SubSeq(p, Text(Holder(s, p)) + 1, Len(p)), follow, n)

Long == 4 * Stack      \* links followed by the longest walk that ends
Target(s, p) == LeadsFrom(s, p, TRUE, Long)
Place(s, p) == LeadsFrom(s, p, FALSE, Long)

-----------------------------------------------------------------------------
(* Steps.                                                                  *)

\* A path whose walk runs out of stack is not tried.
Shallow(p) == p = NullPath \/ ~(LookedUp(space, p, TRUE).deep \/ LookedUp(space, p, FALSE).deep)
Tried == {p \in CallPaths : Shallow(p)}
Objs == DOMAIN space.obj
Handled == Objs \cup {NoObj}

Frozen(s) == {o \in DOMAIN s.obj : ReadOnly(s, o)}

\* A call that is refused changes nothing, none changes a read-only device
\* except the two that set an attribute, and done is what the call promises.
Call(a, marks, done) ==
    /\ made' = made + (IF a.s = space THEN 0 ELSE 1)
    /\ space' = a.s
    /\ kept' = /\ a.err # "0" => a.s = space
               /\ marks \/ \A o \in Frozen(space) : o \in DOMAIN a.s.obj /\ a.s.obj[o] = space.obj[o]
               /\ MaxObjects > 0 =>
                      \A d \in Devices : Cardinality(OnDevice(a.s, d)) <= MaxObjects + 1
               /\ a.err = "0" => done

\* A new object, everything else where it was.
New(a, type, p) ==
    LET o == Place(a.s, p)
    IN  /\ o \in DOMAIN a.s.obj \ Objs /\ a.s.obj[o].type = type
        /\ a.s.dev = space.dev /\ \A x \in Objs : a.s.obj[x] = space.obj[x]


\* What is left of a name, or of all but one, when it goes.
Others(a, gone) ==
    \A x \in Objs : x \notin gone /\ space.obj[x].type # "link" =>
        x \in DOMAIN a.s.obj /\ a.s.obj[x] = space.obj[x]
Kept(a, o) == o \in DOMAIN a.s.obj <=> DoStat(space, o).nlink > 1

\* What has in s the name that a walk before the call ended with.
At(s, d) == yaffs_get_equivalent_obj(s, yaffs_find_by_name(s, d.dir, d.name))

\* Two names of one file, which yaffs_rename_obj() does not tell from two files.
SelfLink(p, q) ==
    LET o == ObjOf(space, p).obj n == ObjOf(space, alt_dir_path(q)).obj
    IN  /\ o # n /\ NoObj \notin {o, n}
        /\ yaffs_get_equivalent_obj(space, o) = yaffs_get_equivalent_obj(space, n)

Making ==
    \E p \in Tried :
        \/ \E a \in {mkdir(space, p)} : Call(a, FALSE, New(a, "dir", alt_dir_path(p)))
        \/ \E al \in Aliases :
              \E a \in {symlink(space, al, p)} :
                 Call(a, FALSE, New(a, "symlink", p) /\ readlink(a.s, p).alias = al)
        \/ \E rw \in {{"r"}, {"w"}}, flags \in {{}, {"trunc"}, {"creat"}, {"creat", "excl"}} :
              \E a \in {open(space, p, rw, flags)} :
                 Call(a, FALSE,
                       /\ Target(a.s, p) # NoObj
                       /\ "excl" \in flags => New(a, "file", p)
                       /\ "trunc" \in flags /\ "w" \in rw /\ ~IsDir(a.s, Target(a.s, p)) =>
                              DoStatOrLStat(a.s, p, FALSE).attr.size = 0)
        \/ \E q \in Tried :
              /\ ~IsDir(space, ObjOf(space, p).obj)     \* no links to directories
              /\ \E a \in {link(space, p, q)} :
                    Call(a, FALSE, Place(a.s, q) = Place(space, p) /\ Others(a, {}))

Removing ==
    \E p \in Tried :
        \/ \E a \in {unlink(space, p), rmdir(space, p)} :
              \E o \in {Place(space, p)} :
                  Call(a, FALSE, Place(a.s, p) = NoObj /\ Kept(a, o) /\ Others(a, {o}))
        \/ \E q \in Tried :
              \E a \in {rename(space, p, q)}, od \in {DirOf(space, p)},
                 nd \in {DirOf(space, alt_dir_path(q))}, o \in {Place(space, p)},
                 n \in {Place(space, alt_dir_path(q))} :
                  /\ ~SelfLink(p, q)
                  /\ Call(a, FALSE,
                          /\ At(a.s, nd) = o
                          /\ a.s = space \/ At(a.s, od) = NoObj
                          /\ n \in {o, NoObj} \/ Kept(a, n)
                          /\ Others(a, {o, n}))

Marking ==
    \/ \E p \in Tried :
          \/ \E time \in {1} :
                \E a \in {utime(space, p, time)} :
                   Call(a, FALSE, DoStatOrLStat(a.s, p, TRUE).attr.time = time)
          \/ \E mode \in {{"r"}, {"x"}, {"sticky"}} :
                \E a \in {chmod(space, p, mode)} :
                   Call(a, FALSE, \A m \in {"r", "w"} : access(a.s, p, {m}).err = "0" <=> m \in mode)
          \/ \E follow \in BOOLEAN :
                \/ \E a \in {setxattr(space, p, follow)} :
                      Call(a, TRUE, getxattr(a.s, p, follow).err = "0")
                \/ \E a \in {removexattr(space, p, follow)} :
                      Call(a, TRUE, listxattr(a.s, p, follow).names = {})
          \/ \E size \in {-1, 0, 1} :
                \E a \in {truncate(space, p, size)} :
                   Call(a, FALSE, DoStatOrLStat(a.s, p, FALSE).attr.size = size)
    \/ \E o \in Handled :
          \/ \E a \in {futime(space, o, 1)} : Call(a, FALSE, fstat(a.s, o).attr.time = 1)
          \/ \E mode \in {{"r"}, {"sticky"}} :
                \E a \in {fchmod(space, o, mode)} :
                   Call(a, FALSE, fstat(a.s, o).attr.mode = mode)
          \/ \E a \in {fsetxattr(space, o)} : Call(a, TRUE, fgetxattr(a.s, o).err = "0")
          \/ \E a \in {fremovexattr(space, o)} : Call(a, TRUE, flistxattr(a.s, o).names = {})
          \/ Call(Dofsync(space, o), FALSE, o \notin Frozen(space))

Mounting ==
    \E p \in Tried :
        \/ \E read_only \in BOOLEAN :
              \E a \in {MountAs(space, p, read_only)} :
                 Call(a, FALSE, /\ spacecall(a.s, p).err = "0"
                                 /\ read_only <=> sync_common(a.s, p).err = "EROFS")
        \/ \E a \in {Unmount(space, p)} :
              Call(a, FALSE, \A c \in {spacecall(a.s, p), sync_common(a.s, p)} : c.err = "EINVAL")

PathsInit == space \in Starts /\ made = 0 /\ kept = TRUE
PathsNext == made < PathCalls /\ (Making \/ Removing \/ Marking \/ Mounting)
PathsSpec == PathsInit /\ [][PathsNext]_pathVars
-----------------------------------------------------------------------------
(* Properties.                                                             *)

\* The walk ends where the components lead, through links of links and
\* through links on the way; only one that leads through too many may be
\* refused, and only one that never ends runs out of stack.
WalkEnds(p) ==
    \A follow \in BOOLEAN :
        LET f == Lookup(space, p, follow)
            short == LeadsFrom(space, p, follow, MaxDereferences)
        IN  /\ f.deep => LeadsFrom(space, p, follow, Long) = Endless
            /\ ~f.deep /\ f.obj # NoObj => f.obj = LeadsFrom(space, p, follow, Long)
            /\ short # Endless => f.obj = short

\* An open without creation fails to find just what stat() does, although it
\* walks the path again to learn why.
OpenAgrees(p) ==
    LET a == DoStatOrLStat(space, p, FALSE).err
        b == open(space, p, {"r"}, {}).err
    IN  Shallow(p) => a = "0" \/ a = b

\* Where no link and no parent is on the way, the device a call is made on is
\* that of the object.
DeviceAgrees(p) ==
    LET o == LeadsFrom(space, p, FALSE, 0)
    IN  o \notin {NoObj, Endless} =>
            /\ space.obj[o].type = "symlink" \/ spacecall(space, p).dev = space.obj[o].dev
            /\ bg_gc_common(space, p).err = "0"
            /\ inodecount(space, p).n >= 1

\* Calls by path find what the path means (yaffsfs_FindObject(),
\* yaffsfs_FollowLink()), and by path or by handle they do what they are for,
\* to nothing else, or nothing at all.
CallsAnswer ==
    /\ kept
    /\ \A p \in WalkPaths : WalkEnds(p) /\ OpenAgrees(p) /\ DeviceAgrees(p)
=============================================================================
