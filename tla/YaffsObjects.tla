----------------------------- MODULE YaffsObjects -----------------------------
(***************************************************************************)
(* Objects, their names, and the object headers that record both           *)
(* (core/yaffs_guts.c, core/yaffs_yaffs2.c; calls as in direct/yaffsfs.c). *)
(*                                                                         *)
(* Every call is a short series of object headers appended to the log; the *)
(* power can fail after each of them, and garbage collection can copy or   *)
(* erase headers before each of them.  Each step of a call is one header   *)
(* with the changes in memory that go with it.                             *)
(*                                                                         *)
(* The log is the sequence of the headers still on flash, oldest first,    *)
(* each as if in a block of its own: which blocks are erased, and when, is *)
(* the subject of YaffsBlocks.  What matters here is that an out of date   *)
(* header stays until its block is erased, and that the block of a shrink  *)
(* header is not erased while an older block has anything out of date in   *)
(* it.  File data, sizes and attributes are left out; so is the shrink     *)
(* header of a truncation, which only keeps a block for longer.  Links are *)
(* made to files only, and only files are opened.                          *)
(***************************************************************************)
EXTENDS Naturals, Sequences, FiniteSets, SequencesExt, TLC

CONSTANTS
    Ids,         \* object ids of files, directories and links
    Names,       \* names within a directory
    None,        \* no object, no name
    MaxCalls,    \* bound: calls that are made
    MaxCrashes,  \* bound: power failures
    MaxCopies    \* bound: headers copied by garbage collection

VARIABLES
    objs,      \* the objects in memory (obj_bucket), by id
    log,       \* the object headers on flash, oldest first
    todo,      \* the steps left of the call in progress
    state,     \* "down", "mounting" (is the clean-up after the scan), "up"
    calls, crashes, copies

vars == <<objs, log, todo, state, calls, crashes, copies>>

Root == "root"
LostNFound == "lost+found"
Unlinked == "unlinked"
Deleted == "deleted"

Graves == {Unlinked, Deleted}
Fakes == {Root, LostNFound} \cup Graves

Types == {"file", "dir", "link"}

Obj == [type : Types, parent : Ids \cup Fakes, name : Names \cup {None},
        equiv : Ids \cup {None},
        hooked : BOOLEAN,    \* a link on the hard_links list of its equiv_obj
        unlinked : BOOLEAN,  \* has been in a grave: no rename_allowed
        valid : BOOLEAN,     \* filled by its creation or by the scan
        hdr : BOOLEAN,       \* has a hdr_chunk: its newest header in the log
        open : BOOLEAN]      \* my_inode: a handle holds it

Hdr == [id : Ids, type : Types, parent : Ids \cup Fakes, name : Names \cup {None},
        equiv : Ids \cup {None}, shadows : Ids \cup {None},
        is_shrink : BOOLEAN,
        marked : BOOLEAN]    \* its block has has_shrink_hdr

Job == [op : {"create", "parent", "rename", "unlink", "del"},
        id : Ids \cup {None}, obj : Obj \cup {None}, dir : Ids \cup Fakes,
        name : Names \cup {None}, shadows : Ids \cup {None}]

-----------------------------------------------------------------------------
(* Objects in memory. *)

NewObj(type, parent, name) ==
    [type |-> type, parent |-> parent, name |-> name, equiv |-> None,
     hooked |-> FALSE, unlinked |-> parent \in Graves, valid |-> TRUE,
     hdr |-> FALSE, open |-> FALSE]

Without(os, i) == [j \in DOMAIN os \ {i} |-> os[j]]

yaffs_add_obj_to_dir(os, d, i) ==
    [os EXCEPT ![i].parent = d, ![i].unlinked = @ \/ d \in Graves]

Children(os, d) == {i \in DOMAIN os : os[i].parent = d}

\* The objects with the name; the code takes the first one it comes across.
yaffs_find_by_name(os, d, n) == {i \in Children(os, d) : os[i].name = n}

yaffs_is_non_empty_dir(os, i) == os[i].type = "dir" /\ Children(os, i) # {}

\* The list hard_links of an object.
HardLinks(os, i) ==
    {l \in DOMAIN os : os[l].type = "link" /\ os[l].hooked /\ os[l].equiv = i}

yaffs_get_equivalent_obj(os, i) == IF os[i].type = "link" THEN os[i].equiv ELSE i

ParentOf(os, d) ==
    IF d \in DOMAIN os THEN os[d].parent ELSE IF d = LostNFound THEN Root ELSE d

\* d is i or is somewhere below it.
Below(os, d, i) ==
    LET up[k \in 0 .. Cardinality(Ids) + 1] ==
            IF k = 0 THEN d ELSE ParentOf(os, up[k - 1])
    IN  \E k \in DOMAIN up : up[k] = i

-----------------------------------------------------------------------------
(* The log. *)

\* The header in the log is in use: its chunk bit is set.
Live(k) ==
    /\ log[k].id \in DOMAIN objs
    /\ objs[log[k].id].hdr
    /\ \A m \in k + 1 .. Len(log) : log[m].id # log[k].id

HeaderOf(os, i, is_shrink, shadows) ==
    [id |-> i, type |-> os[i].type, parent |-> os[i].parent, name |-> os[i].name,
     equiv |-> os[i].equiv, shadows |-> shadows,
     is_shrink |-> is_shrink, marked |-> is_shrink]

\* Writes the header of i; its old one is out of date from now on.
yaffs_update_oh(os, i, is_shrink, shadows) ==
    /\ objs' = [os EXCEPT ![i].hdr = TRUE]
    /\ log' = Append(log, HeaderOf(os, i, is_shrink, shadows))

slip_yaffs_generic_obj_del(os, i) ==
    /\ log' = IF os[i].parent = Deleted THEN log
              ELSE Append(log, HeaderOf([os EXCEPT ![i].parent = Deleted,
                                                   ![i].name = None],
                                        i, FALSE, None))
    /\ objs' = Without(os, i)

\* Moves the object to the deleted directory, with a header that says so
\* unless it was there, and forgets object and header.
yaffs_generic_obj_del(os, i) ==
    /\ log' = IF os[i].parent = Deleted THEN log
              ELSE Append(log, HeaderOf([os EXCEPT ![i].parent = Deleted,
                                                   ![i].name = None],
                                        i, TRUE, None))
    /\ objs' = Without(os, i)

-----------------------------------------------------------------------------
(* The scan of the log after a power failure, newest header first. *)

\* What the scan has so far: the objects, and the log it has been through.
Found == [objs |-> <<>>, log |-> <<>>]

\* An object not known to exist that a newer header has taken the place of:
\* it is put into the unlinked directory, and nothing older is read into it.
yaffs_handle_shadowed_obj(os, i) ==
    IF i \in DOMAIN os \cup {None} THEN os
    ELSE (i :> NewObj("file", Unlinked, None)) @@ os

\* A directory that has been mentioned, but not found so far.
FindOrCreateDir(os, d) ==
    IF d \in DOMAIN os \cup Fakes THEN os
    ELSE (d :> [NewObj("dir", LostNFound, None) EXCEPT !.valid = FALSE]) @@ os

\* An older header of an object the scan has filled is out of date, but keeps
\* its block when it says that the file was cut short or deleted.
ScanDuplicate(h, s) ==
    [s EXCEPT !.log = <<[h EXCEPT !.marked = /\ s.objs[h.id].type = "file"
                                             /\ h.type = "file"
                                             /\ h.is_shrink \/ h.parent \in Graves]>> \o @]

\* The newest header of an object fills it.
ScanNewest(h, s) ==
    LET self == (h.id :> NewObj(h.type, LostNFound, h.name)) @@ s.objs
        os == FindOrCreateDir(yaffs_handle_shadowed_obj(self, h.shadows), h.parent)
        parent == IF h.parent \in Ids /\ os[h.parent].type # "dir"
                  THEN LostNFound ELSE h.parent
        o == [NewObj(h.type, parent, h.name) EXCEPT !.equiv = h.equiv, !.hdr = TRUE]
    IN  [objs |-> [os EXCEPT ![h.id] = o],
         log |-> <<[h EXCEPT !.marked = h.is_shrink]>> \o s.log]

yaffs2_scan_chunk(h, s) ==
    IF h.id \in DOMAIN s.objs /\ s.objs[h.id].valid
    THEN ScanDuplicate(h, s)
    ELSE ScanNewest(h, s)

\* Links found outside the graves are hooked to what they stand for, if it is there.
yaffs_link_fixup(os) ==
    [i \in DOMAIN os |->
        [os[i] EXCEPT !.hooked = /\ os[i].type = "link"
                                 /\ os[i].parent \notin Graves
                                 /\ os[i].equiv \in DOMAIN os]]

yaffs2_scan_backwards(headers) ==
    LET s == FoldRight(yaffs2_scan_chunk, headers, Found)
    IN  [s EXCEPT !.objs = yaffs_link_fixup(s.objs)]

Mount ==
    /\ state = "down"
    /\ LET s == yaffs2_scan_backwards(log)
       IN  objs' = s.objs /\ log' = s.log
    /\ state' = "mounting"
    /\ UNCHANGED <<todo, calls, crashes, copies>>

\* The unlinked objects are deleted first, then the deleted ones forgotten.
yaffs_strip_deleted_objs ==
    /\ state = "mounting"
    /\ \E i \in DOMAIN objs :
          /\ ~yaffs_is_non_empty_dir(objs, i)
          /\ \/ objs[i].parent = Unlinked
             \/ objs[i].parent = Deleted /\ Children(objs, Unlinked) = {}
          /\ yaffs_generic_obj_del(objs, i)
    /\ UNCHANGED <<todo, state, calls, crashes, copies>>

\* The parents of i end in the root directory, or i is in a grave.
Rooted(os, i) == os[i].parent \in Graves \/ Below(os, i, Root)

\* What is not rooted is moved to lost+found.
yaffs_fix_hanging_objs ==
    /\ state = "mounting"
    /\ \A i \in DOMAIN objs :
          objs[i].parent \in Graves => yaffs_is_non_empty_dir(objs, i)
    /\ objs' = [i \in DOMAIN objs |->
                  IF Rooted(objs, i) THEN objs[i]
                  ELSE [objs[i] EXCEPT !.parent = LostNFound]]
    /\ state' = "up"
    /\ UNCHANGED <<log, todo, calls, crashes, copies>>

Crash ==
    /\ state # "down"
    /\ crashes < MaxCrashes
    /\ objs' = <<>>
    /\ todo' = <<>>
    /\ state' = "down"
    /\ crashes' = crashes + 1
    /\ UNCHANGED <<log, calls, copies>>

-----------------------------------------------------------------------------
(* Garbage collection. *)

slip_gc_disable == FALSE

\* Collection is held off until an object that is replaced has been unlinked:
\* a rename has steps after that, any other call has none.
gc_disable == \E k \in 1 .. Len(todo) - 1 : todo[k].op \in {"unlink", "del"}

\* A header in use is copied to the end of the log, and stripped of what has
\* had its effect; what is left behind no longer keeps its block.
yaffs_gc_process_chunk ==
    /\ state # "down"
    /\ ~gc_disable
    /\ copies < MaxCopies
    /\ \E k \in DOMAIN log :
          /\ Live(k)
          /\ log' = Append([log EXCEPT ![k].marked = FALSE],
                           [log[k] EXCEPT !.is_shrink = FALSE, !.shadows = None,
                                          !.marked = FALSE])
    /\ copies' = copies + 1
    /\ UNCHANGED <<objs, todo, state, calls, crashes>>

\* A block without anything in use is erased; one with a shrink header only by
\* a collection, and only when nothing older is out of date.
yaffs_block_became_dirty ==
    /\ state # "down"
    /\ \E k \in DOMAIN log :
          /\ ~Live(k)
          /\ log[k].marked => ~gc_disable /\ \A m \in 1 .. k - 1 : Live(m)
          /\ log' = RemoveAt(log, k)
    /\ UNCHANGED <<objs, todo, state, calls, crashes, copies>>

-----------------------------------------------------------------------------
(* The steps of a call. *)

AnyJob == [op |-> "del", id |-> None, obj |-> None, dir |-> Root, name |-> None,
           shadows |-> None]

\* yaffs_update_parent() writes the header of a directory.  The root's says
\* nothing of names, and is left out.
UpdateParent(d) ==
    IF d \in Ids THEN <<[AnyJob EXCEPT !.op = "parent", !.id = d]>> ELSE <<>>

ChangeName(i, d, n, shadows) ==
    <<[AnyJob EXCEPT !.op = "rename", !.id = i, !.dir = d, !.name = n,
                     !.shadows = shadows]>>

Delete(i) == <<[AnyJob EXCEPT !.op = "del", !.id = i]>>

UnlinkObj(i) ==
    UpdateParent(objs[i].parent) \o <<[AnyJob EXCEPT !.op = "unlink", !.id = i]>>

\* The next step of the call is of this kind, and will be done.
Doing(op) ==
    /\ todo # <<>>
    /\ Head(todo).op = op
    /\ UNCHANGED <<state, calls, crashes, copies>>

Done == todo' = Tail(todo)

DoCreate ==
    /\ Doing("create")
    /\ LET j == Head(todo)
       IN  yaffs_update_oh((j.id :> j.obj) @@ objs, j.id, FALSE, None)
    /\ Done

DoUpdateParent ==
    /\ Doing("parent")
    /\ yaffs_update_oh(objs, Head(todo).id, FALSE, None)
    /\ Done

Renamed(os, i, d, n) == [yaffs_add_obj_to_dir(os, d, i) EXCEPT ![i].name = n]

yaffs_change_obj_name(os, i, d, n, shadows) ==
    yaffs_update_oh(Renamed(os, i, d, n), i, d = Deleted, shadows)

\* Here the name is always free, shadowed or forced.
DoRename ==
    /\ Doing("rename")
    /\ LET j == Head(todo)
       IN  yaffs_change_obj_name(objs, j.id, j.dir, j.name, j.shadows)
    /\ Done

DoDelete ==
    /\ Doing("del")
    /\ yaffs_generic_obj_del(objs, Head(todo).id)
    /\ Done

\* yaffs_unlink_worker() of the object i.
Unlinking(i) == Doing("unlink") /\ Head(todo).id = i

HasLinks(i) == HardLinks(objs, i) # {}

\* A link, or an object without links that nobody holds, is deleted at once.
UnlinkNow ==
    \E i \in DOMAIN objs :
        /\ Unlinking(i)
        /\ ~HasLinks(i)
        /\ ~objs[i].open
        /\ yaffs_generic_obj_del(objs, i)
        /\ Done

\* An open file waits in the unlinked directory for its last close.
UnlinkOpen ==
    \E i \in DOMAIN objs :
        /\ Unlinking(i)
        /\ ~HasLinks(i)
        /\ objs[i].open
        /\ yaffs_change_obj_name(objs, i, Unlinked, None, None)
        /\ Done

\* An object that has links is not deleted: it takes the name of one of them,
\* and that one is deleted instead.  Nothing is deleted if that name has
\* another owner by then.
UnlinkLinked ==
    \E i \in DOMAIN objs : \E hl \in HardLinks(objs, i) :
        LET os == yaffs_add_obj_to_dir([objs EXCEPT ![hl].hooked = FALSE], Unlinked, hl)
            d == objs[hl].parent
            n == objs[hl].name
        IN  /\ Unlinking(i)
            /\ IF yaffs_find_by_name(os, d, n) = {}
               THEN /\ yaffs_change_obj_name(os, i, d, n, None)
                    /\ todo' = Delete(hl) \o Tail(todo)
               ELSE objs' = os /\ log' = log /\ Done

Step ==
    \/ DoCreate \/ DoUpdateParent \/ DoRename \/ DoDelete
    \/ UnlinkNow \/ UnlinkOpen \/ UnlinkLinked

-----------------------------------------------------------------------------
(* The calls. *)

Call ==
    /\ state = "up"
    /\ todo = <<>>
    /\ calls < MaxCalls
    /\ calls' = calls + 1
    /\ UNCHANGED <<log, state, crashes, copies>>

\* Directories that can be named in a path.
Dirs == {Root} \cup {d \in DOMAIN objs : /\ objs[d].type = "dir"
                                         /\ Below(objs, d, Root)}

\* The objects that can be named in a path.
Named == {i \in DOMAIN objs : objs[i].parent \in Dirs}

slip_CreateObj(i, type, d, n, equiv) ==
    /\ i \in Ids \ DOMAIN objs
    /\ todo' = <<[AnyJob EXCEPT !.op = "create", !.id = i,
                   !.obj = [NewObj(type, d, n) EXCEPT !.equiv = equiv,
                                                      !.hooked = type = "link"]]>>
               \o UpdateParent(d)
    /\ objs' = objs

CreateObj(i, type, d, n, equiv) ==
    /\ i \in Ids \ DOMAIN objs
    /\ yaffs_find_by_name(objs, d, n) = {}
    /\ todo' = <<[AnyJob EXCEPT !.op = "create", !.id = i,
                   !.obj = [NewObj(type, d, n) EXCEPT !.equiv = equiv,
                                                      !.hooked = type = "link"]]>>
               \o UpdateParent(d)
    /\ objs' = objs

Create ==
    /\ Call
    /\ \E i \in Ids, type \in {"file", "dir"}, d \in Dirs, n \in Names :
          CreateObj(i, type, d, n, None)

yaffs_link_obj ==
    /\ Call
    /\ \E i \in Ids, e \in Named, d \in Dirs, n \in Names :
          LET equiv == yaffs_get_equivalent_obj(objs, e)
          IN  /\ equiv \in DOMAIN objs
              /\ objs[equiv].type = "file"
              /\ CreateObj(i, "link", d, n, equiv)

yaffs_unlinker ==
    /\ Call
    /\ \E i \in Named :
          /\ ~yaffs_is_non_empty_dir(objs, i)
          /\ todo' = UnlinkObj(i)
    /\ objs' = objs

\* An entry that has the new name is shadowed by the header that moves i, and
\* then unlinked, before i is moved once more without a shadow.
RenameObj(i, d, n, target) ==
    /\ i \in Named
    /\ ~objs[i].unlinked
    /\ objs[i].type = "dir" => ~Below(objs, d, i)
    /\ todo' = (IF target \in {None, i} THEN <<>>
                ELSE ChangeName(i, d, n, target) \o UnlinkObj(target))
               \o ChangeName(i, d, n, None)
               \o UpdateParent(objs[i].parent)
               \o (IF d = objs[i].parent THEN <<>> ELSE UpdateParent(d))
    /\ objs' = objs

\* A file does not take the place of a directory, nor a directory that of a
\* file; and a directory's place can be taken only when it is empty.
MayReplace(i, target) ==
    /\ (objs[i].type = "dir") = (objs[target].type = "dir")
    /\ ~yaffs_is_non_empty_dir(objs, target)

RenameFree ==
    /\ Call
    /\ \E i \in Named, d \in Dirs, n \in Names :
          /\ yaffs_find_by_name(objs, d, n) = {}
          /\ RenameObj(i, d, n, None)

RenameOver ==
    /\ Call
    /\ \E i \in Named, d \in Dirs, n \in Names :
          \E target \in yaffs_find_by_name(objs, d, n) :
              MayReplace(i, target) /\ RenameObj(i, d, n, target)

\* Anything else that has a header written: a flush, a change of attributes.
Touch ==
    /\ Call
    /\ \E i \in DOMAIN objs : todo' = <<[AnyJob EXCEPT !.op = "parent", !.id = i]>>
    /\ objs' = objs

Open ==
    /\ Call
    /\ \E i \in Named :
          LET f == yaffs_get_equivalent_obj(objs, i)
          IN  /\ f \in DOMAIN objs
              /\ objs[f].type = "file"
              /\ ~objs[f].open
              /\ objs' = [objs EXCEPT ![f].open = TRUE]
    /\ todo' = todo

\* The last close of a file deletes it if it was unlinked.
yaffsfs_ReleaseInode ==
    /\ Call
    /\ \E f \in DOMAIN objs :
          /\ objs[f].open
          /\ objs' = [objs EXCEPT ![f].open = FALSE]
          /\ todo' = IF objs[f].unlinked THEN Delete(f) ELSE <<>>

Calls ==
    \/ Create \/ yaffs_link_obj \/ yaffs_unlinker \/ RenameFree \/ RenameOver
    \/ Touch \/ Open \/ yaffsfs_ReleaseInode

-----------------------------------------------------------------------------
Init ==
    /\ objs = <<>>
    /\ log = <<>>
    /\ todo = <<>>
    /\ state = "up"
    /\ calls = 0 /\ crashes = 0 /\ copies = 0

Collection == yaffs_gc_process_chunk \/ yaffs_block_became_dirty

Mounting == Mount \/ yaffs_strip_deleted_objs \/ yaffs_fix_hanging_objs

Next == Calls \/ Step \/ Collection \/ Mounting \/ Crash

Spec == Init /\ [][Next]_vars

-----------------------------------------------------------------------------
(* Properties. *)

\* Types of everything, and what memory says of headers: an object that has a
\* header has one in the log.
TypeOK ==
    /\ DOMAIN objs \subseteq Ids
    /\ \A i \in DOMAIN objs : objs[i] \in Obj
    /\ log \in Seq(Hdr)
    /\ todo \in Seq(Job)
    /\ state \in {"down", "mounting", "up"}
    /\ calls \in 0 .. MaxCalls
    /\ crashes \in 0 .. MaxCrashes
    /\ copies \in 0 .. MaxCopies
    /\ \A i \in DOMAIN objs : objs[i].hdr => \E k \in DOMAIN log : log[k].id = i

Idle == state = "up" /\ todo = <<>>

\* The entries that can be reached from the root directory, and the file each
\* leads to.
Entries(os) ==
    {[dir |-> os[i].parent, name |-> os[i].name,
      file |-> yaffs_get_equivalent_obj(os, i)] :
     i \in {j \in DOMAIN os : /\ os[j].valid
                              /\ Below(os, j, Root)
                              /\ ~Below(os, j, LostNFound)
                              /\ os[j].type = "link" => os[j].hooked}}

\* What a mount would find now.
Durable == Entries(yaffs2_scan_backwards(log).objs)

\* Between calls no directory has two entries of one name, for objects that
\* are there (yaffs_create_obj() fails a call "since we don't want a dup").
NamesUnique ==
    /\ TypeOK
    /\ Idle => \A i, j \in DOMAIN objs :
               /\ objs[i].parent = objs[j].parent
               /\ objs[i].name = objs[j].name
               /\ objs[i].parent \notin Graves
               => i = j

\* Between calls a mount by scan would find the names that memory has
\* (yaffs2_scan_backwards() against what the calls did).
ScanFindsNames == Idle => Durable = Entries(objs)

\* Whenever the power fails, the scan finds every parent and every link's file:
\* nothing ends in lost+found, no link stands for nothing, and no file that a
\* link stands for is about to be deleted (yaffs_link_fixup() has no remedy).
ScanIsWhole ==
    LET os == yaffs2_scan_backwards(log).objs
    IN  \A i \in DOMAIN os :
           /\ os[i].valid
           /\ Rooted(os, i) /\ os[i].parent # LostNFound
           /\ os[i].type = "link" /\ os[i].parent \notin Graves =>
                 os[i].hooked /\ os[os[i].equiv].parent \notin Graves

\* Both: what a mount by scan finds is what the calls did, and it is whole.
ScanTells == ScanFindsNames /\ ScanIsWhole

\* In memory a link is on the list of a file that exists, except one that is
\* being deleted: equiv_obj is a pointer that nothing else guards.  And a file
\* in the unlinked directory is open, or about to be deleted: no call leaves
\* one behind that nobody will delete before the next mount.
LinksResolve ==
    \A i \in DOMAIN objs :
        /\ objs[i].type = "link" /\ objs[i].hooked =>
              /\ objs[i].equiv \in DOMAIN objs
              /\ objs[objs[i].equiv].type = "file"
        /\ Idle /\ objs[i].parent \in Graves => objs[i].open

\* The objects in memory agree among themselves: no name twice, no link to
\* nothing, nothing left over (yaffs_create_obj(), yaffs_unlink_worker()).
MemorySound == NamesUnique /\ LinksResolve
=============================================================================
