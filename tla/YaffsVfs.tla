------------------------------ MODULE YaffsVfs ------------------------------
(***************************************************************************)
(* linux/yaffs_vfs_multi.c: the inodes and dentries of the kernel and the  *)
(* objects of yaffs they stand for.                                        *)
(*                                                                         *)
(* The gross lock makes a region of code a single step.  The calls let it  *)
(* go before they enter the kernel: a lookup or a creation between the     *)
(* object and its inode, an eviction between deletion and release, a       *)
(* readdir while it hands out an entry.  The kernel's own rules (external) *)
(* are those the calls rely on: a call holds the mutex of its directory,   *)
(* an inode that is new or freeing makes iget wait, and an inode without   *)
(* users may be evicted.                                                   *)
(*                                                                         *)
(* Objects are files and the hard links to them, in directories that stay. *)
(* A call that changes nothing is no step.                                 *)
(***************************************************************************)
EXTENDS Integers, FiniteSets, Sequences, SequencesExt, TLC

CONSTANTS
    Ids,       \* object ids, which are inode numbers
    Dirs,      \* directories
    DirOf,     \* the directory of each name
    Procs,     \* processes that make calls
    MaxOpens,  \* bound: open files of an inode
    None,
    Negative   \* the dentry of a name that does not exist

Names == DOMAIN DirOf

ASSUME VfsAssumption ==
    /\ DirOf \in [Names -> Dirs]
    /\ None \notin Ids \cup Names /\ Negative \notin Ids \cup {None}
    /\ MaxOpens \in Nat

VARIABLES
    core,    \* the objects: obj, links (the hard_links lists), children
    inode,   \* the inode cache
    dentry,  \* the dentry cache
    opens,   \* open files of each inode
    call     \* the call each process is in

vars == <<core, inode, dentry, opens, call>>

File == [kind |-> "file", equiv |-> None, name |-> None,
         my_inode |-> FALSE, defered_free |-> FALSE]

NoInode == [state |-> "none", nlink |-> 0, obj |-> FALSE]
Idle == [op |-> "idle"]

Live == DOMAIN core.obj
-----------------------------------------------------------------------------
(* The objects, as the calls of the core leave them.                       *)

\* The object with the name n, or None: one whose parent is the unlinked or
\* the deleted directory has no name.
find_by_name(c, n) ==
    LET found == {o \in DOMAIN c.obj : c.obj[o].name = n}
    IN  IF found = {} THEN None ELSE CHOOSE o \in found : TRUE

get_equivalent_obj(c, o) ==
    IF o # None /\ c.obj[o].kind = "link" THEN c.obj[o].equiv ELSE o

find_by_number(c, o) ==
    IF o \in DOMAIN c.obj /\ ~c.obj[o].defered_free THEN o ELSE None

get_obj_link_count(c, o) ==
    Len(c.links[o]) + (IF c.obj[o].name # None THEN 1 ELSE 0)

\* An entry leaves its directory; the searches that stand on it were moved to
\* the next one before, see search_moved.
remove_obj_from_dir(c, o) ==
    IF c.obj[o].name = None THEN c
    ELSE [c EXCEPT !.children[DirOf[c.obj[o].name]] = RemoveFirst(@, o),
                   !.obj[o].name = None]

\* The object gets another name, at the head of the directory.
change_obj_name(c, o, n) ==
    LET out == remove_obj_from_dir(c, o)
    IN  IF n = None THEN out
        ELSE [out EXCEPT !.children[DirOf[n]] = <<o>> \o @, !.obj[o].name = n]

\* An object with an inode is only marked: it is freed with the inode.
free_obj(c, o) ==
    IF c.obj[o].my_inode THEN [c EXCEPT !.obj[o].defered_free = TRUE]
    ELSE [c EXCEPT !.obj = [p \in DOMAIN c.obj \ {o} |-> c.obj[p]]]

generic_obj_del(c, o) == free_obj(remove_obj_from_dir(c, o), o)

\* The unlinking of an object: a link goes, a file with links takes the name of
\* the newest of them, a file without goes to the unlinked directory as long as
\* it has an inode.
unlink_obj(c, o) ==
    LET eq == c.obj[o].equiv
        hl == Head(c.links[o])
        parent == c.obj[hl].name
        unhooked == [c EXCEPT !.links[o] = Tail(@)]
    IN  IF c.obj[o].kind = "link"
        THEN generic_obj_del([c EXCEPT !.links[eq] = RemoveFirst(@, o)], o)
        ELSE IF c.links[o] # <<>>
        THEN generic_obj_del(
                 change_obj_name(remove_obj_from_dir(unhooked, hl), o, parent), hl)
        ELSE IF c.obj[o].my_inode THEN change_obj_name(c, o, None)
        ELSE generic_obj_del(c, o)

rename_obj(c, o, n) ==
    LET target == find_by_name(c, n)
        moved == change_obj_name(c, o, n)
    IN  IF target = None THEN moved
        ELSE change_obj_name(unlink_obj(moved, target), o, n)

create_obj(c, o, n, kind, equiv) ==
    LET made == [c EXCEPT
            !.obj = [p \in DOMAIN c.obj \cup {o} |->
                IF p = o THEN [File EXCEPT !.kind = kind, !.equiv = equiv, !.name = n]
                ELSE c.obj[p]],
            !.children[DirOf[n]] = <<o>> \o @]
    IN  IF kind = "link" THEN [made EXCEPT !.links[equiv] = <<o>> \o @] ELSE made

-----------------------------------------------------------------------------
(* What the kernel sees to.                                                *)

Reading(p) == call[p].op = "readdir"

\* The mutex of the directory: held by lookups and creations until the inode is
\* there, and by readdir.
LockedDir(p) ==
    CASE call[p].op = "idle" -> None
      [] Reading(p) -> call[p].dir
      [] OTHER -> DirOf[call[p].name]

FreeDir(n) == \A p \in Procs : LockedDir(p) # DirOf[n]

\* A call holds the inode it waits for, is about to fill or hand out.
Held(o) == {p \in Procs : call[p].op \in {"lookup", "mknod"}
                          /\ call[p].id = o /\ call[p].step # "iget"}

Unused(o) ==
    /\ \A n \in Names : dentry[n] # o
    /\ opens[o] = 0
    /\ Held(o) = {}

Positive(n) == dentry[n] \in Ids

-----------------------------------------------------------------------------
(* Searches.  All the objects a call removes from their directories, in the *)
(* order it removes them, drive the searches that stand on them on.         *)

\* The entry after l in the directory d.
search_advance(c, d, l) ==
    LET list == c.children[d]
        later == {i \in DOMAIN list : \E j \in 1 .. i - 1 : list[j] = l}
    IN  IF l = None \/ later = {} THEN None
        ELSE list[CHOOSE i \in later : \A k \in later : i <= k]

slip_search_moved(k, c, o) == k

\* remove_obj_fn for the removal of o from its directory in c.
search_moved(k, c, o) ==
    [p \in Procs |->
        IF k[p].op # "readdir" THEN k[p]
        ELSE [k[p] EXCEPT
                !.next_return =
                    IF @ = o /\ c.obj[o].name # None
                    THEN search_advance(c, k[p].dir, o) ELSE @]]

\* The searches after an unlinking of o.
search_unlinked(k, c, o) ==
    IF c.obj[o].kind = "file" /\ c.links[o] # <<>>
    THEN LET hl == Head(c.links[o])
         IN  search_moved(search_moved(k, c, hl), remove_obj_from_dir(c, hl), o)
    ELSE search_moved(k, c, o)

-----------------------------------------------------------------------------
(* Lookup and creation.                                                    *)

\* yaffs_lookup(), up to the release of the lock.
Lookup(p, n) ==
    LET o == get_equivalent_obj(core, find_by_name(core, n))
    IN  /\ call[p] = Idle /\ FreeDir(n) /\ dentry[n] = None
        /\ IF o = None
           THEN /\ dentry' = [dentry EXCEPT ![n] = Negative]
                /\ UNCHANGED call
           ELSE /\ call' = [call EXCEPT ![p] =
                       [op |-> "lookup", step |-> "iget", name |-> n, id |-> o]]
                /\ UNCHANGED dentry
        /\ UNCHANGED <<core, inode, opens>>

\* yaffs_mknod(), up to the release of the lock.
Mknod(p, n, o) ==
    /\ call[p] = Idle /\ FreeDir(n) /\ dentry[n] = Negative
    /\ o \notin Live
    /\ core' = create_obj(core, o, n, "file", None)
    /\ call' = [call EXCEPT ![p] =
           [op |-> "mknod", step |-> "iget", name |-> n, id |-> o]]
    /\ UNCHANGED <<inode, dentry, opens>>

\* iget_locked(): an inode that is new or freeing makes the call wait.
Iget(p) ==
    LET o == call[p].id
        at(s) == call' = [call EXCEPT ![p].step = s]
    IN  /\ call[p].op \in {"lookup", "mknod"} /\ call[p].step = "iget"
        /\ \/ /\ inode[o].state = "none"
              /\ inode' = [inode EXCEPT ![o] = [NoInode EXCEPT !.state = "new", !.nlink = 1]]
              /\ at("fill")
           \/ /\ inode[o].state = "live"
              /\ at("add")
              /\ UNCHANGED inode
        /\ UNCHANGED <<core, dentry, opens>>

\* The rest of yaffs_iget(), with yaffs_fill_inode_from_obj() for the object
\* that has the number now.
Fill(p) ==
    LET o == find_by_number(core, call[p].id)
    IN  /\ call[p].op \in {"lookup", "mknod"} /\ call[p].step = "fill"
        /\ IF o = None
           THEN /\ inode' = [inode EXCEPT ![call[p].id].state = "live"]
                /\ UNCHANGED core
           ELSE /\ inode' = [inode EXCEPT ![o] =
                       [state |-> "live", nlink |-> get_obj_link_count(core, o),
                        obj |-> TRUE]]
                /\ core' = [core EXCEPT !.obj[o].my_inode = TRUE]
        /\ call' = [call EXCEPT ![p].step = "add"]
        /\ UNCHANGED <<dentry, opens>>

\* d_add() or d_instantiate(), and the end of the call.
Add(p) ==
    /\ call[p].op \in {"lookup", "mknod"} /\ call[p].step = "add"
    /\ dentry' = [dentry EXCEPT ![call[p].name] = call[p].id]
    /\ call' = [call EXCEPT ![p] = Idle]
    /\ UNCHANGED <<core, inode, opens>>

-----------------------------------------------------------------------------
(* Calls that are one region of the lock.                                  *)

\* yaffs_link(): a new name m for the file that n names.
Link(n, m, o) ==
    LET f == dentry[n]
    IN  /\ Positive(n) /\ dentry[m] = Negative /\ FreeDir(m)
        /\ inode[f].obj
        /\ o \notin Live
        /\ core' = create_obj(core, o, m, "link", f)
        /\ inode' = [inode EXCEPT ![f].nlink = get_obj_link_count(core', f)]
        /\ dentry' = [dentry EXCEPT ![m] = f]
        /\ UNCHANGED <<opens, call>>

\* yaffs_unlink(); the kernel keeps a negative dentry.
Unlink(n) ==
    LET o == find_by_name(core, n)
    IN  /\ Positive(n) /\ FreeDir(n)
        /\ o # None
        /\ core' = unlink_obj(core, o)
        /\ call' = search_unlinked(call, core, o)
        /\ inode' = [inode EXCEPT ![dentry[n]].nlink = @ - 1]
        /\ dentry' = [dentry EXCEPT ![n] = Negative]
        /\ UNCHANGED opens

\* yaffs_rename(); the kernel looks both names up first, does nothing when they
\* are one file, and moves the dentry.
Rename(n, m) ==
    LET o == find_by_name(core, n)
        target == find_by_name(core, m)
    IN  /\ n # m /\ Positive(n) /\ FreeDir(n) /\ FreeDir(m)
        /\ dentry[m] # None /\ dentry[m] # dentry[n]
        /\ o # None
        /\ core' = rename_obj(core, o, m)
        /\ call' = IF target = None THEN search_moved(call, core, o)
                   ELSE search_unlinked(search_moved(call, core, o),
                                        change_obj_name(core, o, m), target)
        /\ inode' = IF target = None THEN inode
                    ELSE [inode EXCEPT ![dentry[m]].nlink = @ - 1]
        /\ dentry' = [dentry EXCEPT ![m] = dentry[n], ![n] = None]
        /\ UNCHANGED opens

-----------------------------------------------------------------------------
(* Files, dentries and evictions.                                          *)

OpenFile(n) ==
    /\ Positive(n)
    /\ opens[dentry[n]] < MaxOpens
    /\ opens' = [opens EXCEPT ![dentry[n]] = @ + 1]
    /\ UNCHANGED <<core, inode, dentry, call>>

CloseFile(o) ==
    /\ opens[o] > 0
    /\ opens' = [opens EXCEPT ![o] = @ - 1]
    /\ UNCHANGED <<core, inode, dentry, call>>

\* The kernel forgets a name.
Shrink(n) ==
    /\ dentry[n] # None
    /\ dentry' = [dentry EXCEPT ![n] = None]
    /\ UNCHANGED <<core, inode, opens, call>>

\* yaffs_evict_inode(), up to the first lock: whether to delete is decided here.
Evict(o) ==
    /\ inode[o].state = "live" /\ Unused(o)
    /\ inode' = [inode EXCEPT ![o].state =
           IF inode[o].nlink = 0 /\ inode[o].obj THEN "deleting" ELSE "unstitching"]
    /\ UNCHANGED <<core, dentry, opens, call>>

\* yaffs_del_obj() under the lock: the data goes, then the object, but for an
\* object with an inode, which is marked.
DelObj(o) ==
    /\ inode[o].state = "deleting"
    /\ core' = generic_obj_del(core, o)
    /\ call' = search_moved(call, core, o)
    /\ inode' = [inode EXCEPT ![o].state = "unstitching"]
    /\ UNCHANGED <<dentry, opens>>

slip_Unstitch(o) ==
    /\ inode[o].state = "unstitching"
    /\ core' = IF inode[o].obj THEN [core EXCEPT !.obj[o].my_inode = FALSE] ELSE core
    /\ inode' = [inode EXCEPT ![o] = NoInode]
    /\ UNCHANGED <<dentry, opens, call>>

\* yaffs_unstitch_obj() under the lock, and the end of the eviction.
Unstitch(o) ==
    LET out == [core EXCEPT !.obj[o].my_inode = FALSE]
    IN  /\ inode[o].state = "unstitching"
        /\ core' = IF ~inode[o].obj THEN core
                   ELSE IF core.obj[o].defered_free THEN free_obj(out, o) ELSE out
        /\ inode' = [inode EXCEPT ![o] = NoInode]
        /\ UNCHANGED <<dentry, opens, call>>

-----------------------------------------------------------------------------
(* readdir: yaffs_iterate(), from its beginning in one call.               *)

\* yaffs_new_search(), and the dots outside the lock.
ReaddirBegin(p, d) ==
    LET list == core.children[d]
    IN  /\ call[p] = Idle
        /\ \A q \in Procs : LockedDir(q) # d
        /\ call' = [call EXCEPT ![p] =
               [op |-> "readdir", dir |-> d, given |-> FALSE,
                next_return |-> IF list = <<>> THEN None ELSE Head(list)]]
        /\ UNCHANGED <<core, inode, dentry, opens>>

\* From one dir_emit() to the next, or to the end of the search.
ReaddirNext(p) ==
    LET l == IF call[p].given
             THEN search_advance(core, call[p].dir, call[p].next_return)
             ELSE call[p].next_return
    IN  /\ Reading(p)
        /\ call' = [call EXCEPT ![p] =
               IF l = None THEN Idle
               ELSE [@ EXCEPT !.next_return = l, !.given = TRUE]]
        /\ UNCHANGED <<core, inode, dentry, opens>>

-----------------------------------------------------------------------------
Init ==
    /\ core = [obj |-> <<>>, links |-> [o \in Ids |-> <<>>],
               children |-> [d \in Dirs |-> <<>>]]
    /\ inode = [o \in Ids |-> NoInode]
    /\ dentry = [n \in Names |-> None]
    /\ opens = [o \in Ids |-> 0]
    /\ call = [p \in Procs |-> Idle]

Calls(p) ==
    \/ \E n \in Names : Lookup(p, n)
    \/ \E n \in Names, o \in Ids : Mknod(p, n, o)
    \/ Iget(p)
    \/ Fill(p)
    \/ Add(p)
    \/ \E d \in Dirs : ReaddirBegin(p, d)
    \/ ReaddirNext(p)

OnNames ==
    \/ \E n, m \in Names, o \in Ids : Link(n, m, o)
    \/ \E n \in Names : Unlink(n) \/ OpenFile(n) \/ Shrink(n)
    \/ \E n, m \in Names : Rename(n, m)

OnInode(o) == CloseFile(o) \/ Evict(o) \/ DelObj(o) \/ Unstitch(o)

Next ==
    \/ \E p \in Procs : Calls(p)
    \/ OnNames
    \/ \E o \in Ids : OnInode(o)

Spec == Init /\ [][Next]_vars
-----------------------------------------------------------------------------
(* Properties.                                                             *)

\* "This should fix the inode inconsistency problem.": a name or an open file
\* leads to an inode that has its object, the object knows it, and both have
\* the same number of links; so no call meets an inode without an object, and
\* no inode points at an object that has been freed.
InodesMatchObjects ==
    /\ \A o \in Ids :
          inode[o].obj => o \in Live /\ core.obj[o].my_inode /\ core.obj[o].kind = "file"
    /\ \A o \in Live : core.obj[o].my_inode => inode[o].obj
    /\ \A o \in Ids :
          (\E n \in Names : dentry[n] = o) \/ opens[o] > 0 =>
              inode[o].state = "live" /\ inode[o].obj
    /\ \A o \in Ids :
          inode[o].state = "live" /\ inode[o].obj =>
              inode[o].nlink = get_obj_link_count(core, o)

Creating(n) == \E p \in Procs : call[p].op = "mknod" /\ call[p].name = n

\* A cached name leads to the file that has it, and one that is negative to
\* none; a file without a name is there exactly as long as its inode: it is
\* neither deleted while it is open or has a name, nor kept for ever.
NamesLeadToFiles ==
    /\ \A n \in Names :
          LET o == get_equivalent_obj(core, find_by_name(core, n))
          IN  dentry[n] # None /\ ~Creating(n) =>
                  dentry[n] = IF o = None THEN Negative ELSE o
    /\ \A o \in Live :
          /\ core.obj[o].name = None => core.obj[o].my_inode
          /\ core.obj[o].defered_free =>
                 inode[o].state = "unstitching" /\ get_obj_link_count(core, o) = 0
          /\ core.obj[o].kind = "link" =>
                 /\ core.obj[o].equiv \in Live
                 /\ o \in Range(core.links[core.obj[o].equiv])

\* What the kernel has cached of names and inodes is what the core has.
CachesTell == InodesMatchObjects /\ NamesLeadToFiles

\* A search never stands on an object that has left its directory.
SearchStandsOnEntry ==
    \A p \in Procs :
        Reading(p) /\ call[p].next_return # None =>
            call[p].next_return \in Range(core.children[call[p].dir])
=============================================================================
