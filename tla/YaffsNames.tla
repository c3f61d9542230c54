------------------------------ MODULE YaffsNames ------------------------------
(***************************************************************************)
(* What yaffs2 promises about names: the abstract specification that       *)
(* YaffsObjects implements.                                                *)
(*                                                                         *)
(* A name in a directory leads to one file (or directory).  Names change   *)
(* one call at a time, each call in a single step: above all a name that   *)
(* is moved over another takes its place at once.  A power failure, a      *)
(* mount or garbage collection changes no name at all.                     *)
(***************************************************************************)
CONSTANTS
    Files,    \* what names lead to: files and directories
    Names,    \* names within a directory
    Root      \* the root directory, not in Files

VARIABLE names  \* entries [dir, name, file]

Entry == [dir : Files \cup {Root}, name : Names, file : Files]

IsDir(d) == d = Root \/ \E e \in names : e.file = d

At(d, n) == {e \in names : e.dir = d /\ e.name = n}

Init == names = {}

\* A new file, or one more name of a file.
Create(d, n, f) ==
    /\ IsDir(d)
    /\ At(d, n) = {}
    /\ names' = names \cup {[dir |-> d, name |-> n, file |-> f]}

\* A directory is removed only when it is empty.
Remove(e) ==
    /\ \A c \in names : c.dir # e.file
    /\ names' = names \ {e}

\* The entry e gets another name, in place of what had that name.
Move(e, d, n) ==
    /\ IsDir(d)
    /\ \A r \in At(d, n) : r = e \/ \A c \in names : c.dir # r.file
    /\ names' = (names \ ({e} \cup At(d, n)))
                    \cup {[dir |-> d, name |-> n, file |-> e.file]}

Next ==
    \/ \E d \in Files \cup {Root}, n \in Names, f \in Files : Create(d, n, f)
    \/ \E e \in names : Remove(e)
    \/ \E e \in names, d \in Files \cup {Root}, n \in Names : Move(e, d, n)

Spec == Init /\ [][Next]_names
=============================================================================
