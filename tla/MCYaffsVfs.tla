------------------------------ MODULE MCYaffsVfs ------------------------------
(***************************************************************************)
(* Instances of YaffsVfs and YaffsPages for TLC: a run is about the names  *)
(* or about the pages of one file.                                         *)
(***************************************************************************)
EXTENDS YaffsVfs, YaffsPages

CONSTANTS d1, d2, a, b, c

VARIABLE about   \* it never changes

TwoDirs == (a :> d1) @@ (b :> d2) @@ (c :> d2)

Symmetric == Permutations(Ids) \cup Permutations({b, c}) \cup Permutations(Procs)

VfsInit == Init /\ PagesInit /\ about \in {"names", "pages"}

VfsNext ==
    /\ \/ about = "names" /\ Next /\ UNCHANGED pageVars
       \/ about = "pages" /\ PagesNext /\ UNCHANGED vars
    /\ UNCHANGED about

VfsSpec == VfsInit /\ [][VfsNext]_<<about, vars, pageVars>>
=============================================================================
