---------------------------- MODULE MCYaffsObjects ----------------------------
(***************************************************************************)
(* Instances of YaffsObjects for TLC, with its refinement of YaffsNames.   *)
(***************************************************************************)
EXTENDS YaffsObjects

VARIABLE found  \* history: what a mount would find, Durable of YaffsObjects

Symmetric == Permutations(Ids) \cup Permutations(Names)

\* No call takes the name of a file that has links; the power does not fail
\* while the link whose name a file has taken is yet to be deleted; and nothing
\* is copied while a mount cleans up.  Each of these breaks the properties (see
\* the README).  Calls and copies together are bounded.
Sheltered ==
    \/ Calls /\ \A k \in DOMAIN todo' :
                   todo'[k].shadows # None => HardLinks(objs, todo'[k].shadows) = {}
    \/ Step
    \/ yaffs_gc_process_chunk /\ state = "up"
    \/ yaffs_block_became_dirty
    \/ Mounting
    \/ Crash /\ (todo # <<>> /\ Head(todo).op = "del" =>
                    objs[Head(todo).id].type # "link")

MCInit == Init /\ found = {}

\* found' = Durable', with the scan evaluated once.
FoundNext ==
    \E os \in {yaffs2_scan_backwards(log').objs} : found' = Entries(os)

ShelteredSpec ==
    /\ MCInit
    /\ [][Sheltered /\ calls' + copies' <= MaxCalls /\ FoundNext]_<<vars, found>>

\* Everything that can happen; what a mount would find is of no interest.
FullSpec == MCInit /\ [][Next /\ UNCHANGED found]_<<vars, found>>

\* What a mount would find changes as the names of YaffsNames do: every call
\* in one step, and nothing else at all (the order of the headers that
\* yaffs_rename_obj() and yaffs_unlink_worker() write).
Namespace == INSTANCE YaffsNames WITH Files <- Ids, names <- found

ImplementsNames == Namespace!Spec
=============================================================================
