---------------------------- MODULE MCYaffsHandles ----------------------------
(***************************************************************************)
(* Instances of YaffsHandles for TLC.                                      *)
(***************************************************************************)
EXTENDS YaffsHandles

\* A reader and writer that shares, and an appender that lets others read only.
FewModes ==
    {[reading |-> TRUE, writing |-> TRUE, append |-> FALSE,
      shareRead |-> TRUE, shareWrite |-> TRUE],
     [reading |-> FALSE, writing |-> TRUE, append |-> TRUE,
      shareRead |-> TRUE, shareWrite |-> FALSE]}

\* Callers that do not seek in a directory and do not rewind one that has been
\* removed; and devices that are unmounted only after their searches, and by
\* force only while no handle of another device is open.
SearchOf(d) ==
    {c \in Searches : /\ fs.dsc[c].inUse
                      /\ \/ fs.dsc[c].dirObj = d
                         \/ fs.dsc[c].dirObj \notin DOMAIN fs.objs
                         \/ fs.objs[fs.dsc[c].dirObj].dev = d}

OrderlyHandle(h) ==
    /\ OnHandle(h)
    /\ \A k \in Slots : fs'.fd[k].handleCount > 0 => fs'.fd[k].dir = fs.fd[k].dir

OrderlySearch(c) ==
    /\ OnSearch(c)
    /\ fs.dsc[c].dirObj \notin DOMAIN fs.objs => ~fs'.dsc[c].inUse

\* An unmount, or a format.
LetsGo == fs' # fs \/ \E d \in Devs : ~dev'[d].mounted

OrderlyDevice(d) ==
    /\ OnDevice(d)
    /\ dev[d].mounted /\ LetsGo =>
          /\ SearchOf(d) = {}
          /\ IsDevBusy(fs, d) => \A e \in Devs \ {d} : ~IsDevBusy(fs, e)

Orphans == {t \in Threads : io'[t] # Quiet /\ io'[t].orphan}

\* A read-only device refuses calls and pieces of writes, as one without room
\* does, and changes nothing of a search; a call whose use of its handle was
\* taken back goes on with files, a search with a directory: no two of them
\* meet.
Apart ==
    /\ (\E d \in Devs : dev'[d].read_only) => Orphans = {}
    /\ (\E d \in Devs : dev'[d].read_only) \/ Orphans # {} =>
          \A c \in Searches : ~fs'.dsc[c].inUse

OrderlyNext ==
    /\ \/ \E t \in Threads : NextPiece(t)
       \/ \E d \in Devs : OnPath(d) \/ OrderlyDevice(d)
       \/ \E h \in Slots : OrderlyHandle(h)
       \/ \E c \in Searches : OrderlySearch(c)
    /\ Apart

OrderlySpec == Init /\ [][OrderlyNext]_vars

Symmetric == Permutations(Objs) \cup Permutations(Names)
=============================================================================
