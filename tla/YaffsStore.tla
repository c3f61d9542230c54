------------------------------ MODULE YaffsStore ------------------------------
(***************************************************************************)
(* What the flash promises about the data of one file: the abstract        *)
(* specification that YaffsLog implements.                                 *)
(*                                                                         *)
(* The file changes when a chunk is written, and never through garbage     *)
(* collection, erasure, power failure or mount.  While it is being cut     *)
(* short, the chunks beyond its new size are in doubt: until that is over, *)
(* a mount may find them gone, as they were, or in an earlier version.  A  *)
(* chunk found gone is still in doubt when the file goes on beyond it.     *)
(***************************************************************************)
EXTENDS Integers

CONSTANTS
    MaxId,  \* bound: the file's chunks are 1 .. MaxId
    Data,   \* what a chunk can hold
    Hole    \* what is read where there is no chunk, not in Data

VARIABLES content, doubt

vars == <<content, doubt>>

Ids == 1 .. MaxId

Contents == [Ids -> Data \cup {Hole}]

Init == /\ content = [i \in Ids |-> Hole]
        /\ doubt = {}

Write(i, v) ==
    /\ content' = [content EXCEPT ![i] = v]
    /\ doubt' = doubt \ {i}

\* A write past the end is refused: the chunk is taken for a part of the file.
Refuse(i) ==
    /\ doubt' = doubt \cup {i}
    /\ content' = content

\* The file is being cut to n chunks: the others are in doubt from now on.
Truncating(n) ==
    /\ doubt' = doubt \cup {i \in Ids : i > n}
    /\ content' = content

\* The header with the size n is on flash: what was in doubt beyond it is gone.
EndTruncate(n) ==
    /\ doubt' = {i \in doubt : i <= n}
    /\ content' = [i \in Ids |-> IF i \in doubt \ doubt' THEN Hole ELSE content[i]]

\* A mount takes the file as it finds it.  A hole that an interrupted
\* truncation has left stays in doubt.
Mount ==
    /\ content' \in Contents
    /\ \A i \in Ids \ doubt : content'[i] = content[i]
    /\ doubt' \in SUBSET {i \in doubt : content'[i] = Hole}

Next ==
    \/ \E i \in Ids, v \in Data : Write(i, v)
    \/ \E i \in Ids : Refuse(i)
    \/ \E n \in 0 .. MaxId : Truncating(n)
    \/ \E n \in 0 .. MaxId : EndTruncate(n)
    \/ Mount

Spec == Init /\ [][Next]_vars
=============================================================================
