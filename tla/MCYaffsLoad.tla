------------------------------ MODULE MCYaffsLoad -----------------------------
(***************************************************************************)
(* Instances of YaffsLog for TLC.                                          *)
(***************************************************************************)
EXTENDS YaffsLog

VARIABLE load   \* which calls are made: they never change

SparseIds == 1 .. 3
SparseSeq == 5

\* Chunks are written, with or without a hole before them, and cut off again,
\* but not overwritten: what is left behind is what truncations leave.
SparseCalls ==
    /\ dev.seq_number < SparseSeq
    /\ \/ \E i \in SparseIds, v \in Vals : file.tree[i] = NoChunk /\ WriteFile(i, v)
       \/ \E n \in {0} \cup SparseIds : n < file.file_size /\ ResizeFile(n)
       \/ FlushFile

\* A file that grows until there is no room for data, while its first chunk
\* and its header are written again and again.
FillCalls ==
    \/ \E i \in Ids, v \in Vals : i \in {1, file.file_size + 1} /\ WriteFile(i, v)
    \/ FlushFile

LoadNext ==
    /\ \/ load = "sparse" /\ SparseCalls
       \/ load = "fill" /\ (FillCalls \/ Power)
       \/ Gc \/ Resizing \/ Writing
    /\ UNCHANGED load

LoadSpec ==
    /\ Init /\ load \in {"sparse", "fill"}
    /\ [][LoadNext]_<<vars, load>>
=============================================================================
