----------------------------- MODULE MCYaffsCache -----------------------------
(***************************************************************************)
(* Instances of YaffsCache for TLC.                                        *)
(***************************************************************************)
EXTENDS YaffsCache

\* The calls of an application that writes the whole of a chunk, its ends, and
\* across the end of the file, and sets sizes in the middle and at the end of
\* a chunk.
FewWrites == {<<2, 0, 1>>, <<2, 0, 2>>, <<3, 1, 2>>}
FewSizes == {1, 3}
FewCalls ==
    \/ \E f \in Files, v \in Vals, w \in FewWrites : WriteFile(f, w[1], w[2], w[3], v)
    \/ \E f \in Files, n \in FewSizes : ResizeFile(f, n)
    \/ \E f \in Files, data_sync, discard \in BOOLEAN : FlushFile(f, data_sync, discard)
    \/ FlushWholeCache
    \/ \E f \in Files : UpdateHeader(f)
    \/ \E f \in Files, i \in Ids : ReadFile(f, i)

FewSpec == Init /\ [][FewCalls \/ Others \/ Jobs]_vars
=============================================================================
