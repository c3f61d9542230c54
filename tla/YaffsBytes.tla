------------------------------ MODULE YaffsBytes ------------------------------
(***************************************************************************)
(* What an application may rely on when it writes and reads files through  *)
(* the short-operation cache: the abstract specification that YaffsCache   *)
(* implements.                                                             *)
(*                                                                         *)
(* A file is an array of bytes with a size, which nothing changes but the   *)
(* request that is being carried out: caching, loading, evicting and        *)
(* flushing do not show.  When the flash has refused a write, the chunk     *)
(* that was to be written is in doubt: it may turn into something else      *)
(* until it is written again, and nothing else may.                         *)
(***************************************************************************)
EXTENDS Integers

CONSTANTS
    Files,
    MaxId,      \* bound: the chunks of a file are 1 .. MaxId
    ChunkSize,
    Bytes,
    Zero        \* the byte that is read where nothing was written

VARIABLES
    bytes,
    size,
    doubt,      \* the chunks the flash has refused, <<file, chunk>>
    refusals,   \* how often the flash has refused a write
    asked       \* the request that is being carried out, if any

vars == <<bytes, size, doubt, refusals, asked>>

Ids == 1 .. MaxId
Offsets == 0 .. MaxId * ChunkSize - 1
ChunkOf(o) == o \div ChunkSize + 1

Init ==
    /\ bytes = [f \in Files |-> [o \in Offsets |-> Zero]]
    /\ size = [f \in Files |-> 0]
    /\ doubt = {}
    /\ refusals = 0
    /\ asked = {}

\* What a call asks for: bytes lo .. hi - 1 of a file to be "val", or the file
\* to be "size" long.
Requests ==
    [file : Files, lo : Offsets, hi : 1 .. MaxId * ChunkSize, val : Bytes]
      \cup [file : Files, size : 0 .. MaxId * ChunkSize]

Writes(r) == "val" \in DOMAIN r

\* File f turns into "content", but for the chunks "open" to any change.
BecomesBut(f, content, open) ==
    /\ bytes' \in [Files -> [Offsets -> Bytes]]
    /\ \A g \in Files, o \in Offsets :
        \/ <<g, ChunkOf(o)>> \in open
        \/ bytes'[g][o] = IF g = f THEN content[o] ELSE bytes[g][o]
    /\ refusals' \in {refusals, refusals + 1}
    /\ \A x \in doubt' \ doubt : x \in Files \X Ids /\ refusals' = refusals + 1
    /\ asked' \subseteq Requests /\ \A r, s \in asked' : r = s

Becomes(f, content) == BecomesBut(f, content, doubt')

Write(r) ==
    /\ Writes(r)
    /\ Becomes(r.file, [o \in Offsets |-> IF r.lo <= o /\ o < r.hi THEN r.val
                                                              ELSE bytes[r.file][o]])
    /\ size' = [size EXCEPT ![r.file] = IF r.hi > @ THEN r.hi ELSE @]

\* The file is made shorter, and nothing but zeros is left beyond its end, or
\* longer, with what lies there: zeros, until a refusal leaves something else.
Resize(r) ==
    /\ ~Writes(r)
    /\ Becomes(r.file, [o \in Offsets |->
            IF r.size < size[r.file] /\ r.size <= o THEN Zero ELSE bytes[r.file][o]])
    /\ size' = [size EXCEPT ![r.file] = r.size]

\* Nothing is written, and the flash may have refused to.
Keep == \E f \in Files : Becomes(f, bytes[f]) /\ UNCHANGED size

\* A write of a whole chunk goes past the cache: if it is refused, it takes
\* with it what was buffered of the chunk.
Refuse(r) ==
    /\ Writes(r) /\ r.hi - r.lo = ChunkSize
    /\ BecomesBut(r.file, bytes[r.file], doubt' \cup {<<r.file, ChunkOf(r.lo)>>})
    /\ UNCHANGED size

Next == Keep \/ \E r \in asked : Write(r) \/ Resize(r) \/ Refuse(r)

Spec == Init /\ [][Next]_vars
=============================================================================
