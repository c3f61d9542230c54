------------------------------ MODULE YaffsFiles ------------------------------
(***************************************************************************)
(* What a file system of flat, named files promises, whatever it stores    *)
(* them on: a call does one of the steps below, or, cut off by a power     *)
(* failure, nothing at all.  A truncation may also stop half way, since it *)
(* deletes chunk after chunk from the end.                                 *)
(***************************************************************************)
EXTENDS Naturals

CONSTANTS
    Files,   \* object numbers
    Ids,     \* chunks of a file, 1 ..
    Names,
    Vals,    \* what a chunk may hold
    Hole,    \* a chunk never written
    NoFile   \* an object number that is not in use

VARIABLE files   \* object number -> its name and contents

Empty == [i \in Ids |-> Hole]

Exists(f) == files[f] # NoFile

Named(n) == {f \in Files : Exists(f) /\ files[f].name = n}

Init == files = [f \in Files |-> NoFile]

Create(f, n) ==
    /\ ~Exists(f)
    /\ Named(n) = {}
    /\ files' = [files EXCEPT ![f] = [name |-> n, data |-> Empty]]

Write(f, i, v) ==
    /\ Exists(f)
    /\ files' = [files EXCEPT ![f].data[i] = v]

Truncate(f, k) ==
    /\ Exists(f)
    /\ files' = [files EXCEPT ![f].data =
                     [i \in Ids |-> IF i > k THEN Hole ELSE @[i]]]

\* The file that had the name goes in the same step.
Rename(f, n) ==
    /\ Exists(f)
    /\ files' = [g \in Files |->
                    IF g = f THEN [files[f] EXCEPT !.name = n]
                    ELSE IF g \in Named(n) THEN NoFile ELSE files[g]]

Delete(f) ==
    /\ Exists(f)
    /\ files' = [files EXCEPT ![f] = NoFile]

Next ==
    \E f \in Files :
        \/ \E n \in Names : Create(f, n) \/ Rename(f, n)
        \/ \E i \in Ids, v \in Vals : Write(f, i, v)
        \/ \E k \in {0} \cup Ids : Truncate(f, k)
        \/ Delete(f)

Spec == Init /\ [][Next]_files
=============================================================================
