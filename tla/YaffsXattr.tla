------------------------------ MODULE YaffsXattr ------------------------------
(***************************************************************************)
(* Extended attributes: the name-value records that fill what the object   *)
(* header leaves of its chunk, the calls that read them and write the      *)
(* header again with one of them changed, and the other updates of the     *)
(* header, which carry them over.                                          *)
(*                                                                         *)
(* A record is modelled as a record and not by its bytes; what counts is   *)
(* its size (a length field, the name and its end, the value) and where it *)
(* ends.  The copy that closes the gap of a deleted record moves bytes to  *)
(* lower addresses within one buffer and is taken to do so in order.       *)
(***************************************************************************)
EXTENDS Integers, Sequences, FiniteSets, SequencesExt, TLC

CONSTANTS
    XattrNames,       \* records [name, len] of the names that calls use
    XattrValues,      \* records [data, len] of the values
    XattrSpace,       \* bytes of a chunk after the header (x_size)
    SizeField         \* bytes of the length field of a record

VARIABLES
    xhdr,             \* the header on flash: mode and records
    xobj,             \* the object: xattr_known, has_xattr, mode and dirty
    attribs,          \* what was set: name -> value
    xanswered,        \* the last call answered what attribs entails
    xspoilt,          \* history: a record was accepted that ends where the buffer ends,
                      \* or a header was made from one that could not be read
    xlost             \* history: the last attribute was removed from a header that
                      \* could not be written

xattrVars == <<xhdr, xobj, attribs, xanswered, xspoilt, xlost>>

Modes == {0, 1}
ENODATA == -61
EEXIST == -17
ENOSPC == -28
ERANGE == -34

(***************************************************************************)
(* The buffer of records                                                   *)
(***************************************************************************)
RecLen(r) == SizeField + r.name.len + 1 + r.value.len
EndOf(xb, i) == FoldLeft(LAMBDA n, r : n + RecLen(r), 0, SubSeq(xb, 1, i))

\* The walk from record to record ends before one that reaches the end of the buffer.
Walked(xb) == {i \in DOMAIN xb : EndOf(xb, i) < XattrSpace}

nval_find(xb, name) ==
    LET hits == {i \in Walked(xb) : xb[i].name = name}
    IN IF hits = {} THEN ENODATA ELSE CHOOSE i \in hits : \A j \in hits : i <= j

nval_used(xb) == FoldSet(LAMBDA i, n : n + RecLen(xb[i]), 0, Walked(xb))
nval_hasvalues(xb) == nval_used(xb) > 0

nval_del(xb, name) ==
    LET i == nval_find(xb, name)
    IN IF i < 0 THEN [xb |-> xb, result |-> ENODATA]
       ELSE [xb |-> RemoveAt(xb, i), result |-> 0]

nval_set(xb, name, value, flags) ==
    LET i == nval_find(xb, name)
        rec == [name |-> name, value |-> value]
        size_exist == IF i < 0 THEN 0 ELSE RecLen(xb[i])
        space == XattrSpace - nval_used(xb) + size_exist
        refused == IF flags = "XATTR_CREATE" /\ i >= 0 THEN EEXIST
                   ELSE IF flags = "XATTR_REPLACE" /\ i < 0 THEN ENODATA
                   ELSE IF RecLen(rec) > space THEN ENOSPC
                   ELSE 0
    IN IF refused < 0 THEN [xb |-> xb, result |-> refused]
       ELSE [xb |-> Append(nval_del(xb, name).xb, rec), result |-> 0]

\* bsize 0 asks for the size alone.
nval_get(xb, name, bsize) ==
    LET i == nval_find(xb, name)
    IN IF i < 0 THEN [result |-> ENODATA]
       ELSE LET value == xb[i].value
            IN IF bsize = 0 THEN [result |-> value.len]
               ELSE IF value.len <= bsize THEN [result |-> value.len, data |-> value.data]
               ELSE [result |-> ERANGE]

\* The names that fit with one byte to spare, up to the first that does not.
nval_list(xb, bsize) ==
    LET Names(n) == FoldLeft(LAMBDA s, r : s + r.name.len + 1, 0, SubSeq(xb, 1, n))
        fits == {n \in {0} \cup Walked(xb) : n > 0 => Names(n) < bsize}
        last == CHOOSE n \in fits : \A m \in fits : m <= n
    IN [i \in 1 .. last |-> xb[i].name]

(***************************************************************************)
(* The object                                                              *)
(***************************************************************************)
\* yaffs_apply_xattrib_mod() on the buffer of the new header: the flags of the object
\* are set before the header is written.
slip_apply_xattrib_mod(xb) == [xobj EXCEPT !.known = TRUE, !.has = nval_hasvalues(xhdr.xb)]
apply_xattrib_mod(xb) == [xobj EXCEPT !.known = TRUE, !.has = nval_hasvalues(xb)]

\* yaffs_do_xattrib_fetch(): the records it looks at, none where there is no header or
\* the object is known to have none, and what the object knows then.
do_xattrib_fetch == IF ~xhdr.written \/ (xobj.known /\ ~xobj.has) THEN <<>> ELSE xhdr.xb
Loaded ==
    IF ~xhdr.written \/ xobj.known THEN xobj
    ELSE [xobj EXCEPT !.known = TRUE, !.has = nval_hasvalues(xhdr.xb)]

get_xattrib(name, bsize) == nval_get(do_xattrib_fetch, name, bsize)
list_xattrib(bsize) == nval_list(do_xattrib_fetch, bsize)

\* An object as it is made or found, without details that were not read.
NewObject(mode) == [known |-> FALSE, has |-> FALSE, mode |-> mode, dirty |-> FALSE]

\* The root directory before its first header.
XattrInit ==
    /\ xhdr = [written |-> FALSE, mode |-> 0, xb |-> <<>>]
    /\ xobj = NewObject(0)
    /\ attribs = <<>>
    /\ xanswered = TRUE
    /\ xspoilt = FALSE
    /\ xlost = FALSE

SizeOfAll(f) ==
    FoldSet(LAMBDA n, s : s + RecLen([name |-> n, value |-> f[n]]), 0, DOMAIN f)

\* yaffs_update_oh(): a header for the object obj with the records xb behind it.
UpdateOh(obj, xb) ==
    /\ xhdr' = [written |-> TRUE, mode |-> obj.mode, xb |-> xb]
    /\ xobj' = [obj EXCEPT !.dirty = FALSE]

\* yaffs_do_xattrib_mod(): the header is written whatever the change answered; Later
\* is what attribs is once it is.
do_xattrib_mod(mod, expected, Later) ==
    /\ ~xspoilt
    /\ \/ /\ UpdateOh(apply_xattrib_mod(mod.xb), mod.xb)
          /\ attribs' = IF mod.result = 0 THEN Later ELSE attribs
          /\ xanswered' = (mod.result = expected)
          /\ xspoilt' = (EndOf(mod.xb, Len(mod.xb)) = XattrSpace)
          /\ xlost' = FALSE
       \/ \* the write fails: ENOSPC
          /\ xobj' = apply_xattrib_mod(mod.xb)
          /\ xlost' = (nval_hasvalues(xhdr.xb) /\ ~nval_hasvalues(mod.xb))
          /\ UNCHANGED <<xhdr, attribs, xanswered, xspoilt>>

SetXattrib(name, value, flags) ==
    LET others == Restrict(attribs, DOMAIN attribs \ {name})
        later == (name :> value) @@ others
        expected == IF flags = "XATTR_CREATE" /\ name \in DOMAIN attribs THEN EEXIST
                    ELSE IF flags = "XATTR_REPLACE" /\ name \notin DOMAIN attribs THEN ENODATA
                    ELSE IF SizeOfAll(later) > XattrSpace THEN ENOSPC
                    ELSE 0
    IN do_xattrib_mod(nval_set(xhdr.xb, name, value, flags), expected, later)

RemoveXattrib(name) ==
    do_xattrib_mod(nval_del(xhdr.xb, name), IF name \in DOMAIN attribs THEN 0 ELSE ENODATA,
                   Restrict(attribs, DOMAIN attribs \ {name}))

\* yaffsfs_DoChMod(), for every update without a change of the records: it carries
\* them over, unless it fails.
ChangeMode(mode) ==
    LET obj == [xobj EXCEPT !.mode = mode, !.dirty = TRUE]
    IN  /\ ~xspoilt
        /\ \/ UpdateOh(obj, xhdr.xb)
           \/ xobj' = obj /\ UNCHANGED xhdr
        /\ UNCHANGED <<attribs, xanswered, xspoilt, xlost>>

\* An update goes on where the old header cannot be read, with what the buffer holds:
\* here nothing.
UpdateUnread ==
    /\ ~xspoilt /\ xhdr.written
    /\ UpdateOh(xobj, <<>>)
    /\ xspoilt' = TRUE
    /\ UNCHANGED <<attribs, xanswered, xlost>>

\* A get or a list finds out whether there are attributes, unless the header cannot be
\* read: -ENOENT.
FetchXattrib ==
    /\ ~xspoilt
    /\ xobj' \in {Loaded, xobj}
    /\ UNCHANGED <<xhdr, attribs, xanswered, xspoilt, xlost>>

\* A mount, or an eviction of the object: nothing is known; what could not be
\* written is gone.
ReloadObject ==
    /\ ~xspoilt
    /\ xobj' = NewObject(xhdr.mode)
    /\ xlost' = FALSE
    /\ UNCHANGED <<xhdr, attribs, xanswered, xspoilt>>

XattrNext ==
    \/ \E n \in XattrNames, v \in XattrValues,
          f \in {"none", "XATTR_CREATE", "XATTR_REPLACE"} : SetXattrib(n, v, f)
    \/ \E n \in XattrNames : RemoveXattrib(n)
    \/ \E m \in Modes : ChangeMode(m)
    \/ UpdateUnread
    \/ FetchXattrib
    \/ ReloadObject

(***************************************************************************)
(* The property                                                            *)
(***************************************************************************)
\* What was set is read: whatever was set, replaced, removed and refused for want of
\* space before, each name gives its newest value (to a buffer that holds it), the
\* list holds each name once, and every call answered as the attributes alone entail.
\* Changes of the rest of the header carry them over, and the header has what the
\* object has unless the object is dirty, whichever of the writes were refused.
\* The code keeps this up to three ends: a record that fills the buffer to its last byte
\* is accepted and never seen again; a header made from one that could not be read has
\* no attributes; and where the header without the last attribute could not be written
\* the object hides what its old header still holds.
AttributesKept ==
    ~xspoilt =>
      /\ xanswered
      /\ ~xobj.dirty => xobj.mode = xhdr.mode
      /\ ~xlost =>
           /\ \A n \in XattrNames, b \in {0, 1, XattrSpace} :
                get_xattrib(n, b) =
                  IF n \notin DOMAIN attribs THEN [result |-> ENODATA]
                  ELSE LET v == attribs[n]
                       IN IF b > 0 /\ v.len > b THEN [result |-> ERANGE]
                          ELSE IF b = 0 THEN [result |-> v.len]
                          ELSE [result |-> v.len, data |-> v.data]
           /\ LET all == list_xattrib(2 * XattrSpace)
              IN IsInjective(all) /\ ToSet(all) = DOMAIN attribs
=============================================================================
