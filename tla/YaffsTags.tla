------------------------------- MODULE YaffsTags -------------------------------
(***************************************************************************)
(* Tags on flash: how the tags of a chunk are packed into the spare area   *)
(* or behind the data, kept against flipped bits, and read again, in the   *)
(* format of yaffs2 (yaffs_packedtags2.c, yaffs_tagsmarshall.c) and in     *)
(* that of yaffs1 (yaffs_tagscompat.c), by a processor of either byte      *)
(* order.                                                                  *)
(*                                                                         *)
(* One page, which is written, may lose bits, is read and, in yaffs1,      *)
(* marked deleted.  Numbers are sets of their bits that are 1.  The driver *)
(* corrects the data of yaffs2 and says how it went.                       *)
(***************************************************************************)
EXTENDS YaffsEcc, Sequences, SequencesExt, TLC

CONSTANTS
    TagFormats,       \* records [is_yaffs2, inband_tags, no_tags_ecc, stored_endian]
    Tags2, Tags1,     \* the tags that chunks of yaffs2 and yaffs1 are written with
    PageData,         \* data of a page of yaffs1: a pair of sets of <<byte, bit>>
    PairBits          \* bits that are tried two at a time

VARIABLES
    fmt,              \* parameters of the device
    cpu,              \* "little" or "big"
    page,             \* what is on flash
    bad_marks,        \* block_status of the first two pages of the block
    wrote,            \* the tags, the data and the processor of the last write
    flipped,          \* bits of the page that have flipped since
    block             \* what reads that met flipped bits left in its info

tagsVars == <<fmt, cpu, page, bad_marks, wrote, flipped, block>>

Bits == 0 .. 31
Byte == 0 .. 7

\* enum yaffs_ecc_result
UNKNOWN == 0
NO_ERROR == 1
FIXED == 2
UNFIXED == 3

(***************************************************************************)
(* Byte order                                                              *)
(***************************************************************************)
swap_u32(w) == {8 * (3 - (b \div 8)) + (b % 8) : b \in w}

\* yaffs_endian_config(): the stored order is not the processor's.
swap_endian ==
    \/ cpu = "little" /\ fmt.stored_endian = "big"
    \/ cpu = "big" /\ fmt.stored_endian = "little"

do_endian(w) == IF swap_endian THEN swap_u32(w) ELSE w

\* A word in memory, as its bytes would be read by a little endian processor.
InMemory(w) == IF cpu = "big" THEN swap_u32(w) ELSE w

(***************************************************************************)
(* Tags of yaffs2                                                          *)
(***************************************************************************)
Words == <<"seq_number", "obj_id", "chunk_id", "n_bytes">>
AllOnes == [f \in ToSet(Words) |-> Bits]
FILE == {0}
HARDLINK == {2}

check_tags_extra_packable(t) ==
    /\ t.chunk_id = {} /\ t.extra_available
    /\ ~(t.extra_obj_type = FILE /\ \E b \in t.extra_file_size : b >= 31)

\* Bits 28 to 31 of the object and of the chunk hold what a header adds.
pack_tags2_tags_only(t) ==
    LET header == check_tags_extra_packable(t)
    IN [seq_number |-> t.seq_number,
        chunk_id |-> IF ~header THEN t.chunk_id
                     ELSE {31} \cup t.extra_parent_id
                               \cup (IF t.extra_is_shrink THEN {30} ELSE {})
                               \cup (IF t.extra_shadows THEN {29} ELSE {}),
        obj_id |-> IF ~header THEN t.obj_id
                   ELSE (t.obj_id \ 28 .. 31) \cup {b + 28 : b \in t.extra_obj_type},
        n_bytes |-> IF ~header THEN t.n_bytes
                    ELSE IF t.extra_obj_type = HARDLINK THEN t.extra_equiv_id
                    ELSE IF t.extra_obj_type = FILE THEN t.extra_file_size ELSE {}]

NotUsed == [chunk_used |-> FALSE, obj_id |-> {}, chunk_id |-> {}, n_bytes |-> {},
            extra_available |-> FALSE]

unpack_tags2_tags_only(stored) ==
    LET p == [f \in DOMAIN stored |-> do_endian(stored[f])]
        plain == [chunk_used |-> TRUE, obj_id |-> p.obj_id, chunk_id |-> p.chunk_id,
                  n_bytes |-> p.n_bytes, seq_number |-> p.seq_number, extra_available |-> FALSE]
        type == {b - 28 : b \in p.obj_id \cap 28 .. 31}
    IN IF stored.seq_number = Bits THEN NotUsed
       ELSE IF 31 \notin p.chunk_id THEN plain
       ELSE [plain EXCEPT !.chunk_id = {}, !.n_bytes = {}, !.obj_id = @ \ 28 .. 31,
                          !.extra_available = TRUE]
            @@ [extra_parent_id |-> p.chunk_id \ 28 .. 31,
                extra_is_shrink |-> 30 \in p.chunk_id, extra_shadows |-> 29 \in p.chunk_id,
                extra_obj_type |-> type]
            @@ (IF type = HARDLINK THEN [extra_equiv_id |-> p.n_bytes]
                ELSE [extra_file_size |-> p.n_bytes])

\* The bytes of the packed tags, as pairs, and back.
BytesOf(words) ==
    UNION {{<<4 * (i - 1) + (b \div 8), b % 8>> : b \in InMemory(words[Words[i]])} : i \in 1 .. 4}
WordsOf(bytes) == [f \in ToSet(Words) |->
                     LET i == CHOOSE i \in 1 .. 4 : Words[i] = f
                     IN InMemory({b \in Bits : <<4 * (i - 1) + (b \div 8), b % 8>> \in bytes})]

\* The parities are kept in the byte order of the processor that writes them.
EccInMemory(ecc) ==
    [ecc EXCEPT !.line = InMemory(ecc.line), !.prime = InMemory(ecc.prime)]

HasTagsEcc == ~fmt.inband_tags /\ ~fmt.no_tags_ecc

pack_tags2(t) ==
    LET packed == pack_tags2_tags_only(t)
        bytes == BytesOf([f \in DOMAIN packed |-> do_endian(packed[f])])
    IN [tags |-> bytes, ecc |-> EccInMemory(ecc_calc_other(bytes))]

unpack_tags2(bytes, ecc) ==
    LET c == ecc_correct_other(bytes, 16, EccInMemory(ecc), ecc_calc_other(bytes))
        in_use == WordsOf(bytes).seq_number # Bits
        result == CASE ~in_use \/ c.result = 0 -> NO_ERROR
                    [] c.result = 1 -> FIXED
                    [] OTHER -> UNFIXED
    IN IF ~HasTagsEcc \/ ~in_use
         THEN [tags |-> unpack_tags2_tags_only(WordsOf(bytes)),
               ecc_result |-> IF fmt.inband_tags THEN UNKNOWN ELSE NO_ERROR]
         ELSE [tags |-> unpack_tags2_tags_only(WordsOf(c.bits)), ecc_result |-> result]

\* What the driver says of the data outweighs what the tags' own parities say.
tags_marshall_read ==
    LET u == unpack_tags2(page.tags, page.ecc)
    IN [tags |-> u.tags,
        ecc_result |-> IF page.driver = UNFIXED THEN UNFIXED
                       ELSE IF page.driver = FIXED /\ u.ecc_result <= NO_ERROR THEN FIXED
                       ELSE u.ecc_result,
        ok |-> page.driver < UNFIXED]

(***************************************************************************)
(* Tags of yaffs1: bits 1 to 64, and a status that marks a deletion        *)
(***************************************************************************)
Field(first, n, value) == {first + b : b \in value \cap 0 .. n - 1}
Value(first, n, tags) == {b \in 0 .. n - 1 : first + b \in tags}

\* Pages below 1024 bytes leave both high bits of n_bytes set.
load_tags(t) ==
    calc_tags_ecc(Field(1, 20, t.chunk_id) \cup Field(21, 2, t.serial_number)
                  \cup Field(23, 10, t.n_bytes) \cup Field(33, 18, t.obj_id) \cup {63, 64})

get_tags_from_spare(tags) ==
    LET c == check_tags_ecc(tags).tags
    IN [chunk_id |-> Value(1, 20, c), serial_number |-> Value(21, 2, c),
        n_bytes |-> Value(23, 10, c), obj_id |-> Value(33, 18, c)]

BlankSpare == 1 .. 64

\* yaffs_rd_chunk_nand(): each half of the data by its own parities.
rd_chunk_nand ==
    LET c == [h \in 1 .. 2 |-> ecc_correct(page.data[h], page.ecc[h], ecc_calc(page.data[h]))]
        met == {c[h].result : h \in 1 .. 2}
    IN [data |-> [h \in 1 .. 2 |-> c[h].bits],
        ecc_result |-> IF -1 \in met THEN UNFIXED ELSE IF 1 \in met THEN FIXED ELSE NO_ERROR]

tags_compat_rd ==
    LET r == rd_chunk_nand
        used == page.tags # BlankSpare \/ page.status # Byte
    IN [tags |-> IF used THEN get_tags_from_spare(page.tags) ELSE NotUsed,
        used |-> used, is_deleted |-> Cardinality(page.status) < 7,
        data |-> r.data, ecc_result |-> r.ecc_result]

\* yaffs_tags_compat_query_block(): the marks of the first two pages together.
tags_compat_query_block ==
    IF Cardinality(bad_marks[1] \cap bad_marks[2]) < 7 THEN "DEAD"
    ELSE IF page.tags = BlankSpare /\ page.status = Byte THEN "EMPTY"
    ELSE "NEEDS_SCAN"

tags_marshall_query_block ==
    IF ~tags_marshall_read.tags.chunk_used THEN [state |-> "EMPTY"]
    ELSE [state |-> "NEEDS_SCAN", seq_number |-> tags_marshall_read.tags.seq_number]

(***************************************************************************)
(* The page                                                                *)
(***************************************************************************)
NoData == <<{}, {}>>
Full(width) == [col |-> 0 .. 5, line |-> 0 .. width - 1, prime |-> 0 .. width - 1, rest |-> {0, 1}]

BlankPage ==
    IF fmt.is_yaffs2 THEN [tags |-> (0 .. 15) \X Byte, ecc |-> Full(32), driver |-> NO_ERROR]
    ELSE [tags |-> BlankSpare, ecc |-> <<ecc_calc({}), ecc_calc({})>>, data |-> NoData,
          status |-> Byte]

TagsInit ==
    /\ fmt \in TagFormats
    /\ cpu \in (IF fmt.is_yaffs2 THEN {"little", "big"} ELSE {"little"})
    /\ page = BlankPage
    /\ bad_marks = <<Byte, Byte>>
    /\ wrote = [blank |-> TRUE]
    /\ flipped = {}
    /\ block = [gc_prioritise |-> FALSE, chunk_error_strikes |-> 0, needs_retiring |-> FALSE,
                erasures |-> 0]

tags_marshall_write(t) ==
    /\ fmt.is_yaffs2
    /\ wrote.blank /\ flipped = {}
    /\ page' = pack_tags2(t) @@ [driver |-> NO_ERROR]
    /\ wrote' = [blank |-> FALSE, tags |-> t, by |-> cpu]
    /\ UNCHANGED <<fmt, cpu, bad_marks, flipped, block>>

tags_compat_wr(t, data) ==
    /\ ~fmt.is_yaffs2
    /\ wrote.blank /\ flipped = {}
    /\ page' = [tags |-> load_tags(t), data |-> data, status |-> Byte,
                ecc |-> [h \in 1 .. 2 |-> ecc_calc(data[h])]]
    /\ wrote' = [blank |-> FALSE, tags |-> t, data |-> data, deleted |-> FALSE]
    /\ UNCHANGED <<fmt, cpu, bad_marks, flipped, block>>

\* is_deleted: all bits of the spare stay as they are but those of the status.
tags_compat_delete ==
    /\ ~fmt.is_yaffs2 /\ ~wrote.blank
    /\ page' = [page EXCEPT !.status = {}]
    /\ wrote' = [wrote EXCEPT !.deleted = TRUE]
    /\ UNCHANGED <<fmt, cpu, bad_marks, flipped, block>>

\* yaffs_tags_compat_mark_bad(): 'Y' over the status of the block in two pages.
tags_compat_mark_bad ==
    /\ ~fmt.is_yaffs2
    /\ bad_marks' = [i \in 1 .. 2 |-> bad_marks[i] \cap {0, 3, 4, 6}]
    /\ UNCHANGED <<fmt, cpu, page, wrote, flipped, block>>

\* Bits that may flip: of the tags and their parities, of the data and its.
EccBits(ecc, width) == {<<f, k>> : f \in {"line", "prime"}, k \in 0 .. width - 1}
                         \cup {<<"col", k>> : k \in 0 .. 5}
FlipBits ==
    IF ~fmt.is_yaffs2
      THEN {<<"status", b>> : b \in Byte} \cup {<<"tags1", b>> : b \in BlankSpare \ EccField}
           \cup {<<"data", h, <<i, b>> >> : h \in 1 .. 2, i \in {0, 93, 255}, b \in Byte}
           \cup {<<"ecc", h, e>> : h \in 1 .. 2, e \in EccBits(page.ecc[1], 8)}
    ELSE {<<"tags", b>> : b \in (0 .. 15) \X Byte}
         \cup (IF HasTagsEcc THEN {<<"ecc", e>> : e \in EccBits(page.ecc, 32)} ELSE {})

Flipped(p, bit) ==
    CASE bit[1] = "status" -> [p EXCEPT !.status = Differ(@, {bit[2]})]
      [] bit[1] \in {"tags", "tags1"} -> [p EXCEPT !.tags = Differ(@, {bit[2]})]
      [] bit[1] = "data" -> [p EXCEPT !.data[bit[2]] = Differ(@, {bit[3]})]
      [] OTHER ->
           IF Len(bit) = 3 THEN [p EXCEPT !.ecc[bit[2]][bit[3][1]] = Differ(@, {bit[3][2]})]
           ELSE [p EXCEPT !.ecc[bit[2][1]] = Differ(@, {bit[2][2]})]

\* Two flips, and flips after an erasure, are bound to PairBits.
FlipBit(bit) ==
    /\ bit \notin flipped
    /\ fmt.is_yaffs2 => page.driver = NO_ERROR
    /\ block.erasures > 0 => bit \in PairBits
    /\ flipped # {} => bit \in PairBits /\ flipped \subseteq PairBits /\ Cardinality(flipped) < 2
    /\ page' = Flipped(page, bit)
    /\ flipped' = flipped \cup {bit}
    /\ UNCHANGED <<fmt, cpu, bad_marks, wrote, block>>

\* The driver finds flipped bits in the data of a chunk of yaffs2 (bound: after
\* flips in PairBits, and before none).
DriverSays(result) ==
    /\ fmt.is_yaffs2 /\ ~wrote.blank /\ page.driver = NO_ERROR /\ flipped \subseteq PairBits
    /\ page' = [page EXCEPT !.driver = result]
    /\ UNCHANGED <<fmt, cpu, bad_marks, wrote, flipped, block>>

\* A block with an error is to be collected soon, and is struck out by the fourth
\* error that is not met on the way to its collection.
handle_chunk_error(bi) ==
    IF bi.gc_prioritise THEN bi
    ELSE [bi EXCEPT !.gc_prioritise = TRUE, !.chunk_error_strikes = @ + 1,
                    !.needs_retiring = @ \/ bi.chunk_error_strikes + 1 > 3]

\* yaffs_rd_chunk_tags_nand(); yaffs1 gives up a block at once.
ReadChunk ==
    LET ecc_result == IF fmt.is_yaffs2 THEN tags_marshall_read.ecc_result
                      ELSE tags_compat_rd.ecc_result
    IN  /\ block' = IF ecc_result <= NO_ERROR THEN block
                    ELSE handle_chunk_error([block EXCEPT !.needs_retiring = @ \/ ~fmt.is_yaffs2])
        /\ UNCHANGED <<fmt, cpu, page, bad_marks, wrote, flipped>>

\* yaffs_block_became_dirty(), once the block is collected: it is used again
\* unless it is to be retired.
BlockBecameDirty ==
    /\ block.gc_prioritise /\ ~block.needs_retiring
    /\ block' = [block EXCEPT !.gc_prioritise = FALSE, !.erasures = @ + 1]
    /\ page' = BlankPage /\ wrote' = [blank |-> TRUE] /\ flipped' = {}
    /\ UNCHANGED <<fmt, cpu, bad_marks>>

\* The medium is moved to a processor of the other byte order.
MoveMedium ==
    /\ fmt.is_yaffs2 /\ fmt.stored_endian # "native"
    /\ cpu' = IF cpu = "little" THEN "big" ELSE "little"
    /\ UNCHANGED <<fmt, page, bad_marks, wrote, flipped, block>>

TagsNext ==
    \/ \E t \in Tags2 : tags_marshall_write(t)
    \/ \E t \in Tags1, d \in PageData : tags_compat_wr(t, d)
    \/ tags_compat_delete
    \/ tags_compat_mark_bad
    \/ \E bit \in FlipBits : FlipBit(bit)
    \/ \E r \in {FIXED, UNFIXED} : DriverSays(r)
    \/ ReadChunk
    \/ BlockBecameDirty
    \/ MoveMedium

(***************************************************************************)
(* The property                                                            *)
(***************************************************************************)
\* What a header's tags say when they are read: all of it, or for a file of 2^31 bytes
\* and more only whose header it is.
ToldOf(t) ==
    LET plain == [chunk_used |-> TRUE, obj_id |-> t.obj_id, chunk_id |-> t.chunk_id,
                  n_bytes |-> t.n_bytes, seq_number |-> t.seq_number, extra_available |-> FALSE]
        long == t.extra_obj_type = FILE /\ \E b \in t.extra_file_size : b >= 31
    IN IF ~t.extra_available \/ long THEN plain
       ELSE [plain EXCEPT !.n_bytes = {}, !.extra_available = TRUE]
            @@ [f \in {"extra_parent_id", "extra_is_shrink", "extra_shadows", "extra_obj_type"}
                        |-> t[f]]
            @@ (IF t.extra_obj_type = HARDLINK THEN [extra_equiv_id |-> t.extra_equiv_id]
                ELSE [extra_file_size |-> IF t.extra_obj_type = FILE THEN t.extra_file_size
                                          ELSE {}])

\* Tags of yaffs2: what was written is read, with one flipped bit too, by a processor
\* of either byte order; two flipped bits are reported and not believed; a blank page
\* with a flipped bit is not a good chunk.  The parities of the tags are not kept in
\* the stored byte order: a moved medium is read only where the tags have none.
Tags2Told ==
    LET r == tags_marshall_read
        mine == wrote.blank \/ wrote.by = cpu
    IN /\ wrote.blank => IF flipped = {} \/ ~HasTagsEcc
                           THEN flipped = {} => ~r.tags.chunk_used
                           ELSE r.tags.chunk_used => r.ecc_result = UNFIXED
       /\ ~wrote.blank /\ (flipped = {} \/ (HasTagsEcc /\ Cardinality(flipped) = 1))
            /\ (mine \/ ~HasTagsEcc) => r.tags = ToldOf(wrote.tags)
       /\ ~wrote.blank /\ HasTagsEcc /\ mine => 
            /\ Cardinality(flipped) = 1 => r.ecc_result >= FIXED
            /\ Cardinality(flipped) = 2 => r.ecc_result = UNFIXED
       /\ r.ok = (page.driver # UNFIXED)
       /\ flipped = {} /\ (mine \/ ~HasTagsEcc) =>
            tags_marshall_query_block.state = IF wrote.blank THEN "EMPTY" ELSE "NEEDS_SCAN"

FlippedIn(kinds) == {bit \in flipped : bit[1] \in kinds}
FlippedHalf(h) == {bit \in FlippedIn({"data", "ecc"}) : bit[2] = h}

\* Tags of yaffs1: the same for its tags (but for their ecc field, a flipped bit of
\* which may be taken for one of the tags), its data by halves and its deletion mark;
\* a block marked bad is dead whatever its pages hold, and another one is not.
Tags1Told ==
    LET r == tags_compat_rd
    IN /\ ~wrote.blank =>
            /\ r.used
            /\ Cardinality(FlippedIn({"tags1"})) <= 1 => r.tags = [f \in DOMAIN r.tags |-> wrote.tags[f]]
            /\ Cardinality(FlippedIn({"status"})) <= 1 => r.is_deleted = wrote.deleted
            /\ \A h \in 1 .. 2 :
                 /\ Cardinality(FlippedHalf(h)) <= 1 => r.data[h] = wrote.data[h]
                 /\ Cardinality(FlippedHalf(h)) = 2 => r.ecc_result = UNFIXED
       /\ (tags_compat_query_block = "DEAD") = (bad_marks # <<Byte, Byte>>)

\* Both, and no block is collected early or retired that lost no bit: one of yaffs2
\* is retired when it was erased three times for lost bits, and lost some again.
TagsTold ==
    /\ IF fmt.is_yaffs2 THEN Tags2Told ELSE Tags1Told
    /\ block.gc_prioritise /\ (fmt.stored_endian = "native" \/ ~HasTagsEcc) =>
         flipped # {} \/ (fmt.is_yaffs2 /\ page.driver # NO_ERROR)
    /\ block.chunk_error_strikes = block.erasures + (IF block.gc_prioritise THEN 1 ELSE 0)
    /\ block.needs_retiring => block.gc_prioritise
    /\ fmt.is_yaffs2 => (block.needs_retiring <=> block.chunk_error_strikes > 3)
=============================================================================
