----------------------------- MODULE YaffsHeaders -----------------------------
(***************************************************************************)
(* What memory and flash say of one file or symbolic link (the name        *)
(* handling, yaffs_check_obj_details_loaded(), yaffs_find_by_name() and    *)
(* the marshalling of times and sizes of core/yaffs_guts.c).               *)
(*                                                                         *)
(* Memory has a short name and a sum of any name; a long name is on flash  *)
(* alone.  After a mount an object may know no more than its number until  *)
(* its header is read.  A header an older yaffs wrote has one word of each *)
(* time and size.                                                          *)
(***************************************************************************)
EXTENDS Integers

CONSTANTS
    HdrNames,      \* the names, [text, len, wide, sum]: wide ones need Unicode,
                   \* and two names may have one sum
    MaxNameLength, \* YAFFS_MAX_NAME_LENGTH
    ShortLength,   \* YAFFS_SHORT_NAME_LENGTH
    HdrAliases,    \* what symbolic links point at
    Ones,          \* a 32-bit word all ones
    HdrTimes       \* times and sizes, <<high, low>>

ASSUME HeadersAssumption ==
    /\ ShortLength \in Nat /\ MaxNameLength \in Nat /\ Ones \in Nat
    /\ \A n \in HdrNames : n.len \in 1 .. MaxNameLength
    /\ HdrTimes \subseteq (0 .. Ones) \X (0 .. Ones)

VARIABLES
    obj,     \* the object in memory
    oh,      \* its header on flash
    unicode, \* a build and device that store names in ASCII if they can
    given,   \* what the calls made of the object ...
    written, \* ... and made of its header
    torn     \* the last new name did not reach the flash

headerVars == <<obj, oh, unicode, given, written, torn>>

NoName == [text |-> "", len |-> 0, wide |-> FALSE, sum |-> 0]
MadeUp == [text |-> "obj", len |-> 6, wide |-> FALSE, sum |-> 1]
NoTime == <<0, 0>>
NoAlias == [text |-> "no alias", len |-> 8]

-----------------------------------------------------------------------------
(* Names and words, to flash and back.                                     *)

\* strncpy() of no more than k characters.
Cut(n, k) == IF n.len <= k THEN n ELSE [n EXCEPT !.text = <<@, k>>, !.len = k]

\* A name that needs Unicode is stored after a zero that tells it from the others.
load_oh_from_name(n) ==
    Cut(n, IF unicode /\ n.wide THEN MaxNameLength - 2 ELSE MaxNameLength - 1)

calc_name_sum(n) == n.sum

fix_null_name(n) == IF n = NoName THEN MadeUp ELSE n

\* yaffs_set_obj_name(): memory keeps a short name.
set_obj_name(o, n) ==
    LET name == fix_null_name(n)
    IN  [o EXCEPT !.short = IF name.len <= ShortLength THEN name ELSE NoName,
                  !.sum = calc_name_sum(name)]

\* yaffs_oh_time_load(); a size is its two words.
time_load(t) == [yst |-> t[2], win |-> t]

\* An older header has all ones where the high word would be.
oh_time_fetch(w) == IF w.win[1] = Ones THEN <<0, w.yst>> ELSE w.win
oh_to_size(s) == IF s[1] = Ones THEN <<0, s[2]>> ELSE s

-----------------------------------------------------------------------------
(* The object.                                                             *)

slip_check_obj_details_loaded(o) ==     \* the sum stays as it was
    IF ~o.lazy THEN o
    ELSE [o EXCEPT !.lazy = FALSE, !.short = set_obj_name(o, oh.name).short,
                   !.time = oh_time_fetch(oh.time),
                   !.alias = IF o.link THEN oh.alias ELSE @]

check_obj_details_loaded(o) ==
    IF ~o.lazy THEN o
    ELSE [set_obj_name(o, oh.name) EXCEPT
             !.lazy = FALSE, !.time = oh_time_fetch(oh.time),
             !.alias = IF o.link THEN oh.alias ELSE @]

\* yaffs_get_obj_name().
get_obj_name(o) ==
    fix_null_name(IF o.short # NoName THEN o.short ELSE IF o.hdr THEN oh.name ELSE NoName)

\* yaffs_find_by_name(): the sum first, then the name.  An object without a
\* header has no sum.
find_by_name(n) ==
    LET o == check_obj_details_loaded(obj)
    IN  (o.sum = calc_name_sum(n) \/ ~o.hdr) /\ get_obj_name(o) = n

get_obj_length(o) == IF o.link THEN <<0, o.alias.len>> ELSE o.size

\* yaffs_update_oh(): without a name the header keeps the one it has.
update_oh(o, n) ==
    [name |-> IF n # NoName THEN load_oh_from_name(n) ELSE IF o.hdr THEN oh.name ELSE NoName,
     time |-> time_load(o.time), size |-> o.size, alias |-> o.alias]

-----------------------------------------------------------------------------
(* Calls.                                                                  *)

Fresh(link, hdr) ==
    [lazy |-> FALSE, link |-> link, hdr |-> hdr, short |-> NoName, sum |-> 0, time |-> NoTime,
     size |-> NoTime, alias |-> NoAlias]

Given(n, t, s, a) == [name |-> n, time |-> t, size |-> s, alias |-> a]

\* The object was just made, or mounted after an older yaffs had made it ...
Made(n, t, link, old, a) ==
    /\ t[1] # 0 => ~old
    /\ obj = [set_obj_name(Fresh(link, TRUE), n) EXCEPT !.time = t, !.alias = a, !.lazy = old]
    /\ oh = [name |-> load_oh_from_name(n),
             time |-> IF old THEN [time_load(t) EXCEPT !.win = <<Ones, Ones>>] ELSE time_load(t),
             size |-> IF old THEN <<Ones, 0>> ELSE NoTime, alias |-> a]
    /\ given = Given(n, t, NoTime, a)

\* ... or its header was lost, and the scan put it into lost+found.
Found ==
    /\ obj = Fresh(FALSE, FALSE)
    /\ oh = [name |-> NoName, time |-> time_load(NoTime), size |-> NoTime, alias |-> NoAlias]
    /\ given = Given(MadeUp, NoTime, NoTime, NoAlias)

HeadersInit ==
    /\ unicode \in BOOLEAN
    /\ torn = FALSE
    /\ \/ \E n \in HdrNames, t \in HdrTimes, link, old \in BOOLEAN, a \in HdrAliases :
              Made(n, t, link, old, a)
       \/ Found
    /\ written = given

\* yaffs_change_obj_name(): memory first.  The header may find no room.
Rename(n, ok) ==
    LET o == set_obj_name(check_obj_details_loaded(obj), n)
    IN  /\ obj' = [o EXCEPT !.hdr = @ \/ ok]
        /\ oh' = IF ok THEN update_oh(o, n) ELSE oh
        /\ given' = [given EXCEPT !.name = n]
        /\ written' = IF ok THEN given' ELSE written
        /\ torn' = ~ok
        /\ UNCHANGED unicode

\* Any call that finds the object by a walk through its directory.
Load ==
    /\ obj.lazy
    /\ obj' = check_obj_details_loaded(obj)
    /\ UNCHANGED <<oh, unicode, given, written, torn>>

\* yaffs_set_attribs(), yaffs_resize_file() and their header.
Touch(t, s) ==
    LET o == [check_obj_details_loaded(obj) EXCEPT !.time = t, !.size = IF obj.link THEN @ ELSE s]
    IN  /\ obj' = [o EXCEPT !.hdr = TRUE]
        /\ oh' = update_oh(o, NoName)
        /\ given' = [given EXCEPT !.time = t, !.size = o.size]
        /\ written' = [given' EXCEPT !.name = written.name]
        /\ UNCHANGED <<unicode, torn>>

\* The next mount reads the header, or leaves that for later: the size is then
\* that of the tags or of the checkpoint.
MountAgain(lazy) ==
    LET o == [Fresh(obj.link, obj.hdr) EXCEPT !.lazy = obj.hdr,
                 !.size = IF lazy \/ ~obj.hdr THEN written.size ELSE oh_to_size(oh.size)]
    IN  /\ obj' = IF lazy THEN o ELSE check_obj_details_loaded(o)
        /\ given' = written
        /\ torn' = FALSE
        /\ UNCHANGED <<oh, unicode, written>>

HeadersNext ==
    \/ \E n \in HdrNames, ok \in BOOLEAN : Rename(n, ok)
    \/ \E t, s \in HdrTimes : Touch(t, s)
    \/ \E lazy \in BOOLEAN : MountAgain(lazy)
    \/ Load

-----------------------------------------------------------------------------
(* Properties.                                                             *)

\* The longest names that calls take lose their last characters on flash.
Fits(n) == n.len <= IF unicode /\ n.wide THEN MaxNameLength - 2 ELSE MaxNameLength - 1

\* A long name that did not reach the flash is nowhere.
NotKept(n) == torn /\ n.len > ShortLength

\* One without a name gets no sum when it gets its first header.
Unsummed(o) == o.hdr /\ oh.name = NoName /\ o.short = NoName

\* (yaffs_find_by_name(), yaffs_get_obj_name(), yaffs_oh_time_fetch())  However
\* it came into memory, and however much of it: the object is found under the
\* name it was given and under no other, that name is what a directory lists,
\* and its times, size and alias are those it was given, save for times that lie
\* before 1970.
HeadersTold ==
    LET o == check_obj_details_loaded(obj)
    IN  /\ Fits(given.name) /\ ~NotKept(given.name) /\ ~Unsummed(o) =>
              /\ get_obj_name(o) = given.name
              /\ \A n \in HdrNames \cup {MadeUp} : find_by_name(n) <=> n = given.name
        /\ given.time[1] # Ones => o.time = given.time
        /\ o.link => o.alias = given.alias /\ get_obj_length(o) = <<0, given.alias.len>>
        /\ ~o.link /\ given.size[1] # Ones => get_obj_length(o) = given.size
=============================================================================
