--------------------------- MODULE YaffsPagesProofs ---------------------------
(***************************************************************************)
(* That the page cache tells what the processes have written, for files    *)
(* and pages of every size: PagesTell of YaffsPages.                       *)
(*                                                                         *)
(* PagesTell alone is not inductive.  A page that is read or kept for long *)
(* enough meets every phase of a write-back and of a change of size, so    *)
(* the invariant says in each of them how the sizes of inode and file      *)
(* stand to each other, what a write-back may still write, that what lies  *)
(* past the end is zero wherever it could be brought back, and that what a *)
(* read past the end left in the cache is in no write under way.           *)
(***************************************************************************)
EXTENDS YaffsPages, TLAPS

-----------------------------------------------------------------------------
(* The inductive invariant.                                                *)

Files == [size : 0 .. NCells, cells : [Cells -> Data]]

Callers ==
    {NoCaller, [pc |-> "pages"], [pc |-> "resize"]}
      \cup [pc : {"copy", "end"}, page : PageNo, first : 0 .. NCells, end : 0 .. NCells,
            val : Data]

Backs ==
    {NoBack} \cup [pc : {"write"}, page : PageNo, first : 0 .. NCells, end : 0 .. NCells]

PagesType ==
    /\ file \in Files
    /\ i_size \in 0 .. NCells
    /\ page \in [has : [PageNo -> [uptodate : BOOLEAN, dirty : BOOLEAN]],
                 data : [Cells -> Data]]
    /\ caller \in Callers
    /\ back \in Backs
    /\ content \in [Cells -> Data \cup {Unknown}]
    /\ past \in [stale : SUBSET Cells, longer : BOOLEAN]

\* A write is of some cells of one page.
OfPage(w) == w.first < w.end /\ \A c \in Cells : Within(w, c) => PageOfCell(c) = w.page

\* A call writes to a page that is up to date.
CallerInv ==
    caller.pc \in {"copy", "end"} => page.has[caller.page].uptodate /\ OfPage(caller)

\* A write-back writes below the end of the file, but for one that a cut of the
\* inode has overtaken, for which truncate_setsize() waits.
BackInv ==
    back.pc = "write" =>
        /\ page.has[back.page].uptodate /\ OfPage(back)
        /\ caller.pc # "pages" => back.end <= i_size

DirtyInv == \A p \in PageNo : page.has[p].dirty => page.has[p].uptodate

SizeInv ==
    caller.pc \notin {"pages", "resize"} =>
        file.size = i_size \/ (file.size > i_size /\ past.longer)

BackHas(c) == back.pc = "write" /\ Within(back, c)

CellInv(c) ==
    /\ Pending(c) \/ BackHas(c) => c \notin past.stale
    /\ c >= i_size /\ ~Pending(c) => content[c] \in {0, Unknown}
    /\ c >= i_size /\ caller.pc \notin {"pages", "resize"} => FileRd(c) = 0
    /\ \/ content[c] = Unknown
       \/ c \in past.stale
       \/ page.has[PageOfCell(c)].uptodate /\ (caller.pc = "pages" => c < i_size)
             => page.data[c] = content[c]
    /\ \/ content[c] = Unknown
       \/ c < i_size /\ ~page.has[PageOfCell(c)].dirty /\ ~Pending(c) /\ ~BackHas(c)
             => FileRd(c) = content[c]

PagesInv ==
    /\ PagesType /\ CallerInv /\ BackInv /\ DirtyInv /\ SizeInv
    /\ \A c \in Cells : CellInv(c)

-----------------------------------------------------------------------------
(* Cells and pages.                                                        *)

\* Whole division: the remainder is less than the divisor.
LEMMA Division ==
  ASSUME NEW c \in Nat, NEW k \in Nat \ {0}
  PROVE  /\ c \div k \in Nat
         /\ (c \div k) * k <= c
         /\ c < (c \div k) * k + k
  BY SMT

\* The number of a page is determined by one of its cells.
LEMMA DivisionUnique ==
  ASSUME NEW c \in Nat, NEW k \in Nat \ {0}, NEW p \in Nat,
         p * k <= c, c < p * k + k
  PROVE  c \div k = p
<1> DEFINE q == c \div k
<1>1. q \in Nat /\ q * k <= c /\ c < q * k + k
  BY Division
<1>2. ASSUME NEW x \in Nat, NEW y \in Nat, x < y
      PROVE  x * k + k <= y * k
  <2>1. PICK z \in Nat : y = x + 1 + z
    <3>1. y - x - 1 \in Nat /\ y = x + 1 + (y - x - 1)
      BY <1>2
    <3> QED BY <3>1
  <2>2. y * k = x * k + k + z * k
    BY <2>1
  <2>3. z * k >= 0
    BY <2>1
  <2> QED BY <2>2, <2>3
<1>3. ~(q < p)
  BY <1>1, <1>2
<1>4. ~(p < q)
  BY <1>1, <1>2
<1> QED BY <1>1, <1>3, <1>4

\* Where the cells of a page lie.
LEMMA PageBounds ==
  ASSUME NEW c \in Cells
  PROVE  /\ c \in Nat /\ PageOfCell(c) \in Nat /\ PageOfCell(c) \in PageNo
         /\ PageOfCell(c) * PageCells <= c
         /\ c < PageOfCell(c) * PageCells + PageCells
<1>1. c \in Nat /\ PageCells \in Nat \ {0}
  BY PagesAssumption DEF Cells
<1> QED BY <1>1, Division DEF PageOfCell, PageNo

\* Where the write of a page ends.
LEMMA PageEndIs ==
  ASSUME NEW p \in PageNo, i_size \in 0 .. NCells
  PROVE  /\ p \in Nat /\ p * PageCells \in Nat
         /\ PageEnd(p) \in 0 .. NCells /\ PageEnd(p) <= i_size
         /\ \A c \in CellsOf(p) : /\ c < PageEnd(p) <=> c < i_size
                                  /\ p * PageCells <= c
         /\ \A c \in Cells : p * PageCells <= c /\ c < PageEnd(p) => PageOfCell(c) = p
<1>1. PICK a \in Cells : PageOfCell(a) = p
  BY DEF PageNo
<1>2. p \in Nat /\ PageCells \in Nat \ {0} /\ NCells \in Nat
  BY <1>1, PageBounds, PagesAssumption
<1>3. p * PageCells \in Nat /\ (p + 1) * PageCells = p * PageCells + PageCells
  BY <1>2
<1>4. PageEnd(p) = IF i_size < p * PageCells + PageCells THEN i_size ELSE p * PageCells + PageCells
  BY <1>3 DEF PageEnd
<1>5. PageEnd(p) \in 0 .. NCells /\ PageEnd(p) <= i_size
  BY <1>2, <1>3, <1>4
<1>6. ASSUME NEW c \in CellsOf(p)
      PROVE  (c < PageEnd(p) <=> c < i_size) /\ p * PageCells <= c
  <2>1. c \in Cells /\ PageOfCell(c) = p
    BY DEF CellsOf
  <2>2. c \in Nat /\ p * PageCells <= c /\ c < p * PageCells + PageCells
    BY <2>1, PageBounds
  <2> QED BY <1>2, <1>3, <1>4, <2>2
<1>7. ASSUME NEW c \in Cells, p * PageCells <= c, c < PageEnd(p)
      PROVE  PageOfCell(c) = p
  <2>1. c \in Nat
    BY PageBounds
  <2>2. c < p * PageCells + PageCells
    BY <1>2, <1>3, <1>4, <1>7, <2>1
  <2> QED BY <1>2, <1>7, <2>1, <2>2, DivisionUnique DEF PageOfCell
<1> QED BY <1>2, <1>3, <1>5, <1>6, <1>7

-----------------------------------------------------------------------------
(* The file.                                                               *)

\* The file reads as data.
LEMMA ReadsData ==
  ASSUME file \in Files, NEW c \in Cells
  PROVE  FileRd(c) \in Data
  BY PagesAssumption DEF FileRd, Files

\* A write puts its cells into the file and leaves what is read of the others; it
\* makes the file as long as its end needs.
LEMMA Written ==
  ASSUME NEW f \in Files, NEW first \in 0 .. NCells, NEW end \in 0 .. NCells, first <= end,
         NEW data \in [Cells -> Data]
  PROVE  LET g == FileWr(f, first, end, data)
         IN  /\ g \in Files
             /\ \A c \in Cells : (IF c < g.size THEN g.cells[c] ELSE 0)
                                   = IF first <= c /\ c < end THEN data[c]
                                     ELSE IF c < f.size THEN f.cells[c] ELSE 0
             /\ g.size = IF end > f.size THEN end ELSE f.size
<1> DEFINE size == IF end > f.size THEN end ELSE f.size
           cells == [c \in Cells |-> IF first <= c /\ c < end THEN data[c]
                                     ELSE IF c < f.size THEN f.cells[c] ELSE 0]
<1>1. FileWr(f, first, end, data) = [size |-> size, cells |-> cells]
  BY DEF FileWr
<1>2. f.size \in 0 .. NCells /\ NCells \in Nat
  BY PagesAssumption DEF Files
<1>3. size \in 0 .. NCells /\ size >= f.size /\ size >= end
  BY <1>2
<1>4. cells \in [Cells -> Data]
  BY PagesAssumption DEF Files
<1>5. \A c \in Cells : (IF c < size THEN cells[c] ELSE 0)
                          = IF first <= c /\ c < end THEN data[c]
                            ELSE IF c < f.size THEN f.cells[c] ELSE 0
  <2> TAKE c \in Cells
  <2>1. cells[c] = IF first <= c /\ c < end THEN data[c]
                   ELSE IF c < f.size THEN f.cells[c] ELSE 0
    OBVIOUS
  <2>2. c \in Nat
    BY PageBounds
  <2> HIDE DEF cells
  <2>3. c < end \/ c < f.size => c < size
    BY <1>2, <2>2
  <2> HIDE DEF size
  <2>4. CASE first <= c /\ c < end
    BY <2>1, <2>3, <2>4
  <2>5. CASE ~(first <= c /\ c < end) /\ c < f.size
    BY <2>1, <2>3, <2>5
  <2>6. CASE ~(first <= c /\ c < end) /\ ~(c < f.size)
    BY <2>1, <2>6
  <2> QED BY <2>4, <2>5, <2>6
<1>6. [size |-> size, cells |-> cells].size = size
      /\ [size |-> size, cells |-> cells].cells = cells
  OBVIOUS
<1>7. size = IF end > f.size THEN end ELSE f.size
  OBVIOUS
<1> HIDE DEF size, cells
<1> QED BY <1>1, <1>3, <1>4, <1>5, <1>6, <1>7 DEF Files

\* Every cell of the file that is not known to be lost: what the cache shows of it.
LEMMA InvUse ==
  ASSUME PagesInv, NEW c \in Cells
  PROVE  /\ CellInv(c) /\ c \in Nat /\ i_size \in Nat
         /\ PageOfCell(c) \in PageNo
  BY PageBounds, PagesAssumption DEF PagesInv, PagesType

-----------------------------------------------------------------------------
(* The steps.                                                              *)

\* The invariant holds at the start.
LEMMA InitInv == PagesInit => PagesInv
<1> SUFFICES ASSUME PagesInit PROVE PagesInv
  OBVIOUS
<1>1. PagesType
  <2>1. file \in Files /\ i_size \in 0 .. NCells
    BY PagesAssumption DEF PagesInit, Zeros, Files
  <2>2. page \in [has : [PageNo -> [uptodate : BOOLEAN, dirty : BOOLEAN]],
                  data : [Cells -> Data]]
    BY PagesAssumption DEF PagesInit, Zeros, Absent
  <2>3. caller \in Callers /\ back \in Backs
    BY DEF PagesInit, Callers, Backs
  <2>4. content \in [Cells -> Data \cup {Unknown}]
    BY PagesAssumption DEF PagesInit, Zeros
  <2>5. past \in [stale : SUBSET Cells, longer : BOOLEAN]
    BY DEF PagesInit
  <2> QED BY <2>1, <2>2, <2>3, <2>4, <2>5 DEF PagesType
<1>2. CallerInv /\ BackInv /\ DirtyInv /\ SizeInv
  BY DEF PagesInit, CallerInv, BackInv, DirtyInv, SizeInv, NoCaller, NoBack, Absent
<1>3. ASSUME NEW c \in Cells PROVE CellInv(c)
  <2>1. c \in Nat /\ PageOfCell(c) \in PageNo
    BY PageBounds
  <2>2. i_size = 0 /\ file.size = 0 /\ content[c] = 0 /\ page.data[c] = 0
    BY DEF PagesInit, Zeros
  <2>3. ~page.has[PageOfCell(c)].uptodate
    BY <2>1 DEF PagesInit, Absent
  <2>4. FileRd(c) = 0 /\ past.stale = {}
    BY <2>1, <2>2 DEF FileRd, PagesInit
  <2> QED BY <2>1, <2>2, <2>3, <2>4 DEF CellInv, Pending
<1> QED BY <1>1, <1>2, <1>3 DEF PagesInv

\* What a read brings into a page that is not up to date is what was written,
\* but for the tail that it overtakes a cut with.
LEMMA ReadTells ==
  ASSUME PagesInv, NEW p \in PageNo, ~page.has[p].uptodate, ~Locked(p),
         NEW c \in CellsOf(p), c \notin Overtaken(p)
  PROVE  \/ content[c] = Unknown
         \/ (caller.pc = "pages" => c < i_size) => FileRd(c) = content[c]
<1>1. c \in Cells /\ PageOfCell(c) = p
  BY DEF CellsOf
<1>2. CellInv(c) /\ c \in Nat /\ i_size \in Nat
  BY <1>1, InvUse
<1>3. ~page.has[p].dirty
  BY DEF PagesInv, DirtyInv
<1>4. ~Pending(c)
  BY <1>1 DEF Pending, Locked, PagesInv, CallerInv, OfPage
<1>5. ~BackHas(c)
  BY <1>1 DEF BackHas, Locked, PagesInv, BackInv, OfPage
<1>6. c < i_size => content[c] = Unknown \/ FileRd(c) = content[c]
  BY <1>1, <1>2, <1>3, <1>4, <1>5 DEF CellInv
<1>7. CASE c >= i_size /\ caller.pc # "pages"
  <2>1. content[c] \in {0, Unknown}
    BY <1>2, <1>4, <1>7 DEF CellInv
  <2>2. FileRd(c) = 0
    <3>1. CASE caller.pc = "resize"
      BY <1>7, <3>1 DEF Overtaken
    <3>2. CASE caller.pc # "resize"
      BY <1>2, <1>7, <3>2 DEF CellInv
    <3> QED BY <3>1, <3>2
  <2> QED BY <2>1, <2>2
<1> QED BY <1>2, <1>6, <1>7

\* yaffs_readpage() on a page that no other holds.
LEMMA ReadpageInv ==
  ASSUME PagesInv, NEW p \in PageNo, readpage(p)
  PROVE  PagesInv'
<1> DEFINE data == [c \in Cells |-> IF c \in CellsOf(p) THEN FileRd(c) ELSE page.data[c]]
<1>1. /\ page' = [has |-> [page.has EXCEPT ![p] = [@ EXCEPT !.uptodate = TRUE]], data |-> data]
      /\ past' = [past EXCEPT !.stale = @ \cup Overtaken(p)]
      /\ UNCHANGED <<file, i_size, caller, back, content>>
      /\ ~page.has[p].uptodate /\ ~Locked(p)
  BY DEF readpage, readpage_nolock
<1>2. data \in [Cells -> Data]
  BY ReadsData DEF PagesInv, PagesType
<1> HIDE DEF data
<1>3. /\ past'.stale = past.stale \cup Overtaken(p) /\ past'.longer = past.longer
      /\ past' \in [stale : SUBSET Cells, longer : BOOLEAN]
      /\ Overtaken(p) \subseteq CellsOf(p) /\ (Overtaken(p) # {} => caller.pc = "resize")
  <2>1. Overtaken(p) \subseteq CellsOf(p) /\ CellsOf(p) \subseteq Cells
    BY DEF Overtaken, CellsOf
  <2>2. Overtaken(p) # {} => caller.pc = "resize"
    BY DEF Overtaken
  <2> QED BY <1>1, <2>1, <2>2 DEF PagesInv, PagesType
<1>4. PagesType'
  <2> DEFINE has == [page.has EXCEPT ![p] = [@ EXCEPT !.uptodate = TRUE]]
  <2>1. page.has \in [PageNo -> [uptodate : BOOLEAN, dirty : BOOLEAN]]
    BY DEF PagesInv, PagesType
  <2>2. has \in [PageNo -> [uptodate : BOOLEAN, dirty : BOOLEAN]]
    BY <2>1
  <2> HIDE DEF has
  <2>3. page' \in [has : [PageNo -> [uptodate : BOOLEAN, dirty : BOOLEAN]],
                   data : [Cells -> Data]]
    <3>1. page' = [has |-> has, data |-> data]
      BY <1>1 DEF has
    <3> QED BY <3>1, <2>2, <1>2
  <2>4. /\ file \in Files /\ i_size \in 0..NCells /\ caller \in Callers /\ back \in Backs
        /\ content \in [Cells -> Data \cup {Unknown}]
    BY DEF PagesInv, PagesType
  <2>5. /\ file' \in Files /\ i_size' \in 0..NCells /\ caller' \in Callers /\ back' \in Backs
        /\ content' \in [Cells -> Data \cup {Unknown}]
    BY <1>1, <2>4 DEF Files, Callers, Backs
  <2> QED BY <2>3, <2>5, <1>3 DEF PagesType
<1>5. \A q \in PageNo : /\ page'.has[q].dirty = page.has[q].dirty
                        /\ page'.has[q].uptodate <=> (q = p \/ page.has[q].uptodate)
  BY <1>1 DEF PagesInv, PagesType
<1>6. CallerInv' /\ BackInv' /\ DirtyInv' /\ SizeInv'
  BY <1>1, <1>3, <1>5 DEF PagesInv, PagesType, CallerInv, BackInv, DirtyInv, SizeInv, Callers, Backs,
                          OfPage, Within
<1>7. ASSUME NEW c \in Cells PROVE CellInv(c)'
  <2>1. CellInv(c) /\ PageOfCell(c) \in PageNo
    BY InvUse
  <2>2. page'.data[c] = IF c \in CellsOf(p) THEN FileRd(c) ELSE page.data[c]
    BY <1>1 DEF data
  <2>3. c \in CellsOf(p) <=> PageOfCell(c) = p
    BY DEF CellsOf
  <2>4. FileRd(c)' = FileRd(c) /\ Pending(c)' = Pending(c) /\ BackHas(c)' = BackHas(c)
    BY <1>1 DEF FileRd, Pending, BackHas, Within
  <2>5. CASE PageOfCell(c) = p
    <3>1. \/ content[c] = Unknown \/ c \in past'.stale
          \/ (caller.pc = "pages" => c < i_size) => FileRd(c) = content[c]
      BY <1>1, <1>3, <2>3, <2>5, ReadTells
    <3>2. ~Pending(c) /\ ~BackHas(c)
      BY <1>1, <2>5 DEF Pending, BackHas, Locked, PagesInv, CallerInv, BackInv, OfPage
    <3> QED BY <1>1, <1>5, <2>1, <2>2, <2>3, <2>4, <2>5, <3>1, <3>2 DEF CellInv
  <2>6. CASE PageOfCell(c) # p
    <3>1. c \in past'.stale <=> c \in past.stale
      BY <1>3, <2>3, <2>6
    <3> QED BY <1>1, <1>5, <2>1, <2>2, <2>3, <2>4, <2>6, <3>1 DEF CellInv
  <2> QED BY <2>5, <2>6
<1> QED BY <1>4, <1>6, <1>7 DEF PagesInv

\* A store into a page that is up to date.
LEMMA StoreInv ==
  ASSUME PagesInv, NEW x \in Cells, NEW v \in Data, Store(x, v)
  PROVE  PagesInv'
<1>1. /\ page.has[PageOfCell(x)].uptodate /\ x < i_size
      /\ page' = [has |-> [page.has EXCEPT ![PageOfCell(x)].dirty = TRUE],
                  data |-> [page.data EXCEPT ![x] = v]]
      /\ content' = [content EXCEPT ![x] = v]
      /\ past' = [past EXCEPT !.stale = @ \ {x}]
      /\ UNCHANGED <<file, i_size, caller, back>>
  BY DEF Store
<1>2. PageOfCell(x) \in PageNo
  BY InvUse
<1>3. PagesType'
  BY <1>1, <1>2 DEF PagesInv, PagesType
<1>4. \A q \in PageNo : /\ page'.has[q].uptodate = page.has[q].uptodate
                        /\ page'.has[q].dirty <=> (q = PageOfCell(x) \/ page.has[q].dirty)
  BY <1>1, <1>2 DEF PagesInv, PagesType
<1>5. CallerInv' /\ BackInv' /\ DirtyInv' /\ SizeInv'
  BY <1>1, <1>4 DEF PagesInv, PagesType, CallerInv, BackInv, DirtyInv, SizeInv, Callers, Backs,
                   OfPage, Within
<1>6. ASSUME NEW c \in Cells PROVE CellInv(c)'
  <2>1. CellInv(c) /\ PageOfCell(c) \in PageNo /\ c \in Nat /\ i_size \in Nat
    BY InvUse
  <2>2. FileRd(c)' = FileRd(c) /\ Pending(c)' = Pending(c) /\ BackHas(c)' = BackHas(c)
    BY <1>1 DEF FileRd, Pending, BackHas, Within
  <2>3. /\ page'.data[c] = IF c = x THEN v ELSE page.data[c]
        /\ content'[c] = IF c = x THEN v ELSE content[c]
    BY <1>1 DEF PagesInv, PagesType
  <2>4. c \in past'.stale <=> c \in past.stale /\ c # x
    BY <1>1 DEF PagesInv, PagesType
  <2>5. CASE c = x
    BY <1>1, <1>2, <1>4, <2>1, <2>2, <2>3, <2>5, <2>4 DEF CellInv
  <2>6. CASE c # x
    BY <1>1, <1>4, <2>1, <2>2, <2>3, <2>6, <2>4 DEF CellInv
  <2> QED BY <2>5, <2>6
<1> QED BY <1>3, <1>5, <1>6 DEF PagesInv

\* A clean page that nobody holds is dropped.
LEMMA ReclaimInv ==
  ASSUME PagesInv, NEW p \in PageNo, Reclaim(p)
  PROVE  PagesInv'
<1> DEFINE data == [c \in Cells |-> IF c \in CellsOf(p) THEN 0 ELSE page.data[c]]
<1>1. /\ page' = [has |-> [page.has EXCEPT ![p] = Absent], data |-> data]
      /\ past' = [past EXCEPT !.stale = @ \ CellsOf(p)]
      /\ UNCHANGED <<file, i_size, caller, back, content>>
      /\ ~page.has[p].dirty /\ ~Locked(p)
  BY DEF Reclaim
<1>2. data \in [Cells -> Data]
  BY PagesAssumption DEF PagesInv, PagesType
<1> HIDE DEF data
<1>3. PagesType'
  BY <1>1, <1>2 DEF PagesInv, PagesType, Absent
<1>4. \A q \in PageNo : /\ page'.has[q].dirty = page.has[q].dirty
                        /\ page'.has[q].uptodate <=> (q # p /\ page.has[q].uptodate)
  BY <1>1 DEF PagesInv, PagesType, Absent
<1>5. CallerInv' /\ BackInv' /\ DirtyInv' /\ SizeInv'
  <2>1. CallerInv'
    BY <1>1, <1>4 DEF PagesInv, PagesType, CallerInv, Callers, Locked, OfPage, Within
  <2>2. BackInv'
    BY <1>1, <1>4 DEF PagesInv, PagesType, BackInv, Backs, Locked, OfPage, Within
  <2>3. DirtyInv' /\ SizeInv'
    BY <1>1, <1>4 DEF PagesInv, PagesType, DirtyInv, SizeInv
  <2> QED BY <2>1, <2>2, <2>3
<1>6. ASSUME NEW c \in Cells PROVE CellInv(c)'
  <2>1. CellInv(c) /\ PageOfCell(c) \in PageNo
    BY InvUse
  <2>2. PageOfCell(c) # p => page'.data[c] = page.data[c]
    BY <1>1 DEF data, CellsOf
  <2>3. FileRd(c)' = FileRd(c) /\ Pending(c)' = Pending(c) /\ BackHas(c)' = BackHas(c)
    BY <1>1 DEF FileRd, Pending, BackHas, Within
  <2>4. c \in past'.stale <=> c \in past.stale /\ PageOfCell(c) # p
    BY <1>1 DEF PagesInv, PagesType, CellsOf
  <2> QED BY <1>1, <1>4, <2>1, <2>2, <2>3, <2>4 DEF CellInv
<1> QED BY <1>3, <1>5, <1>6 DEF PagesInv

\* yaffs_write_begin(): the cells to write are of one page, which is read first.
LEMMA BeginInv ==
  ASSUME PagesInv, NEW first \in Cells, NEW last \in Cells, Writing(first, last)
  PROVE  PagesInv'
<1> DEFINE p == PageOfCell(first)
           end == last + 1
           data == [c \in Cells |-> IF c \in CellsOf(p) THEN FileRd(c) ELSE page.data[c]]
<1>1. PICK v \in Data :
        /\ PageOfCell(last) = p /\ first <= last
        /\ caller = NoCaller /\ ~Locked(p)
        /\ caller' = [pc |-> "copy", page |-> p, first |-> first, end |-> end,
                      val |-> v]
        /\ page' = IF page.has[p].uptodate THEN page
                   ELSE [has |-> [page.has EXCEPT ![p] = [@ EXCEPT !.uptodate = TRUE]],
                         data |-> data]
        /\ UNCHANGED <<file, i_size, back, content, past>>
  BY DEF Writing, write_begin, readpage_nolock
<1>2. p \in PageNo
  BY PageBounds
<1>3. /\ first \in 0 .. NCells /\ end \in 0 .. NCells /\ first < end
      /\ \A c \in Cells : first <= c /\ c < end => PageOfCell(c) = p
  <2>1. /\ first \in Nat /\ last \in Nat /\ p \in Nat /\ PageCells \in Nat \ {0}
        /\ NCells \in Nat /\ last < NCells
    BY PageBounds, PagesAssumption DEF Cells
  <2>2. p * PageCells <= first /\ last < p * PageCells + PageCells
    BY <1>1, PageBounds
  <2>3. first \in 0 .. NCells /\ end \in 0 .. NCells /\ first < end
    BY <1>1, <2>1 DEF Cells
  <2>4. ASSUME NEW c \in Cells, first <= c, c < end PROVE PageOfCell(c) = p
    <3>1. p * PageCells \in Nat /\ c \in Nat
      BY <2>1, PageBounds
    <3>2. p * PageCells <= c /\ c < p * PageCells + PageCells
      BY <2>1, <2>2, <2>4, <3>1
    <3> HIDE DEF p
    <3> QED BY <2>1, <3>1, <3>2, DivisionUnique DEF PageOfCell
  <2> QED BY <2>3, <2>4
<1>4. data \in [Cells -> Data]
  BY ReadsData DEF PagesInv, PagesType
<1>5. \A c \in Cells : data[c] = IF PageOfCell(c) = p THEN FileRd(c) ELSE page.data[c]
  BY DEF CellsOf
<1> HIDE DEF data, end, p
<1>6. caller' \in Callers
  BY <1>1, <1>2, <1>3 DEF Callers
<1>7. page' \in [has : [PageNo -> [uptodate : BOOLEAN, dirty : BOOLEAN]], data : [Cells -> Data]]
  <2>1. CASE page.has[p].uptodate
    BY <1>1, <2>1 DEF PagesInv, PagesType
  <2>2. CASE ~page.has[p].uptodate
    <3>1. page' = [has |-> [page.has EXCEPT ![p] = [@ EXCEPT !.uptodate = TRUE]], data |-> data]
      BY <1>1, <2>2
    <3> QED BY <1>2, <1>4, <3>1, ZenonT(40) DEF PagesInv, PagesType
  <2> QED BY <2>1, <2>2
<1>8. PagesType'
  BY <1>1, <1>6, <1>7 DEF PagesInv, PagesType
<1>9. \A q \in PageNo : /\ page'.has[q].dirty = page.has[q].dirty
                        /\ page'.has[q].uptodate <=> (q = p \/ page.has[q].uptodate)
  BY <1>1 DEF PagesInv, PagesType
<1>10. CallerInv' /\ BackInv' /\ DirtyInv' /\ SizeInv'
  <2>1. CallerInv'
    BY <1>1, <1>2, <1>3, <1>9 DEF CallerInv, OfPage, Within
  <2>2. BackInv'
    BY <1>1, <1>9 DEF PagesInv, PagesType, BackInv, Backs, NoCaller, OfPage, Within
  <2>3. DirtyInv' /\ SizeInv'
    BY <1>1, <1>9 DEF PagesInv, DirtyInv, SizeInv, NoCaller
  <2> QED BY <2>1, <2>2, <2>3
<1>11. ASSUME NEW c \in Cells PROVE CellInv(c)'
  <2>1. CellInv(c) /\ PageOfCell(c) \in PageNo
    BY InvUse
  <2>2. ~Pending(c) /\ ~Pending(c)' /\ FileRd(c)' = FileRd(c) /\ BackHas(c)' = BackHas(c)
    BY <1>1 DEF FileRd, Pending, BackHas, NoCaller, Within
  <2>3. \/ content[c] = Unknown
        \/ c \in past.stale
        \/ page'.has[PageOfCell(c)].uptodate => page'.data[c] = content[c]
    <3>1. CASE page.has[p].uptodate \/ PageOfCell(c) # p
      <4>1. page'.data[c] = page.data[c]
        BY <1>1, <1>5, <3>1
      <4>2. page'.has[PageOfCell(c)].uptodate => page.has[PageOfCell(c)].uptodate
        BY <1>9, <2>1, <3>1
      <4> QED BY <1>1, <2>1, <4>1, <4>2 DEF CellInv, NoCaller
    <3>2. CASE ~page.has[p].uptodate /\ PageOfCell(c) = p
      <4>1. page'.data[c] = FileRd(c)
        BY <1>1, <1>5, <3>2
      <4>2. c \notin Overtaken(p)
        BY <1>1 DEF Overtaken, NoCaller
      <4>3. c \in CellsOf(p)
        BY <3>2 DEF CellsOf
      <4> QED BY <1>1, <1>2, <3>2, <4>1, <4>2, <4>3, ReadTells DEF NoCaller
    <3> QED BY <3>1, <3>2
  <2> QED BY <1>1, <1>9, <2>1, <2>2, <2>3 DEF CellInv, NoCaller
<1> QED BY <1>8, <1>10, <1>11 DEF PagesInv

\* The data of a write goes into its page.
LEMMA CopyInv ==
  ASSUME PagesInv, WriteCopy
  PROVE  PagesInv'
<1> DEFINE In(c) == Within(caller, c)
           data == [c \in Cells |-> IF In(c) THEN caller.val ELSE page.data[c]]
<1>1. /\ caller.pc = "copy"
      /\ page' = [page EXCEPT !.data = data]
      /\ content' = [c \in Cells |-> IF In(c) THEN caller.val ELSE content[c]]
      /\ past' = [past EXCEPT !.stale = {c \in @ : ~In(c)}]
      /\ caller' = [caller EXCEPT !.pc = "end"]
      /\ UNCHANGED <<file, i_size, back>>
  BY DEF WriteCopy
<1>2. caller \in [pc : {"copy", "end"}, page : PageNo, first : 0 .. NCells, end : 0 .. NCells,
                  val : Data]
  BY <1>1 DEF PagesInv, PagesType, Callers, NoCaller
<1>3. data \in [Cells -> Data]
  BY <1>2 DEF PagesInv, PagesType
<1>4. \A c \in Cells : data[c] = IF In(c) THEN caller.val ELSE page.data[c]
  OBVIOUS
<1>5. /\ caller'.pc = "end" /\ caller'.page = caller.page /\ caller'.first = caller.first
      /\ caller'.end = caller.end /\ caller' \in Callers
  BY <1>1, <1>2 DEF Callers
<1>6. \A c \in Cells : In(c) <=> Within(caller', c)
  BY <1>5 DEF Within
<1> HIDE DEF data, In
<1>7. /\ content' \in [Cells -> Data \cup {Unknown}]
      /\ past' \in [stale : SUBSET Cells, longer : BOOLEAN]
      /\ past'.longer = past.longer
      /\ \A c \in Cells : c \in past'.stale <=> c \in past.stale /\ ~In(c)
  <2>1. caller.val \in Data
    BY <1>2
  <2>2. content' \in [Cells -> Data \cup {Unknown}]
    BY <1>1, <2>1 DEF PagesInv, PagesType
  <2>3. past \in [stale : SUBSET Cells, longer : BOOLEAN]
    BY DEF PagesInv, PagesType
  <2> DEFINE kept == {c \in past.stale : ~In(c)}
  <2>4. kept \in SUBSET Cells /\ past' = [past EXCEPT !.stale = kept]
    BY <1>1, <2>3
  <2>5. \A c \in Cells : c \in kept <=> c \in past.stale /\ ~In(c)
    OBVIOUS
  <2> HIDE DEF kept
  <2> QED BY <2>2, <2>3, <2>4, <2>5
<1>8. page'.has = page.has /\ page'.data = data
  BY <1>1 DEF PagesInv, PagesType
<1>9. PagesType'
  BY <1>1, <1>3, <1>5, <1>7 DEF PagesInv, PagesType
<1>10. CallerInv' /\ BackInv' /\ DirtyInv' /\ SizeInv'
  <2>1. CallerInv'
    BY <1>1, <1>5, <1>6, <1>8 DEF PagesInv, CallerInv, OfPage, In
  <2>2. BackInv' /\ DirtyInv' /\ SizeInv'
    BY <1>1, <1>5, <1>7, <1>8 DEF PagesInv, BackInv, DirtyInv, SizeInv, OfPage, Within
  <2> QED BY <2>1, <2>2
<1>11. ASSUME NEW c \in Cells PROVE CellInv(c)'
  <2>1. CellInv(c)
    BY InvUse
  <2>2. ~Pending(c) /\ (Pending(c)' <=> In(c))
    BY <1>1, <1>5, <1>6 DEF Pending
  <2>3. FileRd(c)' = FileRd(c) /\ BackHas(c)' = BackHas(c)
    BY <1>1 DEF FileRd, BackHas, Within
  <2>4. content'[c] = IF In(c) THEN caller.val ELSE content[c]
    BY <1>1
  <2>5. CASE In(c)
    BY <1>1, <1>4, <1>5, <1>7, <1>8, <2>1, <2>2, <2>3, <2>4, <2>5 DEF CellInv
  <2>6. CASE ~In(c)
    BY <1>1, <1>4, <1>5, <1>7, <1>8, <2>1, <2>2, <2>3, <2>4, <2>6 DEF CellInv
  <2> QED BY <2>5, <2>6
<1> QED BY <1>9, <1>10, <1>11 DEF PagesInv

\* yaffs_write_end(): the file has the cells up to where the write got, and the
\* sizes have grown alike unless it got nowhere.
LEMMA EndInv ==
  ASSUME PagesInv, write_end
  PROVE  PagesInv'
<1>1. PICK n \in caller.first .. caller.end : file_write(n) /\ content' = Lost(caller, n)
  BY DEF write_end
<1>2. caller.pc = "end" /\ caller' = NoCaller /\ UNCHANGED <<page, back>>
  BY DEF write_end
<1> DEFINE first == caller.first
           end == caller.end
           Wrote(c) == first <= c /\ c < n
           Tried(c) == first <= c /\ c < end
<1>3. caller \in [pc : {"copy", "end"}, page : PageNo, first : 0 .. NCells, end : 0 .. NCells,
                  val : Data]
  BY <1>2 DEF PagesInv, PagesType, Callers, NoCaller
<1>4. /\ first \in 0 .. NCells /\ end \in 0 .. NCells /\ n \in 0 .. NCells /\ NCells \in Nat
      /\ first <= n /\ n <= end
  BY <1>3, PagesAssumption
<1>5. /\ file' = FileWr(file, first, n, page.data)
      /\ i_size' = IF n > first /\ n > i_size THEN n ELSE i_size
      /\ past' = [past EXCEPT !.longer = @ \/ file'.size > i_size']
      /\ content' = [c \in Cells |-> IF Tried(c) /\ c >= n THEN Unknown ELSE content[c]]
  BY <1>1 DEF file_write, Lost, Within
<1>6. \A c \in Cells : Pending(c) <=> Tried(c)
  BY <1>2 DEF Pending, Within
<1>7. /\ \A c \in Cells : Tried(c) => page.has[PageOfCell(c)].uptodate
      /\ \A c \in Cells : Wrote(c) => Tried(c)
  BY <1>2, <1>4, PageBounds DEF PagesInv, CallerInv, OfPage, Within
<1> HIDE DEF first, end
<1>8. /\ file \in Files /\ i_size \in 0 .. NCells /\ page.data \in [Cells -> Data]
      /\ past \in [stale : SUBSET Cells, longer : BOOLEAN]
      /\ file.size \in 0 .. NCells
      /\ file.size = i_size \/ (file.size > i_size /\ past.longer)
  BY <1>2 DEF PagesInv, PagesType, SizeInv, Files
<1>9. /\ file' \in Files
      /\ \A c \in Cells : (IF c < file'.size THEN file'.cells[c] ELSE 0)
                            = IF Wrote(c) THEN page.data[c]
                              ELSE IF c < file.size THEN file.cells[c] ELSE 0
      /\ file'.size = IF n > file.size THEN n ELSE file.size
  BY <1>4, <1>5, <1>8, Written
<1>10. i_size' \in 0 .. NCells /\ i_size' >= i_size /\ file'.size >= i_size'
  BY <1>4, <1>5, <1>8, <1>9
<1>11. /\ past' \in [stale : SUBSET Cells, longer : BOOLEAN]
       /\ past'.stale = past.stale /\ past'.longer = (past.longer \/ file'.size > i_size')
  <2> DEFINE l == past.longer \/ file'.size > i_size'
  <2>1. l \in BOOLEAN /\ past' = [past EXCEPT !.longer = l]
    BY <1>5
  <2> HIDE DEF l
  <2>2. /\ past' \in [stale : SUBSET Cells, longer : BOOLEAN]
        /\ past'.stale = past.stale /\ past'.longer = l
    BY <1>8, <2>1
  <2> QED BY <2>2 DEF l
<1>12. content' \in [Cells -> Data \cup {Unknown}]
  BY <1>5 DEF PagesInv, PagesType
<1>13. PagesType'
  BY <1>2, <1>9, <1>10, <1>11, <1>12 DEF PagesInv, PagesType, Callers
<1>14. CallerInv' /\ DirtyInv'
  BY <1>2 DEF PagesInv, CallerInv, DirtyInv, NoCaller
<1>15. SizeInv'
  <2>1. file'.size \in 0 .. NCells
    BY <1>9 DEF Files
  <2> QED BY <1>4, <1>10, <1>11, <2>1 DEF SizeInv
<1>16. BackInv'
  <2>1. back.pc = "write" => back.end \in 0 .. NCells
    BY DEF PagesInv, PagesType, Backs, NoBack
  <2> QED BY <1>2, <1>4, <1>8, <1>10, <2>1 DEF PagesInv, BackInv, OfPage, Within
<1>17. ASSUME NEW c \in Cells PROVE CellInv(c)'
  <2>1. CellInv(c) /\ c \in Nat
    BY InvUse
  <2>2. ~Pending(c)' /\ BackHas(c)' = BackHas(c) /\ caller'.pc = "none"
    BY <1>2 DEF Pending, BackHas, NoCaller, Within
  <2>3. FileRd(c)' = IF Wrote(c) THEN page.data[c] ELSE FileRd(c)
    BY <1>9 DEF FileRd
  <2>4. content'[c] = IF Tried(c) /\ c >= n THEN Unknown ELSE content[c]
    BY <1>5
  <2>5. Wrote(c) => c < i_size'
    BY <1>4, <1>5, <1>8, <2>1
  <2>6. c >= i_size => FileRd(c) = 0
    BY <1>2, <2>1 DEF CellInv
  <2>7. c >= i_size' => FileRd(c)' = 0 /\ content'[c] \in {0, Unknown}
    <3>1. CASE Tried(c) /\ c >= n
      BY <1>8, <1>10, <2>1, <2>3, <2>4, <2>5, <2>6, <3>1
    <3>2. CASE ~Tried(c)
      BY <1>6, <1>7, <1>8, <1>10, <2>1, <2>3, <2>4, <2>6, <3>2 DEF CellInv
    <3>3. CASE Tried(c) /\ ~(c >= n)
      BY <1>4, <1>10, <2>1, <2>5, <3>3
    <3> QED BY <3>1, <3>2, <3>3
  <2>8. \/ content'[c] = Unknown \/ c \in past'.stale
        \/ page.has[PageOfCell(c)].uptodate => page.data[c] = content'[c]
    BY <1>2, <1>11, <2>1, <2>4 DEF CellInv
  <2>9. \/ content'[c] = Unknown
        \/ c < i_size' /\ ~page.has[PageOfCell(c)].dirty /\ ~BackHas(c)
              => FileRd(c)' = content'[c]
    <3>1. CASE Wrote(c)
      <4>1. c \notin past.stale
        BY <1>6, <1>7, <2>1, <3>1 DEF CellInv
      <4> QED BY <1>7, <1>11, <2>3, <2>8, <3>1, <4>1
    <3>2. CASE Tried(c) /\ ~Wrote(c)
      BY <1>4, <2>1, <2>4, <3>2
    <3>3. CASE ~Tried(c) /\ c < i_size
      BY <1>6, <1>7, <2>1, <2>3, <2>4, <3>3 DEF CellInv
    <3>4. CASE ~Tried(c) /\ ~(c < i_size)
      <4>1. content[c] \in {0, Unknown} /\ FileRd(c) = 0
        BY <1>6, <1>8, <2>1, <2>6, <3>4 DEF CellInv
      <4> QED BY <1>7, <2>3, <2>4, <3>4, <4>1
    <3> QED BY <3>1, <3>2, <3>3, <3>4
  <2>10. BackHas(c) => c \notin past'.stale
    BY <1>11, <2>1 DEF CellInv
  <2> HIDE DEF Wrote, Tried
  <2> QED BY <1>2, <2>2, <2>7, <2>8, <2>9, <2>10 DEF CellInv
<1> QED BY <1>13, <1>14, <1>15, <1>16, <1>17 DEF PagesInv

\* yaffs_writepage() up to the write: nothing past the end of the file is in a
\* page that is written.
LEMMA WritepageInv ==
  ASSUME PagesInv, NEW p \in PageNo, writepage(p)
  PROVE  PagesInv'
<1> DEFINE first == p * PageCells
           end == PageEnd(p)
           data == [c \in Cells |-> IF c \in CellsOf(p) /\ c >= end THEN 0 ELSE page.data[c]]
<1>1. /\ page.has[p].dirty /\ ~Locked(p) /\ back = NoBack
      /\ page' = [has |-> [page.has EXCEPT ![p].dirty = FALSE], data |-> data]
      /\ back' = IF end <= first THEN NoBack
                 ELSE [pc |-> "write", page |-> p, first |-> first, end |-> end]
      /\ content' = [c \in Cells |-> IF c \in CellsOf(p) \cap past.stale /\ c < end
                                     THEN Unknown ELSE content[c]]
      /\ past' = [past EXCEPT !.stale = @ \ CellsOf(p)]
      /\ UNCHANGED <<file, i_size, caller>>
  BY DEF writepage
<1>2. data \in [Cells -> Data] /\ content' \in [Cells -> Data \cup {Unknown}]
  BY <1>1, PagesAssumption DEF PagesInv, PagesType
<1>3. /\ p \in Nat /\ first \in Nat /\ end \in 0 .. NCells /\ end <= i_size
      /\ \A c \in CellsOf(p) : (c < end <=> c < i_size) /\ first <= c
      /\ \A c \in Cells : first <= c /\ c < end => PageOfCell(c) = p
      /\ i_size \in 0 .. NCells /\ NCells \in Nat
  BY PageEndIs, PagesAssumption DEF PagesInv, PagesType
<1>4. \A c \in Cells : data[c] = IF PageOfCell(c) = p /\ ~(c < i_size) THEN 0 ELSE page.data[c]
  <2> TAKE c \in Cells
  <2>1. c \in Nat /\ (c \in CellsOf(p) <=> PageOfCell(c) = p)
    BY PageBounds DEF CellsOf
  <2> QED BY <1>3, <2>1
<1> HIDE DEF data, first, end
<1>5. /\ past' \in [stale : SUBSET Cells, longer : BOOLEAN] /\ past'.longer = past.longer
      /\ \A c \in Cells : c \in past'.stale <=> c \in past.stale /\ PageOfCell(c) # p
  BY <1>1 DEF PagesInv, PagesType, CellsOf
<1>6. back' \in Backs
  <2>1. first < end => first \in 0 .. NCells
    BY <1>3
  <2> QED BY <1>1, <1>3, <2>1 DEF Backs
<1>7. PagesType'
  BY <1>1, <1>2, <1>5, <1>6 DEF PagesInv, PagesType
<1>8. \A q \in PageNo : /\ page'.has[q].uptodate = page.has[q].uptodate
                        /\ page'.has[q].dirty <=> (q # p /\ page.has[q].dirty)
  BY <1>1 DEF PagesInv, PagesType
<1>9. CallerInv' /\ DirtyInv' /\ SizeInv'
  BY <1>1, <1>5, <1>8 DEF PagesInv, PagesType, CallerInv, DirtyInv, SizeInv, Callers, OfPage, Within
<1>10. BackInv'
  <2>1. CASE end <= first
    BY <1>1, <2>1 DEF BackInv, NoBack
  <2>2. CASE ~(end <= first)
    <3>1. page'.has[p].uptodate
      BY <1>1, <1>8 DEF PagesInv, DirtyInv
    <3>2. back' = [pc |-> "write", page |-> p, first |-> first, end |-> end] /\ first < end
      BY <1>1, <1>3, <2>2
    <3> QED BY <1>1, <1>3, <3>1, <3>2 DEF BackInv, OfPage, Within
  <2> QED BY <2>1, <2>2
<1>11. ASSUME NEW c \in Cells PROVE CellInv(c)'
  <2>1. CellInv(c) /\ c \in Nat /\ i_size \in Nat /\ PageOfCell(c) \in PageNo
    BY InvUse
  <2>2. FileRd(c)' = FileRd(c) /\ Pending(c)' = Pending(c)
    BY <1>1 DEF FileRd, Pending, Within
  <2>3. ~BackHas(c) /\ (BackHas(c)' => PageOfCell(c) = p)
    BY <1>1, <1>3 DEF BackHas, NoBack, Within
  <2>4. content'[c] = IF c \in CellsOf(p) \cap past.stale /\ c < end THEN Unknown ELSE content[c]
    BY <1>1
  <2>5. CASE PageOfCell(c) = p
    <3>1. ~Pending(c)
      BY <1>1, <2>5 DEF Pending, Locked, PagesInv, CallerInv, OfPage
    <3>2. c \in CellsOf(p) /\ (c < end <=> c < i_size) /\ first <= c
      BY <1>3, <2>5 DEF CellsOf
    <3>3. c < i_size => BackHas(c)'
      BY <1>1, <1>3, <2>1, <3>2 DEF BackHas, Within
    <3>4. c \notin past'.stale
      BY <1>5, <2>5
    <3>5. content'[c] = IF c \in past.stale /\ c < i_size THEN Unknown ELSE content[c]
      BY <2>4, <3>2
    <3>6. c >= i_size => content'[c] \in {0, Unknown} /\ page'.data[c] = 0
      BY <1>1, <1>4, <2>1, <2>5, <3>1, <3>5 DEF CellInv
    <3>7. c < i_size => page'.data[c] = page.data[c]
      BY <1>1, <1>4
    <3> QED BY <1>1, <1>8, <2>1, <2>2, <3>1, <3>3, <3>4, <3>5, <3>6, <3>7 DEF CellInv
  <2>6. CASE PageOfCell(c) # p
    <3>1. content'[c] = content[c] /\ (c \in past'.stale <=> c \in past.stale)
      BY <1>5, <2>4, <2>6 DEF CellsOf
    <3>2. ~BackHas(c)'
      BY <2>3, <2>6
    <3> QED BY <1>1, <1>4, <1>8, <2>1, <2>2, <2>3, <2>6, <3>1, <3>2 DEF CellInv
  <2> QED BY <2>5, <2>6
<1> QED BY <1>7, <1>9, <1>10, <1>11 DEF PagesInv

\* The write of a page below the end of the inode leaves the file's size alone,
\* however far it gets.
LEMMA WritebackInv ==
  ASSUME PagesInv, writepage_wr
  PROVE  PagesInv'
<1>1. PICK n \in back.first .. back.end :
        file' = FileWr(file, back.first, n, page.data) /\ content' = Lost(back, n)
  BY DEF writepage_wr
<1>2. back.pc = "write" /\ back' = NoBack /\ UNCHANGED <<i_size, page, caller, past>>
  BY DEF writepage_wr
<1> DEFINE first == back.first
           end == back.end
           Wrote(c) == first <= c /\ c < n
<1>3. back \in [pc : {"write"}, page : PageNo, first : 0 .. NCells, end : 0 .. NCells]
  BY <1>2 DEF PagesInv, PagesType, Backs, NoBack
<1>4. /\ first \in 0 .. NCells /\ end \in 0 .. NCells /\ n \in 0 .. NCells /\ NCells \in Nat
      /\ first <= n /\ n <= end
  BY <1>3, PagesAssumption
<1>5. \A c \in Cells : BackHas(c) <=> first <= c /\ c < end
  BY <1>2 DEF BackHas, Within
<1>6. /\ \A c \in Cells : BackHas(c) => page.has[PageOfCell(c)].uptodate
      /\ \A c \in Cells : Wrote(c) => BackHas(c)
      /\ caller.pc # "pages" => end <= i_size
  BY <1>2, <1>4, <1>5, PageBounds DEF PagesInv, BackInv, OfPage, BackHas
<1>7. content' = [c \in Cells |-> IF first <= c /\ c < end /\ c >= n THEN Unknown ELSE content[c]]
  BY <1>1 DEF Lost, Within
<1> HIDE DEF first, end
<1>8. /\ file \in Files /\ file.size \in 0 .. NCells /\ i_size \in 0 .. NCells
      /\ page.data \in [Cells -> Data]
  BY DEF PagesInv, PagesType, Files
<1>9. /\ file' \in Files
      /\ \A c \in Cells : (IF c < file'.size THEN file'.cells[c] ELSE 0)
                            = IF Wrote(c) THEN page.data[c]
                              ELSE IF c < file.size THEN file.cells[c] ELSE 0
      /\ file'.size = IF n > file.size THEN n ELSE file.size
  BY <1>1, <1>4, <1>8, Written DEF first
<1>10. content' \in [Cells -> Data \cup {Unknown}]
  BY <1>7 DEF PagesInv, PagesType
<1>11. PagesType'
  BY <1>2, <1>9, <1>10 DEF PagesInv, PagesType, Backs
<1>12. CallerInv' /\ BackInv' /\ DirtyInv'
  BY <1>2 DEF PagesInv, CallerInv, BackInv, DirtyInv, NoBack, OfPage, Within
<1>13. SizeInv'
  <2>1. CASE caller.pc \notin {"pages", "resize"}
    <3>1. file.size >= i_size
      BY <1>8, <2>1 DEF PagesInv, SizeInv
    <3>2. file'.size = file.size
      BY <1>4, <1>6, <1>8, <1>9, <2>1, <3>1
    <3> QED BY <1>2, <2>1, <3>2 DEF PagesInv, SizeInv
  <2> QED BY <1>2, <2>1 DEF SizeInv
<1>14. ASSUME NEW c \in Cells PROVE CellInv(c)'
  <2>1. CellInv(c) /\ c \in Nat
    BY InvUse
  <2>2. FileRd(c)' = IF Wrote(c) THEN page.data[c] ELSE FileRd(c)
    BY <1>9 DEF FileRd
  <2>3. Pending(c)' = Pending(c) /\ ~BackHas(c)'
    BY <1>2 DEF Pending, BackHas, NoBack, Within
  <2>4. content'[c] = IF BackHas(c) /\ c >= n THEN Unknown ELSE content[c]
    BY <1>5, <1>7
  <2>5. c >= i_size /\ caller.pc \notin {"pages", "resize"} => ~Wrote(c)
    BY <1>4, <1>6, <1>8, <2>1
  <2>6. CASE BackHas(c) /\ c >= n
    BY <1>2, <2>1, <2>2, <2>3, <2>4, <2>5, <2>6 DEF CellInv
  <2>7. CASE BackHas(c) /\ ~(c >= n)
    <3>1. Wrote(c) /\ content'[c] = content[c] /\ c \notin past.stale
      BY <1>4, <1>5, <2>1, <2>4, <2>7 DEF CellInv
    <3>2. page.has[PageOfCell(c)].uptodate
      BY <1>6, <2>7
    <3> HIDE DEF Wrote
    <3> QED BY <1>2, <2>1, <2>2, <2>3, <2>5, <3>1, <3>2 DEF CellInv
  <2>8. CASE ~BackHas(c)
    <3>1. ~Wrote(c) /\ content'[c] = content[c]
      BY <1>6, <2>4, <2>8
    <3> HIDE DEF Wrote
    <3> QED BY <1>2, <2>1, <2>2, <2>3, <2>8, <3>1 DEF CellInv
  <2> QED BY <2>6, <2>7, <2>8
<1> QED BY <1>11, <1>12, <1>13, <1>14 DEF PagesInv

\* yaffs_setattr() up to truncate_setsize(): the inode has the new size alone.
LEMMA SetattrInv ==
  ASSUME PagesInv, NEW n \in 0 .. NCells, setattr(n)
  PROVE  PagesInv'
<1>1. /\ caller = NoCaller /\ i_size' = n
      /\ content' = [c \in Cells |-> IF c < n THEN content[c] ELSE 0]
      /\ caller' = [pc |-> "pages"]
      /\ UNCHANGED <<file, page, back, past>>
  BY DEF setattr
<1>2. content' \in [Cells -> Data \cup {Unknown}]
  BY <1>1, PagesAssumption DEF PagesInv, PagesType
<1>3. PagesType'
  BY <1>1, <1>2 DEF PagesInv, PagesType, Callers
<1>4. CallerInv' /\ BackInv' /\ DirtyInv' /\ SizeInv'
  BY <1>1 DEF PagesInv, CallerInv, BackInv, DirtyInv, SizeInv, OfPage, Within
<1>5. ASSUME NEW c \in Cells PROVE CellInv(c)'
  <2>1. CellInv(c) /\ c \in Nat /\ i_size \in Nat /\ n \in Nat
    BY InvUse, PagesAssumption
  <2>2. ~Pending(c) /\ caller.pc = "none"
    BY <1>1 DEF Pending, NoCaller
  <2>3. caller'.pc = "pages" /\ ~Pending(c)'
    BY <1>1 DEF Pending
  <2>4. FileRd(c)' = FileRd(c) /\ BackHas(c)' = BackHas(c)
    BY <1>1 DEF FileRd, BackHas, Within
  <2>5. content'[c] = IF c < n THEN content[c] ELSE 0
    BY <1>1
  <2>6. CASE c < n /\ c < i_size
    BY <1>1, <2>1, <2>2, <2>3, <2>4, <2>5, <2>6 DEF CellInv
  <2>7. CASE c < n /\ ~(c < i_size)
    <3>1. FileRd(c) = 0 /\ content[c] \in {0, Unknown}
      BY <2>1, <2>2, <2>7 DEF CellInv
    <3> QED BY <1>1, <2>1, <2>2, <2>3, <2>4, <2>5, <2>7, <3>1 DEF CellInv
  <2>8. CASE ~(c < n)
    BY <1>1, <2>1, <2>2, <2>3, <2>4, <2>5, <2>8 DEF CellInv
  <2> QED BY <2>6, <2>7, <2>8
<1> QED BY <1>3, <1>4, <1>5 DEF PagesInv

\* truncate_setsize(): what lies past the end goes, once no write-back has its page.
LEMMA TruncateInv ==
  ASSUME PagesInv, truncate_pages
  PROVE  PagesInv'
<1> DEFINE has == [p \in PageNo |-> IF p * PageCells >= i_size THEN Absent ELSE page.has[p]]
           data == [c \in Cells |-> IF c >= i_size THEN 0 ELSE page.data[c]]
<1>1. /\ caller.pc = "pages" /\ caller' = [pc |-> "resize"]
      /\ \A p \in PageNo : Locked(p) => (p + 1) * PageCells <= i_size
      /\ page' = [has |-> has, data |-> data]
      /\ past' = [past EXCEPT !.stale = {c \in @ : c < i_size}]
      /\ UNCHANGED <<file, i_size, back, content>>
  BY DEF truncate_pages
<1>2. has \in [PageNo -> [uptodate : BOOLEAN, dirty : BOOLEAN]] /\ data \in [Cells -> Data]
  BY PagesAssumption DEF PagesInv, PagesType, Absent
<1>3. \A q \in PageNo : /\ has[q].uptodate <=> (~(q * PageCells >= i_size) /\ page.has[q].uptodate)
                        /\ has[q].dirty <=> (~(q * PageCells >= i_size) /\ page.has[q].dirty)
  BY DEF Absent, PagesInv, PagesType
<1>4. \A c \in Cells : data[c] = IF c >= i_size THEN 0 ELSE page.data[c]
  OBVIOUS
<1> HIDE DEF has, data
<1>5. page'.has = has /\ page'.data = data
  BY <1>1
<1>6. /\ past' \in [stale : SUBSET Cells, longer : BOOLEAN]
      /\ \A c \in Cells : c \in past'.stale <=> c \in past.stale /\ c < i_size
  <2> DEFINE kept == {c \in past.stale : c < i_size}
  <2>1. past \in [stale : SUBSET Cells, longer : BOOLEAN]
    BY DEF PagesInv, PagesType
  <2>2. kept \in SUBSET Cells /\ past' = [past EXCEPT !.stale = kept]
    BY <1>1, <2>1
  <2>3. \A c \in Cells : c \in kept <=> c \in past.stale /\ c < i_size
    OBVIOUS
  <2> HIDE DEF kept
  <2> QED BY <2>1, <2>2, <2>3
<1>7. PagesType'
  BY <1>1, <1>2, <1>6 DEF PagesInv, PagesType, Callers
<1>8. CallerInv' /\ DirtyInv' /\ SizeInv'
  BY <1>1, <1>3, <1>5 DEF PagesInv, CallerInv, DirtyInv, SizeInv
<1>9. BackInv'
  <2> SUFFICES ASSUME back.pc = "write" PROVE BackInv'
    BY <1>1 DEF BackInv
  <2>1. back.page \in PageNo /\ back.end \in 0 .. NCells
    BY DEF PagesInv, PagesType, Backs, NoBack
  <2>2. (back.page + 1) * PageCells <= i_size
    BY <1>1, <2>1 DEF Locked
  <2>3. page.has[back.page].uptodate /\ OfPage(back)
    BY DEF PagesInv, BackInv
  <2>4. back.page \in Nat /\ PageCells \in Nat \ {0} /\ i_size \in Nat
    <3>1. back.page \in Nat
      BY <2>1, PageBounds DEF PageNo
    <3> QED BY <3>1, PagesAssumption DEF PagesInv, PagesType
  <2>5. (back.page + 1) * PageCells = back.page * PageCells + PageCells
        /\ back.page * PageCells \in Nat
    BY <2>4
  <2>6. has[back.page].uptodate
    BY <1>3, <2>1, <2>2, <2>3, <2>4, <2>5
  <2>7. back.end <= i_size
    <3>1. back.first \in 0 .. NCells /\ NCells \in Nat
      BY PagesAssumption DEF PagesInv, PagesType, Backs, NoBack
    <3>2. SUFFICES ASSUME back.end > i_size PROVE FALSE
      BY <2>1, <2>4
    <3> DEFINE c == back.end - 1
    <3>3. c \in Cells /\ Within(back, c)
      BY <2>1, <2>3, <2>4, <3>1, <3>2 DEF Cells, Within, OfPage
    <3>4. c < back.page * PageCells + PageCells
      BY <2>3, <3>3, PageBounds DEF OfPage
    <3>5. c >= i_size
      BY <2>1, <2>4, <3>1, <3>2
    <3> HIDE DEF c
    <3> QED BY <2>2, <2>4, <2>5, <3>3, <3>4, <3>5, PageBounds
  <2> QED BY <1>1, <1>5, <2>3, <2>6, <2>7 DEF BackInv, OfPage, Within
<1>10. ASSUME NEW c \in Cells PROVE CellInv(c)'
  <2>1. CellInv(c) /\ c \in Nat /\ i_size \in Nat /\ PageOfCell(c) \in PageNo
    BY InvUse
  <2>2. ~Pending(c) /\ ~Pending(c)' /\ caller'.pc = "resize"
    BY <1>1 DEF Pending
  <2>3. FileRd(c)' = FileRd(c) /\ BackHas(c)' = BackHas(c)
    BY <1>1 DEF FileRd, BackHas, Within
  <2>4. CASE c >= i_size
    <3>1. content[c] \in {0, Unknown}
      BY <2>1, <2>2, <2>4 DEF CellInv
    <3> QED BY <1>1, <1>4, <1>5, <1>6, <2>1, <2>2, <2>3, <2>4, <3>1 DEF CellInv
  <2>5. CASE c < i_size
    <3>1. PageOfCell(c) * PageCells <= c /\ PageOfCell(c) * PageCells \in Nat
      BY PageBounds, PagesAssumption
    <3>2. ~(PageOfCell(c) * PageCells >= i_size)
      BY <2>1, <2>5, <3>1
    <3> QED BY <1>1, <1>3, <1>4, <1>5, <1>6, <2>1, <2>2, <2>3, <2>5, <3>2 DEF CellInv
  <2> QED BY <2>1, <2>4, <2>5
<1> QED BY <1>7, <1>8, <1>9, <1>10 DEF PagesInv

\* yaffs_set_attribs(): the file follows the inode.
LEMMA ResizeInv ==
  ASSUME PagesInv, set_attribs
  PROVE  PagesInv'
<1> DEFINE cells == [c \in Cells |-> IF c < i_size THEN FileRd(c) ELSE 0]
<1>1. /\ caller.pc = "resize" /\ caller' = NoCaller
      /\ file' = [size |-> i_size, cells |-> cells]
      /\ past' = [past EXCEPT !.longer = FALSE]
      /\ UNCHANGED <<i_size, page, back, content>>
  BY DEF set_attribs
<1>2. cells \in [Cells -> Data]
  BY ReadsData, PagesAssumption DEF PagesInv, PagesType
<1>3. \A c \in Cells : cells[c] = IF c < i_size THEN FileRd(c) ELSE 0
  OBVIOUS
<1> HIDE DEF cells
<1>4. file' \in Files
  BY <1>1, <1>2 DEF PagesInv, PagesType, Files
<1>5. PagesType'
  BY <1>1, <1>4 DEF PagesInv, PagesType, Callers
<1>6. CallerInv' /\ BackInv' /\ DirtyInv' /\ SizeInv'
  BY <1>1 DEF PagesInv, CallerInv, BackInv, DirtyInv, SizeInv, NoCaller, OfPage, Within
<1>7. ASSUME NEW c \in Cells PROVE CellInv(c)'
  <2>1. CellInv(c)
    BY InvUse
  <2>2. ~Pending(c) /\ ~Pending(c)' /\ caller'.pc = "none"
    BY <1>1 DEF Pending, NoCaller
  <2>3. c < i_size => FileRd(c)' = FileRd(c)
    BY <1>1, <1>3 DEF FileRd
  <2>4. BackHas(c)' = BackHas(c)
    BY <1>1 DEF BackHas, Within
  <2>5. c \in past'.stale <=> c \in past.stale
    BY <1>1 DEF PagesInv, PagesType
  <2>6. c >= i_size => FileRd(c)' = 0
    <3>1. file'.size = i_size
      BY <1>1
    <3>2. c \in Nat /\ i_size \in Nat
      BY InvUse
    <3> QED BY <3>1, <3>2 DEF FileRd
  <2> QED BY <1>1, <2>1, <2>2, <2>3, <2>4, <2>5, <2>6 DEF CellInv
<1> QED BY <1>5, <1>6, <1>7 DEF PagesInv

\* A new inode takes the size of the file.
LEMMA EvictInv ==
  ASSUME PagesInv, EvictInode
  PROVE  PagesInv'
<1>1. /\ caller = NoCaller /\ back = NoBack
      /\ \A p \in PageNo : ~page.has[p].dirty
      /\ i_size' = file.size
      /\ page' = [has |-> [p \in PageNo |-> Absent], data |-> Zeros]
      /\ past' = [stale |-> {}, longer |-> FALSE]
      /\ UNCHANGED <<file, caller, back, content>>
  BY DEF EvictInode
<1>2. file.size >= i_size /\ file.size \in 0 .. NCells /\ i_size \in 0 .. NCells
  BY <1>1 DEF PagesInv, PagesType, SizeInv, NoCaller, Files
<1>3. page' \in [has : [PageNo -> [uptodate : BOOLEAN, dirty : BOOLEAN]], data : [Cells -> Data]]
  BY <1>1, PagesAssumption DEF Absent, Zeros
<1>4. PagesType'
  BY <1>1, <1>2, <1>3 DEF PagesInv, PagesType
<1>5. \A p \in PageNo : ~page'.has[p].dirty /\ ~page'.has[p].uptodate
  BY <1>1 DEF Absent
<1>6. CallerInv' /\ BackInv' /\ DirtyInv' /\ SizeInv'
  BY <1>1, <1>5 DEF CallerInv, BackInv, DirtyInv, SizeInv, NoCaller, NoBack
<1>7. ASSUME NEW c \in Cells PROVE CellInv(c)'
  <2>1. CellInv(c) /\ PageOfCell(c) \in PageNo /\ c \in Nat
    BY InvUse
  <2>2. FileRd(c)' = FileRd(c) /\ Pending(c)' = Pending(c) /\ BackHas(c)' = BackHas(c)
    BY <1>1 DEF FileRd, Pending, BackHas, Within
  <2>3. ~Pending(c) /\ ~BackHas(c) /\ caller.pc = "none" /\ caller'.pc = "none"
    BY <1>1 DEF Pending, BackHas, NoCaller, NoBack
  <2>4. c >= i_size => FileRd(c) = 0 /\ content[c] \in {0, Unknown}
    BY <2>1, <2>3 DEF CellInv
  <2>5. content[c] = Unknown \/ FileRd(c) = content[c]
    BY <1>1, <1>2, <2>1, <2>3, <2>4 DEF CellInv
  <2>6. c >= i_size' => c >= i_size
    BY <1>1, <1>2, <2>1
  <2> QED BY <1>1, <1>5, <2>1, <2>2, <2>3, <2>4, <2>5, <2>6 DEF CellInv
<1> QED BY <1>4, <1>6, <1>7 DEF PagesInv

-----------------------------------------------------------------------------
(* What follows from it.                                                   *)

\* Each step of the kernel and of yaffs preserves the invariant.
LEMMA StepInv == PagesInv /\ [PagesNext]_pageVars => PagesInv'
<1> SUFFICES ASSUME PagesInv, [PagesNext]_pageVars PROVE PagesInv'
  OBVIOUS
<1>1. ASSUME NEW p \in PageNo, readpage(p) PROVE PagesInv'
  BY <1>1, ReadpageInv
<1>2. ASSUME NEW p \in PageNo, Reclaim(p) PROVE PagesInv'
  BY <1>2, ReclaimInv
<1>3. ASSUME NEW p \in PageNo, writepage(p) PROVE PagesInv'
  BY <1>3, WritepageInv
<1>4. ASSUME NEW c \in Cells, NEW v \in Data, Store(c, v) PROVE PagesInv'
  BY <1>4, StoreInv
<1>5. ASSUME NEW c \in Cells, NEW d \in Cells, Writing(c, d) PROVE PagesInv'
  BY <1>5, BeginInv
<1>6. ASSUME NEW n \in 0 .. NCells, setattr(n) PROVE PagesInv'
  BY <1>6, SetattrInv
<1>7. CASE WriteCopy
  BY <1>7, CopyInv
<1>8. CASE write_end
  BY <1>8, EndInv
<1>9. CASE writepage_wr
  BY <1>9, WritebackInv
<1>10. CASE truncate_pages
  BY <1>10, TruncateInv
<1>11. CASE set_attribs
  BY <1>11, ResizeInv
<1>12. CASE EvictInode
  BY <1>12, EvictInv
<1>13. CASE UNCHANGED pageVars
  BY <1>13 DEF pageVars, PagesInv, PagesType, CallerInv, BackInv, DirtyInv, SizeInv,
               CellInv, FileRd, Pending, BackHas, OfPage, Within
<1> QED BY <1>1, <1>2, <1>3, <1>4, <1>5, <1>6, <1>7, <1>8, <1>9, <1>10, <1>11, <1>12, <1>13
        DEF PagesNext

\* The invariant says of the pages what PagesTell asks.
LEMMA InvTells == PagesInv => PagesTell
<1> SUFFICES ASSUME PagesInv PROVE PagesTell
  OBVIOUS
<1>1. ASSUME NEW c \in Cells, content[c] # Unknown
      PROVE  LET has == page.has[PageOfCell(c)]
                 back_has == back.pc = "write" /\ Within(back, c)
                 told == IF c < i_size \/ Pending(c) THEN content[c] ELSE 0
             IN  /\ has.uptodate /\ caller.pc # "pages" /\ c \notin past.stale =>
                        page.data[c] = told
                 /\ c < i_size /\ ~has.dirty /\ ~Pending(c) /\ ~back_has =>
                        FileRd(c) = content[c]
  <2>1. CellInv(c) /\ c \in Nat /\ i_size \in Nat
    BY InvUse
  <2> QED BY <1>1, <2>1 DEF CellInv, BackHas
<1>2. ASSUME caller = NoCaller, back = NoBack
      PROVE  \/ file.size = i_size
             \/ /\ past.longer /\ file.size > i_size
                /\ \A c \in Cells : c >= i_size => FileRd(c) = 0
  <2>1. \A c \in Cells : c >= i_size => FileRd(c) = 0
    BY <1>2, InvUse DEF CellInv, NoCaller
  <2> QED BY <1>2, <2>1 DEF PagesInv, SizeInv, NoCaller
<1> QED BY <1>1, <1>2 DEF PagesTell

\* yaffs_readpage(), yaffs_writepage(), yaffs_write_end(), yaffs_setattr(): for a
\* file of any size and pages of any size, through reads at any time, writes and
\* write-backs that fail part of the way and cuts that others overtake, a page
\* of the cache has what the processes have written, but for the old tail that
\* a read has overtaken a cut with; what is in no dirty page is in the file of
\* yaffs; and what a failed write has made the file longer by reads as zeros.
THEOREM PagesCorrect == PagesSpec => []PagesTell
<1>1. PagesInit => PagesInv
  BY InitInv
<1>2. PagesInv /\ [PagesNext]_pageVars => PagesInv'
  BY StepInv
<1>3. PagesInv => PagesTell
  BY InvTells
<1> QED BY <1>1, <1>2, <1>3, PTL DEF PagesSpec
=============================================================================
