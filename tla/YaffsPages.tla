------------------------------ MODULE YaffsPages ------------------------------
(***************************************************************************)
(* linux/yaffs_vfs_multi.c: the kernel's pages of one file, the size of    *)
(* its inode, and the file of yaffs below them.                            *)
(*                                                                         *)
(* The inode's lock lets one write or setattr in at a time; readers,       *)
(* processes that have the file mapped and the write-back of pages run     *)
(* beside it.  A page's lock holds off a read into it, its write-back, its *)
(* truncation and a store that finds it clean (external).  The file of     *)
(* yaffs changes under the gross lock.                                     *)
(***************************************************************************)
EXTENDS Integers

CONSTANTS
    NCells,     \* bound: cells of the file
    PageCells,  \* cells a page holds
    Data,       \* what a cell holds; 0 where nothing was written
    Unknown     \* what a write left that failed

ASSUME PagesAssumption ==
    /\ NCells \in Nat \ {0} /\ PageCells \in Nat \ {0}
    /\ 0 \in Data /\ Unknown \notin Data

VARIABLES
    file,     \* the yaffs object: file_size and contents
    i_size,
    page,     \* the page cache
    caller,   \* the write or setattr that holds the inode's lock
    back,     \* the write-back under way
    content,  \* what the processes have written
    past      \* history: what reads and writes past the end have left

pageVars == <<file, i_size, page, caller, back, content, past>>

Cells == 0 .. NCells - 1
PageOfCell(c) == c \div PageCells
PageNo == {PageOfCell(c) : c \in Cells}
CellsOf(p) == {c \in Cells : PageOfCell(c) = p}
Zeros == [c \in Cells |-> 0]

Absent == [uptodate |-> FALSE, dirty |-> FALSE]
NoCaller == [pc |-> "none"]
NoBack == [pc |-> "none"]

\* The data of all pages are one function of the cells: page[p] says which of
\* them the cache has.
PagesInit ==
    /\ file = [size |-> 0, cells |-> Zeros]
    /\ i_size = 0
    /\ page = [has |-> [p \in PageNo |-> Absent], data |-> Zeros]
    /\ caller = NoCaller
    /\ back = NoBack
    /\ content = Zeros
    /\ past = [stale |-> {}, longer |-> FALSE]

Locked(p) ==
    \/ caller.pc \in {"copy", "end"} /\ caller.page = p
    \/ back.pc = "write" /\ back.page = p

\* yaffs_file_rd(): nothing past the end.
FileRd(c) == IF c < file.size THEN file.cells[c] ELSE 0

\* yaffs_wr_file() of the cells from first to before end: a gap before them is
\* filled with zeros, even if none of them is written.
FileWr(f, first, end, data) ==
    [size |-> IF end > f.size THEN end ELSE f.size,
     cells |-> [c \in Cells |-> IF first <= c /\ c < end THEN data[c]
                                ELSE IF c < f.size THEN f.cells[c] ELSE 0]]

-----------------------------------------------------------------------------
(* Reading.                                                                *)

\* yaffs_readpage_nolock(): the whole page, whatever the file has of it.
readpage_nolock(pg, p) ==
    [has |-> [pg.has EXCEPT ![p] = [@ EXCEPT !.uptodate = TRUE]],
     data |-> [c \in Cells |-> IF c \in CellsOf(p) THEN FileRd(c) ELSE pg.data[c]]]

\* What a read of page p brings into the cache from behind the new end, when
\* setattr has cut the inode and the pages but not yet the file.
Overtaken(p) ==
    {c \in CellsOf(p) : caller.pc = "resize" /\ c >= i_size /\ FileRd(c) # 0}

readpage(p) ==
    /\ ~page.has[p].uptodate /\ ~Locked(p)
    /\ p * PageCells < i_size
    /\ page' = readpage_nolock(page, p)
    /\ past' = [past EXCEPT !.stale = @ \cup Overtaken(p)]
    /\ UNCHANGED <<file, i_size, caller, back, content>>

\* A process that has the file mapped stores below the end of the file.
Store(c, v) ==
    LET p == PageOfCell(c)
    IN  /\ page.has[p].uptodate /\ c < i_size
        /\ page.has[p].dirty \/ ~Locked(p)
        /\ page' = [has |-> [page.has EXCEPT ![p].dirty = TRUE],
                    data |-> [page.data EXCEPT ![c] = v]]
        /\ content' = [content EXCEPT ![c] = v]
        /\ past' = [past EXCEPT !.stale = @ \ {c}]
        /\ UNCHANGED <<file, i_size, caller, back>>

\* The kernel may drop a clean page at any time.
Reclaim(p) ==
    /\ page.has[p] # Absent /\ ~page.has[p].dirty /\ ~Locked(p)
    /\ page' = [has |-> [page.has EXCEPT ![p] = Absent],
                data |-> [c \in Cells |-> IF c \in CellsOf(p) THEN 0 ELSE page.data[c]]]
    /\ past' = [past EXCEPT !.stale = @ \ CellsOf(p)]
    /\ UNCHANGED <<file, i_size, caller, back, content>>

-----------------------------------------------------------------------------
(* Writing, a page at a time.                                              *)

\* yaffs_write_begin() of the cells from first to last of a page: with 20 free
\* chunks or less the call ends here.
write_begin(first, last, v) ==
    LET p == PageOfCell(first)
    IN  /\ caller = NoCaller /\ ~Locked(p)
        /\ caller' = [pc |-> "copy", page |-> p, first |-> first, end |-> last + 1, val |-> v]
        /\ page' = IF page.has[p].uptodate THEN page ELSE readpage_nolock(page, p)
        /\ UNCHANGED <<file, i_size, back, content, past>>

\* The cells that a write has to do with.
Within(w, c) == w.first <= c /\ c < w.end

\* The kernel copies the data into the page.
WriteCopy ==
    /\ caller.pc = "copy"
    /\ page' = [page EXCEPT !.data = [c \in Cells |-> IF Within(caller, c) THEN caller.val ELSE @[c]]]
    /\ content' = [c \in Cells |-> IF Within(caller, c) THEN caller.val ELSE content[c]]
    /\ past' = [past EXCEPT !.stale = {c \in @ : ~Within(caller, c)}]
    /\ caller' = [caller EXCEPT !.pc = "end"]
    /\ UNCHANGED <<file, i_size, back>>

\* Whoever looks for what a write put behind cell n has lost it.
Lost(w, n) == [c \in Cells |-> IF Within(w, c) /\ c >= n THEN Unknown ELSE content[c]]

\* yaffs_file_write() gets as far as cell n: the file first, then the inode's
\* size, which stays if nothing was written though the file has grown up to
\* where the write begins.
file_write(n) ==
    /\ file' = FileWr(file, caller.first, n, page.data)
    /\ i_size' = IF n > caller.first /\ n > i_size THEN n ELSE i_size
    /\ past' = [past EXCEPT !.longer = @ \/ file'.size > i_size']

\* yaffs_write_end().  The space found before was not set aside: others may have
\* taken it, and the page then has what the file has not.  It stays up to date,
\* and SetPageError() keeps nobody from it.
write_end ==
    /\ caller.pc = "end"
    /\ \E n \in caller.first .. caller.end :
        /\ file_write(n)
        /\ content' = Lost(caller, n)
    /\ caller' = NoCaller
    /\ UNCHANGED <<page, back>>

-----------------------------------------------------------------------------
(* Write-back.                                                             *)

\* Slip: the whole last page is written.
slip_PageEnd(p) == IF NCells < (p + 1) * PageCells THEN NCells ELSE (p + 1) * PageCells

\* Where the cells of a page that lie below the end of the file end.
PageEnd(p) == IF i_size < (p + 1) * PageCells THEN i_size ELSE (p + 1) * PageCells

\* yaffs_writepage(): the page is clean from here on, and its tail is cleared.
\* Nothing is left to do for a page past the end.  What is stale goes into the
\* file with the rest.
writepage(p) ==
    /\ page.has[p].dirty /\ ~Locked(p) /\ back = NoBack
    /\ page' = [has |-> [page.has EXCEPT ![p].dirty = FALSE],
                data |-> [c \in Cells |-> IF c \in CellsOf(p) /\ c >= PageEnd(p) THEN 0
                                          ELSE page.data[c]]]
    /\ back' = IF PageEnd(p) <= p * PageCells THEN NoBack
               ELSE [pc |-> "write", page |-> p, first |-> p * PageCells, end |-> PageEnd(p)]
    /\ content' = [c \in Cells |-> IF c \in CellsOf(p) \cap past.stale /\ c < PageEnd(p)
                                   THEN Unknown ELSE content[c]]
    /\ past' = [past EXCEPT !.stale = @ \ CellsOf(p)]
    /\ UNCHANGED <<file, i_size, caller>>

\* The write too may fail part of the way; the page is not made dirty again.
writepage_wr ==
    /\ back.pc = "write"
    /\ \E n \in back.first .. back.end :
        /\ file' = FileWr(file, back.first, n, page.data)
        /\ content' = Lost(back, n)
    /\ back' = NoBack
    /\ UNCHANGED <<i_size, page, caller, past>>

-----------------------------------------------------------------------------
(* setattr of the size, and eviction.                                      *)

\* truncate_setsize() sets the size first ...
setattr(n) ==
    /\ caller = NoCaller /\ n # i_size
    /\ i_size' = n
    /\ content' = [c \in Cells |-> IF c < n THEN content[c] ELSE 0]
    /\ caller' = [pc |-> "pages"]
    /\ UNCHANGED <<file, page, back, past>>

\* ... drops the pages past it, written or not, and clears the tail of the page
\* it falls into ...
truncate_pages ==
    /\ caller.pc = "pages"
    /\ \A p \in PageNo : Locked(p) => (p + 1) * PageCells <= i_size
    /\ page' = [has |-> [p \in PageNo |-> IF p * PageCells >= i_size THEN Absent ELSE page.has[p]],
                data |-> [c \in Cells |-> IF c >= i_size THEN 0 ELSE page.data[c]]]
    /\ past' = [past EXCEPT !.stale = {c \in @ : c < i_size}]
    /\ caller' = [pc |-> "resize"]
    /\ UNCHANGED <<file, i_size, back, content>>

\* ... and only then yaffs_set_attribs() resizes the file, whatever
\* yaffs2_handle_hole() makes of a longer one.
set_attribs ==
    /\ caller.pc = "resize"
    /\ file' = [size |-> i_size,
                cells |-> [c \in Cells |-> IF c < i_size THEN FileRd(c) ELSE 0]]
    /\ past' = [past EXCEPT !.longer = FALSE]
    /\ caller' = NoCaller
    /\ UNCHANGED <<i_size, page, back, content>>

\* An inode whose pages are written goes, and yaffs_fill_inode_from_obj() makes
\* the next.
EvictInode ==
    /\ caller = NoCaller /\ back = NoBack
    /\ \A p \in PageNo : ~page.has[p].dirty
    /\ i_size' = file.size
    /\ page' = [has |-> [p \in PageNo |-> Absent], data |-> Zeros]
    /\ past' = [stale |-> {}, longer |-> FALSE]
    /\ UNCHANGED <<file, caller, back, content>>

Writing(c, d) ==
    PageOfCell(c) = PageOfCell(d) /\ c <= d /\ \E v \in Data : write_begin(c, d, v)

PagesNext ==
    \/ \E p \in PageNo : readpage(p) \/ Reclaim(p) \/ writepage(p)
    \/ \E c \in Cells, v \in Data : Store(c, v)
    \/ \E c, d \in Cells : Writing(c, d)
    \/ \E n \in 0 .. NCells : setattr(n)
    \/ WriteCopy \/ write_end \/ writepage_wr
    \/ truncate_pages \/ set_attribs \/ EvictInode

PagesSpec == PagesInit /\ [][PagesNext]_pageVars

-----------------------------------------------------------------------------
(* Properties.                                                             *)

\* The caller has put into its page what the file and its size lack as yet.
Pending(c) == caller.pc = "end" /\ Within(caller, c)

\* (yaffs_readpage(), yaffs_writepage(), yaffs_setattr())  A page of the cache
\* has what the processes have written, and nothing past the end of the file
\* that an extension could bring out, but for the old tail that a read may have
\* overtaken a cut with; even then, what has no dirty page is in the file of
\* yaffs, until the page is written.  The inode and the file agree on the size
\* when no call or write-back is between them, unless a write past the end has
\* failed, after which the file is the longer one, by zeros.  What writes that
\* failed were to write is not told.
PagesTell ==
    /\ \A c \in Cells :
          LET has == page.has[PageOfCell(c)]
              back_has == back.pc = "write" /\ Within(back, c)
              told == IF c < i_size \/ Pending(c) THEN content[c] ELSE 0
          IN  content[c] = Unknown
              \/ /\ has.uptodate /\ caller.pc # "pages" /\ c \notin past.stale =>
                        page.data[c] = told
                 /\ c < i_size /\ ~has.dirty /\ ~Pending(c) /\ ~back_has =>
                        FileRd(c) = content[c]
    /\ caller = NoCaller /\ back = NoBack =>
          \/ file.size = i_size
          \/ past.longer /\ file.size > i_size /\ \A c \in Cells : c >= i_size => FileRd(c) = 0
=============================================================================
