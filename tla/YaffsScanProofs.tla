---------------------------- MODULE YaffsScanProofs ----------------------------
(***************************************************************************)
(* Theorems about YaffsLog, for every geometry, every size of file and any  *)
(* number of power failures: at any moment a scan of the flash finds the    *)
(* file that the calls have made, and the log implements YaffsStore.        *)
(*                                                                         *)
(* The scan goes by what is newer than what; RAM goes by the tree.  The     *)
(* invariant says how the two are tied together: which chunks the headers   *)
(* on flash cut off, which of these headers have to stay there, and what    *)
(* the jobs of a call still have to cut off before the file may grow over   *)
(* it.                                                                     *)
(***************************************************************************)
EXTENDS YaffsLogProofs

-----------------------------------------------------------------------------
(* What is cut off on flash n.                                             *)

\* The data chunks of id i.
CopiesOf(n, i) == {c \in OfKind(n, "data") : n[c].id = i}

Shrinks(n) == {h \in OfKind(n, "hdr") : n[h].is_shrink}

\* Header h cuts chunk c off.
Cuts(n, h, c) == Newer(n, h, c) /\ n[h].size < n[c].id

\* Every copy of chunk i is cut off for good: by a shrink header.
Buried(n, i) == \A c \in CopiesOf(n, i) : \E h \in Shrinks(n) : Cuts(n, h, c)

\* What the shrink headers of block b cut off goes when they go.
Clear(n, b) ==
    \A h \in Shrinks(n), c \in OfKind(n, "data") :
        h[1] = b /\ Cuts(n, h, c) => c[1] = b

-----------------------------------------------------------------------------
(* The file f, with the chunks in D in doubt, and flash n.                 *)

HdrNewest(n, f) ==
    /\ f.hdr_chunk \in OfKind(n, "hdr")
    /\ \A g \in OfKind(n, "hdr") \ {f.hdr_chunk} : Newer(n, f.hdr_chunk, g)

\* No chunk of the file is cut off.
TreeKept(n, f) ==
    \A i \in Ids : f.tree[i] # NoChunk =>
        /\ i <= f.stored_size
        /\ f.tree[i] \in CopiesOf(n, i)
        /\ \A h \in Cutting(n, f.hdr_chunk) : ~Cuts(n, h, f.tree[i])

\* The others are older copies, or cut off.
OthersGone(n, f, D) ==
    \A i \in Ids \ D :
        /\ f.tree[i] # NoChunk =>
             \A c \in CopiesOf(n, i) \ {f.tree[i]} : Newer(n, f.tree[i], c)
        /\ f.tree[i] = NoChunk =>
             \A c \in CopiesOf(n, i) : \E h \in Cutting(n, f.hdr_chunk) : Cuts(n, h, c)

ContentIs(n, f, D, m) ==
    \A i \in Ids \ D :
        /\ f.tree[i] # NoChunk => m[i] = n[f.tree[i]].val
        /\ f.tree[i] = NoChunk => m[i] = Hole

\* The file can grow beyond chunk j, and nothing old comes back.
Settled(n, f, D, j) == j \in D \/ f.tree[j] # NoChunk \/ Buried(n, j)

SettledTo(n, f, D, m) == \A j \in Ids : j <= m => Settled(n, f, D, j)

\* The scan comes to no larger size than the file has, ...
SizeAbove(n, f, D) ==
    \/ \A i \in Ids : i > f.stored_size => i \in D
    \/ /\ n[f.hdr_chunk].size <= f.stored_size
       /\ \A c \in OfKind(n, "data") : Newer(n, c, f.hdr_chunk) => n[c].id <= f.stored_size

\* ... and to no smaller one.
SizeBelow(n, f, D) ==
    \/ f.stored_size <= n[f.hdr_chunk].size
    \/ f.stored_size \in D
    \/ /\ f.stored_size \in Ids
       /\ f.tree[f.stored_size] # NoChunk
       /\ Newer(n, f.tree[f.stored_size], f.hdr_chunk)

FileSound(n, f, D, m) ==
    /\ HdrNewest(n, f)
    /\ TreeKept(n, f)
    /\ OthersGone(n, f, D)
    /\ ContentIs(n, f, D, m)
    /\ SizeAbove(n, f, D)

\* The blocks the device may erase are clear; those in P are not marked yet.
Guarded(n, d, P) ==
    /\ \A b \in Blocks :
        d.bi[b].block_state \in InUseStates /\ ~d.bi[b].has_shrink_hdr =>
            Clear(n, b) \/ b \in P
    /\ d.gc_block # NoBlock => Clear(n, d.gc_block)
    /\ d.gc_dirtiest # NoBlock => Clear(n, d.gc_dirtiest)

-----------------------------------------------------------------------------
(* The jobs of a call.                                                     *)

\* The job makes the file grow over chunk j.
Passes(job, j) ==
    \/ job.do = "data" /\ j < job.id
    \/ job.do = "grow" /\ j <= job.size

Filling(job) == job.do = "data" /\ job.base # -1

\* The job settles chunk j.
Settles(job, j) ==
    \/ job.do = "hdr" /\ job.is_shrink
    \/ job.do = "hole" /\ j <= job.size
    \/ Filling(job) /\ job.id = j

SettledNow(j) == Settled(nand, file, doubt, j)

\* What a job passes has been settled, or is by a job before it.
JobsLead(jobs) ==
    \A k \in DOMAIN jobs, j \in Ids :
        Passes(jobs[k], j) => SettledNow(j) \/ \E l \in 1 .. k - 1 : Settles(jobs[l], j)

\* An ordinary header is the last job; the file is cut off first, with a header
\* to follow; zeros for a hole are written first.
JobsShape(jobs) ==
    \A k \in DOMAIN jobs :
        /\ jobs[k].do = "hdr" /\ ~jobs[k].is_shrink => k = Len(jobs)
        /\ jobs[k].do = "prune" =>
              /\ jobs[k].size <= file.file_size /\ jobs[k].size < MaxId
              /\ k + 1 \in DOMAIN jobs /\ jobs[k + 1].do = "hdr"
              /\ k = 1 \/ (k = 2 /\ jobs[1].do = "gc")
        /\ Filling(jobs[k]) =>
              /\ \A l \in 1 .. k : Filling(jobs[l])
              /\ jobs[k].base <= file.file_size /\ jobs[k].base < MaxId

\* A job whose record is written has settled what it was to settle.
JobDone ==
    op.pc = "delete" =>
        /\ Job.do \in {"data", "hdr"}
        /\ \A j \in Ids : Settles(Job, j) => SettledNow(j)

\* Chunks beyond the end are in doubt only until the header after the cut.
CutsAhead ==
    (\E i \in doubt : i > file.stored_size) =>
        \/ \E k \in DOMAIN op.jobs : op.jobs[k].do = "prune"
        \/ /\ op.jobs # <<>> /\ Job.do = "hdr" /\ op.pc # "delete"
           /\ file.file_size = file.stored_size

JobInv ==
    /\ op.pc = "idle" => op.jobs = <<>>
    /\ JobsLead(op.jobs)
    /\ JobsShape(op.jobs)
    /\ JobDone
    /\ CutsAhead

Pending ==
    IF op.pc = "delete" /\ Job.do = "hdr" /\ Job.is_shrink THEN {file.hdr_chunk[1]} ELSE {}

-----------------------------------------------------------------------------
(* The invariant.                                                          *)

UpInv ==
    /\ FileSound(nand, file, doubt, content)
    /\ SettledTo(nand, file, doubt, file.stored_size)
    /\ SettledTo(nand, file, doubt, file.file_size)
    /\ ~Shortening => SizeBelow(nand, file, doubt)
    /\ Guarded(nand, dev, Pending)
    /\ JobInv

\* With nothing in RAM, a scan finds what the calls have made.
DownInv ==
    \A i \in Ids \ doubt :
        /\ FoundContent(nand)[i] = content[i]
        /\ i <= FoundFile(nand).stored_size => Settled(nand, FoundFile(nand), doubt, i)

ScanInv ==
    /\ content \in [Ids -> Data \cup {Hole}]
    /\ Up => UpInv
    /\ ~Up => DownInv

-----------------------------------------------------------------------------
(* Newer orders the chunks on flash.                                       *)

\* What chunks of data and headers on the flash hold.
LEMMA KindParts ==
    ASSUME NEW n, FlashInv(n)
    PROVE  /\ \A c \in OfKind(n, "data") :
                c \in Chunks /\ Written(n, c) /\ n[c].id \in Ids /\ n[c].val \in Data
           /\ \A h \in OfKind(n, "hdr") :
                h \in Chunks /\ Written(n, h) /\ n[h].size \in 0 .. MaxId

<1>1. ASSUME NEW c \in Chunks, n[c].kind \in {"data", "hdr"}
      PROVE  /\ Written(n, c)
             /\ n[c].kind = "data" => n[c].id \in Ids /\ n[c].val \in Data
             /\ n[c].kind = "hdr" => n[c].size \in 0 .. MaxId
  <2>1. n[c] \in Record
    BY DEF FlashInv
  <2> QED BY <1>1, <2>1, RecordParts DEF Written
<1> QED BY <1>1 DEF OfKind

\* The scan meets the chunks in one order.
LEMMA NewerOrder ==
    ASSUME NEW n, FlashInv(n),
           NEW a \in Chunks, Written(n, a), NEW b \in Chunks, Written(n, b)
    PROVE  /\ ~Newer(n, a, a)
           /\ Newer(n, a, b) => ~Newer(n, b, a)
           /\ a # b => Newer(n, a, b) \/ Newer(n, b, a)
           /\ \A c \in Chunks : Written(n, c) /\ Newer(n, a, b) /\ Newer(n, b, c) => Newer(n, a, c)
<1>1. \A x \in Chunks : Written(n, x) => n[x].seq \in Nat /\ x[2] \in Nat
  <2> TAKE x \in Chunks
  <2> HAVE Written(n, x)
  <2>1. n[x] \in Record
    BY DEF FlashInv
  <2> QED BY <2>1, RecordParts, ChunkParts, GeometryAssumption DEF Written, Pages
<1>2. n[a].seq = n[b].seq <=> b[1] = a[1]
  BY DEF FlashInv
<1>3. a # b => n[a].seq # n[b].seq \/ a[2] # b[2]
  BY <1>2, ChunkParts
<1> QED BY <1>1, <1>3 DEF Newer


-----------------------------------------------------------------------------
(* Erasing blocks.                                                         *)

\* m is n with the blocks in B erased.
Blanked(n, m, B) ==
    /\ FlashInv(n) /\ FlashInv(m)
    /\ \A c \in Chunks : /\ c[1] \in B => ~Written(m, c)
                         /\ c[1] \notin B => m[c] = n[c]

\* What is left is what it was, in the order it was.
LEMMA BlankedIs ==
    ASSUME NEW n, NEW m, NEW B, Blanked(n, m, B)
    PROVE  /\ \A k \in {"data", "hdr"} : \A c :
                c \in OfKind(m, k) <=> c \in OfKind(n, k) /\ c[1] \notin B
           /\ \A k \in {"data", "hdr"} : \A c \in OfKind(m, k) : m[c] = n[c]
           /\ \A a, b \in Chunks : a[1] \notin B /\ b[1] \notin B =>
                (Newer(m, a, b) <=> Newer(n, a, b))
           /\ \A h, c \in Chunks : h[1] \notin B /\ c[1] \notin B =>
                (Cuts(m, h, c) <=> Cuts(n, h, c))
<1>1. \A c \in Chunks : /\ c[1] \in B => m[c] = Blank
                        /\ c[1] \notin B => m[c] = n[c]
  BY DEF Blanked, Written
<1>2. Blank.kind \notin {"data", "hdr"}
  BY DEF Blank
<1>3. \A a, b \in Chunks : a[1] \notin B /\ b[1] \notin B =>
         (Newer(m, a, b) <=> Newer(n, a, b))
  BY <1>1 DEF Newer
<1> QED BY <1>1, <1>2, <1>3 DEF OfKind, Cuts

\* Nothing comes back when clear blocks are erased.
LEMMA BlankedSound ==
    ASSUME NEW n, NEW m, NEW B, Blanked(n, m, B), \A b \in B : Clear(n, b),
           NEW f, NEW D, NEW t, FileSound(n, f, D, t),
           f.hdr_chunk[1] \notin B,
           \A i \in Ids : f.tree[i] # NoChunk => f.tree[i][1] \notin B
    PROVE  /\ FileSound(m, f, D, t)
           /\ \A j \in Ids : Settled(n, f, D, j) => Settled(m, f, D, j)
           /\ \A b : Clear(n, b) => Clear(m, b)
           /\ SizeBelow(n, f, D) => SizeBelow(m, f, D)
<1> DEFINE top == f.hdr_chunk
<1>1. /\ HdrNewest(n, f) /\ TreeKept(n, f) /\ OthersGone(n, f, D)
      /\ ContentIs(n, f, D, t) /\ SizeAbove(n, f, D)
  BY DEF FileSound
<1>2. /\ \A k \in {"data", "hdr"} : \A c :
           c \in OfKind(m, k) <=> c \in OfKind(n, k) /\ c[1] \notin B
      /\ \A k \in {"data", "hdr"} : \A c \in OfKind(m, k) : m[c] = n[c]
      /\ \A a, b \in Chunks : a[1] \notin B /\ b[1] \notin B =>
           (Newer(m, a, b) <=> Newer(n, a, b))
      /\ \A h, c \in Chunks : h[1] \notin B /\ c[1] \notin B =>
           (Cuts(m, h, c) <=> Cuts(n, h, c))
  BY BlankedIs
<1>3. \A k \in {"data", "hdr"} : \A c \in OfKind(n, k) : c \in Chunks
  BY DEF OfKind
<1>4. /\ \A h : h \in Shrinks(m) <=> h \in Shrinks(n) /\ h[1] \notin B
      /\ \A h : h \in Cutting(m, top) <=> h \in Cutting(n, top) /\ h[1] \notin B
      /\ \A i, c : c \in CopiesOf(m, i) <=> c \in CopiesOf(n, i) /\ c[1] \notin B
  BY <1>2 DEF Shrinks, Cutting, CopiesOf
<1>5. /\ \A h : h \in Cutting(n, top) => h \in Chunks /\ (h = top \/ h \in Shrinks(n))
      /\ \A h : h \in Shrinks(n) => h \in Chunks /\ h \in OfKind(n, "hdr")
      /\ \A i, c : c \in CopiesOf(n, i) => c \in Chunks /\ c \in OfKind(n, "data")
  BY <1>3 DEF Cutting, Shrinks, CopiesOf
<1>6. top \in Chunks /\ top \in OfKind(n, "hdr") /\ top \in OfKind(m, "hdr")
  BY <1>1, <1>2, <1>3 DEF HdrNewest
<1>7. HdrNewest(m, f)
  BY <1>1, <1>2, <1>3, <1>6 DEF HdrNewest
<1>8. \A i \in Ids : f.tree[i] # NoChunk =>
         f.tree[i] \in Chunks /\ f.tree[i] \in CopiesOf(n, i) /\ f.tree[i] \in CopiesOf(m, i)
  BY <1>1, <1>4, <1>5 DEF TreeKept
<1>9. TreeKept(m, f)
  BY <1>1, <1>2, <1>4, <1>5, <1>8 DEF TreeKept
<1>10. \A i : \A c \in CopiesOf(m, i), h \in Shrinks(n) : Cuts(n, h, c) => h[1] \notin B
  BY <1>4, <1>5 DEF Clear
<1>11. OthersGone(m, f, D)
  <2>1. ASSUME NEW i \in Ids \ D, f.tree[i] # NoChunk, NEW c \in CopiesOf(m, i) \ {f.tree[i]}
        PROVE  Newer(m, f.tree[i], c)
    BY <1>1, <1>2, <1>4, <1>5, <1>8, <2>1 DEF OthersGone
  <2>2. ASSUME NEW i \in Ids \ D, f.tree[i] = NoChunk, NEW c \in CopiesOf(m, i)
        PROVE  \E h \in Cutting(m, top) : Cuts(m, h, c)
    <3>1. PICK h \in Cutting(n, top) : Cuts(n, h, c)
      BY <1>1, <1>4, <2>2 DEF OthersGone
    <3>2. h[1] \notin B
      BY <1>5, <1>10, <3>1
    <3> QED BY <1>2, <1>4, <1>5, <3>1, <3>2
  <2> QED BY <2>1, <2>2 DEF OthersGone
<1>12. ContentIs(m, f, D, t)
  <2>1. \A i \in Ids : f.tree[i] # NoChunk => m[f.tree[i]] = n[f.tree[i]]
    BY <1>2, <1>8 DEF CopiesOf
  <2> QED BY <1>1, <2>1 DEF ContentIs
<1>13. SizeAbove(m, f, D)
  <2>1. m[top] = n[top]
    BY <1>2, <1>6
  <2>2. \A c \in OfKind(m, "data") : Newer(m, c, top) => Newer(n, c, top) /\ c \in OfKind(n, "data") /\ m[c] = n[c]
    BY <1>2, <1>3, <1>6
  <2> QED BY <1>1, <2>1, <2>2 DEF SizeAbove
<1>14. ASSUME NEW j \in Ids, Settled(n, f, D, j)
       PROVE  Settled(m, f, D, j)
  <2>1. CASE Buried(n, j)
    <3>1. ASSUME NEW c \in CopiesOf(m, j)
          PROVE  \E h \in Shrinks(m) : Cuts(m, h, c)
      <4>1. PICK h \in Shrinks(n) : Cuts(n, h, c)
        BY <1>4, <2>1 DEF Buried
      <4> QED BY <1>2, <1>4, <1>5, <1>10, <4>1
    <3> QED BY <3>1 DEF Settled, Buried
  <2> QED BY <1>14, <2>1 DEF Settled
<1>15. ASSUME NEW b, Clear(n, b)
       PROVE  Clear(m, b)
  BY <1>2, <1>3, <1>4, <1>5, <1>15 DEF Clear
<1>16. SizeBelow(n, f, D) => SizeBelow(m, f, D)
  <2>1. m[top] = n[top]
    BY <1>2, <1>6
  <2>2. \A i \in Ids : f.tree[i] # NoChunk /\ Newer(n, f.tree[i], top) => Newer(m, f.tree[i], top)
    BY <1>2, <1>6, <1>8
  <2> QED BY <2>1, <2>2 DEF SizeBelow
<1> QED BY <1>7, <1>9, <1>11, <1>12, <1>13, <1>14, <1>15, <1>16 DEF FileSound

\* File f becomes g, cut or grown with a chunk in doubt, and D becomes E.
FileCut(f, g, D, E) ==
    /\ D \subseteq E
    /\ f.stored_size \in Int /\ g.stored_size \in Int
    /\ g.hdr_chunk = f.hdr_chunk
    /\ \A i \in Ids : /\ g.tree[i] = f.tree[i] \/ (g.tree[i] = NoChunk /\ i \in E)
                      /\ g.tree[i] # NoChunk => i <= g.stored_size
    /\ \/ f.stored_size <= g.stored_size
       \/ \A i \in Ids : i > g.stored_size => i \in E

\* The flash is left alone.
LEMMA CutSound ==
    ASSUME NEW n, FlashInv(n), NEW f, NEW g, NEW D, NEW E, NEW t, FileSound(n, f, D, t),
           FileCut(f, g, D, E)
    PROVE  /\ FileSound(n, g, E, t)
           /\ \A j \in Ids : Settled(n, f, D, j) => Settled(n, g, E, j)
<1>a. /\ D \subseteq E /\ f.stored_size \in Int /\ g.stored_size \in Int
      /\ g.hdr_chunk = f.hdr_chunk
  BY DEF FileCut
<1>b. \A i \in Ids : /\ g.tree[i] = f.tree[i] \/ (g.tree[i] = NoChunk /\ i \in E)
                     /\ g.tree[i] # NoChunk => i <= g.stored_size
  BY DEF FileCut
<1>c. f.stored_size <= g.stored_size \/ \A i \in Ids : i > g.stored_size => i \in E
  BY DEF FileCut
<1>1. /\ HdrNewest(n, f) /\ TreeKept(n, f) /\ OthersGone(n, f, D)
      /\ ContentIs(n, f, D, t) /\ SizeAbove(n, f, D)
  BY DEF FileSound
<1>2. HdrNewest(n, g) /\ TreeKept(n, g) /\ OthersGone(n, g, E) /\ ContentIs(n, g, E, t)
  <2>1. HdrNewest(n, g)
    BY <1>1, <1>a DEF HdrNewest
  <2>2. TreeKept(n, g)
    BY <1>1, <1>a, <1>b DEF TreeKept
  <2>3. OthersGone(n, g, E)
    BY <1>1, <1>a, <1>b DEF OthersGone
  <2>4. ContentIs(n, g, E, t)
    BY <1>1, <1>a, <1>b DEF ContentIs
  <2> QED BY <2>1, <2>2, <2>3, <2>4
<1>3. SizeAbove(n, g, E)
  <2>1. CASE \A i \in Ids : i > g.stored_size => i \in E
    BY <2>1 DEF SizeAbove
  <2>2. CASE f.stored_size <= g.stored_size
    <3>1. CASE \A i \in Ids : i > f.stored_size => i \in D
      BY <1>a, <2>2, <3>1 DEF SizeAbove, Ids
    <3>2. CASE /\ n[f.hdr_chunk].size <= f.stored_size
               /\ \A c \in OfKind(n, "data") :
                     Newer(n, c, f.hdr_chunk) => n[c].id <= f.stored_size
      <4>1. \A v \in Int : v <= f.stored_size => v <= g.stored_size
        BY <1>a, <2>2
      <4>2. /\ n[g.hdr_chunk].size \in Int
            /\ \A c \in OfKind(n, "data") : n[c].id \in Int
        BY <1>2, KindParts, LogAssumption DEF HdrNewest, Ids
      <4> QED BY <1>a, <3>2, <4>1, <4>2 DEF SizeAbove
    <3> QED BY <1>1, <3>1, <3>2 DEF SizeAbove
  <2> QED BY <1>c, <2>1, <2>2
<1> QED BY <1>a, <1>b, <1>2, <1>3 DEF FileSound, Settled


-----------------------------------------------------------------------------
(* Programming a chunk.                                                    *)

\* m is n with chunk c programmed after all others.
Appended(n, m, c) ==
    /\ FlashInv(n) /\ FlashInv(m)
    /\ c \in Chunks /\ ~Written(n, c) /\ Written(m, c)
    /\ \A x \in Chunks \ {c} : m[x] = n[x]
    /\ \A x \in Chunks : Written(n, x) => Newer(m, c, x)

\* The others stay what they are, and none is newer.
LEMMA AppendedIs ==
    ASSUME NEW n, NEW m, NEW c, Appended(n, m, c)
    PROVE  /\ \A k \in {"data", "hdr"} : \A x :
                x \in OfKind(m, k) <=> x \in OfKind(n, k) \/ (x = c /\ m[c].kind = k)
           /\ \A k \in {"data", "hdr"} : \A x \in OfKind(n, k) :
                x \in Chunks /\ x # c /\ m[x] = n[x] /\ Newer(m, c, x) /\ ~Newer(m, x, c)
           /\ \A a, b \in Chunks \ {c} : Newer(m, a, b) <=> Newer(n, a, b)
           /\ \A h, x \in Chunks \ {c} : Cuts(m, h, x) <=> Cuts(n, h, x)
           /\ ~Newer(m, c, c)
<1>1. \A k \in {"data", "hdr"} : \A x \in OfKind(n, k) : x \in Chunks /\ Written(n, x)
  BY KindParts DEF Appended
<1>2. \A k \in {"data", "hdr"} : \A x \in OfKind(n, k) : x # c
  BY <1>1 DEF Appended
<1>3. \A x \in Chunks : Written(n, x) => Newer(m, c, x) /\ ~Newer(m, x, c)
  <2> TAKE x \in Chunks
  <2> HAVE Written(n, x)
  <2>1. Written(m, x) /\ Newer(m, c, x)
    BY DEF Appended, Written
  <2> QED BY <2>1, NewerOrder DEF Appended
<1>4. \A a, b \in Chunks \ {c} : Newer(m, a, b) <=> Newer(n, a, b)
  BY DEF Appended, Newer
<1>5. ~Newer(m, c, c)
  BY NewerOrder DEF Appended
<1>6. \A k \in {"data", "hdr"} : \A x :
         x \in OfKind(m, k) <=> x \in OfKind(n, k) \/ (x = c /\ m[c].kind = k)
  BY <1>2 DEF OfKind, Appended
<1>7. \A k \in {"data", "hdr"} : \A x \in OfKind(n, k) : m[x] = n[x]
  BY <1>1, <1>2 DEF Appended
<1>8. \A h, x \in Chunks \ {c} : Cuts(m, h, x) <=> Cuts(n, h, x)
  BY <1>4 DEF Cuts, Appended
<1> QED BY <1>1, <1>2, <1>3, <1>4, <1>5, <1>6, <1>7, <1>8

\* Only a new shrink header makes a block less clear than it was.
LEMMA AppendedClear ==
    ASSUME NEW n, NEW m, NEW c, Appended(n, m, c), NEW b, Clear(n, b),
           m[c].kind = "hdr" => ~m[c].is_shrink \/ c[1] # b
    PROVE  Clear(m, b)
<1> SUFFICES ASSUME NEW h \in Shrinks(m), NEW x \in OfKind(m, "data"), h[1] = b, Cuts(m, h, x)
             PROVE  x[1] = b
  BY DEF Clear
<1>1. h \in OfKind(m, "hdr") /\ m[h].is_shrink /\ Newer(m, h, x)
  BY DEF Shrinks, Cuts
<1>2. h # c /\ h \in OfKind(n, "hdr")
  BY <1>1, AppendedIs
<1>3. x # c /\ x \in OfKind(n, "data")
  BY <1>1, <1>2, AppendedIs
<1>4. h \in Shrinks(n) /\ Cuts(n, h, x)
  BY <1>1, <1>2, <1>3, AppendedIs DEF Shrinks
<1> QED BY <1>3, <1>4 DEF Clear

\* Data chunk c takes its place in the tree as chunk i, in doubt no more than before.
DataPlaced(m, c, i, f, g, D, E, t, u) ==
    /\ m[c].kind = "data" /\ i \in Ids /\ m[c].id = i
    /\ f.stored_size \in Int /\ g.stored_size \in Int
    /\ f.tree \in [Ids -> Chunks \cup {NoChunk}]
    /\ g.hdr_chunk = f.hdr_chunk /\ g.tree = [f.tree EXCEPT ![i] = c]
    /\ f.stored_size <= g.stored_size /\ i <= g.stored_size
    /\ E \in {D, D \ {i}} /\ (i \notin E => u[i] = m[c].val)
    /\ \A j \in Ids \ {i} : u[j] = t[j]

\* A chunk of data that is appended keeps what a scan makes of the flash true to
\* the file.
LEMMA DataSound ==
    ASSUME NEW n, NEW m, NEW c, Appended(n, m, c),
           NEW f, NEW g, NEW D, NEW E, NEW t, NEW u, FileSound(n, f, D, t),
           NEW i, DataPlaced(m, c, i, f, g, D, E, t, u)
    PROVE  /\ FileSound(m, g, E, u)
           /\ \A j \in Ids : Settled(n, f, D, j) => Settled(m, g, E, j)
           /\ SizeBelow(n, f, D) /\ g.stored_size \in {f.stored_size, i} => SizeBelow(m, g, E)
<1>0. /\ m[c].kind = "data" /\ i \in Ids /\ m[c].id = i
      /\ f.stored_size \in Int /\ g.stored_size \in Int
      /\ f.tree \in [Ids -> Chunks \cup {NoChunk}]
      /\ g.hdr_chunk = f.hdr_chunk /\ g.tree = [f.tree EXCEPT ![i] = c]
      /\ f.stored_size <= g.stored_size /\ i <= g.stored_size
      /\ E \in {D, D \ {i}} /\ (i \notin E => u[i] = m[c].val)
      /\ \A j \in Ids \ {i} : u[j] = t[j]
  BY DEF DataPlaced
<1> USE <1>0
<1> DEFINE top == f.hdr_chunk
<1>1. /\ HdrNewest(n, f) /\ TreeKept(n, f) /\ OthersGone(n, f, D)
      /\ ContentIs(n, f, D, t) /\ SizeAbove(n, f, D)
  BY DEF FileSound
<1>2. /\ \A k \in {"data", "hdr"} : \A x :
            x \in OfKind(m, k) <=> x \in OfKind(n, k) \/ (x = c /\ m[c].kind = k)
      /\ \A k \in {"data", "hdr"} : \A x \in OfKind(n, k) :
            x \in Chunks /\ x # c /\ m[x] = n[x] /\ Newer(m, c, x) /\ ~Newer(m, x, c)
      /\ \A a, b \in Chunks \ {c} : Newer(m, a, b) <=> Newer(n, a, b)
      /\ \A h, x \in Chunks \ {c} : Cuts(m, h, x) <=> Cuts(n, h, x)
      /\ ~Newer(m, c, c)
  BY AppendedIs
<1>3. /\ \A h : h \in OfKind(m, "hdr") <=> h \in OfKind(n, "hdr")
      /\ \A h : h \in Shrinks(m) <=> h \in Shrinks(n)
      /\ \A h : h \in Cutting(m, top) <=> h \in Cutting(n, top)
      /\ \A h \in Cutting(n, top) : h \in OfKind(n, "hdr")
      /\ \A h \in Shrinks(n) : h \in OfKind(n, "hdr")
      /\ \A j, x : x \in CopiesOf(m, j) <=> x \in CopiesOf(n, j) \/ (x = c /\ j = i)
      /\ \A j, x : x \in CopiesOf(n, j) => x \in OfKind(n, "data")
  BY <1>2 DEF Shrinks, Cutting, CopiesOf
<1>4. c # NoChunk /\ c \in Chunks
  <2>1. c \in Chunks
    BY DEF Appended
  <2> QED BY <2>1, ChunkParts DEF NoChunk, Blocks
<1>5. /\ g.tree[i] = c
      /\ \A j \in Ids \ {i} : g.tree[j] = f.tree[j]
  OBVIOUS
<1>6. \A h \in OfKind(n, "hdr") : ~Cuts(m, h, c)
  BY <1>2 DEF Cuts
<1>7. HdrNewest(m, g)
  BY <1>1, <1>2, <1>3 DEF HdrNewest
<1>8. ASSUME NEW j \in Ids, g.tree[j] # NoChunk
      PROVE  /\ j <= g.stored_size /\ g.tree[j] \in CopiesOf(m, j)
             /\ \A h \in Cutting(m, top) : ~Cuts(m, h, g.tree[j])
  <2>1. CASE j = i
    BY <1>3, <1>5, <1>6, <2>1
  <2>2. CASE j # i
    <3>1. /\ j <= f.stored_size /\ f.tree[j] \in CopiesOf(n, j)
          /\ \A h \in Cutting(n, top) : ~Cuts(n, h, f.tree[j])
      BY <1>1, <1>5, <1>8, <2>2 DEF TreeKept
    <3>2. j <= g.stored_size
      BY <3>1 DEF Ids
    <3> QED BY <1>2, <1>3, <1>5, <2>2, <3>1, <3>2
  <2> QED BY <2>1, <2>2
<1>9. TreeKept(m, g)
  BY <1>8 DEF TreeKept
<1>10. OthersGone(m, g, E)
  <2>1. ASSUME NEW j \in Ids \ E, g.tree[j] # NoChunk, NEW x \in CopiesOf(m, j) \ {g.tree[j]}
        PROVE  Newer(m, g.tree[j], x)
    <3>1. CASE j = i
      BY <1>2, <1>3, <1>5, <2>1, <3>1
    <3>2. CASE j # i
      <4>1. j \notin D /\ x \in CopiesOf(n, j) /\ f.tree[j] \in CopiesOf(n, j)
        BY <1>1, <1>3, <1>5, <2>1, <3>2 DEF TreeKept
      <4>2. Newer(n, f.tree[j], x)
        BY <1>1, <1>5, <2>1, <3>2, <4>1 DEF OthersGone
      <4> QED BY <1>2, <1>3, <1>5, <3>2, <4>1, <4>2
    <3> QED BY <3>1, <3>2
  <2>2. ASSUME NEW j \in Ids \ E, g.tree[j] = NoChunk, NEW x \in CopiesOf(m, j)
        PROVE  \E h \in Cutting(m, top) : Cuts(m, h, x)
    <3>1. j # i /\ f.tree[j] = NoChunk /\ j \notin D /\ x \in CopiesOf(n, j)
      BY <1>3, <1>4, <1>5, <2>2
    <3>2. PICK h \in Cutting(n, top) : Cuts(n, h, x)
      BY <1>1, <3>1 DEF OthersGone
    <3> QED BY <1>2, <1>3, <3>1, <3>2
  <2> QED BY <2>1, <2>2 DEF OthersGone
<1>11. ContentIs(m, g, E, u)
  <2>1. \A j \in Ids : f.tree[j] # NoChunk => m[f.tree[j]] = n[f.tree[j]]
    BY <1>1, <1>2, <1>3 DEF TreeKept
  <2> QED BY <1>1, <1>4, <1>5, <2>1 DEF ContentIs
<1>12. SizeAbove(m, g, E)
  <2>1. CASE \A j \in Ids : j > f.stored_size => j \in D
    BY <2>1 DEF SizeAbove, Ids
  <2>2. CASE /\ n[top].size <= f.stored_size
             /\ \A x \in OfKind(n, "data") : Newer(n, x, top) => n[x].id <= f.stored_size
    <3>1. m[top] = n[top] /\ n[top].size \in Int
      BY <1>1, <1>2, KindParts, LogAssumption DEF HdrNewest, Appended
    <3>2. ASSUME NEW x \in OfKind(m, "data"), Newer(m, x, top)
          PROVE  m[x].id <= g.stored_size
      <4>1. CASE x = c
        BY <4>1
      <4>2. CASE x # c
        <5>1. x \in OfKind(n, "data") /\ top \in OfKind(n, "hdr") /\ m[x].id = n[x].id
          BY <1>1, <1>2, <4>2 DEF HdrNewest
        <5>2. n[x].id \in Int /\ n[x].id <= f.stored_size
          BY <1>2, <2>2, <3>2, <4>2, <5>1, KindParts DEF Ids, Appended
        <5> QED BY <5>1, <5>2
      <4> QED BY <4>1, <4>2
    <3> QED BY <2>2, <3>1, <3>2 DEF SizeAbove
  <2> QED BY <1>1, <2>1, <2>2 DEF SizeAbove
<1>13. ASSUME NEW j \in Ids, Settled(n, f, D, j)
       PROVE  Settled(m, g, E, j)
  <2>1. CASE j = i
    BY <1>4, <1>5, <2>1 DEF Settled
  <2>2. CASE j # i
    <3>1. Buried(n, j) => Buried(m, j)
      BY <1>2, <1>3, <2>2 DEF Buried
    <3> QED BY <1>5, <1>13, <2>2, <3>1 DEF Settled
  <2> QED BY <2>1, <2>2
<1>14. ASSUME SizeBelow(n, f, D), g.stored_size \in {f.stored_size, i}
       PROVE  SizeBelow(m, g, E)
  <2>1. top \in OfKind(n, "hdr") /\ m[top] = n[top]
    BY <1>1, <1>2 DEF HdrNewest
  <2>2. CASE g.stored_size = i
    BY <1>2, <1>4, <1>5, <2>1, <2>2 DEF SizeBelow
  <2>3. CASE g.stored_size = f.stored_size /\ f.stored_size # i
    <3>1. ASSUME f.stored_size \in Ids, f.tree[f.stored_size] # NoChunk,
                 Newer(n, f.tree[f.stored_size], top)
          PROVE  Newer(m, f.tree[f.stored_size], top)
      <4>1. f.tree[f.stored_size] \in OfKind(n, "data")
        BY <1>1, <1>3, <3>1 DEF TreeKept
      <4> QED BY <1>2, <2>1, <3>1, <4>1
    <3> QED BY <1>5, <1>14, <2>1, <2>3, <3>1 DEF SizeBelow
  <2> QED BY <1>14, <2>2, <2>3
<1> QED BY <1>7, <1>9, <1>10, <1>11, <1>12, <1>13, <1>14 DEF FileSound


\* Header c with the size of the file takes the place of the newest, and settles
\* what was in doubt beyond that size.
HdrPlaced(m, c, f, g, D, E, t, u) ==
    /\ m[c].kind = "hdr" /\ m[c].size = f.stored_size /\ f.stored_size \in Int
    /\ g.hdr_chunk = c /\ g.tree = f.tree /\ g.stored_size = f.stored_size
    /\ E \subseteq D /\ \A i \in D \ E : i > f.stored_size
    /\ \A i \in Ids : /\ i \in D \ E => u[i] = Hole
                      /\ i \notin D => u[i] = t[i]

\* So does a header, and a shrink header settles every chunk of the file.
LEMMA HdrSound ==
    ASSUME NEW n, NEW m, NEW c, Appended(n, m, c),
           NEW f, NEW g, NEW D, NEW E, NEW t, NEW u, FileSound(n, f, D, t),
           SettledTo(n, f, D, f.stored_size), HdrPlaced(m, c, f, g, D, E, t, u)
    PROVE  /\ FileSound(m, g, E, u) /\ SizeBelow(m, g, E)
           /\ \A j \in Ids : Settled(n, f, D, j) /\ j \notin D \ E => Settled(m, g, E, j)
           /\ m[c].is_shrink => \A j \in Ids : Settled(m, g, E, j)
<1>0. /\ m[c].kind = "hdr" /\ m[c].size = f.stored_size /\ f.stored_size \in Int
      /\ g.hdr_chunk = c /\ g.tree = f.tree /\ g.stored_size = f.stored_size
      /\ E \subseteq D /\ \A i \in D \ E : i > f.stored_size
      /\ \A i \in Ids : /\ i \in D \ E => u[i] = Hole
                        /\ i \notin D => u[i] = t[i]
  BY DEF HdrPlaced
<1> USE <1>0
<1>1. /\ HdrNewest(n, f) /\ TreeKept(n, f) /\ OthersGone(n, f, D)
      /\ ContentIs(n, f, D, t)
  BY DEF FileSound
<1>2. /\ \A k \in {"data", "hdr"} : \A x :
            x \in OfKind(m, k) <=> x \in OfKind(n, k) \/ (x = c /\ m[c].kind = k)
      /\ \A k \in {"data", "hdr"} : \A x \in OfKind(n, k) :
            x \in Chunks /\ x # c /\ m[x] = n[x] /\ Newer(m, c, x) /\ ~Newer(m, x, c)
      /\ \A a, b \in Chunks \ {c} : Newer(m, a, b) <=> Newer(n, a, b)
      /\ \A h, x \in Chunks \ {c} : Cuts(m, h, x) <=> Cuts(n, h, x)
      /\ ~Newer(m, c, c)
  BY AppendedIs
<1>3. /\ \A j, x : x \in CopiesOf(m, j) <=> x \in CopiesOf(n, j)
      /\ \A j, x : x \in CopiesOf(n, j) => x \in OfKind(n, "data") /\ m[x] = n[x] /\ n[x].id = j
      /\ \A x : x \in OfKind(m, "data") <=> x \in OfKind(n, "data")
      /\ \A h \in Shrinks(n) : h \in OfKind(n, "hdr") /\ h \in Shrinks(m)
                                /\ h \in Cutting(n, f.hdr_chunk) /\ h \in Cutting(m, c)
      /\ \A h \in Cutting(m, c) : h = c \/ h \in Shrinks(n)
      /\ c \in Cutting(m, c)
      /\ m[c].is_shrink => c \in Shrinks(m)
  BY <1>2 DEF Shrinks, Cutting, CopiesOf
<1>4. HdrNewest(m, g)
  BY <1>2 DEF HdrNewest
<1>5. ASSUME NEW i \in Ids, f.tree[i] # NoChunk
      PROVE  /\ i <= f.stored_size /\ f.tree[i] \in CopiesOf(m, i)
             /\ m[f.tree[i]] = n[f.tree[i]]
             /\ \A h \in Cutting(m, c) : ~Cuts(m, h, f.tree[i])
  <2>1. /\ i <= f.stored_size /\ f.tree[i] \in CopiesOf(n, i)
        /\ \A h \in Cutting(n, f.hdr_chunk) : ~Cuts(n, h, f.tree[i])
    BY <1>1, <1>5 DEF TreeKept
  <2>2. ~Cuts(m, c, f.tree[i])
    BY <1>3, <2>1 DEF Cuts, Ids
  <2> QED BY <1>2, <1>3, <2>1, <2>2
<1>6. TreeKept(m, g)
  BY <1>5 DEF TreeKept
<1>7. OthersGone(m, g, E)
  <2>1. ASSUME NEW i \in Ids \ E, f.tree[i] # NoChunk, NEW x \in CopiesOf(m, i) \ {f.tree[i]}
        PROVE  Newer(m, f.tree[i], x)
    <3>1. i \notin D /\ f.tree[i] \in CopiesOf(n, i)
      BY <1>1, <2>1 DEF TreeKept, Ids
    <3>2. Newer(n, f.tree[i], x)
      BY <1>1, <1>3, <2>1, <3>1 DEF OthersGone
    <3> QED BY <1>2, <1>3, <2>1, <3>1, <3>2
  <2>2. ASSUME NEW i \in Ids \ E, f.tree[i] = NoChunk, NEW x \in CopiesOf(m, i)
        PROVE  \E h \in Cutting(m, c) : Cuts(m, h, x)
    <3>1. CASE i > f.stored_size
      BY <1>2, <1>3, <2>2, <3>1 DEF Cuts
    <3>2. CASE ~(i > f.stored_size)
      <4>1. Buried(n, i)
        BY <2>2, <3>2 DEF SettledTo, Settled, Ids
      <4>2. PICK h \in Shrinks(n) : Cuts(n, h, x)
        BY <1>3, <2>2, <4>1 DEF Buried
      <4> QED BY <1>2, <1>3, <2>2, <4>2
    <3> QED BY <3>1, <3>2
  <2> QED BY <2>1, <2>2 DEF OthersGone
<1>8. ContentIs(m, g, E, u)
  <2>1. ASSUME NEW i \in Ids \ E
        PROVE  /\ f.tree[i] # NoChunk => u[i] = m[f.tree[i]].val
               /\ f.tree[i] = NoChunk => u[i] = Hole
    <3>1. CASE i \in D
      <4>1. f.tree[i] = NoChunk
        BY <1>5, <2>1, <3>1 DEF Ids
      <4>2. u[i] = Hole
        BY <1>0, <2>1, <3>1
      <4> QED BY <4>1, <4>2
    <3>2. CASE i \notin D
      BY <1>1, <1>5, <2>1, <3>2 DEF ContentIs
    <3> QED BY <3>1, <3>2
  <2> QED BY <2>1 DEF ContentIs
<1>9. SizeAbove(m, g, E) /\ SizeBelow(m, g, E)
  <2>1. \A x \in OfKind(m, "data") : ~Newer(m, x, c)
    BY <1>2, <1>3
  <2> QED BY <2>1 DEF SizeAbove, SizeBelow
<1>10. ASSUME NEW j \in Ids, Settled(n, f, D, j), j \notin D \ E
       PROVE  Settled(m, g, E, j)
  <2>1. Buried(n, j) => Buried(m, j)
    BY <1>2, <1>3 DEF Buried
  <2> QED BY <1>10, <2>1 DEF Settled
<1>11. ASSUME m[c].is_shrink, NEW j \in Ids
       PROVE  Settled(m, g, E, j)
  <2>1. CASE j > f.stored_size
    <3>1. Buried(m, j)
      BY <1>2, <1>3, <1>11, <2>1 DEF Buried, Cuts
    <3> QED BY <3>1 DEF Settled
  <2>2. CASE ~(j > f.stored_size)
    BY <1>10, <2>2 DEF SettledTo, Ids
  <2> QED BY <2>1, <2>2
<1> QED BY <1>4, <1>6, <1>7, <1>8, <1>9, <1>10, <1>11 DEF FileSound


-----------------------------------------------------------------------------
(* What the scan finds.                                                    *)

\* The chunks it keeps, one of each id that is not cut off, and the size it
\* comes to.
LEMMA KeptIs ==
    ASSUME NEW n, FlashInv(n), NEW top, top \in OfKind(n, "hdr"),
           NEW K, K = Kept(n, Cutting(n, top)), NEW tree, tree = TreeOf(n, K),
           NEW i \in Ids
    PROVE  /\ tree[i] # NoChunk =>
                /\ tree[i] \in K /\ tree[i] \in CopiesOf(n, i)
                /\ \A h \in Cutting(n, top) : ~Cuts(n, h, tree[i])
                /\ \A c \in CopiesOf(n, i) \ {tree[i]} : Newer(n, tree[i], c)
           /\ tree[i] = NoChunk =>
                \A c \in CopiesOf(n, i) : \E h \in Cutting(n, top) : Cuts(n, h, c)
<1>1. /\ \A c \in OfKind(n, "data") : c \in Chunks /\ Written(n, c) /\ n[c].id \in Ids
      /\ \A h \in OfKind(n, "hdr") : h \in Chunks /\ Written(n, h) /\ n[h].size \in 0 .. MaxId
  BY KindParts
<1>2. \A c : c \in K <=>
        /\ c \in OfKind(n, "data")
        /\ \A h \in Cutting(n, top) : Newer(n, h, c) => n[c].id <= n[h].size
        /\ \A d \in OfKind(n, "data") \ {c} : n[d].id = n[c].id => Newer(n, c, d)
  BY DEF Kept
<1>3. \A h \in Cutting(n, top) : h \in OfKind(n, "hdr")
  BY DEF Cutting
<1>4. \A c \in K, h \in Cutting(n, top) : ~Cuts(n, h, c)
  <2> TAKE c \in K, h \in Cutting(n, top)
  <2>1. n[c].id \in Int /\ n[h].size \in Int
    BY <1>1, <1>2, <1>3, LogAssumption DEF Ids
  <2> QED BY <1>2, <2>1 DEF Cuts
<1>5. \A c \in K : c # NoChunk
  <2> TAKE c \in K
  <2>1. c \in Chunks
    BY <1>1, <1>2
  <2> QED BY <2>1, ChunkParts DEF NoChunk, Blocks
<1>6. \/ tree[i] \in K /\ n[tree[i]].id = i
      \/ tree[i] = NoChunk /\ ~\E c \in K : n[c].id = i
  BY DEF TreeOf
<1>7. ASSUME tree[i] # NoChunk
      PROVE  /\ tree[i] \in K /\ tree[i] \in CopiesOf(n, i)
             /\ \A h \in Cutting(n, top) : ~Cuts(n, h, tree[i])
             /\ \A c \in CopiesOf(n, i) \ {tree[i]} : Newer(n, tree[i], c)
  BY <1>2, <1>4, <1>6, <1>7 DEF CopiesOf
<1>8. ASSUME tree[i] = NoChunk, NEW c \in CopiesOf(n, i)
      PROVE  \E h \in Cutting(n, top) : Cuts(n, h, c)
  <2> DEFINE S == CopiesOf(n, i)
  <2>1. /\ S \in SUBSET Chunks /\ S # {} /\ \A x \in S : Written(n, x) /\ n[x].id = i
        /\ \A x : x \in S <=> x \in OfKind(n, "data") /\ n[x].id = i
    BY <1>1, <1>8 DEF CopiesOf
  <2> HIDE DEF S
  <2>2. PICK x \in S : \A g \in S \ {x} : Newer(n, x, g)
    BY <2>1, NewestIs
  <2>3. x \notin K
    BY <1>5, <1>6, <1>8, <2>1
  <2>4. \A d \in OfKind(n, "data") \ {x} : n[d].id = n[x].id => Newer(n, x, d)
    BY <2>1, <2>2
  <2>5. PICK h \in Cutting(n, top) : Newer(n, h, x) /\ ~(n[x].id <= n[h].size)
    BY <1>2, <2>1, <2>3, <2>4
  <2>6. n[h].size < n[x].id /\ n[c].id = n[x].id
    <3>1. n[x].id \in Int /\ n[h].size \in Int
      BY <1>1, <1>3, <2>1, LogAssumption DEF Ids
    <3> QED BY <1>8, <2>1, <2>5, <3>1 DEF CopiesOf
  <2>7. Newer(n, h, c)
    <3>1. CASE c = x
      BY <2>5, <3>1
    <3>2. CASE c # x
      <4>1. c \in S /\ Newer(n, x, c)
        BY <1>8, <2>2, <3>2 DEF S
      <4> QED BY <1>1, <1>3, <2>1, <2>5, <4>1, NewerOrder
    <3> QED BY <3>1, <3>2
  <2> QED BY <2>6, <2>7 DEF Cuts
<1> QED BY <1>7, <1>8

\* The size is the largest of what the header and the data after it say.
LEMMA SizeOfIs ==
    ASSUME NEW n, FlashInv(n), NEW top, top \in OfKind(n, "hdr"),
           NEW K, K = Kept(n, Cutting(n, top)), NEW s, s = SizeOf(n, K, top)
    PROVE  /\ s \in 0 .. MaxId
           /\ n[top].size <= s
           /\ \A c \in K : Newer(n, c, top) => n[c].id <= s
           /\ s = n[top].size \/ \E c \in K : Newer(n, c, top) /\ n[c].id = s
<1> DEFINE ends == {n[top].size} \cup {n[c].id : c \in {x \in K : Newer(n, x, top)}}
<1>1. ends \in SUBSET (0 .. MaxId) /\ ends # {}
  <2>1. \A c \in K : c \in OfKind(n, "data")
    BY DEF Kept
  <2>2. \A c \in K : n[c].id \in 0 .. MaxId
    BY <2>1, KindParts, LogAssumption DEF Ids
  <2>3. n[top].size \in 0 .. MaxId
    BY KindParts
  <2> QED BY <2>2, <2>3
<1>2. s = CHOOSE e \in ends : \A m \in ends : m <= e
  BY DEF SizeOf
<1>3. /\ n[top].size \in ends
      /\ \A c \in K : Newer(n, c, top) => n[c].id \in ends
      /\ \A e \in ends : e = n[top].size \/ \E c \in K : Newer(n, c, top) /\ n[c].id = e
  OBVIOUS
<1> HIDE DEF ends
<1>4. ends \in SUBSET Nat /\ MaxId \in Nat /\ \A x \in ends : x <= MaxId
  BY <1>1, LogAssumption
<1>5. \E e \in ends : \A m \in ends : m <= e
  BY <1>1, <1>4, GreatestNat
<1>6. s \in ends /\ \A m \in ends : m <= s
  BY <1>2, <1>5
<1> QED BY <1>1, <1>3, <1>6

\* What it finds is sound, with no chunk in doubt.
LEMMA FoundSound ==
    ASSUME NEW n, FlashInv(n), NEW f, f = FoundFile(n)
    PROVE  /\ f \in File /\ FileSound(n, f, {}, FoundContent(n)) /\ SizeBelow(n, f, {})
           /\ f.file_size = f.stored_size
           /\ FoundContent(n) \in [Ids -> Data \cup {Hole}]
<1> DEFINE top == FoundHdr(n)
           K == Kept(n, Cutting(n, top))
           tree == TreeOf(n, K)
           s == SizeOf(n, K, top)
<1>1. f.tree = tree /\ f.hdr_chunk = top /\ f.stored_size = s /\ f.file_size = s
  BY DEF FoundFile
<1>2. f \in File
  BY FoundFileIs
<1>3. HdrNewest(n, f)
  <2> DEFINE S == OfKind(n, "hdr")
  <2>1. S \in SUBSET Chunks /\ S # {} /\ \A c \in S : Written(n, c)
    BY KindParts DEF FlashInv
  <2> HIDE DEF S
  <2>2. \E h \in S : \A g \in S \ {h} : Newer(n, h, g)
    BY <2>1, NewestIs
  <2>3. top \in S /\ \A g \in S \ {top} : Newer(n, top, g)
    BY <2>2 DEF FoundHdr, S
  <2> QED BY <1>1, <2>3 DEF HdrNewest, S
<1>4. top \in OfKind(n, "hdr")
  BY <1>1, <1>3 DEF HdrNewest
<1> HIDE DEF top
<1>5. \A i \in Ids :
        /\ tree[i] # NoChunk =>
             /\ tree[i] \in K /\ tree[i] \in CopiesOf(n, i)
             /\ \A h \in Cutting(n, top) : ~Cuts(n, h, tree[i])
             /\ \A c \in CopiesOf(n, i) \ {tree[i]} : Newer(n, tree[i], c)
        /\ tree[i] = NoChunk =>
             \A c \in CopiesOf(n, i) : \E h \in Cutting(n, top) : Cuts(n, h, c)
  BY <1>4, KeptIs
<1>6. /\ s \in 0 .. MaxId /\ n[top].size <= s
      /\ \A c \in K : Newer(n, c, top) => n[c].id <= s
      /\ s = n[top].size \/ \E c \in K : Newer(n, c, top) /\ n[c].id = s
  BY <1>4, SizeOfIs
<1>7. \A c \in K : c \in OfKind(n, "data") /\ n[c].id \in Ids /\ tree[n[c].id] = c
  <2> TAKE c \in K
  <2>1. c \in OfKind(n, "data") /\ n[c].id \in Ids
    BY KindParts DEF Kept
  <2>2. tree[n[c].id] # NoChunk
    <3>1. \E x \in K : n[x].id = n[c].id
      OBVIOUS
    <3>2. tree[n[c].id] = CHOOSE x \in K : n[x].id = n[c].id
      BY <2>1, <3>1 DEF TreeOf
    <3>3. tree[n[c].id] \in K
      BY <3>1, <3>2
    <3>4. tree[n[c].id] \in Chunks
      BY <3>3, KindParts DEF Kept
    <3> QED BY <3>4, ChunkParts DEF NoChunk, Blocks
  <2>3. /\ tree[n[c].id] \in OfKind(n, "data") /\ n[tree[n[c].id]].id = n[c].id
        /\ tree[n[c].id] \in K
    BY <1>5, <2>1, <2>2 DEF CopiesOf
  <2>4. tree[n[c].id] # c => Newer(n, c, tree[n[c].id]) /\ Newer(n, tree[n[c].id], c)
    BY <2>1, <2>3 DEF Kept
  <2> QED BY <2>1, <2>3, <2>4, KindParts, NewerOrder
<1> HIDE DEF K, s, tree
<1>8. \A c \in OfKind(n, "data") : Newer(n, c, top) => n[c].id <= s
  <2> SUFFICES ASSUME NEW c \in OfKind(n, "data"), Newer(n, c, top)
               PROVE  n[c].id <= s
    OBVIOUS
  <2> DEFINE i == n[c].id
  <2>1. i \in Ids /\ c \in CopiesOf(n, i) /\ c \in Chunks /\ Written(n, c)
    BY KindParts DEF CopiesOf
  <2>2. \A h \in Cutting(n, top) : h \in Chunks /\ Written(n, h) /\ ~Newer(n, h, c)
    <3> TAKE h \in Cutting(n, top)
    <3>1. h \in OfKind(n, "hdr")
      BY DEF Cutting
    <3>2. h = top \/ Newer(n, top, h)
      BY <1>1, <1>3, <3>1 DEF HdrNewest
    <3>3. h \in Chunks /\ Written(n, h) /\ top \in Chunks /\ Written(n, top)
      BY <1>4, <3>1, KindParts
    <3>4. ~Newer(n, top, c)
      BY <2>1, <3>3, NewerOrder
    <3> QED BY <2>1, <3>2, <3>3, <3>4, NewerOrder
  <2>3. tree[i] # NoChunk
    BY <1>5, <2>1, <2>2 DEF Cuts
  <2>4. tree[i] \in K /\ tree[i] \in CopiesOf(n, i)
    BY <1>5, <2>1, <2>3
  <2>5. Newer(n, tree[i], top)
    <3>1. tree[i] = c \/ Newer(n, tree[i], c)
      BY <1>5, <2>1, <2>3
    <3>2. tree[i] \in Chunks /\ Written(n, tree[i]) /\ top \in Chunks /\ Written(n, top)
      BY <1>4, <2>4, KindParts DEF CopiesOf
    <3> QED BY <2>1, <3>1, <3>2, NewerOrder
  <2> QED BY <1>6, <2>4, <2>5 DEF CopiesOf
<1>9. TreeKept(n, f)
  <2> SUFFICES ASSUME NEW i \in Ids, tree[i] # NoChunk
               PROVE  i <= s
    BY <1>1, <1>5 DEF TreeKept
  <2>1. /\ tree[i] \in OfKind(n, "data") /\ n[tree[i]].id = i
        /\ top \in Cutting(n, top) /\ ~Cuts(n, top, tree[i])
    BY <1>4, <1>5 DEF CopiesOf, Cutting
  <2>2. CASE Newer(n, top, tree[i])
    <3>1. ~(n[top].size < i) /\ n[top].size \in Int
      BY <1>4, <2>1, <2>2, KindParts, LogAssumption DEF Cuts
    <3> QED BY <1>6, <3>1, LogAssumption DEF Ids
  <2>3. CASE ~Newer(n, top, tree[i])
    <3>1. top # tree[i]
      BY <1>4, <2>1 DEF OfKind
    <3>2. Newer(n, tree[i], top)
      BY <1>4, <2>1, <2>3, <3>1, KindParts, NewerOrder
    <3> QED BY <1>8, <2>1, <3>2
  <2> QED BY <2>2, <2>3
<1>10. OthersGone(n, f, {})
  BY <1>1, <1>5 DEF OthersGone
<1>11. /\ FoundContent(n) = [i \in Ids |-> IF tree[i] = NoChunk THEN Hole ELSE n[tree[i]].val]
       /\ \A i \in Ids : tree[i] # NoChunk => n[tree[i]].val \in Data
  <2>1. \A i \in Ids : tree[i] # NoChunk => tree[i] \in OfKind(n, "data")
    BY <1>5 DEF CopiesOf
  <2> QED BY <1>1, <2>1, KindParts DEF FoundContent
<1>12. ContentIs(n, f, {}, FoundContent(n)) /\ FoundContent(n) \in [Ids -> Data \cup {Hole}]
  BY <1>1, <1>11 DEF ContentIs
<1>13. SizeAbove(n, f, {})
  BY <1>1, <1>6, <1>8 DEF SizeAbove
<1>14. SizeBelow(n, f, {})
  <2>1. CASE s = n[top].size
    BY <1>1, <1>6, <2>1, LogAssumption DEF SizeBelow
  <2>2. ASSUME NEW c \in K, Newer(n, c, top), n[c].id = s
        PROVE  SizeBelow(n, f, {})
    <3>1. s \in Ids /\ tree[s] = c /\ c \in Chunks
      BY <1>7, <2>2, KindParts
    <3>2. c # NoChunk
      BY <3>1, ChunkParts DEF NoChunk, Blocks
    <3> QED BY <1>1, <2>2, <3>1, <3>2 DEF SizeBelow
  <2> QED BY <1>6, <2>1, <2>2
<1> QED BY <1>1, <1>2, <1>3, <1>9, <1>10, <1>12, <1>13, <1>14 DEF FileSound


\* There is only one such file.
LEMMA SoundUnique ==
    ASSUME NEW n, FlashInv(n), NEW f, NEW D, NEW t, FileSound(n, f, D, t),
           NEW g, NEW E, NEW u, FileSound(n, g, E, u)
    PROVE  /\ f.hdr_chunk = g.hdr_chunk
           /\ \A i \in Ids \ (D \cup E) : f.tree[i] = g.tree[i] /\ t[i] = u[i]
<1>1. /\ HdrNewest(n, f) /\ TreeKept(n, f) /\ OthersGone(n, f, D) /\ ContentIs(n, f, D, t)
      /\ HdrNewest(n, g) /\ TreeKept(n, g) /\ OthersGone(n, g, E) /\ ContentIs(n, g, E, u)
  BY DEF FileSound
<1>2. f.hdr_chunk = g.hdr_chunk
  BY <1>1, KindParts, NewerOrder DEF HdrNewest
<1>3. ASSUME NEW i \in Ids \ (D \cup E)
      PROVE  f.tree[i] = g.tree[i]
  <2>1. CASE f.tree[i] # NoChunk /\ g.tree[i] # NoChunk
    <3>1. f.tree[i] \in CopiesOf(n, i) /\ g.tree[i] \in CopiesOf(n, i)
      BY <1>1, <2>1 DEF TreeKept
    <3>2. f.tree[i] # g.tree[i] => Newer(n, f.tree[i], g.tree[i]) /\ Newer(n, g.tree[i], f.tree[i])
      BY <1>1, <2>1, <3>1 DEF OthersGone
    <3> QED BY <3>1, <3>2, KindParts, NewerOrder DEF CopiesOf
  <2>2. CASE f.tree[i] # NoChunk /\ g.tree[i] = NoChunk
    BY <1>1, <1>2, <2>2 DEF TreeKept, OthersGone
  <2>3. CASE f.tree[i] = NoChunk /\ g.tree[i] # NoChunk
    BY <1>1, <1>2, <2>3 DEF TreeKept, OthersGone
  <2> QED BY <2>1, <2>2, <2>3
<1>4. ASSUME NEW i \in Ids \ (D \cup E)
      PROVE  t[i] = u[i]
  <2>1. f.tree[i] = g.tree[i]
    BY <1>3
  <2> QED BY <1>1, <2>1 DEF ContentIs
<1> QED BY <1>2, <1>3, <1>4

\* No size above it, ...
LEMMA SizeAtMost ==
    ASSUME NEW n, FlashInv(n), NEW f \in File, NEW D, NEW t, FileSound(n, f, D, t),
           NEW g \in File, NEW u, FileSound(n, g, {}, u), SizeBelow(n, g, {})
    PROVE  \/ g.stored_size <= f.stored_size
           \/ \A i \in Ids : i > f.stored_size => i \in D
<1>1. /\ f.hdr_chunk = g.hdr_chunk /\ SizeAbove(n, f, D) /\ TreeKept(n, g) /\ HdrNewest(n, f)
  BY SoundUnique DEF FileSound
<1>2. f.stored_size \in 0 .. MaxId /\ g.stored_size \in 0 .. MaxId
  BY DEF File
<1> SUFFICES ASSUME n[f.hdr_chunk].size <= f.stored_size,
                    \A c \in OfKind(n, "data") :
                        Newer(n, c, f.hdr_chunk) => n[c].id <= f.stored_size
             PROVE  g.stored_size <= f.stored_size
  BY <1>1 DEF SizeAbove
<1>3. CASE g.stored_size <= n[g.hdr_chunk].size
  <2>1. n[f.hdr_chunk].size \in 0 .. MaxId
    BY <1>1, KindParts DEF HdrNewest
  <2> QED BY <1>1, <1>2, <1>3, <2>1, LogAssumption
<1>4. CASE /\ g.stored_size \in Ids /\ g.tree[g.stored_size] # NoChunk
           /\ Newer(n, g.tree[g.stored_size], g.hdr_chunk)
  <2>1. g.tree[g.stored_size] \in CopiesOf(n, g.stored_size)
    BY <1>1, <1>4 DEF TreeKept
  <2> QED BY <1>1, <1>4, <2>1 DEF CopiesOf
<1> QED BY <1>3, <1>4 DEF SizeBelow

\* ... and none below.
LEMMA SizeAtLeast ==
    ASSUME NEW n, FlashInv(n), NEW f \in File, NEW D, NEW t, FileSound(n, f, D, t),
           NEW g \in File, NEW u, FileSound(n, g, {}, u), SizeBelow(n, f, D)
    PROVE  f.stored_size <= g.stored_size \/ f.stored_size \in D
<1>1. /\ f.hdr_chunk = g.hdr_chunk /\ SizeAbove(n, g, {}) /\ TreeKept(n, f) /\ HdrNewest(n, f)
  BY SoundUnique DEF FileSound
<1>2. f.stored_size \in 0 .. MaxId /\ g.stored_size \in 0 .. MaxId
  BY DEF File
<1>3. CASE \A i \in Ids : ~(i > g.stored_size)
  BY <1>2, <1>3, LogAssumption DEF Ids
<1>4. CASE /\ n[g.hdr_chunk].size <= g.stored_size
           /\ \A c \in OfKind(n, "data") :
                 Newer(n, c, g.hdr_chunk) => n[c].id <= g.stored_size
  <2>1. CASE f.stored_size <= n[f.hdr_chunk].size
    <3>1. n[f.hdr_chunk].size \in 0 .. MaxId
      BY <1>1, KindParts DEF HdrNewest
    <3> QED BY <1>1, <1>2, <1>4, <2>1, <3>1, LogAssumption
  <2>2. CASE /\ f.stored_size \in Ids /\ f.tree[f.stored_size] # NoChunk
             /\ Newer(n, f.tree[f.stored_size], f.hdr_chunk)
    <3>1. f.tree[f.stored_size] \in CopiesOf(n, f.stored_size)
      BY <1>1, <2>2 DEF TreeKept
    <3> QED BY <1>1, <1>4, <2>2, <3>1 DEF CopiesOf
  <2> QED BY <2>1, <2>2 DEF SizeBelow
<1> QED BY <1>1, <1>3, <1>4 DEF SizeAbove


-----------------------------------------------------------------------------
(* The device, and the blocks it may erase.                                *)

\* A block that is not in use has no header.
LEMMA UnusedClear ==
    ASSUME NEW n, FlashInv(n), NEW d, FlashMatches(n, d),
           NEW b, d.bi[b].block_state \notin InUseStates
    PROVE  Clear(n, b)
<1> SUFFICES ASSUME NEW h \in Shrinks(n), h[1] = b
             PROVE  FALSE
  BY DEF Clear
<1>1. h \in Chunks /\ Written(n, h)
  BY KindParts DEF Shrinks
<1> QED BY <1>1 DEF FlashMatches

\* A block comes into use empty; one in use keeps its mark.
LEMMA GuardedOn ==
    ASSUME NEW n, FlashInv(n), NEW d, FlashMatches(n, d), NEW P, Guarded(n, d, P),
           NEW e, Moved(d, e)
    PROVE  Guarded(n, e, P)
<1>1. ASSUME NEW b \in Blocks, e.bi[b].block_state \in InUseStates, ~e.bi[b].has_shrink_hdr
      PROVE  Clear(n, b) \/ b \in P
  <2>1. CASE d.bi[b].block_state \in InUseStates
    BY <1>1, <2>1 DEF Moved, Guarded
  <2>2. CASE d.bi[b].block_state \notin InUseStates
    BY <2>2, UnusedClear
  <2> QED BY <2>1, <2>2
<1>2. /\ e.gc_block # NoBlock => Clear(n, e.gc_block)
      /\ e.gc_dirtiest # NoBlock => Clear(n, e.gc_dirtiest)
  BY DEF Moved, Guarded
<1> QED BY <1>1, <1>2 DEF Guarded

\* A shrink header is programmed into a block that is not to be collected; its
\* block is still to be marked.
LEMMA GuardedAppend ==
    ASSUME NEW n, NEW m, NEW c, Appended(n, m, c), NEW d, NEW P, Guarded(n, d, P),
           d.gc_block # c[1], d.gc_dirtiest # c[1],
           NEW Q, P \subseteq Q, m[c].kind = "hdr" /\ m[c].is_shrink => c[1] \in Q
    PROVE  Guarded(m, d, Q)
<1>1. ASSUME NEW b \in Blocks, Clear(n, b) \/ b \in P
      PROVE  Clear(m, b) \/ b \in Q
  BY <1>1, AppendedClear
<1>2. \A b : Clear(n, b) /\ b # c[1] => Clear(m, b)
  BY AppendedClear
<1> QED BY <1>1, <1>2 DEF Guarded

\* The device takes a page and the flash is programmed there; the blocks in Q are
\* to be marked.
LEMMA AppendStep ==
    ASSUME IInv, IInv', Up, Up', NEW d, Sane(d, InUse), FlashMatches(nand, d),
           d.alloc_block # NoBlock, NEW c, c = NextChunk(d), ~Written(nand, c),
           NEW q \in Record, q # Blank, Program(d, q),
           NEW P, Guarded(nand, d, P), NEW Q, P \subseteq Q,
           q.kind = "hdr" /\ q.is_shrink => c[1] \in Q
    PROVE  /\ Appended(nand, nand', c) /\ c[1] \in Blocks
           /\ nand'[c].kind = q.kind
           /\ q.kind = "data" => nand'[c].id = q.id /\ nand'[c].val = q.val
           /\ q.kind = "hdr" => nand'[c].size = q.size /\ nand'[c].is_shrink = q.is_shrink
           /\ Guarded(nand', dev', Q)
<1>1. FlashInv(nand) /\ FlashInv(nand') /\ InUse \in SUBSET Chunks
  BY InUseParts DEF IInv
<1>2. c \in Chunks /\ c \notin InUse /\ Written(nand', c)
  <2>1. c \in Chunks /\ c \notin InUse /\ nand'[c].kind = q.kind
    BY ProgramStep
  <2>2. q.kind # "blank" /\ Blank.kind = "blank"
    BY RecordParts DEF Blank
  <2>3. nand'[c].kind # "blank"
    BY <2>1, <2>2
  <2>4. nand'[c] # Blank
    BY <2>2, <2>3
  <2> QED BY <2>1, <2>4 DEF Written
<1>3. /\ dev' = mark_written(take_page(d), c[1])
      /\ nand' = [nand EXCEPT ![c] = [q EXCEPT !.seq = d.bi[c[1]].seq_number]]
  BY DEF Program
<1>4. /\ \A x \in Chunks \ {c} : nand'[x] = nand[x]
      /\ nand'[c] = [q EXCEPT !.seq = d.bi[c[1]].seq_number]
  <2>1. nand \in [Chunks -> Record]
    BY <1>1 DEF FlashInv
  <2> QED BY <1>2, <1>3, <2>1
<1>5. /\ nand'[c].kind = q.kind
      /\ q.kind = "data" => nand'[c].id = q.id /\ nand'[c].val = q.val
      /\ q.kind = "hdr" => nand'[c].size = q.size /\ nand'[c].is_shrink = q.is_shrink
  <2>1. CASE q \in [kind : {"data"}, id : Ids, val : Data, seq : Nat]
    BY <1>4, <2>1
  <2>2. CASE q \in [kind : {"hdr"}, size : 0 .. MaxId, is_shrink : BOOLEAN, seq : Nat]
    BY <1>4, <2>2
  <2> QED BY <2>1, <2>2 DEF Record
<1>6. /\ DevInv(d) /\ Owned(d, InUse) /\ Count(d, InUse, {}) /\ d \in Device
  BY DEF Sane, DevInv
<1>7. c[1] = d.alloc_block /\ c[2] = d.alloc_page /\ c[1] \in Blocks
  BY <1>2, ChunkParts DEF NextChunk
<1>8. d.bi[c[1]].seq_number = d.seq_number /\ d.seq_number \in Nat
  BY <1>6, <1>7, FieldTypes DEF DevInv, PointerInv
<1>9. ASSUME NEW x \in Chunks, Written(nand, x)
      PROVE  Newer(nand', c, x)
  <2>1. x # c /\ nand'[x] = nand[x] /\ Written(nand', x)
    BY <1>4, <1>9 DEF Written
  <2>2. /\ d.bi[x[1]].block_state \in InUseStates
        /\ nand[x].seq = d.bi[x[1]].seq_number
        /\ x[1] = d.alloc_block => x[2] < d.alloc_page
    BY <1>9 DEF FlashMatches
  <2>3. nand[x].seq \in 1 .. d.seq_number
    BY <1>6, <2>2, ChunkParts DEF DevInv, BlockInv
  <2>4. nand'[c].seq = d.seq_number
    <3>1. DOMAIN nand'[c] = DOMAIN q /\ "seq" \in DOMAIN q
      <4>1. CASE q \in [kind : {"data"}, id : Ids, val : Data, seq : Nat]
        BY <1>4, <4>1
      <4>2. CASE q \in [kind : {"hdr"}, size : 0 .. MaxId, is_shrink : BOOLEAN, seq : Nat]
        BY <1>4, <4>2
      <4> QED BY <4>1, <4>2 DEF Record
    <3> QED BY <1>4, <1>8, <3>1
  <2>5. CASE nand[x].seq = d.seq_number
    <3>1. x[1] = c[1]
      BY <1>1, <1>2, <2>1, <2>4, <2>5 DEF FlashInv
    <3> QED BY <1>7, <2>1, <2>2, <2>4, <2>5, <3>1 DEF Newer
  <2>6. CASE nand[x].seq # d.seq_number
    BY <1>8, <2>1, <2>3, <2>4, <2>6 DEF Newer
  <2> QED BY <2>5, <2>6
<1>10. Appended(nand, nand', c)
  <2>1. ~Written(nand, c)
    OBVIOUS
  <2> QED BY <1>1, <1>2, <1>4, <1>9, <2>1 DEF Appended
<1>11. Moved(d, dev')
  <2> DEFINE k == take_page(d)
             w == mark_written(k, c[1])
  <2>1. DevInv(k) /\ Moved(d, k) /\ NoneNew(d, k)
    BY <1>1, <1>2, <1>6, TakePageInv, TakePageCount
  <2> HIDE DEF k
  <2>2. k.bi[c[1]] \in BlockInfo /\ k \in Device
    BY <1>7, <2>1, FieldTypes DEF DevInv
  <2>3. Level(k, w)
    <3> DEFINE r == [k.bi[c[1]] EXCEPT !.skip_erased_check = TRUE]
    <3>1. /\ r.block_state = k.bi[c[1]].block_state
          /\ r.pages_in_use = k.bi[c[1]].pages_in_use
          /\ r.soft_del_pages = k.bi[c[1]].soft_del_pages
          /\ r.seq_number = k.bi[c[1]].seq_number
          /\ r.has_shrink_hdr = k.bi[c[1]].has_shrink_hdr
          /\ r \in BlockInfo
      BY <2>2 DEF BlockInfo
    <3>2. w = [k EXCEPT !.bi[c[1]] = r]
      BY DEF mark_written
    <3> HIDE DEF r, w
    <3> QED BY <1>7, <2>2, <3>1, <3>2, EntryLevel
  <2>4. w = dev' /\ dev' \in Device
    BY <1>3 DEF k, IInv
  <2> HIDE DEF w
  <2> QED BY <1>6, <2>1, <2>2, <2>3, <2>4, LevelKeeps, MovedOn
<1>12. dev'.gc_block # c[1] /\ dev'.gc_dirtiest # c[1]
  <2>1. d.bi[c[1]].block_state = "ALLOCATING"
    BY <1>6, <1>7 DEF DevInv, BlockInv
  <2>2. d.gc_block # c[1] /\ d.gc_dirtiest # c[1] /\ c[1] # NoBlock
    BY <1>6, <1>7, <2>1 DEF DevInv, PointerInv, Whole, Blocks, NoBlock
  <2> QED BY <1>11, <2>2 DEF Moved
<1>13. Guarded(nand', dev', Q)
  <2>1. Guarded(nand, dev', P)
    BY <1>1, <1>11, GuardedOn
  <2>2. nand'[c].kind = "hdr" /\ nand'[c].is_shrink => c[1] \in Q
    BY <1>5
  <2> QED BY <1>10, <1>12, <2>1, <2>2, GuardedAppend
<1> QED BY <1>5, <1>7, <1>10, <1>13

\* yaffs_alloc_chunk() finds a block to allocate from.
LEMMA AllocGuarded ==
    ASSUME NEW n, FlashInv(n), NEW k, NEW H, Sane(k, H), FlashMatches(n, k),
           NEW P, Guarded(n, k, P), NEW d, d = with_alloc_block(k)
    PROVE  Guarded(n, d, P)
<1>1. DevInv(k) /\ Count(k, H, {})
  BY DEF Sane
<1>2. Moved(k, d)
  BY <1>1, WithAllocCount
<1> QED BY <1>2, GuardedOn

-----------------------------------------------------------------------------
(* Erasing: only clear blocks go.                                          *)

\* yaffs_chunk_del() spares a block with a shrink header.
LEMMA DelErases ==
    ASSUME NEW d, DevInv(d), NEW c \in Chunks, c[2] \in d.chunk_bits[c[1]],
           NEW e, e = chunk_del(d, c, TRUE), NEW b \in Blocks,
           d.bi[b].block_state \in InUseStates, e.bi[b].block_state \notin InUseStates
    PROVE  ~d.bi[b].has_shrink_hdr
<1> DEFINE m == Discarded(d, c)
<1>1. d \in Device /\ c[1] \in Blocks
  BY ChunkParts DEF DevInv
<1>2. /\ m \in Device /\ SameStates(d, m)
      /\ e = m \/ e = block_became_dirty(m, c[1], TRUE)
  BY <1>1, ChunkDelIs
<1>3. Elsewhere(d, e, c[1])
  BY ChunkDelInv
<1>4. b = c[1]
  BY <1>3 DEF Elsewhere, SameElsewhere
<1>5. m.bi[b].has_shrink_hdr = d.bi[b].has_shrink_hdr
  <2> DEFINE u == update_oldest_dirty_seq(d, b)
             i == u.bi[b].pages_in_use - 1
             r == [u.bi[b] EXCEPT !.pages_in_use = i]
             f == [u.bi EXCEPT ![b] = r]
             k == u.n_free_chunks + 1
             g == [u.chunk_bits EXCEPT ![b] = u.chunk_bits[b] \ {c[2]}]
  <2>1. u \in Device /\ u.bi = d.bi
    BY <1>1, <1>4, UpdateOldestType, UpdateOldestEffect
  <2>2. u.bi[b] \in BlockInfo /\ u.bi \in [Blocks -> BlockInfo]
    BY <2>1, FieldTypes DEF Device
  <2>3. m = [u EXCEPT !.n_free_chunks = k, !.chunk_bits = g, !.bi = f]
    BY <1>4 DEF Discarded
  <2> HIDE DEF u, m, g, k
  <2>4. r.has_shrink_hdr = u.bi[b].has_shrink_hdr
    BY <2>2 DEF BlockInfo
  <2> HIDE DEF r
  <2>5. f[b] = r
    BY <2>2
  <2> HIDE DEF f
  <2>6. m.bi = f
    BY <2>1, <2>3 DEF Device
  <2> QED BY <2>1, <2>4, <2>5, <2>6
<1>6. e = IF /\ m.bi[b].pages_in_use = 0
             /\ ~m.bi[b].has_shrink_hdr
             /\ m.bi[b].block_state # "ALLOCATING"
          THEN block_became_dirty(m, b, TRUE) ELSE m
  BY <1>4 DEF chunk_del, Discarded
<1> HIDE DEF m
<1>7. CASE m.bi[b].has_shrink_hdr
  <2>1. e = m
    BY <1>6, <1>7
  <2> QED BY <1>2, <2>1 DEF SameStates
<1> QED BY <1>5, <1>7

\* The blocks that are not in use.
Unused(d) == {b \in Blocks : d.bi[b].block_state \notin InUseStates}

\* What the device does when it erases blocks, and the flash with it.
LEMMA GoneBlanked ==
    ASSUME NEW n, FlashInv(n), NEW d, FlashMatches(n, d), Healthy(d), DevInv(d),
           NEW e, Healthy(e), DevInv(e), NEW m, m = Erase(n, d, e),
           FlashInv(m), FlashMatches(m, e), NoneNew(d, e)
    PROVE  Blanked(n, m, Unused(e))
<1>1. d \in Device /\ e \in Device
  BY DEF DevInv
<1>2. \A x \in Blocks : x \in Erased(d, e) <=> /\ d.bi[x].block_state \in InUseStates
                                               /\ x \in Unused(e)
  <2>1. \A x \in Blocks : /\ d.bi[x].block_state \in BlockStates \ {"DEAD"}
                          /\ e.bi[x].block_state \in BlockStates \ {"DEAD"}
    BY <1>1, FieldTypes DEF Healthy
  <2> QED BY <2>1 DEF Erased, Unused, InUseStates, BlockStates
<1>3. ASSUME NEW c \in Chunks
      PROVE  /\ c[1] \in Unused(e) => ~Written(m, c)
             /\ c[1] \notin Unused(e) => m[c] = n[c]
  <2>1. c[1] \in Blocks
    BY ChunkParts
  <2>2. ASSUME c[1] \in Unused(e)
        PROVE  ~Written(m, c)
    BY <2>1, <2>2 DEF FlashMatches, Unused
  <2>3. ASSUME c[1] \notin Unused(e)
        PROVE  m[c] = n[c]
    BY <1>2, <2>1, <2>3 DEF Erase
  <2> QED BY <2>2, <2>3
<1> QED BY <1>3 DEF Blanked

\* ... after yaffs_chunk_del().
LEMMA DelGuarded ==
    ASSUME NEW n, FlashInv(n), NEW d, FlashMatches(n, d), NEW H \in SUBSET Chunks, Sane(d, H),
           NEW c \in H, NEW e, e = chunk_del(d, c, TRUE),
           NEW P, Guarded(n, d, P), \A b \in P : e.bi[b].block_state \in InUseStates
    PROVE  /\ \A b \in Unused(e) : Clear(n, b)
           /\ Guarded(n, e, P) /\ NoneNew(d, e)
<1>1. DevInv(d) /\ Owned(d, H) /\ Count(d, H, {}) /\ c \in Chunks /\ c[2] \in d.chunk_bits[c[1]]
  BY InUseBlocks DEF Sane
<1>2. Moved(d, e) /\ NoneNew(d, e)
  <2>1. Owned(d, H \cup {}) /\ {} \in SUBSET Chunks
    <3>1. H \cup {} = H
      OBVIOUS
    <3> QED BY <1>1, <3>1
  <2> QED BY <1>1, <2>1, ChunkDelCount
<1>3. ASSUME NEW b \in Unused(e)
      PROVE  Clear(n, b)
  <2>1. b \in Blocks /\ e.bi[b].block_state \notin InUseStates
    BY DEF Unused
  <2>2. CASE d.bi[b].block_state \in InUseStates
    <3>1. ~d.bi[b].has_shrink_hdr
      BY <1>1, <2>1, <2>2, DelErases
    <3> QED BY <2>1, <2>2, <3>1 DEF Guarded
  <2>3. CASE d.bi[b].block_state \notin InUseStates
    BY <2>3, UnusedClear
  <2> QED BY <2>2, <2>3
<1>4. Guarded(n, e, P)
  BY <1>2, GuardedOn
<1> QED BY <1>2, <1>3, <1>4

\* ... and at the head of yaffs_gc_block(), which changes no block but b.
LEMMA EntryGuarded ==
    ASSUME NEW n, FlashInv(n), NEW d, FlashMatches(n, d), NEW b \in Blocks,
           d.bi[b].block_state \in Whole, Clear(n, b), Guarded(n, d, {}),
           NEW e, Turned(d, e, b)
    PROVE  /\ \A x \in Unused(e) : Clear(n, x)
           /\ Guarded(n, e, {}) /\ NoneNew(d, e)
<1>0. /\ \A x \in Blocks \ {b} : e.bi[x] = d.bi[x]
      /\ e.gc_block \in {b, NoBlock} /\ e.gc_dirtiest \in {d.gc_dirtiest, NoBlock}
  BY DEF Turned
<1>1. NoneNew(d, e)
  BY <1>0 DEF NoneNew, Whole, InUseStates
<1>2. \A x \in Unused(e) : Clear(n, x)
  <2> TAKE x \in Unused(e)
  <2>1. CASE x = b
    BY <2>1
  <2>2. CASE x # b
    BY <1>0, <2>2, UnusedClear DEF Unused
  <2> QED BY <2>1, <2>2
<1>3. Guarded(n, e, {})
  <2>1. ASSUME NEW x \in Blocks, e.bi[x].block_state \in InUseStates, ~e.bi[x].has_shrink_hdr
        PROVE  Clear(n, x)
    <3>1. CASE x = b
      BY <3>1
    <3>2. CASE x # b
      BY <1>0, <2>1, <3>2 DEF Guarded
    <3> QED BY <3>1, <3>2
  <2>2. /\ e.gc_block # NoBlock => Clear(n, e.gc_block)
        /\ e.gc_dirtiest # NoBlock => Clear(n, e.gc_dirtiest)
    BY <1>0 DEF Guarded
  <2> QED BY <2>1, <2>2 DEF Guarded
<1> QED BY <1>1, <1>2, <1>3

\* Erasing clear blocks leaves the file as sound as it was.
LEMMA EraseSound ==
    ASSUME NEW n, FlashInv(n), NEW d, FlashMatches(n, d), Healthy(d), DevInv(d),
           NEW e, Healthy(e), DevInv(e), NEW m, m = Erase(n, d, e),
           FlashInv(m), FlashMatches(m, e), NoneNew(d, e),
           \A b \in Unused(e) : Clear(n, b), NEW P, Guarded(n, e, P),
           NEW f, NEW D, NEW t, FileSound(n, f, D, t),
           f.hdr_chunk \in Chunks, e.bi[f.hdr_chunk[1]].block_state \in InUseStates,
           \A i \in Ids : f.tree[i] # NoChunk =>
              f.tree[i] \in Chunks /\ e.bi[f.tree[i][1]].block_state \in InUseStates
    PROVE  /\ FileSound(m, f, D, t)
           /\ \A j \in Ids : Settled(n, f, D, j) => Settled(m, f, D, j)
           /\ SizeBelow(n, f, D) => SizeBelow(m, f, D)
           /\ Guarded(m, e, P)
<1> DEFINE B == Unused(e)
<1>1. Blanked(n, m, B)
  BY GoneBlanked
<1>2. /\ f.hdr_chunk[1] \notin B
      /\ \A i \in Ids : f.tree[i] # NoChunk => f.tree[i][1] \notin B
      /\ \A b \in B : Clear(n, b)
  BY DEF Unused
<1> HIDE DEF B
<1>3. /\ FileSound(m, f, D, t)
      /\ \A j \in Ids : Settled(n, f, D, j) => Settled(m, f, D, j)
      /\ \A b : Clear(n, b) => Clear(m, b)
      /\ SizeBelow(n, f, D) => SizeBelow(m, f, D)
  BY <1>1, <1>2, BlankedSound
<1>4. Guarded(m, e, P)
  BY <1>3 DEF Guarded
<1> QED BY <1>3, <1>4


\* A block newer than no block with discarded pages is clear: what a shrink
\* header in it cuts off elsewhere is still in use, or its block is dirty and older.
LEMMA NoOlderClear ==
    ASSUME NEW n, FlashInv(n), NEW d, FlashMatches(n, d), NEW H \in SUBSET Chunks, Sane(d, H),
           NEW f, TreeKept(n, f), HdrNewest(n, f),
           \A c \in H : c = f.hdr_chunk \/ \E i \in Ids : c = f.tree[i],
           NEW b \in Blocks, d.bi[b].block_state \in InUseStates,
           \A x \in Blocks : HasDiscarded(d, x) => ~Older(d, x, b)
    PROVE  Clear(n, b)
<1> SUFFICES ASSUME NEW h \in Shrinks(n), NEW c \in OfKind(n, "data"),
                    h[1] = b, Cuts(n, h, c), c[1] # b
             PROVE  FALSE
  BY DEF Clear
<1>1. /\ h \in OfKind(n, "hdr") /\ h \in Chunks /\ Written(n, h)
      /\ c \in Chunks /\ Written(n, c) /\ c[1] \in Blocks /\ c[2] \in Pages /\ c = <<c[1], c[2]>>
  BY KindParts, ChunkParts DEF Shrinks
<1>2. DevInv(d) /\ Owned(d, H) /\ Count(d, H, {}) /\ d \in Device
  BY DEF Sane, DevInv
<1>3. /\ d.bi[c[1]].block_state \in InUseStates
      /\ d.bi[c[1]].seq_number \in 1 .. d.seq_number /\ d.bi[b].seq_number \in 1 .. d.seq_number
      /\ d.seq_number \in Nat
  BY <1>1, <1>2, FieldTypes DEF FlashMatches, DevInv, BlockInv
<1>4. Older(d, c[1], b)
  <2>1. n[h].seq = d.bi[b].seq_number /\ n[c].seq = d.bi[c[1]].seq_number
    BY <1>1 DEF FlashMatches
  <2>2. n[h].seq # n[c].seq
    BY <1>1 DEF FlashInv
  <2> QED BY <1>3, <2>1, <2>2 DEF Cuts, Newer, Older
<1>5. c \notin H
  <2>1. c # f.hdr_chunk
    BY DEF HdrNewest, OfKind
  <2>2. ASSUME NEW i \in Ids, c = f.tree[i]
        PROVE  FALSE
    <3>1. f.tree[i] # NoChunk
      BY <1>1, <2>2 DEF NoChunk, Blocks
    <3>2. h \in Cutting(n, f.hdr_chunk)
      BY <1>1 DEF Cutting, Shrinks
    <3> QED BY <2>2, <3>1, <3>2 DEF TreeKept
  <2> QED BY <2>1, <2>2
<1>6. d.chunk_bits[c[1]] \in SUBSET Pages /\ c[2] \notin d.chunk_bits[c[1]]
  BY <1>1, <1>2, <1>5, FieldTypes DEF Owned
<1>7. d.bi[c[1]].block_state \in Whole
  <2>1. d.bi[c[1]].block_state # "ALLOCATING"
    <3> SUFFICES ASSUME d.bi[c[1]].block_state = "ALLOCATING"
                 PROVE  FALSE
      OBVIOUS
    <3>1. d.alloc_block = c[1] /\ d.alloc_block # NoBlock
      BY <1>1, <1>2 DEF DevInv, BlockInv, Blocks, NoBlock
    <3>2. d.bi[c[1]].seq_number = d.seq_number
      BY <1>2, <3>1 DEF DevInv, PointerInv
    <3> QED BY <1>3, <1>4, <3>2 DEF Older
  <2> QED BY <1>3, <2>1 DEF InUseStates, Whole
<1>8. PagesUsed(d, c[1]) < ChunksPerBlock
  <2> DEFINE S == d.chunk_bits[c[1]]
  <2>1. d.bi[c[1]].pages_in_use = Cardinality(S)
    BY <1>1, <1>2 DEF DevInv, BlockInv
  <2>2. d.bi[c[1]].soft_del_pages = 0
    <3>1. PagesOf({}, c[1]) = {}
      BY DEF PagesOf
    <3>2. d.bi[c[1]].soft_del_pages = Cardinality(PagesOf({}, c[1]))
      BY <1>1, <1>2 DEF Count, SoftCounted
    <3> QED BY <3>1, <3>2, FS_EmptySet
  <2>3. IsFiniteSet(Pages) /\ Cardinality(Pages) = ChunksPerBlock
    <3>1. 0 \in Int /\ ChunksPerBlock - 1 \in Int /\ ~(0 > ChunksPerBlock - 1)
      BY GeometryAssumption
    <3>2. IsFiniteSet(0 .. ChunksPerBlock - 1)
          /\ Cardinality(0 .. ChunksPerBlock - 1) = (ChunksPerBlock - 1) - 0 + 1
      BY <3>1, FS_Interval
    <3> QED BY <3>2, GeometryAssumption DEF Pages
  <2>4. S \subseteq Pages \ {c[2]} /\ IsFiniteSet(Pages \ {c[2]})
        /\ Cardinality(Pages \ {c[2]}) = ChunksPerBlock - 1
    <3>1. c[2] \in Pages
      BY <1>1
    <3>2. /\ IsFiniteSet(Pages \ {c[2]})
          /\ Cardinality(Pages \ {c[2]}) = IF c[2] \in Pages THEN Cardinality(Pages) - 1
                                           ELSE Cardinality(Pages)
      BY <2>3, FS_RemoveElement, Zenon
    <3> QED BY <1>6, <2>3, <3>1, <3>2
  <2>5. Cardinality(S) <= ChunksPerBlock - 1 /\ Cardinality(S) \in Nat
    BY <1>6, <2>4, FS_Subset, PagesFinite
  <2> HIDE DEF S
  <2> QED BY <2>1, <2>2, <2>5, GeometryAssumption DEF PagesUsed
<1> QED BY <1>1, <1>4, <1>7, <1>8 DEF HasDiscarded


-----------------------------------------------------------------------------
(* Garbage collection.                                                     *)

\* Before a write: no chunk is being replaced.
Busy == {"start", "collect", "copied", "program"}

\* A step that leaves the jobs, the sizes and what is in doubt alone.
LEMMA GcStepScan ==
    ASSUME UpInv, op.pc \in Busy, op'.pc \in Busy, op'.jobs = op.jobs,
           UNCHANGED <<content, doubt>>,
           file'.stored_size = file.stored_size, file'.file_size = file.file_size,
           FileSound(nand', file', doubt, content),
           \A j \in Ids : Settled(nand, file, doubt, j) => Settled(nand', file', doubt, j),
           SizeBelow(nand, file, doubt) => SizeBelow(nand', file', doubt),
           Guarded(nand', dev', {})
    PROVE  UpInv'
<1>1. \A j \in Ids : SettledNow(j) => SettledNow(j)'
  BY DEF SettledNow
<1>2. FileSound(nand', file', doubt', content')
  OBVIOUS
<1>3. /\ SettledTo(nand', file', doubt', file'.stored_size)
      /\ SettledTo(nand', file', doubt', file'.file_size)
  BY DEF UpInv, SettledTo
<1>4. ~Shortening' => SizeBelow(nand', file', doubt')
  BY DEF UpInv, Shortening
<1>5. Pending' = {}
  BY DEF Pending, Busy
<1>6. JobsLead(op.jobs)'
  BY <1>1 DEF UpInv, JobInv, JobsLead
<1>7. JobsShape(op.jobs)'
  BY DEF UpInv, JobInv, JobsShape
<1>8. JobDone' /\ (op.pc = "idle" => op.jobs = <<>>)'
  BY DEF JobDone, Busy
<1>9. CutsAhead'
  BY DEF UpInv, JobInv, CutsAhead, Busy, Job
<1> QED BY <1>2, <1>3, <1>4, <1>5, <1>6, <1>7, <1>8, <1>9 DEF UpInv, JobInv

\* The flash and the file are left alone.
LEMMA GcStillScan ==
    ASSUME UpInv, op.pc \in Busy, op'.pc \in Busy, op'.jobs = op.jobs,
           UNCHANGED <<nand, file, history>>, Guarded(nand, dev', {})
    PROVE  UpInv'
<1>1. UNCHANGED <<content, doubt>> /\ FileSound(nand, file, doubt, content)
  BY DEF history, UpInv
<1> QED BY <1>1, GcStepScan

\* yaffs_gc_block() starts on a clear block.
LEMMA CollectScan ==
    ASSUME IInv, IInv', UpInv, GcDue, NEW d, Sane(d, InUse), FlashMatches(nand, d), d.bi = dev.bi,
           NEW b \in Blocks, d.gc_block \in {NoBlock, b}, d.bi[b].block_state \in Whole,
           Clear(nand, b), Guarded(nand, d, {}), CollectBlock(d, b)
    PROVE  UpInv'
<1> DEFINE e == GcBlockEntry(d, b, TRUE)
<1>1. /\ op.pc = "start" /\ Up /\ Up' /\ op \in Operation
      /\ dev' = e /\ op'.pc = "collect" /\ op'.jobs = op.jobs
      /\ UNCHANGED <<file, content, doubt>>
  BY DEF GcDue, CollectBlock, Up, history, IInv, Operation
<1>2. /\ FlashInv(nand) /\ FlashInv(nand') /\ FlashMatches(nand', dev') /\ Sane(dev', InUse')
  BY <1>1 DEF IInv, Mounted
<1>3. /\ InUse \in SUBSET Chunks /\ file.hdr_chunk \in InUse
      /\ \A i \in Ids : file.tree[i] # NoChunk => file.tree[i] \in InUse
  BY <1>1, InUseParts
<1>4. Sane(e, InUse) /\ Turned(d, e, b)
  BY <1>3, GcEntrySane
<1> HIDE DEF e
<1>5. nand' = Erase(nand, d, e)
  <2>1. nand' = Erase(nand, dev, e)
    BY <1>1 DEF CollectBlock
  <2> QED BY <2>1, SameErase
<1>6. /\ \A x \in Unused(e) : Clear(nand, x)
      /\ Guarded(nand, e, {}) /\ NoneNew(d, e)
  BY <1>2, <1>4, EntryGuarded
<1>7. /\ DevInv(d) /\ Healthy(d) /\ DevInv(e) /\ Healthy(e) /\ Owned(e, InUse)
  BY <1>4 DEF Sane
<1>8. \A c \in InUse : c \in Chunks /\ e.bi[c[1]].block_state \in InUseStates
  BY <1>3, <1>7, InUseBlocks
<1>9. /\ FileSound(nand', file, doubt, content)
      /\ \A j \in Ids : Settled(nand, file, doubt, j) => Settled(nand', file, doubt, j)
      /\ SizeBelow(nand, file, doubt) => SizeBelow(nand', file, doubt)
      /\ Guarded(nand', e, {})
  <2>1. FileSound(nand, file, doubt, content)
    BY DEF UpInv
  <2> QED BY <1>1, <1>2, <1>3, <1>5, <1>6, <1>7, <1>8, <2>1, EraseSound
<1> QED BY <1>1, <1>9, GcStepScan DEF Busy

\* No block is older than the oldest one with discarded pages.
LEMMA OldestClear ==
    ASSUME IInv, UpInv, op.pc = "start", dev.gc_block = NoBlock, NEW b \in Blocks,
           dev.bi[b].block_state \in InUseStates,
           dev.bi[b].seq_number <= find_oldest_dirty_seq(dev).oldest_dirty_seq
    PROVE  Clear(nand, b)
<1> DEFINE e == find_oldest_dirty_seq(dev)
<1>1. /\ Sane(dev, InUse) /\ FlashMatches(nand, dev) /\ FlashInv(nand) /\ op.old = NoChunk
      /\ DevInv(dev) /\ dev \in Device /\ Up
  BY DEF IInv, Mounted, Up, Sane, DevInv, OldInv
<1>2. DevInv(e) /\ e.bi = dev.bi
  BY <1>1, FindOldestInv
<1>3. dev.bi[b].seq_number <= e.oldest_dirty_seq
  OBVIOUS
<1> HIDE DEF e
<1>4. e.oldest_dirty_seq \in Nat /\ dev.bi[b].seq_number \in Nat /\ dev.bi[b].seq_number >= 1
  BY <1>1, <1>2, FieldTypes DEF DevInv, BlockInv
<1>5. ASSUME NEW x \in Blocks, HasDiscarded(dev, x)
      PROVE  ~Older(dev, x, b)
  <2>1. HasDiscarded(e, x)
    BY <1>2, <1>5 DEF HasDiscarded, PagesUsed
  <2>2. e.oldest_dirty_seq <= dev.bi[x].seq_number
    BY <1>2, <1>3, <1>4, <2>1 DEF DevInv, BlockInv
  <2>3. dev.bi[x].seq_number \in Nat
    BY <1>1, FieldTypes
  <2> QED BY <1>3, <1>4, <2>2, <2>3 DEF Older
<1>6. TreeKept(nand, file) /\ HdrNewest(nand, file)
  BY DEF UpInv, FileSound
<1>7. /\ InUse \in SUBSET Chunks
      /\ \A c \in InUse : c = file.hdr_chunk \/ \E i \in Ids : c = file.tree[i]
  BY <1>1, InUseParts DEF InUse
<1> QED BY <1>1, <1>5, <1>6, <1>7, NoOlderClear

\* The blocks that yaffs_find_gc_block() returns are clear.
LEMMA SelectableClear ==
    ASSUME IInv, UpInv, op.pc = "start", dev.gc_block = NoBlock, NEW aggressive \in BOOLEAN,
           NEW b \in Selectable(dev, aggressive)
    PROVE  b \in Blocks /\ dev.bi[b].block_state \in Whole /\ Clear(nand, b)
<1> DEFINE e == find_oldest_dirty_seq(dev)
<1>1. DevInv(dev) /\ dev \in Device /\ Guarded(nand, dev, {})
  BY DEF IInv, Mounted, Up, Sane, DevInv, UpInv, Pending
<1>2. b \in Blocks /\ dev.bi[b].block_state \in Whole /\ dev.bi[b].block_state \in InUseStates
  BY <1>1, SelectableFull DEF Whole, InUseStates
<1>3. DevInv(e) /\ e.bi = dev.bi
  BY <1>1, FindOldestInv
<1> HIDE DEF e
<1>4. CASE block_ok_for_gc(dev, b)
  <2>1. CASE ~dev.bi[b].has_shrink_hdr
    BY <1>1, <1>2, <2>1 DEF Guarded
  <2> QED BY <1>2, <1>4, <2>1, OldestClear DEF block_ok_for_gc
<1>5. CASE b = dev.gc_dirtiest /\ b # NoBlock
  BY <1>1, <1>2, <1>5 DEF Guarded
<1>6. CASE b = e.oldest_dirty_block /\ b # NoBlock
  <2>1. dev.bi[b].seq_number = e.oldest_dirty_seq /\ dev.bi[b].seq_number \in Nat
    BY <1>1, <1>2, <1>3, <1>6, FieldTypes DEF DevInv, PointerInv
  <2>2. dev.bi[b].seq_number <= find_oldest_dirty_seq(dev).oldest_dirty_seq
    BY <2>1 DEF e
  <2> QED BY <1>2, <2>2, OldestClear
<1>7. \/ block_ok_for_gc(dev, b)
      \/ b = dev.gc_dirtiest /\ b # NoBlock
      \/ b = e.oldest_dirty_block /\ b # NoBlock
  BY DEF Selectable, Candidates, PrioritisedBlocks, e
<1> QED BY <1>2, <1>4, <1>5, <1>6, <1>7


\* yaffs_check_gc().
LEMMA CheckGcScan ==
    ASSUME IInv, IInv', UpInv, GcResume \/ GcRefresh \/ GcSelect \/ GcRemember \/ GcPass
    PROVE  UpInv'
<1>1. /\ GcDue /\ op.pc = "start" /\ Up /\ op.old = NoChunk /\ op \in Operation
      /\ FlashInv(nand) /\ Guarded(nand, dev, {})
  BY DEF GcResume, GcRefresh, GcSelect, GcRemember, GcPass, GcDue, IInv, OldInv, Up, UpInv, Pending
<1>2. /\ Sane(dev, InUse) /\ FlashMatches(nand, dev)
      /\ dev \in Device /\ DevInv(dev) /\ PointerInv(dev)
  BY <1>1 DEF IInv, Mounted, Sane, DevInv
<1>3. ASSUME op' = AfterGc
      PROVE  op'.pc = "program" /\ op'.jobs = op.jobs
  BY <1>1, <1>3, AfterGcIs
<1>4. CASE GcResume
  <2>1. dev.gc_block # NoBlock /\ CollectBlock(dev, dev.gc_block)
    BY <1>4 DEF GcResume
  <2>2. /\ dev.gc_block \in Blocks /\ dev.bi[dev.gc_block].block_state \in Whole
        /\ Clear(nand, dev.gc_block)
    BY <1>1, <1>2, <2>1, FieldTypes DEF PointerInv, Guarded
  <2> QED BY <1>1, <1>2, <2>1, <2>2, CollectScan
<1>5. CASE GcRefresh
  <2> DEFINE d == [dev EXCEPT !.gc_chunk = 0]
  <2>1. PICK b \in RefreshBlocks(dev) : CollectBlock(d, b)
    BY <1>5 DEF GcRefresh
  <2>2. b \in Blocks /\ dev.bi[b].block_state \in Whole /\ dev.bi[b].block_state \in InUseStates
    BY DEF RefreshBlocks, Whole, InUseStates
  <2>3. /\ d.bi = dev.bi /\ d.gc_block = dev.gc_block /\ dev.gc_block = NoBlock
        /\ d.gc_dirtiest = dev.gc_dirtiest
    BY <1>2, <1>5 DEF Device, GcRefresh
  <2>4. Sane(d, InUse) /\ FlashMatches(nand, d)
    <3>1. 0 \in Nat
      OBVIOUS
    <3> QED BY <1>2, <3>1, PointersSane
  <2> HIDE DEF d
  <2>5. Clear(nand, b)
    <3>1. ASSUME NEW x \in Blocks, HasDiscarded(dev, x)
          PROVE  ~Older(dev, x, b)
      <4>1. dev.bi[x].block_state # "COLLECTING"
        BY <1>2, <2>3 DEF DevInv, BlockInv, NoBlock, Blocks
      <4> QED BY <3>1, <4>1 DEF HasDiscarded, Whole, RefreshBlocks
    <3>2. TreeKept(nand, file) /\ HdrNewest(nand, file)
      BY DEF UpInv, FileSound
    <3>3. /\ InUse \in SUBSET Chunks
          /\ \A c \in InUse : c = file.hdr_chunk \/ \E i \in Ids : c = file.tree[i]
      BY <1>1, InUseParts DEF InUse
    <3> QED BY <1>1, <1>2, <2>2, <3>1, <3>2, <3>3, NoOlderClear
  <2>6. Guarded(nand, d, {})
    BY <1>1, <2>3 DEF Guarded
  <2> QED BY <1>1, <2>1, <2>2, <2>3, <2>4, <2>5, <2>6, CollectScan
<1>6. CASE GcSelect
  <2> DEFINE Off(x) == [x EXCEPT !.gc_dirtiest = NoBlock, !.gc_chunk = 0]
  <2>1. PICK b \in Selectable(dev, Aggressive) :
          \E x \in {dev, find_oldest_dirty_seq(dev)} : CollectBlock(Off(x), b)
    BY <1>6, Zenon DEF GcSelect
  <2>2. PICK x \in {dev, find_oldest_dirty_seq(dev)} : CollectBlock(Off(x), b)
    BY <2>1
  <2>3. dev.gc_block = NoBlock /\ Aggressive \in BOOLEAN
    BY <1>1, <1>6 DEF GcSelect, Aggressive, Operation
  <2>4. b \in Blocks /\ dev.bi[b].block_state \in Whole /\ Clear(nand, b)
    BY <1>1, <2>3, SelectableClear
  <2>5. Sane(x, InUse) /\ FlashMatches(nand, x) /\ x.bi = dev.bi /\ x.gc_block = NoBlock
    <3>1. /\ find_oldest_dirty_seq(dev).bi = dev.bi
          /\ find_oldest_dirty_seq(dev).gc_block = dev.gc_block
      BY <1>2, <2>3, FindOldestInv
    <3>2. 0 \in Nat
      OBVIOUS
    <3>3. Sane(find_oldest_dirty_seq(dev), InUse) /\ FlashMatches(nand, find_oldest_dirty_seq(dev))
      BY <1>2, <2>3, <3>2, PointersSane
    <3> QED BY <1>2, <2>2, <2>3, <3>1, <3>3
  <2> DEFINE d == Off(x)
  <2>6. d.bi = x.bi /\ d.gc_block = x.gc_block /\ d.gc_dirtiest = NoBlock
    BY <2>5 DEF Sane, DevInv, Device
  <2>7. Sane(d, InUse) /\ FlashMatches(nand, d) /\ CollectBlock(d, b)
    BY <2>2, <2>5, ForgetSane
  <2> HIDE DEF d
  <2>8. Guarded(nand, d, {})
    BY <1>1, <2>5, <2>6 DEF Guarded
  <2> QED BY <1>1, <2>4, <2>5, <2>6, <2>7, <2>8, CollectScan
<1>7. CASE GcRemember
  <2>1. PICK d \in {dev, find_oldest_dirty_seq(dev)},
             b \in Candidates(dev) \cup {dev.gc_dirtiest, NoBlock} :
          dev' = [d EXCEPT !.gc_dirtiest = b, !.gc_chunk = 0]
    BY <1>7 DEF GcRemember
  <2>2. dev.gc_block = NoBlock /\ op' = AfterGc /\ UNCHANGED <<nand, file, history>>
    BY <1>7 DEF GcRemember
  <2>3. d.bi = dev.bi /\ d.gc_block = dev.gc_block /\ d \in Device
    BY <1>2, <2>1, <2>2, FindOldestInv DEF DevInv
  <2>4. dev'.bi = dev.bi /\ dev'.gc_block = NoBlock /\ dev'.gc_dirtiest = b
    BY <2>1, <2>2, <2>3 DEF Device
  <2>5. b # NoBlock => Clear(nand, b)
    <3>1. CASE b \in Candidates(dev)
      <4>1. b \in Selectable(dev, FALSE)
        BY <3>1 DEF Selectable
      <4> QED BY <1>1, <2>2, <4>1, SelectableClear
    <3>2. CASE b = dev.gc_dirtiest
      BY <1>1, <3>2 DEF Guarded
    <3> QED BY <2>1, <3>1, <3>2
  <2>6. Guarded(nand, dev', {})
    BY <1>1, <2>4, <2>5 DEF Guarded
  <2> QED BY <1>1, <1>3, <2>2, <2>6, GcStillScan DEF Busy
<1>8. CASE GcPass
  <2>1. /\ op' = AfterGc /\ dev' \in {dev, [dev EXCEPT !.gc_chunk = 0]}
        /\ UNCHANGED <<nand, file, history>>
    BY <1>8 DEF GcPass
  <2>2. /\ dev'.bi = dev.bi /\ dev'.gc_block = dev.gc_block
        /\ dev'.gc_dirtiest = dev.gc_dirtiest
    BY <1>2, <2>1 DEF Device
  <2>3. Guarded(nand, dev', {})
    BY <1>1, <2>2 DEF Guarded
  <2> QED BY <1>1, <1>3, <2>1, <2>3, GcStillScan DEF Busy
<1> QED BY <1>4, <1>5, <1>6, <1>7, <1>8

\* yaffs_gc_block() ends.
LEMMA GcEndScan ==
    ASSUME IInv, IInv', UpInv, GcEnd
    PROVE  UpInv'
<1>1. /\ op.pc = "collect" /\ Up /\ op \in Operation /\ Guarded(nand, dev, {})
      /\ FlashInv(nand) /\ FlashMatches(nand, dev) /\ dev \in Device /\ dev' \in Device
  BY DEF GcEnd, Up, UpInv, Pending, IInv, Mounted
<1>2. /\ dev' = GcBlockExit(dev) /\ UNCHANGED <<nand, file, history>>
      /\ op'.pc \in {"start", "program"} /\ op'.jobs = op.jobs
  <2>1. op' \in {[op EXCEPT !.pc = "start"], AfterGc}
    BY DEF GcEnd
  <2>2. op'.pc \in {"start", "program"} /\ op'.jobs = op.jobs
    BY <1>1, <2>1, AfterGcIs DEF Operation
  <2> QED BY <2>2 DEF GcEnd
<1>3. Moved(dev, dev')
  BY <1>1, <1>2, ExitLevel, LevelKeeps
<1>4. Guarded(nand, dev', {})
  BY <1>1, <1>3, GuardedOn
<1> QED BY <1>1, <1>2, <1>4, GcStillScan DEF Busy

\* yaffs_gc_process_chunk(): the copy takes the place of the original.
LEMMA GcCopyScan ==
    ASSUME IInv, IInv', UpInv, GcCopy
    PROVE  UpInv'
<1>1. PICK k, d, old, r, q, c : GcCopying(k, d, old, r, q, c)
  BY GcCopyIs
<1>2. /\ op.pc = "collect" /\ op'.pc = "copied" /\ op'.jobs = op.jobs /\ Up /\ Up'
      /\ UNCHANGED <<content, doubt>>
      /\ Sane(k, InUse) /\ FlashMatches(nand, k) /\ k.bi = dev.bi
      /\ k.gc_block = dev.gc_block /\ k.gc_dirtiest = dev.gc_dirtiest
      /\ d = with_alloc_block(k) /\ c = NextChunk(d)
      /\ Sane(d, InUse) /\ FlashMatches(nand, d) /\ d.alloc_block # NoBlock
      /\ ~Written(nand, c) /\ Program(d, q)
      /\ file' = Located(r, c) /\ q \in Record /\ q # Blank
  BY <1>1 DEF GcCopying, Up
<1>3. /\ r = nand[old] /\ r \in Record /\ r # Blank /\ r.kind \in {"data", "hdr"} /\ old # NoChunk
      /\ r.kind = "hdr" => old = file.hdr_chunk
      /\ r.kind # "hdr" => r.id \in Ids /\ old = file.tree[r.id]
      /\ q.kind = r.kind
      /\ q.kind = "data" => q.id = r.id /\ q.val = r.val
      /\ q.kind = "hdr" => q.size = file.stored_size /\ q.is_shrink = FALSE
  BY <1>1 DEF GcCopying
<1>4. /\ FlashInv(nand) /\ FlashInv(nand') /\ file \in File /\ file' \in File
      /\ FileSound(nand, file, doubt, content)
      /\ SettledTo(nand, file, doubt, file.stored_size) /\ Guarded(nand, dev, {})
  BY <1>2 DEF IInv, UpInv, Pending
<1>5. PICK S \in SUBSET Blocks : S = {}
  OBVIOUS
<1>6. Guarded(nand, d, S)
  <2>1. Guarded(nand, k, S)
    BY <1>2, <1>4, <1>5 DEF Guarded
  <2> QED BY <1>2, <1>4, <2>1, AllocGuarded
<1>7. /\ Appended(nand, nand', c) /\ c[1] \in Blocks /\ nand'[c].kind = q.kind
      /\ q.kind = "data" => nand'[c].id = q.id /\ nand'[c].val = q.val
      /\ q.kind = "hdr" => nand'[c].size = q.size /\ nand'[c].is_shrink = q.is_shrink
      /\ Guarded(nand', dev', S)
  <2>1. S \subseteq S /\ (q.kind = "hdr" /\ q.is_shrink => c[1] \in S)
    BY <1>3
  <2> QED BY <1>2, <1>6, <2>1, AppendStep
<1>8. c \in Chunks
  BY <1>7 DEF Appended
<1>9. /\ file'.file_size = file.file_size /\ file'.stored_size = file.stored_size
      /\ r.kind = "hdr" => file'.hdr_chunk = c /\ file'.tree = file.tree
      /\ r.kind # "hdr" => /\ file'.hdr_chunk = file.hdr_chunk
                           /\ file'.tree = [file.tree EXCEPT ![r.id] = c]
  BY <1>2, <1>3, <1>4, <1>8, LocatedIs
<1>10. /\ FileSound(nand', file', doubt, content)
       /\ \A j \in Ids : Settled(nand, file, doubt, j) => Settled(nand', file', doubt, j)
       /\ SizeBelow(nand, file, doubt) => SizeBelow(nand', file', doubt)
  <2> DEFINE n == nand
             m == nand'
             f == file
             g == file'
             D == doubt
             t == content
  <2>1. /\ file.stored_size \in Int /\ file'.stored_size \in Int
        /\ file.tree \in [Ids -> Chunks \cup {NoChunk}]
    BY <1>4, LogAssumption DEF File
  <2>2. CASE r.kind = "data"
    <3>1. PICK i \in Ids : i = r.id
      BY <1>3, <2>2
    <3>2. i \notin doubt => content[i] = nand'[c].val
      BY <1>3, <1>4, <1>7, <2>2, <3>1 DEF FileSound, ContentIs
    <3>3. i <= file'.stored_size
      BY <1>3, <1>4, <1>9, <2>2, <3>1 DEF FileSound, TreeKept
    <3>4. /\ FileSound(n, f, D, t) /\ Appended(n, m, c)
          /\ DataPlaced(m, c, i, f, g, D, D, t, t) /\ g.stored_size \in {f.stored_size, i}
      BY <1>3, <1>4, <1>7, <1>9, <2>1, <2>2, <3>1, <3>2, <3>3 DEF DataPlaced
    <3> HIDE DEF n, m, f, g, D, t
    <3>5. /\ FileSound(m, g, D, t)
          /\ \A j \in Ids : Settled(n, f, D, j) => Settled(m, g, D, j)
          /\ SizeBelow(n, f, D) /\ g.stored_size \in {f.stored_size, i} => SizeBelow(m, g, D)
      BY <3>4, DataSound
    <3> QED BY <3>4, <3>5 DEF n, m, f, g, D, t
  <2>3. CASE r.kind = "hdr"
    <3>1. /\ FileSound(n, f, D, t) /\ Appended(n, m, c)
          /\ SettledTo(n, f, D, f.stored_size) /\ HdrPlaced(m, c, f, g, D, D, t, t)
      BY <1>3, <1>4, <1>7, <1>9, <2>1, <2>3 DEF HdrPlaced
    <3> HIDE DEF n, m, f, g, D, t
    <3>2. /\ FileSound(m, g, D, t) /\ SizeBelow(m, g, D)
          /\ \A j \in Ids : Settled(n, f, D, j) /\ j \notin D \ D => Settled(m, g, D, j)
          /\ m[c].is_shrink => \A j \in Ids : Settled(m, g, D, j)
      BY <3>1, HdrSound
    <3> QED BY <3>2 DEF n, m, f, g, D, t
  <2> QED BY <1>3, <2>2, <2>3
<1> QED BY <1>2, <1>5, <1>7, <1>9, <1>10, GcStepScan DEF Busy

\* What is known of the file is known of flash m as it was of n.
Preserved(n, m, f, D, t) ==
    /\ FileSound(m, f, D, t)
    /\ \A j \in Ids : Settled(n, f, D, j) => Settled(m, f, D, j)
    /\ SizeBelow(n, f, D) => SizeBelow(m, f, D)

\* The file is f once chunk c is no part of it.
Without(f, c) ==
    /\ f.hdr_chunk = file.hdr_chunk
    /\ \A i \in Ids : f.tree[i] \in {file.tree[i], NoChunk} /\ f.tree[i] # c

\* yaffs_chunk_del() of a chunk that the file does not need.
LEMMA DelScan ==
    ASSUME IInv, Up, NEW d, Sane(d, InUse), FlashMatches(nand, d),
           NEW c \in InUse, c # file.hdr_chunk, NEW e, e = Deleted(d, c),
           NEW m, m = Erase(nand, d, e),
           NEW P, Guarded(nand, d, P), P \subseteq {file.hdr_chunk[1]},
           NEW f, Without(f, c), c # NoChunk, NEW D, NEW t, FileSound(nand, f, D, t)
    PROVE  Preserved(nand, m, f, D, t) /\ Guarded(m, e, P)
<1> DEFINE H == InUse \ {c}
<1>1. /\ InUse \in SUBSET Chunks /\ FlashInv(nand) /\ file.hdr_chunk \in InUse
      /\ \A i \in Ids : file.tree[i] # NoChunk => file.tree[i] \in InUse
  BY InUseParts DEF IInv
<1>2. FlashInv(m) /\ FlashMatches(m, e) /\ Sane(e, H)
  BY DropChunk
<1>3. f.hdr_chunk \in H /\ \A i \in Ids : f.tree[i] # NoChunk => f.tree[i] \in H
  BY <1>1 DEF Without
<1>4. H \in SUBSET Chunks
  BY <1>1
<1> HIDE DEF H
<1>5. /\ DevInv(d) /\ Healthy(d) /\ DevInv(e) /\ Healthy(e) /\ Owned(e, H)
  BY <1>2 DEF Sane
<1>6. \A x \in H : x \in Chunks /\ e.bi[x[1]].block_state \in InUseStates
  BY <1>4, <1>5, InUseBlocks
<1>7. \A b \in P : e.bi[b].block_state \in InUseStates
  BY <1>3, <1>6 DEF Without
<1>8. /\ \A b \in Unused(e) : Clear(nand, b)
      /\ Guarded(nand, e, P) /\ NoneNew(d, e)
  <2>1. e = chunk_del(d, c, TRUE)
    BY DEF Deleted
  <2> QED BY <1>1, <1>7, <2>1, DelGuarded
<1>9. /\ FileSound(m, f, D, t)
      /\ \A j \in Ids : Settled(nand, f, D, j) => Settled(m, f, D, j)
      /\ SizeBelow(nand, f, D) => SizeBelow(m, f, D)
      /\ Guarded(m, e, P)
  BY <1>1, <1>2, <1>3, <1>5, <1>6, <1>8, EraseSound
<1> QED BY <1>9 DEF Preserved

\* yaffs_gc_process_chunk(): the original is deleted.
LEMMA GcDeleteScan ==
    ASSUME IInv, IInv', UpInv, GcDelete
    PROVE  UpInv'
<1>1. /\ op.pc = "copied" /\ Up /\ Up' /\ op.old # NoChunk /\ op \in Operation /\ dev \in Device
      /\ Sane(dev, InUse) /\ FlashMatches(nand, dev)
      /\ op.old # file.hdr_chunk /\ \A i \in Ids : file.tree[i] # op.old
      /\ Guarded(nand, dev, {}) /\ FileSound(nand, file, doubt, content)
      /\ op'.pc = "collect" /\ op'.jobs = op.jobs /\ UNCHANGED <<file, content, doubt>>
  BY DEF GcDelete, IInv, OldInv, Up, Mounted, UpInv, Pending, history, Operation
<1>2. PICK d : d = [dev EXCEPT !.gc_chunk = dev.gc_chunk + 1]
  OBVIOUS
<1>3. dev' = Deleted(d, op.old) /\ nand' = Erase(nand, dev, dev')
  BY <1>2 DEF GcDelete, Deleted
<1>4. Sane(d, InUse) /\ FlashMatches(nand, d)
  <2>1. dev.gc_chunk + 1 \in Nat
    BY <1>1 DEF Device
  <2> QED BY <1>1, <1>2, <2>1, PointersSane
<1>5. d.bi = dev.bi /\ d.gc_block = dev.gc_block /\ d.gc_dirtiest = dev.gc_dirtiest
  BY <1>1, <1>2 DEF Device
<1>6. nand' = Erase(nand, d, dev')
  BY <1>3, <1>5, SameErase
<1>7. op.old \in InUse /\ Without(file, op.old)
  BY <1>1, InUseParts DEF Without
<1>8. PICK S \in SUBSET {file.hdr_chunk[1]} : S = {}
  OBVIOUS
<1>9. Guarded(nand, d, S)
  BY <1>1, <1>5, <1>8 DEF Guarded
<1>10. Preserved(nand, nand', file, doubt, content) /\ Guarded(nand', dev', S)
  BY <1>1, <1>3, <1>4, <1>6, <1>7, <1>9, DelScan
<1> QED BY <1>1, <1>8, <1>10, GcStepScan DEF Busy, Preserved

-----------------------------------------------------------------------------
(* The jobs that are left.                                                 *)

\* The call goes on with the jobs of s, or ends without.
LEMMA ContinueIs ==
    ASSUME NEW s \in Seq(Jobs), Continue(s)
    PROVE  /\ op'.jobs = s /\ op'.pc \in {"idle", "start"} /\ Up'
           /\ op'.pc = "idle" => s = <<>>
<1>1. CASE s = <<>>
  BY <1>1 DEF Continue, Idle, Up
<1>2. CASE s # <<>>
  BY <1>2 DEF Continue, Idle, Up
<1> QED BY <1>1, <1>2

\* The jobs of a sequence.
LEMMA JobsAre ==
    ASSUME NEW s \in Seq(Jobs)
    PROVE  /\ Len(s) \in Nat /\ DOMAIN s = 1 .. Len(s)
           /\ \A k \in DOMAIN s : s[k] \in Jobs
           /\ s # <<>> <=> 1 \in DOMAIN s
BY LenProperties, ElementOfSeq, EmptySeq

\* The jobs after the one at hand.
LEMMA TailIs ==
    ASSUME IInv, op.pc \in Calling
    PROVE  /\ op.jobs \in Seq(Jobs) /\ Tail(op.jobs) \in Seq(Jobs)
           /\ Len(op.jobs) \in Nat /\ DOMAIN op.jobs = 1 .. Len(op.jobs)
           /\ Len(Tail(op.jobs)) = Len(op.jobs) - 1
           /\ DOMAIN Tail(op.jobs) = 1 .. Len(op.jobs) - 1
           /\ 1 \in DOMAIN op.jobs /\ op.jobs[1] = Job /\ Job \in Jobs
           /\ \A k \in DOMAIN Tail(op.jobs) :
                Tail(op.jobs)[k] = op.jobs[k + 1] /\ k + 1 \in DOMAIN op.jobs
<1>1. op.jobs \in Seq(Jobs) /\ op.jobs # <<>> /\ Job \in Jobs /\ Tail(op.jobs) \in Seq(Jobs)
  BY TheJob
<1>2. /\ Len(op.jobs) \in Nat /\ DOMAIN op.jobs = 1 .. Len(op.jobs) /\ 1 \in DOMAIN op.jobs
  BY <1>1, JobsAre
<1>3. /\ Head(op.jobs) = op.jobs[1] /\ Len(Tail(op.jobs)) = Len(op.jobs) - 1
      /\ \A k \in 1 .. Len(Tail(op.jobs)) : Tail(op.jobs)[k] = op.jobs[k + 1]
  BY <1>1, HeadTailProperties
<1>4. DOMAIN Tail(op.jobs) = 1 .. Len(Tail(op.jobs))
  BY <1>1, JobsAre
<1> QED BY <1>1, <1>2, <1>3, <1>4 DEF Job

\* Nothing is to be cut off once a job of another kind has its turn.
LEMMA NoPrune ==
    ASSUME IInv, UpInv, op.pc \in Calling, Job.do \notin {"prune", "gc"}
    PROVE  ~\E k \in DOMAIN op.jobs : op.jobs[k].do = "prune"
<1> SUFFICES ASSUME NEW k \in DOMAIN op.jobs, op.jobs[k].do = "prune"
             PROVE  FALSE
  OBVIOUS
<1>1. op.jobs[1] = Job
  BY TailIs
<1>2. k = 1 \/ (k = 2 /\ op.jobs[1].do = "gc")
  BY DEF UpInv, JobInv, JobsShape
<1> QED BY <1>1, <1>2

\* While a job other than a cut is at hand, nothing past the stored size is in
\* doubt.
LEMMA NoCut ==
    ASSUME IInv, UpInv, op.pc \in Calling, Job.do \notin {"prune", "gc"},
           Job.do # "hdr" \/ op.pc = "delete"
    PROVE  (\A i \in doubt : ~(i > file.stored_size)) /\ ~Shortening
<1>1. ~\E k \in DOMAIN op.jobs : op.jobs[k].do = "prune"
  BY NoPrune
<1>2. ~\E i \in doubt : i > file.stored_size
  BY <1>1 DEF UpInv, JobInv, CutsAhead
<1> QED BY <1>1, <1>2 DEF Shortening

\* The shape of the jobs once the first is done.
LEMMA ShapeTail ==
    ASSUME IInv, op.pc \in Calling, JobsShape(op.jobs), file \in File, file' \in File,
           \/ file.file_size <= file'.file_size
           \/ Job.do \in {"prune", "grow"},
           op'.jobs = Tail(op.jobs)
    PROVE  JobsShape(op.jobs)'
<1> DEFINE s == Tail(op.jobs)
           t == op.jobs
<1>1. /\ s \in Seq(Jobs) /\ Len(t) \in Nat /\ Len(s) = Len(t) - 1
      /\ DOMAIN t = 1 .. Len(t) /\ DOMAIN s = 1 .. Len(t) - 1
      /\ t[1] = Job /\ Job \in Jobs
      /\ \A k \in DOMAIN s : s[k] = t[k + 1] /\ k + 1 \in DOMAIN t
  BY TailIs
<1>2. \A k \in DOMAIN t :
        /\ t[k].do = "hdr" /\ ~t[k].is_shrink => k = Len(t)
        /\ t[k].do = "prune" =>
              /\ t[k].size <= file.file_size /\ t[k].size < MaxId
              /\ k + 1 \in DOMAIN t /\ t[k + 1].do = "hdr"
              /\ k = 1 \/ (k = 2 /\ t[1].do = "gc")
        /\ Filling(t[k]) =>
              /\ \A l \in 1 .. k : Filling(t[l])
              /\ t[k].base <= file.file_size /\ t[k].base < MaxId
  BY DEF JobsShape
<1>3. /\ \A j \in Jobs : j.do = "data" => j.base \in Int
      /\ \A j \in Jobs : j.do = "prune" => j.size \in Int
      /\ file.file_size \in Int /\ file'.file_size \in Int
  BY JobFields, LogAssumption DEF File
<1>4. \A k \in DOMAIN s : k \in Nat /\ k >= 1 /\ s[k] \in Jobs /\ s[k] = t[k + 1] /\ k + 1 \in DOMAIN t
  BY <1>1, JobsAre
<1> HIDE DEF s, t
<1>5. ASSUME NEW k \in DOMAIN s
      PROVE  /\ s[k].do = "hdr" /\ ~s[k].is_shrink => k = Len(s)
             /\ s[k].do = "prune" =>
                   /\ s[k].size <= file'.file_size /\ s[k].size < MaxId
                   /\ k + 1 \in DOMAIN s /\ s[k + 1].do = "hdr"
                   /\ k = 1 \/ (k = 2 /\ s[1].do = "gc")
             /\ Filling(s[k]) =>
                   /\ \A l \in 1 .. k : Filling(s[l])
                   /\ s[k].base <= file'.file_size /\ s[k].base < MaxId
  <2>1. k \in Nat /\ k >= 1 /\ s[k] \in Jobs /\ s[k] = t[k + 1] /\ k + 1 \in DOMAIN t
    BY <1>4
  <2>2. ASSUME s[k].do = "hdr", ~s[k].is_shrink
        PROVE  k = Len(s)
    BY <1>1, <1>2, <2>1, <2>2
  <2>3. ASSUME s[k].do = "prune"
        PROVE  /\ s[k].size <= file'.file_size /\ s[k].size < MaxId
               /\ k + 1 \in DOMAIN s /\ s[k + 1].do = "hdr"
               /\ k = 1
    <3>1. /\ t[k + 1].size <= file.file_size /\ t[k + 1].size < MaxId
          /\ (k + 1) + 1 \in DOMAIN t /\ t[(k + 1) + 1].do = "hdr"
          /\ k + 1 = 2 /\ t[1].do = "gc"
      BY <1>2, <2>1, <2>3
    <3>2. file.file_size <= file'.file_size
      BY <1>1, <3>1
    <3>3. k + 1 \in DOMAIN s
      BY <1>1, <2>1, <3>1
    <3> QED BY <1>1, <1>3, <2>1, <2>3, <3>1, <3>2, <3>3
  <2>4. ASSUME Filling(s[k])
        PROVE  /\ \A l \in 1 .. k : Filling(s[l])
               /\ s[k].base <= file'.file_size /\ s[k].base < MaxId
    <3>1. /\ \A l \in 1 .. k + 1 : Filling(t[l])
          /\ t[k + 1].base <= file.file_size /\ t[k + 1].base < MaxId
      BY <1>2, <2>1, <2>4
    <3>2. Filling(t[1])
      BY <2>1, <3>1
    <3>3. file.file_size <= file'.file_size
      BY <1>1, <3>2 DEF Filling
    <3>4. s[k].base \in Int
      BY <1>3, <2>1, <2>4 DEF Filling
    <3>5. \A l \in 1 .. k : l \in DOMAIN s /\ l + 1 \in 1 .. k + 1
      BY <1>1, <2>1
    <3>6. \A l \in 1 .. k : Filling(s[l])
      BY <1>4, <3>1, <3>5
    <3> QED BY <1>3, <2>1, <3>1, <3>3, <3>4, <3>6
  <2> QED BY <2>2, <2>3, <2>4
<1>6. op'.jobs = s
  BY DEF s
<1> QED BY <1>5, <1>6 DEF JobsShape, Filling

\* What the jobs that are left pass has been settled, once the first is done.
LEMMA LeadTail ==
    ASSUME IInv, op.pc \in Calling, JobsLead(op.jobs), op'.jobs = Tail(op.jobs),
           \A j \in Ids : SettledNow(j) => SettledNow(j)',
           \A j \in Ids : Settles(Job, j) => SettledNow(j)'
    PROVE  JobsLead(op.jobs)'
<1> DEFINE s == Tail(op.jobs)
           t == op.jobs
<1>1. /\ Len(t) \in Nat /\ DOMAIN t = 1 .. Len(t) /\ DOMAIN s = 1 .. Len(t) - 1
      /\ t[1] = Job
      /\ \A k \in DOMAIN s : s[k] = t[k + 1] /\ k + 1 \in DOMAIN t
  BY TailIs
<1>2. op'.jobs = s
  BY DEF s
<1> HIDE DEF s
<1>3. ASSUME NEW k \in DOMAIN s, NEW j \in Ids, Passes(s[k], j), ~SettledNow(j)'
      PROVE  \E l \in 1 .. k - 1 : Settles(s[l], j)
  <2>1. k \in Nat /\ k >= 1 /\ s[k] = t[k + 1] /\ k + 1 \in DOMAIN t
    BY <1>1
  <2>2. PICK l \in 1 .. (k + 1) - 1 : Settles(t[l], j)
    BY <1>3, <2>1 DEF JobsLead
  <2>3. l # 1
    BY <1>1, <1>3, <2>2
  <2>4. l - 1 \in DOMAIN s /\ l - 1 \in 1 .. k - 1 /\ (l - 1) + 1 = l
    <3>1. l \in Int /\ l >= 1 /\ l <= k
      BY <2>1, <2>2
    <3>2. k <= Len(t) - 1 /\ Len(t) \in Nat
      BY <1>1, <1>3
    <3>3. l - 1 \in 1 .. Len(t) - 1 /\ l - 1 \in 1 .. k - 1 /\ (l - 1) + 1 = l
      BY <2>1, <2>3, <3>1, <3>2
    <3> QED BY <1>1, <3>3
  <2>5. s[l - 1] = t[l]
    BY <1>1, <2>4
  <2> QED BY <2>2, <2>4, <2>5
<1> QED BY <1>2, <1>3 DEF JobsLead, Passes

\* A call goes on.
LEMMA NextScan ==
    ASSUME NEW s \in Seq(Jobs), Continue(s),
           FileSound(nand', file', doubt', content'),
           SettledTo(nand', file', doubt', file'.stored_size),
           SettledTo(nand', file', doubt', file'.file_size),
           Shortening' \/ SizeBelow(nand', file', doubt'),
           Guarded(nand', dev', {}), JobsLead(op.jobs)', JobsShape(op.jobs)', CutsAhead'
    PROVE  UpInv'
<1>1. op'.jobs = s /\ op'.pc \in {"idle", "start"} /\ (op'.pc = "idle" => s = <<>>)
  BY ContinueIs
<1>2. Pending' = {} /\ JobDone'
  BY <1>1 DEF Pending, JobDone
<1> QED BY <1>1, <1>2 DEF UpInv, JobInv

-----------------------------------------------------------------------------
(* The steps that leave the flash alone.                                   *)

\* A call begins.
LEMMA CallScan ==
    ASSUME IInv, UpInv, NEW s \in Seq(Jobs), Call(s), JobsLead(s), JobsShape(s)
    PROVE  UpInv'
<1>1. /\ op.pc = "idle" /\ op.jobs = <<>> /\ Continue(s)
      /\ UNCHANGED <<dev, nand, file, content, doubt>>
      /\ FileSound(nand, file, doubt, content)
      /\ SettledTo(nand, file, doubt, file.stored_size)
      /\ SettledTo(nand, file, doubt, file.file_size)
      /\ Guarded(nand, dev, {})
  BY DEF Call, UpInv, JobInv, history, Pending
<1>2. DOMAIN op.jobs = {}
  BY <1>1
<1>3. ~\E i \in doubt : i > file.stored_size
  BY <1>1, <1>2 DEF UpInv, JobInv, CutsAhead
<1>4. SizeBelow(nand, file, doubt)
  BY <1>2, <1>3 DEF UpInv, Shortening
<1>5. op'.jobs = s
  BY <1>1, ContinueIs
<1>6. JobsLead(op.jobs)' /\ JobsShape(op.jobs)'
  BY <1>1, <1>5 DEF JobsLead, JobsShape, SettledNow
<1>7. CutsAhead'
  BY <1>1, <1>3 DEF CutsAhead
<1> QED BY <1>1, <1>4, <1>6, <1>7, NextScan

\* A call of one job, and of more.
LEMMA OneJob ==
    ASSUME NEW a \in Jobs, NEW s, s = <<a>>
    PROVE  s \in Seq(Jobs) /\ Len(s) = 1 /\ DOMAIN s = 1 .. 1 /\ s[1] = a
OBVIOUS

\* Jobs one after the other.
Two(s, a, b) == s = <<a, b>>
Three(s, a, b, c) == s = <<a>> \o <<b>> \o <<c>>
Four(s, a, b, c, d) == s = <<a>> \o <<b, c>> \o <<d>>

\* A list of two jobs ...
LEMMA TwoIs ==
    ASSUME NEW a \in Jobs, NEW b \in Jobs, NEW s, Two(s, a, b)
    PROVE  s \in Seq(Jobs) /\ Len(s) = 2 /\ DOMAIN s = 1 .. 2 /\ s[1] = a /\ s[2] = b
BY DEF Two

\* Job d after those in t.
AndThen(s, t, d) == s = t \o <<d>>

\* ... one more job ...
LEMMA AndThenIs ==
    ASSUME NEW t \in Seq(Jobs), NEW d \in Jobs, NEW s, AndThen(s, t, d)
    PROVE  /\ s \in Seq(Jobs) /\ Len(s) = Len(t) + 1
           /\ \A k \in 1 .. Len(t) : s[k] = t[k]
           /\ s[Len(t) + 1] = d
BY DEF AndThen

\* ... three ...
LEMMA ThreeIs ==
    ASSUME NEW a \in Jobs, NEW b \in Jobs, NEW c \in Jobs, NEW s, Three(s, a, b, c)
    PROVE  /\ s \in Seq(Jobs) /\ Len(s) = 3 /\ DOMAIN s = 1 .. 3
           /\ s[1] = a /\ s[2] = b /\ s[3] = c
<1>1. PICK t : t = <<a>> \o <<b>>
  OBVIOUS
<1>2. PICK r : r = <<a>>
  OBVIOUS
<1>3. r \in Seq(Jobs) /\ Len(r) = 1 /\ r[1] = a
  BY <1>2
<1>4. AndThen(t, r, b) /\ AndThen(s, t, c)
  BY <1>1, <1>2 DEF AndThen, Three
<1>5. /\ t \in Seq(Jobs) /\ Len(t) = Len(r) + 1
      /\ \A k \in 1 .. Len(r) : t[k] = r[k]
      /\ t[Len(r) + 1] = b
  BY <1>3, <1>4, AndThenIs
<1>6. Len(t) = 2 /\ t[1] = a /\ t[2] = b
  BY <1>3, <1>5
<1>7. /\ s \in Seq(Jobs) /\ Len(s) = Len(t) + 1
      /\ \A k \in 1 .. Len(t) : s[k] = t[k]
      /\ s[Len(t) + 1] = c
  BY <1>4, <1>5, AndThenIs
<1>8. Len(s) = 3 /\ s[1] = a /\ s[2] = b /\ s[3] = c
  BY <1>6, <1>7
<1>9. DOMAIN s = 1 .. Len(s)
  BY <1>7
<1> QED BY <1>7, <1>8, <1>9

\* ... and four.
LEMMA FourIs ==
    ASSUME NEW a \in Jobs, NEW b \in Jobs, NEW c \in Jobs, NEW d \in Jobs, NEW s, Four(s, a, b, c, d)
    PROVE  /\ s \in Seq(Jobs) /\ Len(s) = 4 /\ DOMAIN s = 1 .. 4
           /\ s[1] = a /\ s[2] = b /\ s[3] = c /\ s[4] = d
<1>1. /\ <<a>> \in Seq(Jobs) /\ Len(<<a>>) = 1
      /\ <<b, c>> \in Seq(Jobs) /\ Len(<<b, c>>) = 2
  OBVIOUS
<1>2. PICK t : t = <<a>> \o <<b, c>>
  OBVIOUS
<1>3. t \in Seq(Jobs) /\ Len(t) = 3 /\ t[1] = a /\ t[2] = b /\ t[3] = c
  BY <1>1, <1>2
<1>4. AndThen(s, t, d)
  BY <1>2 DEF AndThen, Four
<1>5. /\ s \in Seq(Jobs) /\ Len(s) = Len(t) + 1
      /\ \A k \in 1 .. Len(t) : s[k] = t[k]
      /\ s[Len(t) + 1] = d
  BY <1>3, <1>4, AndThenIs
<1>6. Len(s) = 4 /\ s[1] = a /\ s[2] = b /\ s[3] = c /\ s[4] = d
  BY <1>3, <1>5
<1>7. DOMAIN s = 1 .. Len(s)
  BY <1>5
<1> QED BY <1>5, <1>6, <1>7

\* A write: the hole before its chunk is settled first.
LEMMA WriteJobs ==
    ASSUME file \in File, NEW i \in Ids, NEW v \in Data,
           NEW s, s = <<HoleJob(i - 1), DataJob(i, v, -1)>>
    PROVE  s \in Seq(Jobs) /\ JobsLead(s) /\ JobsShape(s)
<1>1. i - 1 \in 0 .. MaxId
  BY LogAssumption DEF Ids
<1>2. HoleJob(i - 1) \in Jobs /\ DataJob(i, v, -1) \in Jobs
  BY <1>1, JobTypes
<1>3. s \in Seq(Jobs) /\ DOMAIN s = 1 .. 2
  BY <1>2, TwoIs DEF Two
<1>4. /\ s[1].do = "hole" /\ s[1].size = i - 1
      /\ s[2].do = "data" /\ s[2].id = i /\ s[2].base = -1
  BY DEF HoleJob, DataJob
<1>5. ASSUME NEW k \in DOMAIN s, NEW j \in Ids, Passes(s[k], j)
      PROVE  \E l \in 1 .. k - 1 : Settles(s[l], j)
  <2>1. k = 2 /\ j <= i - 1
    BY <1>3, <1>4, <1>5 DEF Passes, Ids
  <2>2. Settles(s[1], j)
    BY <1>4, <2>1 DEF Settles
  <2> QED BY <2>1, <2>2
<1>6. JobsLead(s) /\ JobsShape(s)
  BY <1>3, <1>4, <1>5 DEF JobsLead, JobsShape, Filling
<1> QED BY <1>3, <1>6

\* A file grows: so is all of the hole.
LEMMA GrowJobs ==
    ASSUME file \in File, NEW n \in 0 .. MaxId,
           NEW h \in Jobs, h.do = "hdr",
           NEW s, Four(s, GcJob, HoleJob(n), GrowJob(n), h)
    PROVE  s \in Seq(Jobs) /\ JobsLead(s) /\ JobsShape(s)
<1>1. GcJob \in Jobs /\ HoleJob(n) \in Jobs /\ GrowJob(n) \in Jobs
  BY JobTypes
<1>2. /\ s \in Seq(Jobs) /\ Len(s) = 4 /\ DOMAIN s = 1 .. 4
      /\ s[1] = GcJob /\ s[2] = HoleJob(n) /\ s[3] = GrowJob(n) /\ s[4] = h
  BY <1>1, FourIs
<1>3. s \in Seq(Jobs) /\ DOMAIN s = 1 .. 4 /\ Len(s) = 4
  BY <1>2
<1>4. /\ s[1].do = "gc" /\ s[2].do = "hole" /\ s[2].size = n
      /\ s[3].do = "grow" /\ s[3].size = n /\ s[4].do = "hdr"
  BY <1>2 DEF GcJob, HoleJob, GrowJob
<1>5. ASSUME NEW k \in DOMAIN s, NEW j \in Ids, Passes(s[k], j)
      PROVE  \E l \in 1 .. k - 1 : Settles(s[l], j)
  <2>1. k = 3 /\ j <= n
    BY <1>3, <1>4, <1>5 DEF Passes
  <2>2. Settles(s[2], j)
    BY <1>4, <2>1 DEF Settles
  <2> QED BY <2>1, <2>2
<1>6. JobsShape(s)
  BY <1>3, <1>4 DEF JobsShape, Filling
<1> QED BY <1>3, <1>5, <1>6 DEF JobsLead

\* A file is cut, and the header follows.
LEMMA CutJobs ==
    ASSUME file \in File, NEW n \in 0 .. MaxId, n < file.file_size,
           NEW h \in Jobs, h.do = "hdr",
           NEW s, Three(s, GcJob, PruneJob(n), h)
    PROVE  s \in Seq(Jobs) /\ JobsLead(s) /\ JobsShape(s)
<1>1. GcJob \in Jobs /\ PruneJob(n) \in Jobs
  BY JobTypes
<1>2. /\ s \in Seq(Jobs) /\ Len(s) = 3 /\ DOMAIN s = 1 .. 3
      /\ s[1] = GcJob /\ s[2] = PruneJob(n) /\ s[3] = h
  BY <1>1, ThreeIs
<1>3. s \in Seq(Jobs) /\ DOMAIN s = 1 .. 3 /\ Len(s) = 3
  BY <1>2
<1>4. /\ s[1].do = "gc" /\ s[2].do = "prune" /\ s[2].size = n /\ s[3].do = "hdr"
  BY <1>2 DEF GcJob, PruneJob
<1>5. n <= file.file_size /\ n < MaxId
  BY LogAssumption DEF File
<1>6. JobsLead(s)
  BY <1>3, <1>4 DEF JobsLead, Passes
<1>7. JobsShape(s)
  BY <1>3, <1>4, <1>5 DEF JobsShape, Filling
<1> QED BY <1>3, <1>6, <1>7

\* A flush has one job, a header.
LEMMA FlushJobs ==
    ASSUME NEW s, s = <<HdrJob(FALSE)>>
    PROVE  s \in Seq(Jobs) /\ JobsLead(s) /\ JobsShape(s)
<1>4. FALSE \in BOOLEAN
  OBVIOUS
<1>0. HdrJob(FALSE) \in Jobs
  BY <1>4, JobTypes
<1>1. s \in Seq(Jobs) /\ DOMAIN s = 1 .. 1 /\ Len(s) = 1 /\ s[1] = HdrJob(FALSE)
  BY <1>0, OneJob
<1>2. s[1].do = "hdr"
  BY <1>1 DEF HdrJob
<1>5. \A k \in DOMAIN s : k = 1
  BY <1>1
<1>3. JobsLead(s)
  BY <1>2, <1>5 DEF JobsLead, Passes
<1>6. JobsShape(s)
  BY <1>1, <1>2, <1>5 DEF JobsShape, Filling
<1> QED BY <1>1, <1>3, <1>6

\* The calls begin with jobs that lead from what is stored to what is meant.
LEMMA CallsScan ==
    ASSUME IInv, UpInv, Calls
    PROVE  UpInv'
<1>1. file \in File
  BY DEF IInv
<1>5. PICK h \in Jobs : h = HdrJob(FALSE)
  <2>1. FALSE \in BOOLEAN
    OBVIOUS
  <2> QED BY <2>1, JobTypes
<1>6. h.do = "hdr"
  BY <1>5 DEF HdrJob
<1>2. ASSUME NEW i \in Ids, NEW v \in Vals, WriteFile(i, v)
      PROVE  UpInv'
  BY <1>1, <1>2, WriteJobs, CallScan DEF WriteFile, Data
<1>3. ASSUME NEW n \in 0 .. MaxId, ResizeFile(n)
      PROVE  UpInv'
  <2>1. CASE n > file.file_size
    <3>1. PICK s : s = <<GcJob>> \o <<HoleJob(n), GrowJob(n)>> \o <<HdrJob(FALSE)>>
      OBVIOUS
    <3>2. Four(s, GcJob, HoleJob(n), GrowJob(n), h)
      BY <1>5, <3>1 DEF Four
    <3>3. Call(s)
      BY <1>3, <2>1, <3>1 DEF ResizeFile
    <3> QED BY <1>1, <1>6, <3>2, <3>3, GrowJobs, CallScan
  <2>2. CASE ~(n > file.file_size)
    <3>1. n < file.file_size
      BY <1>1, <1>3, <2>2, LogAssumption DEF ResizeFile, File
    <3>2. PICK s : s = <<GcJob>> \o <<PruneJob(n)>> \o <<HdrJob(FALSE)>>
      OBVIOUS
    <3>3. Three(s, GcJob, PruneJob(n), h)
      BY <1>5, <3>2 DEF Three
    <3>4. Call(s)
      BY <1>3, <2>2, <3>2 DEF ResizeFile
    <3> QED BY <1>1, <1>6, <3>1, <3>3, <3>4, CutJobs, CallScan
  <2> QED BY <2>1, <2>2
<1>4. FlushFile => UpInv'
  BY FlushJobs, CallScan DEF FlushFile
<1> QED BY <1>2, <1>3, <1>4 DEF Calls

\* The jobs in m come before those that op.jobs has after the first n.
Followed(s, m, n) ==
    /\ m \in Seq(Jobs) /\ s \in Seq(Jobs) /\ n \in 1 .. Len(op.jobs)
    /\ Len(s) = Len(m) + Len(op.jobs) - n
    /\ \A k \in 1 .. Len(m) : s[k] = m[k]
    /\ \A k \in Len(m) + 1 .. Len(s) : s[k] = op.jobs[k - Len(m) + n]

\* The jobs that replace the one at hand leave those after it in place.
LEMMA FollowedTail ==
    ASSUME IInv, op.pc \in Calling, NEW m \in Seq(Jobs), NEW s, s = m \o Tail(op.jobs)
    PROVE  Followed(s, m, 1)
<1> DEFINE t == Tail(op.jobs)
<1>1. /\ op.jobs \in Seq(Jobs) /\ t \in Seq(Jobs) /\ Len(op.jobs) \in Nat
      /\ Len(t) = Len(op.jobs) - 1 /\ DOMAIN t = 1 .. Len(op.jobs) - 1
      /\ 1 \in DOMAIN op.jobs /\ DOMAIN op.jobs = 1 .. Len(op.jobs)
      /\ \A k \in DOMAIN t : t[k] = op.jobs[k + 1]
  BY TailIs
<1>2. s = m \o t
  OBVIOUS
<1> HIDE DEF t
<1>3. /\ s \in Seq(Jobs) /\ Len(s) = Len(m) + Len(t)
      /\ \A k \in 1 .. Len(s) : s[k] = IF k <= Len(m) THEN m[k] ELSE t[k - Len(m)]
  BY <1>1, <1>2, ConcatProperties
<1>4. Len(m) \in Nat /\ Len(t) \in Nat
  BY <1>1
<1>5. \A k \in 1 .. Len(m) : s[k] = m[k]
  BY <1>3, <1>4
<1>6. ASSUME NEW k \in Len(m) + 1 .. Len(s)
      PROVE  s[k] = op.jobs[k - Len(m) + 1]
  <2>1. s[k] = t[k - Len(m)] /\ k - Len(m) \in DOMAIN t
    BY <1>1, <1>3, <1>4
  <2> QED BY <1>1, <2>1
<1>7. Len(s) = Len(m) + Len(op.jobs) - 1 /\ 1 \in 1 .. Len(op.jobs)
  BY <1>1, <1>3, <1>4
<1> QED BY <1>3, <1>5, <1>6, <1>7 DEF Followed

\* What a job of a shape that jobs may have is: k is its place in s.
Shaped(s, k, size) ==
    /\ s[k].do = "hdr" /\ ~s[k].is_shrink => k = Len(s)
    /\ s[k].do = "prune" =>
          /\ s[k].size <= size /\ s[k].size < MaxId
          /\ k + 1 \in DOMAIN s /\ s[k + 1].do = "hdr"
          /\ k = 1 \/ (k = 2 /\ s[1].do = "gc")
    /\ Filling(s[k]) =>
          /\ \A l \in 1 .. k : Filling(s[l])
          /\ s[k].base <= size /\ s[k].base < MaxId

\* Jobs that are each in place are in place together.
LEMMA ShapedAll ==
    ASSUME NEW s, op'.jobs = s, \A k \in DOMAIN s : Shaped(s, k, file'.file_size)
    PROVE  JobsShape(op.jobs)'
BY DEF JobsShape, Shaped, Filling

\* Jobs that are neither to cut the file off nor to fill a hole stay in shape.
LEMMA FollowShape ==
    ASSUME IInv, UpInv, op.pc \in Calling, Job.do \notin {"prune", "gc"},
           NEW s, NEW m, NEW n, Followed(s, m, n), NEW size,
           \A k \in DOMAIN op.jobs : k > n => ~Filling(op.jobs[k]),
           \A k \in 1 .. Len(m) : Shaped(s, k, size)
    PROVE  \A k \in DOMAIN s : Shaped(s, k, size)
<1>1. /\ Len(s) \in Nat /\ DOMAIN s = 1 .. Len(s) /\ Len(m) \in Nat
      /\ op.jobs \in Seq(Jobs) /\ Len(op.jobs) \in Nat /\ DOMAIN op.jobs = 1 .. Len(op.jobs)
      /\ n \in 1 .. Len(op.jobs)
  BY JobsAre, TailIs DEF Followed
<1>2. ASSUME NEW k \in DOMAIN s, k > Len(m)
      PROVE  Shaped(s, k, size)
  <2>1. PICK r \in DOMAIN op.jobs : r = k - Len(m) + n /\ r > n /\ s[k] = op.jobs[r]
    <3>1. k \in Len(m) + 1 .. Len(s) /\ Len(s) = Len(m) + Len(op.jobs) - n
      BY <1>1, <1>2 DEF Followed
    <3>2. s[k] = op.jobs[k - Len(m) + n]
      BY <3>1 DEF Followed
    <3> QED BY <1>1, <1>2, <3>1, <3>2
  <2>2. ~Filling(s[k]) /\ s[k].do # "prune"
    BY <2>1, NoPrune
  <2>3. ASSUME s[k].do = "hdr", ~s[k].is_shrink
        PROVE  k = Len(s)
    <3>1. r = Len(op.jobs)
      BY <2>1, <2>3 DEF UpInv, JobInv, JobsShape
    <3>2. Len(s) = Len(m) + Len(op.jobs) - n
      BY DEF Followed
    <3> QED BY <1>1, <2>1, <3>1, <3>2
  <2> QED BY <2>2, <2>3 DEF Shaped
<1> QED BY <1>1, <1>2

\* ... and lead on.
LEMMA FollowLead ==
    ASSUME IInv, op.pc \in Calling, JobsLead(op.jobs),
           NEW s, NEW m, Followed(s, m, 1), op'.jobs = s,
           \A j \in Ids : SettledNow(j) => SettledNow(j)',
           \A k \in 1 .. Len(m), j \in Ids :
               Passes(m[k], j) => SettledNow(j)' \/ \E l \in 1 .. k - 1 : Settles(m[l], j),
           \A j \in Ids :
               Settles(Job, j) => SettledNow(j)' \/ \E l \in 1 .. Len(m) : Settles(m[l], j)
    PROVE  JobsLead(op.jobs)'
<1>1. /\ Len(s) \in Nat /\ DOMAIN s = 1 .. Len(s) /\ Len(m) \in Nat
      /\ Len(op.jobs) \in Nat /\ DOMAIN op.jobs = 1 .. Len(op.jobs)
      /\ op.jobs[1] = Job /\ Len(s) = Len(m) + Len(op.jobs) - 1
      /\ \A k \in 1 .. Len(m) : s[k] = m[k]
      /\ \A k \in Len(m) + 1 .. Len(s) : s[k] = op.jobs[k - Len(m) + 1]
  BY JobsAre, TailIs DEF Followed
<1>2. ASSUME NEW k \in DOMAIN s, NEW j \in Ids, Passes(s[k], j), ~SettledNow(j)'
      PROVE  \E l \in 1 .. k - 1 : Settles(s[l], j)
  <2>1. CASE k <= Len(m)
    <3>1. k \in 1 .. Len(m) /\ s[k] = m[k]
      BY <1>1, <2>1
    <3>2. PICK l \in 1 .. k - 1 : Settles(m[l], j)
      BY <1>2, <3>1
    <3>3. l \in 1 .. Len(m)
      BY <1>1, <3>1, <3>2
    <3> QED BY <1>1, <3>2, <3>3
  <2>2. CASE k > Len(m)
    <3>1. PICK r \in DOMAIN op.jobs : r = k - Len(m) + 1 /\ r > 1 /\ s[k] = op.jobs[r]
      <4>1. k \in Len(m) + 1 .. Len(s) /\ k - Len(m) + 1 \in 1 .. Len(op.jobs) /\ k - Len(m) + 1 > 1
        BY <1>1, <2>2
      <4>2. s[k] = op.jobs[k - Len(m) + 1]
        BY <1>1, <4>1
      <4> QED BY <1>1, <4>1, <4>2
    <3>2. PICK l \in 1 .. r - 1 : Settles(op.jobs[l], j)
      BY <1>2, <3>1 DEF JobsLead
    <3>3. CASE l = 1
      <4>1. PICK p \in 1 .. Len(m) : Settles(m[p], j)
        BY <1>1, <1>2, <3>2, <3>3
      <4>2. p \in 1 .. k - 1 /\ s[p] = m[p]
        BY <1>1, <2>2
      <4> QED BY <4>1, <4>2
    <3>4. CASE l # 1
      <4>1. PICK q \in Len(m) + 1 .. Len(s) : q = l - 1 + Len(m) /\ q \in 1 .. k - 1
        <5>1. l \in Int /\ l >= 2 /\ l <= k - Len(m) /\ k \in Int /\ k <= Len(s)
          BY <1>1, <3>1, <3>2, <3>4
        <5>2. Len(s) \in Nat /\ Len(m) \in Nat
          BY <1>1
        <5>3. l - 1 + Len(m) \in Len(m) + 1 .. Len(s) /\ l - 1 + Len(m) \in 1 .. k - 1
          BY <5>1, <5>2
        <5> QED BY <5>3
      <4>2. q - Len(m) + 1 = l
        BY <1>1, <3>2, <4>1
      <4>3. s[q] = op.jobs[l]
        BY <1>1, <4>2
      <4> QED BY <3>2, <4>1, <4>3
    <3> QED BY <3>3, <3>4
  <2> QED BY <1>1, <2>1, <2>2
<1> QED BY <1>2 DEF JobsLead, Passes

\* A hole leaves jobs m: none, chunks of zeros or a shrink header.
Filler(m) ==
    /\ m \in Seq(Jobs)
    /\ \/ Len(m) = 0 /\ Job.size <= file.file_size
       \/ Len(m) = 1 /\ m[1].do = "hdr" /\ m[1].is_shrink
       \/ /\ file.file_size < Job.size /\ Len(m) = Job.size - file.file_size
          /\ \A k \in 1 .. Len(m) : /\ Filling(m[k]) /\ m[k].id = file.file_size + k
                                    /\ m[k].base = file.file_size

\* yaffs_handle_hole() replaces its job by those that fill the hole.
LEMMA HoleLeaves ==
    ASSUME IInv, HandleHole
    PROVE  \E m \in Seq(Jobs) : Filler(m) /\ Continue(m \o Tail(op.jobs))
<1> DEFINE old  == file.file_size
           new  == Job.size
           fill == [k \in 1 .. new - old |-> DataJob(old + k, Zero, old)]
<1>1. /\ op.pc = "start" /\ Job.do = "hole"
      /\ Continue((IF new <= old THEN <<>>
                   ELSE IF new - old < SmallHole
                           /\ check_alloc_available(dev, SmallHole + 1)
                   THEN fill ELSE <<HdrJob(TRUE)>>) \o Tail(op.jobs))
  BY DEF HandleHole, At
<1>2. Job \in Jobs
  BY <1>1, TheJob DEF Calling
<1>3. new \in 0 .. MaxId /\ old \in 0 .. MaxId
  BY <1>1, <1>2, JobFields DEF IInv, File
<1>4. CASE new <= old
  <2>1. PICK m \in Seq(Jobs) : m = <<>>
    BY JobSeqs
  <2>2. Len(m) = 0
    BY <2>1
  <2> QED BY <1>1, <1>4, <2>1, <2>2 DEF Filler
<1>5. CASE ~(new <= old) /\ new - old < SmallHole /\ check_alloc_available(dev, SmallHole + 1)
  <2> HIDE DEF new, old
  <2>1. \A k \in 1 .. new - old : old + k \in Ids /\ Zero \in Data /\ old \in {-1} \cup 0 .. MaxId
    BY <1>3, LogAssumption DEF Ids, Data
  <2>2. \A k \in 1 .. new - old : DataJob(old + k, Zero, old) \in Jobs
    BY <2>1, JobTypes
  <2>3. new - old \in Nat
    BY <1>3, <1>5, LogAssumption
  <2>4. fill \in Seq(Jobs) /\ Len(fill) = new - old
    BY <2>2, <2>3
  <2>5. ASSUME NEW k \in 1 .. Len(fill)
        PROVE  Filling(fill[k]) /\ fill[k].id = old + k /\ fill[k].base = old
    <3>1. fill[k] = DataJob(old + k, Zero, old)
      BY <2>4
    <3>2. old # -1
      BY <1>3, LogAssumption
    <3> QED BY <3>1, <3>2 DEF DataJob, Filling
  <2>6. old < new
    BY <1>3, <1>5, LogAssumption
  <2>7. Continue(fill \o Tail(op.jobs))
    BY <1>1, <1>5
  <2> HIDE DEF fill
  <2>8. Filler(fill)
    BY <2>4, <2>5, <2>6 DEF Filler, old, new
  <2> QED BY <2>4, <2>7, <2>8
<1>6. CASE ~(new <= old) /\ ~(new - old < SmallHole /\ check_alloc_available(dev, SmallHole + 1))
  <2>1. PICK m \in Seq(Jobs) : m = <<HdrJob(TRUE)>>
    <3>1. TRUE \in BOOLEAN
      OBVIOUS
    <3> QED BY <3>1, JobTypes, JobSeqs
  <2>2. Len(m) = 1 /\ m[1] = HdrJob(TRUE)
    BY <2>1
  <2>3. m[1].do = "hdr" /\ m[1].is_shrink
    BY <2>2 DEF HdrJob
  <2>4. Continue(m \o Tail(op.jobs))
    BY <1>1, <1>6, <2>1
  <2> QED BY <2>2, <2>3, <2>4 DEF Filler
<1> QED BY <1>4, <1>5, <1>6

\* yaffs2_handle_hole().
LEMMA HoleScan ==
    ASSUME IInv, UpInv, HandleHole
    PROVE  UpInv'
<1>1. PICK m \in Seq(Jobs) : Filler(m) /\ Continue(m \o Tail(op.jobs))
  BY HoleLeaves
<1>2. /\ op.pc = "start" /\ op.pc \in Calling /\ Job.do = "hole"
      /\ Job.do \notin {"prune", "gc"} /\ Job.do # "hdr"
      /\ UNCHANGED <<dev, nand, file, content, doubt>>
  BY DEF HandleHole, At, Calling, history
<1>3. PICK s : s = m \o Tail(op.jobs)
  OBVIOUS
<1>4. Followed(s, m, 1) /\ Continue(s)
  BY <1>1, <1>2, <1>3, FollowedTail
<1>5. s \in Seq(Jobs) /\ Len(m) \in Nat
  BY <1>4, JobsAre DEF Followed
<1>6. op'.jobs = s
  BY <1>4, <1>5, ContinueIs
<1>7. /\ FileSound(nand, file, doubt, content)
      /\ SettledTo(nand, file, doubt, file.stored_size)
      /\ SettledTo(nand, file, doubt, file.file_size)
      /\ Guarded(nand, dev, {}) /\ JobsLead(op.jobs) /\ JobsShape(op.jobs)
  BY <1>2 DEF UpInv, JobInv, Pending
<1>8. (\A i \in doubt : ~(i > file.stored_size)) /\ ~Shortening
  BY <1>2, NoCut
<1>9. SizeBelow(nand, file, doubt) /\ CutsAhead'
  BY <1>2, <1>8 DEF UpInv, CutsAhead
<1>10. Job.size \in 0 .. MaxId /\ file.file_size \in 0 .. MaxId /\ file.file_size \in Int
  BY <1>2, TheJob, JobFields, LogAssumption DEF IInv, File
<1>11. op.jobs[1] = Job
  BY <1>2, TailIs
<1>12. \A k \in DOMAIN op.jobs : ~Filling(op.jobs[k])
  <2>1. SUFFICES ASSUME NEW k \in DOMAIN op.jobs, Filling(op.jobs[k])
                 PROVE  FALSE
    OBVIOUS
  <2>2. 1 \in 1 .. k
    BY <1>2, TailIs
  <2>3. Filling(op.jobs[1])
    BY <1>7, <2>1, <2>2 DEF JobsShape
  <2> QED BY <1>2, <1>11, <2>3 DEF Filling
<1>13. \A k \in 1 .. Len(m) : s[k] = m[k]
  BY <1>4 DEF Followed
<1>14. ASSUME NEW k \in 1 .. Len(m)
       PROVE  Shaped(s, k, file.file_size)
  <2>1. CASE Len(m) = 1 /\ m[1].do = "hdr" /\ m[1].is_shrink
    <3>1. k = 1 /\ s[1] = m[1]
      BY <1>13, <2>1
    <3> QED BY <2>1, <3>1 DEF Shaped, Filling
  <2>2. CASE /\ file.file_size < Job.size
             /\ \A l \in 1 .. Len(m) : Filling(m[l]) /\ m[l].base = file.file_size
    <3>1. Filling(s[k]) /\ s[k].base = file.file_size
      BY <1>13, <2>2
    <3>2. \A l \in 1 .. k : Filling(s[l])
      BY <1>5, <1>13, <2>2
    <3>3. file.file_size < MaxId /\ file.file_size <= file.file_size
      BY <1>10, <2>2, LogAssumption
    <3> QED BY <3>1, <3>2, <3>3 DEF Shaped, Filling
  <2> QED BY <1>1, <1>5, <2>1, <2>2 DEF Filler
<1>15. JobsShape(op.jobs)'
  <2>1. \A k \in DOMAIN s : Shaped(s, k, file.file_size)
    BY <1>2, <1>4, <1>12, <1>14, FollowShape
  <2>2. file'.file_size = file.file_size
    BY <1>2
  <2> QED BY <1>6, <2>1, <2>2, ShapedAll
<1>16. \A j \in Ids : SettledNow(j)' <=> SettledNow(j)
  BY <1>2 DEF SettledNow, Settled
<1>17. ASSUME NEW k \in 1 .. Len(m), NEW j \in Ids, Passes(m[k], j)
       PROVE  SettledNow(j)' \/ \E l \in 1 .. k - 1 : Settles(m[l], j)
  <2>1. CASE Len(m) = 1 /\ m[1].do = "hdr" /\ m[1].is_shrink
    <3>1. k = 1
      BY <2>1
    <3> QED BY <1>17, <2>1, <3>1 DEF Passes
  <2>2. CASE /\ file.file_size < Job.size
             /\ \A l \in 1 .. Len(m) : Filling(m[l]) /\ m[l].id = file.file_size + l
    <3>1. j < file.file_size + k
      BY <1>17, <2>2 DEF Passes, Filling
    <3>2. CASE j <= file.file_size
      BY <1>7, <1>16, <3>2 DEF SettledTo, SettledNow
    <3>3. CASE ~(j <= file.file_size)
      <4>1. PICK l \in 1 .. k - 1 : l = j - file.file_size
        BY <1>5, <1>10, <3>1, <3>3 DEF Ids
      <4>2. l \in 1 .. Len(m) /\ file.file_size + l = j
        BY <1>5, <1>10, <4>1 DEF Ids
      <4>3. Settles(m[l], j)
        BY <2>2, <4>2 DEF Settles
      <4> QED BY <4>3
    <3> QED BY <3>2, <3>3
  <2> QED BY <1>1, <1>5, <2>1, <2>2 DEF Filler
<1>18. ASSUME NEW j \in Ids, Settles(Job, j)
       PROVE  SettledNow(j)' \/ \E l \in 1 .. Len(m) : Settles(m[l], j)
  <2>1. j <= Job.size
    BY <1>2, <1>18 DEF Settles, Filling
  <2>2. CASE j <= file.file_size
    BY <1>7, <1>16, <2>2 DEF SettledTo, SettledNow
  <2>3. CASE ~(j <= file.file_size) /\ Len(m) = 1 /\ m[1].do = "hdr" /\ m[1].is_shrink
    BY <2>3 DEF Settles
  <2>4. CASE /\ ~(j <= file.file_size) /\ Len(m) = Job.size - file.file_size
             /\ \A k \in 1 .. Len(m) : Filling(m[k]) /\ m[k].id = file.file_size + k
    <3>1. PICK l \in 1 .. Len(m) : l = j - file.file_size
      BY <1>10, <2>1, <2>4, LogAssumption DEF Ids
    <3>2. file.file_size + l = j
      BY <1>10, <3>1 DEF Ids
    <3>3. Settles(m[l], j)
      BY <2>4, <3>2 DEF Settles
    <3> QED BY <3>3
  <2>5. ~(j <= file.file_size) => ~(Job.size <= file.file_size)
    BY <1>10, <2>1, LogAssumption DEF Ids
  <2> QED BY <1>1, <2>2, <2>3, <2>4, <2>5 DEF Filler
<1>19. JobsLead(op.jobs)'
  BY <1>2, <1>4, <1>6, <1>7, <1>16, <1>17, <1>18, FollowLead
<1> QED BY <1>2, <1>4, <1>5, <1>7, <1>9, <1>15, <1>19, NextScan

\* The file grows over what the hole job before has settled.
LEMMA GrowScan ==
    ASSUME IInv, IInv', UpInv, Grow
    PROVE  UpInv'
<1>1. /\ op.pc = "start" /\ op.pc \in Calling /\ Job.do = "grow"
      /\ Job.do \notin {"prune", "gc"} /\ Job.do # "hdr"
      /\ file' = [file EXCEPT !.file_size = Job.size]
      /\ Continue(Tail(op.jobs)) /\ UNCHANGED <<dev, nand, content, doubt>>
  BY DEF Grow, At, Calling, NextJob, history
<1>2. /\ FileSound(nand, file, doubt, content) /\ Guarded(nand, dev, {})
      /\ SettledTo(nand, file, doubt, file.stored_size)
      /\ JobsLead(op.jobs) /\ JobsShape(op.jobs)
  BY <1>1 DEF UpInv, JobInv, Pending
<1>3. (\A i \in doubt : ~(i > file.stored_size)) /\ SizeBelow(nand, file, doubt)
  BY <1>1, NoCut DEF UpInv
<1>4. file \in File /\ file' \in File
  BY DEF IInv
<1>5. /\ file'.tree = file.tree /\ file'.hdr_chunk = file.hdr_chunk
      /\ file'.stored_size = file.stored_size /\ file'.file_size = Job.size
  BY <1>1, <1>4 DEF File
<1>6. FileSound(nand', file', doubt', content') /\ SizeBelow(nand', file', doubt')
  <2>1. HdrNewest(nand', file') /\ TreeKept(nand', file')
    BY <1>1, <1>2, <1>5 DEF FileSound, HdrNewest, TreeKept
  <2>2. OthersGone(nand', file', doubt') /\ ContentIs(nand', file', doubt', content')
    BY <1>1, <1>2, <1>5 DEF FileSound, OthersGone, ContentIs
  <2>3. SizeAbove(nand', file', doubt') /\ SizeBelow(nand', file', doubt')
    BY <1>1, <1>2, <1>3, <1>5 DEF FileSound, SizeAbove, SizeBelow
  <2> QED BY <2>1, <2>2, <2>3 DEF FileSound
<1>7. \A j \in Ids : Settled(nand, file, doubt, j) => Settled(nand', file', doubt', j)
  BY <1>1, <1>5 DEF Settled
<1>8. \A j \in Ids : SettledNow(j) => SettledNow(j)'
  BY <1>7 DEF SettledNow
<1>9. SettledTo(nand', file', doubt', file'.stored_size)
  BY <1>2, <1>5, <1>7 DEF SettledTo
<1>10. SettledTo(nand', file', doubt', file'.file_size)
  <2>1. SUFFICES ASSUME NEW j \in Ids, j <= Job.size
                 PROVE  Settled(nand', file', doubt', j)
    BY <1>5 DEF SettledTo
  <2>2. 1 \in DOMAIN op.jobs /\ op.jobs[1] = Job
    BY <1>1, TailIs
  <2>3. Passes(op.jobs[1], j)
    BY <1>1, <2>1, <2>2 DEF Passes
  <2>4. ~\E l \in 1 .. 1 - 1 : Settles(op.jobs[l], j)
    OBVIOUS
  <2>5. SettledNow(j)
    BY <1>2, <2>2, <2>3, <2>4 DEF JobsLead
  <2> QED BY <1>7, <2>5 DEF SettledNow
<1>11. Tail(op.jobs) \in Seq(Jobs)
  BY <1>1, TailIs
<1>12. op'.jobs = Tail(op.jobs)
  BY <1>1, <1>11, ContinueIs
<1>13. JobsLead(op.jobs)'
  <2>1. \A j \in Ids : Settles(Job, j) => SettledNow(j)'
    BY <1>1 DEF Settles, Filling
  <2> QED BY <1>1, <1>2, <1>8, <1>12, <2>1, LeadTail
<1>14. JobsShape(op.jobs)'
  BY <1>1, <1>2, <1>4, <1>12, ShapeTail
<1>15. CutsAhead'
  BY <1>1, <1>3, <1>5 DEF CutsAhead
<1> QED BY <1>1, <1>2, <1>6, <1>9, <1>10, <1>11, <1>13, <1>14, <1>15, NextScan

\* The additional call of the collector.
LEMMA GcOnlyScan ==
    ASSUME IInv, IInv', UpInv, GcOnly
    PROVE  UpInv'
<1>1. /\ op.pc = "program" /\ op.pc \in Calling /\ Job.do = "gc"
      /\ Continue(Tail(op.jobs)) /\ UNCHANGED <<dev, nand, file, content, doubt>>
  BY DEF GcOnly, Calling, NextJob, history
<1>2. /\ FileSound(nand, file, doubt, content) /\ Guarded(nand, dev, {})
      /\ SettledTo(nand, file, doubt, file.stored_size)
      /\ SettledTo(nand, file, doubt, file.file_size)
      /\ JobsLead(op.jobs) /\ JobsShape(op.jobs)
  BY <1>1 DEF UpInv, JobInv, Pending
<1>3. file \in File /\ file' \in File /\ file.file_size \in Int
  BY LogAssumption DEF IInv, File
<1>4. \A j \in Ids : SettledNow(j) => SettledNow(j)'
  BY <1>1 DEF SettledNow, Settled
<1>5. Tail(op.jobs) \in Seq(Jobs)
  BY <1>1, TailIs
<1>6. op'.jobs = Tail(op.jobs)
  BY <1>1, <1>5, ContinueIs
<1>7. JobsLead(op.jobs)'
  <2>1. \A j \in Ids : Settles(Job, j) => SettledNow(j)'
    BY <1>1 DEF Settles, Filling
  <2> QED BY <1>1, <1>2, <1>4, <1>6, <2>1, LeadTail
<1>8. JobsShape(op.jobs)'
  <2>1. file.file_size <= file'.file_size
    BY <1>1, <1>3
  <2> QED BY <1>1, <1>2, <1>3, <1>6, <2>1, ShapeTail
<1>9. ASSUME \E k \in DOMAIN op.jobs : op.jobs[k].do = "prune"
      PROVE  \E k \in DOMAIN op'.jobs : op'.jobs[k].do = "prune"
  <2>1. PICK k \in DOMAIN op.jobs : op.jobs[k].do = "prune"
    BY <1>9
  <2>2. PICK s : s = Tail(op.jobs)
    OBVIOUS
  <2>3. /\ Len(op.jobs) \in Nat /\ DOMAIN op.jobs = 1 .. Len(op.jobs) /\ op.jobs[1] = Job
        /\ DOMAIN s = 1 .. Len(op.jobs) - 1
        /\ \A p \in DOMAIN s : s[p] = op.jobs[p + 1]
    BY <1>1, <2>2, TailIs
  <2>4. k # 1
    BY <1>1, <2>1, <2>3
  <2>5. k - 1 \in DOMAIN s /\ (k - 1) + 1 = k
    BY <2>1, <2>3, <2>4
  <2>6. s[k - 1] = op.jobs[k]
    BY <2>3, <2>5
  <2> QED BY <1>6, <2>1, <2>2, <2>5, <2>6
<1>10. CutsAhead'
  BY <1>1, <1>9 DEF UpInv, JobInv, CutsAhead
<1>11. Shortening' \/ SizeBelow(nand', file', doubt')
  <2>1. CASE Shortening
    BY <1>1, <1>9, <2>1 DEF Shortening
  <2>2. CASE ~Shortening
    BY <1>1, <2>2 DEF UpInv
  <2> QED BY <2>1, <2>2
<1> QED BY <1>1, <1>2, <1>5, <1>7, <1>8, <1>10, <1>11, NextScan

\* The file is being cut off at a size it has, and a header is to follow.
LEMMA PruneParts ==
    ASSUME IInv, UpInv, At("prune")
    PROVE  /\ op.pc = "start" /\ op.pc \in Calling /\ Job.do = "prune"
           /\ Job.size \in 0 .. MaxId /\ Job.size \in Int /\ Job.size < MaxId
           /\ Job.size <= file.file_size
           /\ 1 \in DOMAIN op.jobs /\ op.jobs[1] = Job
           /\ 2 \in DOMAIN op.jobs /\ op.jobs[2].do = "hdr"
           /\ FileSound(nand, file, doubt, content) /\ Guarded(nand, dev, {})
           /\ SettledTo(nand, file, doubt, file.stored_size)
           /\ SettledTo(nand, file, doubt, file.file_size)
           /\ JobsLead(op.jobs) /\ JobsShape(op.jobs)
           /\ FlashInv(nand) /\ file \in File /\ doubt \subseteq Ids
           /\ file.stored_size \in Int /\ file.file_size \in Int
<1>1. op.pc = "start" /\ op.pc \in Calling /\ Job.do = "prune"
  BY DEF At, Calling
<1>2. 1 \in DOMAIN op.jobs /\ op.jobs[1] = Job /\ Job \in Jobs
  BY <1>1, TailIs
<1>3. Job.size \in 0 .. MaxId /\ Job.size \in Int
  BY <1>1, <1>2, JobFields, LogAssumption
<1>4. /\ FileSound(nand, file, doubt, content) /\ Guarded(nand, dev, {})
      /\ SettledTo(nand, file, doubt, file.stored_size)
      /\ SettledTo(nand, file, doubt, file.file_size)
      /\ JobsLead(op.jobs) /\ JobsShape(op.jobs)
  BY <1>1 DEF UpInv, JobInv, Pending
<1>5. FlashInv(nand) /\ file \in File /\ doubt \subseteq Ids
  BY DEF IInv
<1>6. file.stored_size \in Int /\ file.file_size \in Int
  BY <1>5, LogAssumption DEF File
<1>7. /\ op.jobs[1].size <= file.file_size /\ op.jobs[1].size < MaxId
      /\ 1 + 1 \in DOMAIN op.jobs /\ op.jobs[1 + 1].do = "hdr"
  BY <1>1, <1>2, <1>4 DEF JobsShape
<1> QED BY <1>1, <1>2, <1>3, <1>4, <1>5, <1>6, <1>7

\* yaffs_resize_file_down() comes to its end.
LEMMA PruneEndScan ==
    ASSUME IInv, IInv', UpInv, PruneEnd
    PROVE  UpInv'
<1>1. /\ At("prune") /\ ToPrune = {}
      /\ file' = [file EXCEPT !.file_size = Job.size, !.stored_size = Job.size]
      /\ doubt' = doubt \cup {i \in Ids : i > Job.size}
      /\ Continue(Tail(op.jobs)) /\ UNCHANGED <<dev, nand, content>>
  BY DEF PruneEnd, NextJob
<1>2. /\ op.pc = "start" /\ op.pc \in Calling /\ Job.do = "prune"
      /\ Job.size \in 0 .. MaxId /\ Job.size \in Int /\ Job.size < MaxId
      /\ Job.size <= file.file_size
      /\ 2 \in DOMAIN op.jobs /\ op.jobs[2].do = "hdr"
      /\ FileSound(nand, file, doubt, content) /\ Guarded(nand, dev, {})
      /\ SettledTo(nand, file, doubt, file.file_size)
      /\ JobsLead(op.jobs) /\ JobsShape(op.jobs)
      /\ FlashInv(nand) /\ file \in File
      /\ file.stored_size \in Int /\ file.file_size \in Int
  BY <1>1, PruneParts
<1>3. file' \in File
  BY DEF IInv
<1>4. /\ file'.tree = file.tree /\ file'.hdr_chunk = file.hdr_chunk
      /\ file'.stored_size = Job.size /\ file'.file_size = Job.size
  BY <1>1, <1>2 DEF File
<1>5. FileCut(file, file', doubt, doubt')
  <2>1. \A i \in Ids : file.tree[i] # NoChunk => i <= Job.size
    BY <1>1, <1>2 DEF ToPrune, Ids
  <2>2. \A i \in Ids : i > Job.size => i \in doubt'
    BY <1>1
  <2>3. doubt \subseteq doubt'
    BY <1>1
  <2> QED BY <1>2, <1>4, <2>1, <2>2, <2>3 DEF FileCut
<1>6. /\ FileSound(nand, file', doubt', content)
      /\ \A j \in Ids : Settled(nand, file, doubt, j) => Settled(nand, file', doubt', j)
  BY <1>2, <1>5, CutSound
<1>7. SettledTo(nand, file', doubt', Job.size)
  BY <1>2, <1>6, LogAssumption DEF SettledTo, Ids
<1>8. \A j \in Ids : SettledNow(j) => SettledNow(j)'
  BY <1>1, <1>6 DEF SettledNow
<1>9. Shortening'
  <2>1. MaxId \in doubt' /\ MaxId > file'.stored_size
    BY <1>1, <1>2, <1>4, LogAssumption DEF Ids
  <2> QED BY <2>1 DEF Shortening
<1>10. Tail(op.jobs) \in Seq(Jobs)
  BY <1>2, TailIs
<1>11. op'.jobs = Tail(op.jobs)
  BY <1>1, <1>10, ContinueIs
<1>12. JobsLead(op.jobs)'
  <2>1. \A j \in Ids : Settles(Job, j) => SettledNow(j)'
    BY <1>2 DEF Settles, Filling
  <2> QED BY <1>2, <1>8, <1>11, <2>1, LeadTail
<1>13. JobsShape(op.jobs)'
  BY <1>2, <1>3, <1>11, ShapeTail
<1>14. CutsAhead'
  <2>1. PICK s \in Seq(Jobs) : s = Tail(op.jobs)
    BY <1>10
  <2>2. 1 \in DOMAIN s /\ s[1] = op.jobs[2]
    <3>1. /\ DOMAIN op.jobs = 1 .. Len(op.jobs) /\ Len(op.jobs) \in Nat
          /\ DOMAIN s = 1 .. Len(op.jobs) - 1
          /\ \A k \in DOMAIN s : s[k] = op.jobs[k + 1]
      BY <1>2, <2>1, TailIs
    <3>2. 1 \in DOMAIN s
      BY <1>2, <3>1
    <3> QED BY <3>1, <3>2
  <2>3. s # <<>> /\ Head(s) = s[1]
    <3>1. s # <<>>
      BY <2>2, JobsAre
    <3> QED BY <3>1, HeadTailProperties
  <2>4. op'.jobs = s /\ op'.pc \in {"idle", "start"}
    BY <1>1, <2>1, ContinueIs
  <2>5. op'.jobs # <<>> /\ Job'.do = "hdr" /\ op'.pc # "delete"
    BY <1>2, <2>2, <2>3, <2>4 DEF Job
  <2>6. file'.file_size = file'.stored_size
    BY <1>4
  <2> QED BY <2>5, <2>6 DEF CutsAhead
<1>15. /\ FileSound(nand', file', doubt', content') /\ Guarded(nand', dev', {})
       /\ SettledTo(nand', file', doubt', file'.stored_size)
       /\ SettledTo(nand', file', doubt', file'.file_size)
  BY <1>1, <1>2, <1>4, <1>6, <1>7
<1> QED BY <1>1, <1>9, <1>10, <1>12, <1>13, <1>14, <1>15, NextScan

\* ... after the chunks have gone.
LEMMA PruneChunkScan ==
    ASSUME IInv, IInv', UpInv, PruneChunk
    PROVE  UpInv'
<1> DEFINE last == CHOOSE x \in ToPrune : \A y \in ToPrune : y <= x
           c == file.tree[last]
<1>1. /\ At("prune") /\ ToPrune # {}
      /\ dev' = Deleted(dev, c) /\ nand' = Erase(nand, dev, dev')
      /\ file' = [file EXCEPT !.tree[last] = NoChunk]
      /\ doubt' = doubt \cup {i \in Ids : i > Job.size}
      /\ UNCHANGED <<op, content>>
  BY DEF PruneChunk, Deleted
<1>2. /\ op.pc = "start" /\ Job.do = "prune" /\ Job.size \in Int
      /\ 1 \in DOMAIN op.jobs /\ op.jobs[1] = Job
      /\ FileSound(nand, file, doubt, content) /\ Guarded(nand, dev, {})
      /\ SettledTo(nand, file, doubt, file.stored_size)
      /\ SettledTo(nand, file, doubt, file.file_size)
      /\ JobsLead(op.jobs) /\ JobsShape(op.jobs)
      /\ FlashInv(nand) /\ file \in File /\ file.stored_size \in Int
  BY <1>1, PruneParts
<1>3. last \in ToPrune
  <2>1. ToPrune \in SUBSET Nat /\ \A x \in ToPrune : x <= MaxId
    BY LogAssumption DEF ToPrune, Ids
  <2>2. \E x \in ToPrune : \A y \in ToPrune : y <= x
    BY <1>1, <2>1, GreatestNat, LogAssumption
  <2> QED BY <2>2
<1> HIDE DEF last
<1>4. last \in Ids /\ last > Job.size /\ c # NoChunk
  BY <1>3 DEF ToPrune
<1>5. Up /\ Sane(dev, InUse) /\ FlashMatches(nand, dev) /\ FileMatches(nand, file)
  BY <1>2 DEF IInv, Up, Mounted
<1>6. c \in InUse /\ c # file.hdr_chunk
  BY <1>2, <1>4, <1>5, InUseParts DEF FileMatches
<1>7. \A i \in Ids : file.tree[i] = c => i = last
  BY <1>4, <1>5 DEF FileMatches
<1>8. /\ file'.hdr_chunk = file.hdr_chunk
      /\ file'.stored_size = file.stored_size /\ file'.file_size = file.file_size
      /\ \A i \in Ids : file'.tree[i] = IF i = last THEN NoChunk ELSE file.tree[i]
  BY <1>1, <1>2, <1>4 DEF File
<1>9. FileCut(file, file', doubt, doubt')
  <2>1. \A i \in Ids : file.tree[i] # NoChunk => i <= file.stored_size
    BY <1>2 DEF FileSound, TreeKept
  <2>2. last \in doubt' /\ doubt \subseteq doubt'
    BY <1>1, <1>4
  <2>3. file.stored_size <= file'.stored_size
    BY <1>2, <1>8
  <2> QED BY <1>2, <1>8, <2>1, <2>2, <2>3 DEF FileCut
<1>10. /\ FileSound(nand, file', doubt', content)
       /\ \A j \in Ids : Settled(nand, file, doubt, j) => Settled(nand, file', doubt', j)
  BY <1>2, <1>9, CutSound
<1> HIDE DEF c
<1>11. Without(file', c)
  <2>1. \A i \in Ids : file'.tree[i] # c
    BY <1>4, <1>7, <1>8
  <2>2. \A i \in Ids : file'.tree[i] \in {file.tree[i], NoChunk}
    BY <1>8
  <2> QED BY <1>8, <2>1, <2>2 DEF Without
<1>12. PICK S \in SUBSET {file.hdr_chunk[1]} : S = {}
  OBVIOUS
<1>13. Guarded(nand, dev, S)
  BY <1>2, <1>12
<1>14. Preserved(nand, nand', file', doubt', content) /\ Guarded(nand', dev', S)
  BY <1>1, <1>4, <1>5, <1>6, <1>10, <1>11, <1>13, DelScan
<1>15. /\ FileSound(nand', file', doubt', content')
       /\ \A j \in Ids : Settled(nand, file, doubt, j) => Settled(nand', file', doubt', j)
  BY <1>1, <1>10, <1>14 DEF Preserved
<1>16. /\ SettledTo(nand', file', doubt', file'.stored_size)
       /\ SettledTo(nand', file', doubt', file'.file_size)
  BY <1>2, <1>8, <1>15 DEF SettledTo
<1>17. \A j \in Ids : SettledNow(j) => SettledNow(j)'
  BY <1>15 DEF SettledNow
<1>18. op'.jobs = op.jobs /\ op'.pc = "start"
  BY <1>1, <1>2
<1>19. \E k \in DOMAIN op'.jobs : op'.jobs[k].do = "prune"
  BY <1>2, <1>18
<1>20. Shortening' /\ CutsAhead'
  BY <1>19 DEF Shortening, CutsAhead
<1>21. JobsLead(op.jobs)'
  BY <1>2, <1>17, <1>18 DEF JobsLead
<1>22. JobsShape(op.jobs)'
  BY <1>2, <1>8, <1>18 DEF JobsShape
<1>23. JobDone' /\ Pending' = {} /\ (op'.pc = "idle" => op'.jobs = <<>>)
  BY <1>18 DEF JobDone, Pending
<1>24. Guarded(nand', dev', {})
  BY <1>12, <1>14
<1> QED BY <1>15, <1>16, <1>20, <1>21, <1>22, <1>23, <1>24 DEF UpInv, JobInv

-----------------------------------------------------------------------------
(* Writing.                                                                *)

\* The shape of the jobs when the file grows, or keeps its size.
LEMMA ShapeGrows ==
    ASSUME op.jobs \in Seq(Jobs), JobsShape(op.jobs), op'.jobs = op.jobs,
           file \in File, file' \in File, file.file_size <= file'.file_size
    PROVE  JobsShape(op.jobs)'
<1>1. file.file_size \in Int /\ file'.file_size \in Int
  BY LogAssumption DEF File
<1>2. ASSUME NEW k \in DOMAIN op.jobs
      PROVE  Shaped(op.jobs, k, file'.file_size)
  <2>1. op.jobs[k] \in Jobs
    BY JobsAre
  <2>2. /\ op.jobs[k].do = "prune" => op.jobs[k].size \in Int
        /\ Filling(op.jobs[k]) => op.jobs[k].base \in Int
    BY <2>1, JobFields, LogAssumption DEF Filling
  <2>3. Shaped(op.jobs, k, file.file_size)
    BY DEF JobsShape, Shaped
  <2> QED BY <1>1, <2>2, <2>3 DEF Shaped
<1> QED BY <1>2, ShapedAll

\* The record is written, and the chunk that it replaces still to be deleted.
LEMMA WrittenScan ==
    ASSUME UpInv, op.jobs \in Seq(Jobs), op'.pc = "delete", op'.jobs = op.jobs,
           Job.do \in {"data", "hdr"}, file \in File, file' \in File,
           file.file_size <= file'.file_size,
           FileSound(nand', file', doubt', content'), SizeBelow(nand', file', doubt'),
           SettledTo(nand', file', doubt', file'.stored_size),
           SettledTo(nand', file', doubt', file'.file_size),
           Guarded(nand', dev', Pending'), JobsLead(op.jobs)',
           \A j \in Ids : Settles(Job, j) => SettledNow(j)',
           \A i \in doubt' : ~(i > file'.stored_size)
    PROVE  UpInv'
<1>1. Job' = Job
  BY DEF Job
<1>2. JobsShape(op.jobs)'
  BY ShapeGrows DEF UpInv, JobInv
<1>3. JobDone'
  BY <1>1 DEF JobDone
<1>4. CutsAhead'
  BY DEF CutsAhead
<1> QED BY <1>2, <1>3, <1>4 DEF UpInv, JobInv

\* yaffs_wr_data_obj(): the data is on flash.
LEMMA DataWrittenScan ==
    ASSUME IInv, IInv', UpInv, content \in [Ids -> Data \cup {Hole}],
           op.pc = "program", Job.do = "data",
           NEW d, d = with_alloc_block(dev), CanAlloc(d, FALSE), DataWritten(d)
    PROVE  UpInv'
<1>1. PICK c : c = NextChunk(d)
  OBVIOUS
<1>2. PICK r : r = DataChunk(Job.id, Job.val, 0)
  OBVIOUS
<1>3. PICK f : f = Located(r, c)
  OBVIOUS
<1>4. /\ Program(d, r)
      /\ file' = [f EXCEPT !.stored_size = Stored(Job.id), !.file_size = Size(Job.id)]
      /\ content' = [content EXCEPT ![Job.id] = Job.val] /\ doubt' = doubt \ {Job.id}
      /\ op'.pc = "delete" /\ op'.jobs = op.jobs
  <2>1. op \in Operation
    BY DEF IInv
  <2> QED BY <1>1, <1>2, <1>3, <2>1 DEF DataWritten, Operation
<1>5. op.pc \in Calling /\ Job.do \notin {"prune", "gc"} /\ Job.do # "hdr"
  BY DEF Calling
<1>6. /\ Up /\ Up' /\ file \in File /\ file' \in File /\ FlashInv(nand) /\ FlashInv(nand')
      /\ Sane(d, InUse) /\ FlashMatches(nand, d) /\ d.alloc_block # NoBlock
      /\ ~Written(nand, c)
  BY <1>1, <1>4, WriteStart DEF IInv, CanAlloc, Up
<1>7. PICK i \in Ids : i = Job.id
  BY <1>5, TheJob, JobFields
<1>8. Job.val \in Data
  BY <1>5, TheJob, JobFields
<1>9. /\ r \in Record /\ r # Blank /\ r.kind = "data" /\ r.kind # "hdr"
      /\ r.id = i /\ r.val = Job.val
  BY <1>2, <1>7, <1>8 DEF DataChunk, Record, Blank
<1>10. /\ FileSound(nand, file, doubt, content)
       /\ SettledTo(nand, file, doubt, file.stored_size)
       /\ SettledTo(nand, file, doubt, file.file_size)
       /\ Guarded(nand, dev, {}) /\ JobsLead(op.jobs)
  BY DEF UpInv, JobInv, Pending
<1>11. (\A j \in doubt : ~(j > file.stored_size)) /\ SizeBelow(nand, file, doubt)
  BY <1>5, NoCut DEF UpInv
<1>12. PICK S \in SUBSET Blocks : S = {}
  OBVIOUS
<1>13. Guarded(nand, d, S)
  <2>1. Sane(dev, InUse) /\ FlashMatches(nand, dev) /\ Guarded(nand, dev, S)
    BY <1>6, <1>10, <1>12 DEF IInv, Mounted
  <2> QED BY <1>6, <2>1, AllocGuarded
<1>14. /\ Appended(nand, nand', c) /\ nand'[c].kind = "data"
       /\ nand'[c].id = i /\ nand'[c].val = Job.val
       /\ Guarded(nand', dev', S)
  <2>1. S \subseteq S /\ (r.kind = "hdr" /\ r.is_shrink => c[1] \in S)
    BY <1>9
  <2>2. /\ Appended(nand, nand', c) /\ c[1] \in Blocks
        /\ nand'[c].kind = r.kind
        /\ r.kind = "data" => nand'[c].id = r.id /\ nand'[c].val = r.val
        /\ r.kind = "hdr" => nand'[c].size = r.size /\ nand'[c].is_shrink = r.is_shrink
        /\ Guarded(nand', dev', S)
    BY <1>1, <1>4, <1>6, <1>9, <1>13, <2>1, AppendStep
  <2> QED BY <1>9, <2>2
<1>15. c \in Chunks /\ c # NoChunk
  <2>1. c \in Chunks
    BY <1>14 DEF Appended
  <2> QED BY <2>1, ChunkParts DEF NoChunk, Blocks
<1>16. /\ f \in File /\ f.hdr_chunk = file.hdr_chunk /\ f.tree = [file.tree EXCEPT ![i] = c]
  BY <1>3, <1>6, <1>9, <1>15, LocatedIs
<1>17. /\ file'.hdr_chunk = file.hdr_chunk /\ file'.tree = [file.tree EXCEPT ![i] = c]
       /\ file'.stored_size = Stored(i) /\ file'.file_size = Size(i)
  BY <1>4, <1>7, <1>16 DEF File
<1>18. /\ i \in Int /\ file.stored_size \in Int /\ file.file_size \in Int
       /\ file.tree \in [Ids -> Chunks \cup {NoChunk}]
  BY <1>6, LogAssumption DEF File, Ids
<1>19. /\ file.stored_size <= file'.stored_size /\ i <= file'.stored_size
       /\ file'.stored_size \in {file.stored_size, i} /\ file'.stored_size \in Int
       /\ file.file_size <= file'.file_size /\ file'.file_size \in {file.file_size, i}
  BY <1>17, <1>18 DEF Stored, Size
<1>20. DataPlaced(nand', c, i, file, file', doubt, doubt', content, content')
  <2>1. content'[i] = nand'[c].val /\ \A j \in Ids \ {i} : content'[j] = content[j]
    BY <1>4, <1>7, <1>14
  <2> QED BY <1>4, <1>7, <1>14, <1>17, <1>18, <1>19, <2>1 DEF DataPlaced
<1>21. /\ FileSound(nand', file', doubt', content')
       /\ \A j \in Ids : Settled(nand, file, doubt, j) => Settled(nand', file', doubt', j)
       /\ SizeBelow(nand', file', doubt')
  <2> DEFINE n == nand
             m == nand'
             g == file'
             h == file
             D == doubt
             E == doubt'
             t == content
             u == content'
  <2>1. /\ FileSound(n, h, D, t) /\ Appended(n, m, c) /\ DataPlaced(m, c, i, h, g, D, E, t, u)
        /\ SizeBelow(n, h, D) /\ g.stored_size \in {h.stored_size, i}
    BY <1>10, <1>11, <1>14, <1>19, <1>20
  <2> HIDE DEF n, m, g, h, D, E, t, u
  <2>2. /\ FileSound(m, g, E, u)
        /\ \A j \in Ids : Settled(n, h, D, j) => Settled(m, g, E, j)
        /\ SizeBelow(n, h, D) /\ g.stored_size \in {h.stored_size, i} => SizeBelow(m, g, E)
    BY <2>1, DataSound
  <2> QED BY <2>1, <2>2 DEF n, m, g, h, D, E, t, u
<1>22. ASSUME NEW j \in Ids, j <= i
       PROVE  Settled(nand', file', doubt', j)
  <2>1. CASE j = i
    BY <1>15, <1>17, <1>18, <2>1 DEF Settled
  <2>2. CASE j # i
    <3>1. 1 \in DOMAIN op.jobs /\ op.jobs[1] = Job
      BY <1>5, TailIs
    <3>2. j < Job.id
      BY <1>7, <1>18, <1>22, <2>2 DEF Ids
    <3>3. Passes(op.jobs[1], j)
      BY <3>1, <3>2 DEF Passes
    <3>4. ~\E l \in 1 .. 1 - 1 : Settles(op.jobs[l], j)
      OBVIOUS
    <3>5. Settled(nand, file, doubt, j)
      BY <1>10, <3>1, <3>3, <3>4 DEF JobsLead, SettledNow
    <3> QED BY <1>21, <3>5
  <2> QED BY <2>1, <2>2
<1>23. /\ SettledTo(nand', file', doubt', file'.stored_size)
       /\ SettledTo(nand', file', doubt', file'.file_size)
  BY <1>10, <1>19, <1>21, <1>22 DEF SettledTo
<1>24. op.jobs \in Seq(Jobs)
  BY <1>5, TailIs
<1>25. JobsLead(op.jobs)'
  BY <1>4, <1>10, <1>21 DEF JobsLead, SettledNow
<1>26. \A j \in Ids : Settles(Job, j) => SettledNow(j)'
  BY <1>7, <1>15, <1>17, <1>18 DEF Settles, SettledNow, Settled
<1>27. \A j \in doubt' : ~(j > file'.stored_size)
  <2>1. \A j \in doubt' : j \in doubt /\ j \in Int
    BY <1>4, LogAssumption DEF IInv, Ids
  <2> QED BY <1>11, <1>18, <1>19, <2>1
<1>28. Pending' = S
  BY <1>4, <1>12 DEF Pending, Job
<1>29. Job.do \in {"data", "hdr"} /\ Guarded(nand', dev', Pending')
  BY <1>14, <1>28
<1> QED BY <1>4, <1>6, <1>19, <1>21, <1>23, <1>24, <1>25, <1>26, <1>27, <1>29, WrittenScan

\* yaffs_update_oh(): the header is on flash, and what it cuts off is gone.
LEMMA WriteHdrScan ==
    ASSUME IInv, IInv', UpInv, content \in [Ids -> Data \cup {Hole}], WriteHdr
    PROVE  UpInv'
<1>1. PICK d : d = with_alloc_block(dev)
  OBVIOUS
<1>2. PICK c : c = NextChunk(d)
  OBVIOUS
<1>3. PICK r : r = HdrChunk(file.stored_size, Job.is_shrink, 0)
  OBVIOUS
<1>4. /\ op.pc = "program" /\ Job.do = "hdr" /\ CanAlloc(d, TRUE) /\ Program(d, r)
      /\ file' = Located(r, c)
      /\ doubt' = {i \in doubt : i <= file.stored_size}
      /\ content' = [i \in Ids |-> IF i \in doubt \ doubt' THEN Hole ELSE content[i]]
      /\ op'.pc = "delete" /\ op'.jobs = op.jobs
  <2>1. op \in Operation
    BY DEF IInv
  <2> QED BY <1>1, <1>2, <1>3, <2>1 DEF WriteHdr, Operation
<1>5. op.pc \in Calling /\ Job.do \notin {"prune", "gc"} /\ op.pc # "delete"
  BY <1>4 DEF Calling
<1>6. /\ Up /\ Up' /\ file \in File /\ file' \in File /\ FlashInv(nand) /\ FlashInv(nand')
      /\ Sane(d, InUse) /\ FlashMatches(nand, d) /\ d.alloc_block # NoBlock
      /\ ~Written(nand, c)
  BY <1>1, <1>2, <1>4, WriteStart DEF IInv, CanAlloc, Up
<1>7. file.stored_size \in 0 .. MaxId /\ file.stored_size \in Int /\ file.file_size \in Int
  BY <1>6, LogAssumption DEF File
<1>8. Job.is_shrink \in BOOLEAN
  BY <1>4, <1>5, TheJob, JobFields
<1>9. /\ r \in Record /\ r # Blank /\ r.kind = "hdr" /\ r.kind # "data"
      /\ r.size = file.stored_size /\ r.is_shrink = Job.is_shrink
  BY <1>3, <1>7, <1>8 DEF HdrChunk, Record, Blank
<1>10. /\ FileSound(nand, file, doubt, content)
       /\ SettledTo(nand, file, doubt, file.stored_size)
       /\ SettledTo(nand, file, doubt, file.file_size)
       /\ Guarded(nand, dev, {}) /\ JobsLead(op.jobs) /\ JobsShape(op.jobs)
  BY <1>4 DEF UpInv, JobInv, Pending
<1>11. (\E i \in doubt : i > file.stored_size) => file.file_size = file.stored_size
  <2>1. ~\E k \in DOMAIN op.jobs : op.jobs[k].do = "prune"
    BY <1>5, NoPrune
  <2> QED BY <2>1 DEF UpInv, JobInv, CutsAhead
<1>12. PICK S \in SUBSET Blocks : S = {}
  OBVIOUS
<1>13. PICK Q \in SUBSET {c[1]} : Q = IF Job.is_shrink THEN {c[1]} ELSE {}
  OBVIOUS
<1>14. Guarded(nand, d, S)
  <2>1. Sane(dev, InUse) /\ FlashMatches(nand, dev) /\ Guarded(nand, dev, S)
    BY <1>6, <1>10, <1>12 DEF IInv, Mounted
  <2> QED BY <1>1, <1>6, <2>1, AllocGuarded
<1>15. /\ Appended(nand, nand', c) /\ nand'[c].kind = "hdr"
       /\ nand'[c].size = file.stored_size /\ nand'[c].is_shrink = Job.is_shrink
       /\ Guarded(nand', dev', Q)
  <2>1. S \subseteq Q /\ (r.kind = "hdr" /\ r.is_shrink => c[1] \in Q)
    BY <1>9, <1>12, <1>13
  <2>2. /\ Appended(nand, nand', c) /\ c[1] \in Blocks
        /\ nand'[c].kind = r.kind
        /\ r.kind = "data" => nand'[c].id = r.id /\ nand'[c].val = r.val
        /\ r.kind = "hdr" => nand'[c].size = r.size /\ nand'[c].is_shrink = r.is_shrink
        /\ Guarded(nand', dev', Q)
    BY <1>2, <1>4, <1>6, <1>9, <1>14, <2>1, AppendStep
  <2> QED BY <1>9, <2>2
<1>16. c \in Chunks
  BY <1>15 DEF Appended
<1>17. /\ file'.hdr_chunk = c /\ file'.tree = file.tree
       /\ file'.stored_size = file.stored_size /\ file'.file_size = file.file_size
  BY <1>4, <1>6, <1>9, <1>16, LocatedIs
<1>18. /\ doubt' \subseteq doubt /\ doubt \subseteq Ids /\ \A i \in doubt : i \in Int
       /\ \A i \in doubt \ doubt' : i > file.stored_size
       /\ \A i \in doubt' : ~(i > file.stored_size)
  <2>1. doubt \subseteq Ids /\ \A i \in Ids : i \in Int
    BY LogAssumption DEF IInv, Ids
  <2> QED BY <1>4, <1>7, <2>1
<1>19. HdrPlaced(nand', c, file, file', doubt, doubt', content, content')
  <2>1. \A i \in Ids : /\ i \in doubt \ doubt' => content'[i] = Hole
                       /\ i \notin doubt => content'[i] = content[i]
    BY <1>4
  <2> QED BY <1>7, <1>15, <1>17, <1>18, <2>1 DEF HdrPlaced
<1>20. /\ FileSound(nand', file', doubt', content') /\ SizeBelow(nand', file', doubt')
       /\ \A j \in Ids : Settled(nand, file, doubt, j) /\ j \notin doubt \ doubt'
                           => Settled(nand', file', doubt', j)
       /\ nand'[c].is_shrink => \A j \in Ids : Settled(nand', file', doubt', j)
  <2> DEFINE n == nand
             m == nand'
             g == file'
             h == file
             D == doubt
             E == doubt'
             t == content
             u == content'
  <2>1. /\ FileSound(n, h, D, t) /\ Appended(n, m, c) /\ HdrPlaced(m, c, h, g, D, E, t, u)
        /\ SettledTo(n, h, D, h.stored_size)
    BY <1>10, <1>15, <1>19
  <2> HIDE DEF n, m, g, h, D, E, t, u
  <2>2. /\ FileSound(m, g, E, u) /\ SizeBelow(m, g, E)
        /\ \A j \in Ids : Settled(n, h, D, j) /\ j \notin D \ E => Settled(m, g, E, j)
        /\ m[c].is_shrink => \A j \in Ids : Settled(m, g, E, j)
    BY <2>1, HdrSound
  <2> QED BY <2>2 DEF n, m, g, h, D, E, t, u
<1>21. SettledTo(nand', file', doubt', file'.stored_size)
  <2>1. \A j \in Ids : j <= file.stored_size => j \notin doubt \ doubt'
    BY <1>7, <1>18
  <2> QED BY <1>10, <1>17, <1>20, <2>1 DEF SettledTo
<1>22. SettledTo(nand', file', doubt', file'.file_size)
  <2>1. \A j \in Ids : j <= file.file_size => j \notin doubt \ doubt'
    BY <1>7, <1>11, <1>18
  <2> QED BY <1>10, <1>17, <1>20, <2>1 DEF SettledTo
<1>23. op.jobs \in Seq(Jobs) /\ DOMAIN op.jobs = 1 .. Len(op.jobs) /\ op.jobs[1] = Job /\ 1 \in DOMAIN op.jobs
  BY <1>5, TailIs
<1>24. JobsLead(op.jobs)'
  <2>1. CASE Job.is_shrink
    BY <1>4, <1>15, <1>20, <2>1 DEF JobsLead, SettledNow
  <2>2. CASE ~Job.is_shrink
    <3>1. 1 = Len(op.jobs)
      BY <1>4, <1>10, <1>23, <2>2 DEF JobsShape
    <3>2. \A k \in DOMAIN op'.jobs : op'.jobs[k].do = "hdr"
      BY <1>4, <1>23, <3>1
    <3> QED BY <3>2 DEF JobsLead, Passes
  <2> QED BY <1>8, <2>1, <2>2
<1>25. \A j \in Ids : Settles(Job, j) => SettledNow(j)'
  BY <1>4, <1>15, <1>20 DEF Settles, Filling, SettledNow
<1>26. Pending' = Q
  BY <1>4, <1>13, <1>17 DEF Pending, Job
<1>27. Guarded(nand', dev', Pending') /\ Job.do \in {"data", "hdr"}
  BY <1>4, <1>15, <1>26
<1>28. \A i \in doubt' : ~(i > file'.stored_size)
  BY <1>17, <1>18
<1>29. file.file_size <= file'.file_size
  BY <1>7, <1>17
<1> QED BY <1>4, <1>6, <1>20, <1>21, <1>22, <1>23, <1>24, <1>25, <1>27, <1>28, <1>29, WrittenScan

\* The block of a shrink header is marked.
LEMMA MarkGuarded ==
    ASSUME NEW n, NEW d \in Device, NEW b \in Blocks, NEW P, P \subseteq {b}, Guarded(n, d, P),
           NEW e, e = mark_shrink_hdr(d, b)
    PROVE  Guarded(n, e, {})
<1>1. /\ \A x \in Blocks \ {b} : e.bi[x] = d.bi[x]
      /\ e.bi[b].has_shrink_hdr /\ e.gc_block = d.gc_block /\ e.gc_dirtiest = d.gc_dirtiest
      /\ e.bi[b].block_state = d.bi[b].block_state
  <2>1. PICK q : q = d.bi[b]
    OBVIOUS
  <2>2. q \in BlockInfo
    BY <2>1, FieldTypes
  <2>3. PICK s : s = [q EXCEPT !.has_shrink_hdr = TRUE]
    OBVIOUS
  <2>4. s.has_shrink_hdr /\ s.block_state = q.block_state
    BY <2>2, <2>3 DEF BlockInfo
  <2>5. e = [d EXCEPT !.bi[b] = s]
    BY <2>1, <2>3 DEF mark_shrink_hdr
  <2>6. d.bi \in [Blocks -> BlockInfo]
    BY DEF Device
  <2> QED BY <2>1, <2>4, <2>5, <2>6 DEF Device
<1>2. ASSUME NEW x \in Blocks, e.bi[x].block_state \in InUseStates, ~e.bi[x].has_shrink_hdr
      PROVE  Clear(n, x)
  <2>1. x # b
    BY <1>1, <1>2
  <2> QED BY <1>1, <1>2, <2>1 DEF Guarded
<1> QED BY <1>1, <1>2 DEF Guarded

\* The chunk that was replaced is deleted.
LEMMA DeleteOldScan ==
    ASSUME IInv, IInv', UpInv, DeleteOld
    PROVE  UpInv'
<1>1. PICK d : d = IF op.old = NoChunk THEN dev ELSE chunk_del(dev, op.old, TRUE)
  OBVIOUS
<1>2. PICK b : b = file.hdr_chunk[1]
  OBVIOUS
<1>3. /\ op.pc = "delete" /\ op.pc \in Calling /\ Up /\ FlashInv(nand) /\ dev \in Device
      /\ file \in File /\ file' \in File
      /\ Sane(dev, InUse) /\ FlashMatches(nand, dev)
      /\ op.old # NoChunk =>
            op.old # file.hdr_chunk /\ \A i \in Ids : file.tree[i] # op.old
  BY DEF DeleteOld, IInv, OldInv, Up, Calling, Mounted
<1>4. /\ dev' = IF Job.do = "hdr" /\ Job.is_shrink THEN mark_shrink_hdr(d, b) ELSE d
      /\ nand' = Erase(nand, dev, dev')
      /\ Continue(Tail(op.jobs)) /\ UNCHANGED <<file, content, doubt>>
  BY <1>1, <1>2 DEF DeleteOld, NextJob, history
<1>5. /\ FileSound(nand, file, doubt, content) /\ Guarded(nand, dev, Pending)
      /\ SettledTo(nand, file, doubt, file.stored_size)
      /\ SettledTo(nand, file, doubt, file.file_size)
      /\ JobsLead(op.jobs) /\ JobsShape(op.jobs) /\ Job.do \in {"data", "hdr"}
      /\ \A j \in Ids : Settles(Job, j) => SettledNow(j)
  BY <1>3 DEF UpInv, JobInv, JobDone
<1>6. (\A i \in doubt : ~(i > file.stored_size)) /\ SizeBelow(nand, file, doubt)
  BY <1>3, <1>5, NoCut DEF UpInv
<1>7. b \in Blocks
  BY <1>2, <1>3, InUseParts, ChunkParts
<1>8. Pending = (IF Job.do = "hdr" /\ Job.is_shrink THEN {b} ELSE {}) /\ Pending \subseteq {b}
  BY <1>2, <1>3 DEF Pending
<1>9. d \in Device
  <2>1. CASE op.old = NoChunk
    BY <1>1, <1>3, <2>1
  <2>2. CASE op.old # NoChunk
    <3>1. d = Deleted(dev, op.old) /\ op.old \in InUse
      BY <1>1, <1>3, <2>2, InUseParts DEF Deleted
    <3>2. PICK e : e = Erase(nand, dev, d)
      OBVIOUS
    <3>3. PICK c \in InUse : c = op.old
      BY <3>1
    <3>4. Sane(d, InUse \ {c})
      BY <1>3, <2>2, <3>1, <3>2, <3>3, DropChunk
    <3> QED BY <3>4 DEF Sane, DevInv
  <2> QED BY <2>1, <2>2
<1>10. \A n : Guarded(n, d, Pending) => Guarded(n, dev', {})
  <2> TAKE n
  <2> HAVE Guarded(n, d, Pending)
  <2>1. CASE Job.do = "hdr" /\ Job.is_shrink
    BY <1>4, <1>7, <1>8, <1>9, <2>1, MarkGuarded
  <2>2. CASE ~(Job.do = "hdr" /\ Job.is_shrink)
    BY <1>4, <1>8, <2>2
  <2> QED BY <2>1, <2>2
<1>11. nand' = Erase(nand, dev, d)
  <2>1. \A x \in Blocks : dev'.bi[x].block_state = d.bi[x].block_state
    <3>1. dev' = mark_shrink_hdr(d, b) \/ dev' = d
      BY <1>4
    <3> QED BY <1>7, <1>9, <3>1, MarkShrinkIs
  <2>2. Erased(dev, dev') = Erased(dev, d)
    BY <2>1 DEF Erased
  <2> QED BY <1>4, <2>2 DEF Erase
<1>12. Preserved(nand, nand', file, doubt, content) /\ Guarded(nand', d, Pending)
  <2>1. CASE op.old = NoChunk
    <3>1. d = dev
      BY <1>1, <2>1
    <3>2. Erased(dev, dev) = {} /\ nand \in [Chunks -> Record]
      BY <1>3 DEF Erased, FlashInv
    <3>3. nand' = nand
      BY <1>11, <3>1, <3>2 DEF Erase
    <3> QED BY <1>5, <3>1, <3>3 DEF Preserved
  <2>2. CASE op.old # NoChunk
    <3>1. d = Deleted(dev, op.old) /\ op.old \in InUse
      BY <1>1, <1>3, <2>2, InUseParts DEF Deleted
    <3>2. PICK c \in InUse : c = op.old
      BY <3>1
    <3>3. Without(file, c) /\ c # file.hdr_chunk /\ c # NoChunk
      BY <1>3, <2>2, <3>2 DEF Without
    <3>4. d = Deleted(dev, c) /\ Pending \subseteq {file.hdr_chunk[1]}
      BY <1>2, <1>8, <3>1, <3>2
    <3> QED BY <1>3, <1>5, <1>11, <3>3, <3>4, DelScan
  <2> QED BY <2>1, <2>2
<1>13. /\ FileSound(nand', file', doubt', content') /\ SizeBelow(nand', file', doubt')
       /\ \A j \in Ids : Settled(nand, file, doubt, j) => Settled(nand', file', doubt', j)
       /\ Guarded(nand', dev', {})
  BY <1>4, <1>6, <1>10, <1>12 DEF Preserved
<1>14. /\ SettledTo(nand', file', doubt', file'.stored_size)
       /\ SettledTo(nand', file', doubt', file'.file_size)
  BY <1>4, <1>5, <1>13 DEF SettledTo
<1>15. \A j \in Ids : SettledNow(j) => SettledNow(j)'
  BY <1>13 DEF SettledNow
<1>16. Tail(op.jobs) \in Seq(Jobs)
  BY <1>3, TailIs
<1>17. op'.jobs = Tail(op.jobs)
  BY <1>4, <1>16, ContinueIs
<1>18. JobsLead(op.jobs)'
  BY <1>3, <1>5, <1>15, <1>17, LeadTail
<1>19. JobsShape(op.jobs)'
  <2>1. file.file_size <= file'.file_size
    BY <1>3, <1>4, LogAssumption DEF File
  <2> QED BY <1>3, <1>5, <1>17, <2>1, ShapeTail
<1>20. CutsAhead'
  BY <1>4, <1>6 DEF CutsAhead
<1> QED BY <1>4, <1>13, <1>14, <1>16, <1>18, <1>19, <1>20, NextScan

\* The jobs that fill a hole are the first ones.
FillingJobs == {k \in DOMAIN op.jobs : op.jobs[k].do = "data" /\ op.jobs[k].base # -1}

\* The jobs that fill a hole come first.
LEMMA FillingFirst ==
    ASSUME IInv, op.pc \in Calling, JobsShape(op.jobs), Filling(Job),
           NEW n, n = Cardinality(FillingJobs)
    PROVE  /\ n \in 1 .. Len(op.jobs)
           /\ \A k \in DOMAIN op.jobs : k > n => ~Filling(op.jobs[k])
<1>1. /\ Len(op.jobs) \in Nat /\ DOMAIN op.jobs = 1 .. Len(op.jobs)
      /\ 1 \in DOMAIN op.jobs /\ op.jobs[1] = Job
  BY TailIs
<1>2. \A k : k \in FillingJobs <=> k \in DOMAIN op.jobs /\ Filling(op.jobs[k])
  BY DEF FillingJobs, Filling
<1>3. IsFiniteSet(1 .. Len(op.jobs)) /\ Cardinality(1 .. Len(op.jobs)) = Len(op.jobs)
  BY <1>1, FS_Interval
<1>4. FillingJobs \in SUBSET (1 .. Len(op.jobs))
  BY <1>1, <1>2
<1>5. /\ IsFiniteSet(FillingJobs) /\ Cardinality(FillingJobs) \in Nat
      /\ Cardinality(FillingJobs) <= Len(op.jobs)
  BY <1>3, <1>4, FS_Subset, FS_CardinalityType
<1>6. ASSUME NEW k \in DOMAIN op.jobs, Filling(op.jobs[k])
      PROVE  k <= n
  <2>1. \A l \in 1 .. k : l \in DOMAIN op.jobs /\ Filling(op.jobs[l])
    BY <1>1, <1>6 DEF JobsShape
  <2>2. 1 .. k \in SUBSET FillingJobs
    BY <1>2, <2>1
  <2>3. Cardinality(1 .. k) <= Cardinality(FillingJobs)
    BY <1>5, <2>2, FS_Subset
  <2>4. k \in Int /\ k >= 1 /\ Cardinality(1 .. k) = k
    BY <1>1, FS_Interval
  <2> QED BY <2>3, <2>4
<1>7. n >= 1
  BY <1>1, <1>6
<1> QED BY <1>1, <1>5, <1>6, <1>7

\* The jobs after the first n.
Rest(t, n) ==
    /\ op.jobs \in Seq(Jobs) /\ t \in Seq(Jobs) /\ n \in 1 .. Len(op.jobs)
    /\ Len(t) = Len(op.jobs) - n
    /\ \A i \in 1 .. Len(t) : t[i] = op.jobs[i + n]

\* The jobs after the first n.
LEMMA RestIs ==
    ASSUME op.jobs \in Seq(Jobs), NEW n \in 1 .. Len(op.jobs),
           NEW t, t = SubSeq(op.jobs, n + 1, Len(op.jobs))
    PROVE  Rest(t, n)
<1>1. Len(op.jobs) \in Nat /\ \A k \in 1 .. Len(op.jobs) : op.jobs[k] \in Jobs
  OBVIOUS
<1>2. PICK q \in Int : q = n + 1
  BY <1>1
<1>3. PICK l \in Int : l = Len(op.jobs)
  BY <1>1
<1>4. n \in Int /\ n >= 1 /\ n <= l
  BY <1>1, <1>3
<1>5. t = SubSeq(op.jobs, q, l)
  BY <1>2, <1>3
<1>6. \A k \in q .. l : op.jobs[k] \in Jobs
  BY <1>1, <1>2, <1>3, <1>4
<1>7. /\ SubSeq(op.jobs, q, l) \in Seq(Jobs)
      /\ Len(SubSeq(op.jobs, q, l)) = IF q <= l THEN l - q + 1 ELSE 0
      /\ \A i \in 1 .. l - q + 1 : SubSeq(op.jobs, q, l)[i] = op.jobs[q + i - 1]
  BY <1>6, SubSeqProperties
<1>8. /\ t \in Seq(Jobs) /\ Len(t) = IF q <= l THEN l - q + 1 ELSE 0
      /\ \A i \in 1 .. l - q + 1 : t[i] = op.jobs[q + i - 1]
  BY <1>5, <1>7
<1>9. l - q + 1 = l - n /\ (~(q <= l) => l - n = 0)
  BY <1>2, <1>4
<1>10. Len(t) = l - n
  BY <1>8, <1>9
<1>11. ASSUME NEW i \in 1 .. Len(t)
       PROVE  t[i] = op.jobs[i + n]
  <2>1. i \in Int /\ i \in 1 .. l - q + 1
    BY <1>4, <1>9, <1>10
  <2>2. q + i - 1 = i + n
    BY <1>2, <1>4, <2>1
  <2>3. t[i] = op.jobs[q + i - 1]
    BY <1>8, <2>1
  <2> QED BY <2>2, <2>3
<1> QED BY <1>3, <1>8, <1>10, <1>11 DEF Rest

\* ... and those in m before them.
LEMMA RestFollows ==
    ASSUME NEW m \in Seq(Jobs), NEW t, NEW n, Rest(t, n), NEW s, s = m \o t
    PROVE  Followed(s, m, n)
<1>1. t \in Seq(Jobs)
  BY DEF Rest
<1>2. /\ s \in Seq(Jobs) /\ Len(s) = Len(m) + Len(t)
      /\ \A k \in 1 .. Len(s) : s[k] = IF k <= Len(m) THEN m[k] ELSE t[k - Len(m)]
  BY <1>1, ConcatProperties
<1>3. /\ Len(m) \in Nat /\ Len(t) \in Nat /\ Len(op.jobs) \in Nat
      /\ n \in 1 .. Len(op.jobs) /\ Len(t) = Len(op.jobs) - n
      /\ \A i \in 1 .. Len(t) : t[i] = op.jobs[i + n]
  BY DEF Rest
<1>4. \A k \in 1 .. Len(m) : s[k] = m[k]
  BY <1>2, <1>3
<1>5. ASSUME NEW k \in Len(m) + 1 .. Len(s)
      PROVE  s[k] = op.jobs[k - Len(m) + n]
  <2>1. s[k] = t[k - Len(m)]
    BY <1>2, <1>3
  <2>2. k - Len(m) \in 1 .. Len(t)
    BY <1>2, <1>3
  <2> QED BY <1>3, <2>1, <2>2
<1>6. Len(s) = Len(m) + Len(op.jobs) - n
  BY <1>2, <1>3
<1> QED BY <1>2, <1>3, <1>4, <1>5, <1>6 DEF Followed


\* The chunks of a hole that cannot be filled are cut off, and a header follows.
LEMMA UnfillJobs ==
    ASSUME IInv, UpInv, op.pc \in Calling, Job.do = "data", Job.base # -1,
           NEW h \in Jobs, h = HdrJob(TRUE), NEW n, n = Cardinality(FillingJobs),
           NEW t, t = SubSeq(op.jobs, n + 1, Len(op.jobs)),
           NEW s, s = <<PruneJob(Job.base), h>> \o t,
           op'.jobs = s, file'.file_size = file.file_size
    PROVE  s \in Seq(Jobs) /\ JobsLead(op.jobs)' /\ JobsShape(op.jobs)'
<1>1. /\ op.jobs \in Seq(Jobs) /\ Len(op.jobs) \in Nat /\ 1 \in DOMAIN op.jobs
      /\ op.jobs[1] = Job /\ Job \in Jobs
  BY TailIs
<1>2. JobsShape(op.jobs) /\ Filling(Job)
  BY DEF UpInv, JobInv, Filling
<1>3. /\ Job.base <= file.file_size /\ Job.base < MaxId /\ Job.base \in 0 .. MaxId
  BY <1>1, <1>2, JobFields DEF JobsShape
<1>4. PICK p \in Jobs : p = PruneJob(Job.base)
  BY <1>3, JobTypes
<1>5. PICK m \in Seq(Jobs) : m = <<p, h>>
  BY JobSeqs
<1>6. Len(m) = 2 /\ m[1] = p /\ m[2] = h
  BY <1>5
<1>7. /\ n \in 1 .. Len(op.jobs)
      /\ \A k \in DOMAIN op.jobs : k > n => ~Filling(op.jobs[k])
  BY <1>1, <1>2, FillingFirst
<1>8. s = m \o t
  BY <1>4, <1>5
<1>9. Rest(t, n)
  BY <1>1, <1>7, RestIs
<1>10. Followed(s, m, n)
  BY <1>8, <1>9, RestFollows
<1>11. s \in Seq(Jobs) /\ s[1] = p /\ s[2] = h /\ 1 \in DOMAIN s /\ 2 \in DOMAIN s
  <2>1. s \in Seq(Jobs) /\ Len(s) = 2 + Len(op.jobs) - n
    BY <1>6, <1>10 DEF Followed
  <2>2. PICK l \in Nat : l >= 2 /\ DOMAIN s = 1 .. l
    BY <1>1, <1>7, <2>1, JobsAre
  <2>3. s[1] = m[1] /\ s[2] = m[2]
    BY <1>6, <1>10 DEF Followed
  <2>4. 1 \in 1 .. l /\ 2 \in 1 .. l
    BY <2>2
  <2> QED BY <1>6, <2>1, <2>2, <2>3, <2>4
<1>12. /\ p.do = "prune" /\ p.size = Job.base /\ h.do = "hdr" /\ h.is_shrink
  BY <1>4 DEF PruneJob, HdrJob
<1>13. Shaped(s, 1, file.file_size)
  <2>1. 1 + 1 = 2
    OBVIOUS
  <2> QED BY <1>3, <1>11, <1>12, <2>1 DEF Shaped, Filling
<1>14. Shaped(s, 2, file.file_size)
  BY <1>11, <1>12 DEF Shaped, Filling
<1>15. \A k \in DOMAIN s : Shaped(s, k, file.file_size)
  <2>1. \A k \in 1 .. Len(m) : Shaped(s, k, file.file_size)
    BY <1>6, <1>13, <1>14
  <2> QED BY <1>7, <1>10, <2>1, FollowShape
<1>16. JobsShape(op.jobs)'
  BY <1>15, ShapedAll
<1>17. ASSUME NEW k \in DOMAIN s, NEW j \in Ids, Passes(s[k], j)
       PROVE  \E l \in 1 .. k - 1 : Settles(s[l], j)
  <2>1. k # 1 /\ k # 2 /\ k \in Int /\ k >= 1
    <3>1. k \in Int /\ k >= 1
      BY <1>11, JobsAre
    <3> QED BY <1>11, <1>12, <1>17, <3>1 DEF Passes
  <2>2. 2 \in 1 .. k - 1
    BY <2>1
  <2>3. Settles(s[2], j)
    BY <1>11, <1>12 DEF Settles
  <2> QED BY <2>2, <2>3
<1>18. JobsLead(op.jobs)'
  BY <1>17 DEF JobsLead, Passes
<1> QED BY <1>11, <1>16, <1>18


\* yaffs_wr_data_obj() fails: its chunk, if beyond the end, is in doubt.
LEMMA DataRefusedScan ==
    ASSUME IInv, IInv', UpInv, op.pc = "program", Job.do = "data",
           NEW d, d = with_alloc_block(dev), DataRefused(d)
    PROVE  UpInv'
<1>1. /\ dev' = d
      /\ file' = [file EXCEPT !.stored_size = Stored(Job.id)]
      /\ doubt' = IF Job.id > file.stored_size THEN doubt \cup {Job.id} ELSE doubt
      /\ nand' = nand /\ content' = content
      /\ Job.base = -1 => Continue(Tail(op.jobs))
      /\ Job.base # -1 =>
            Continue(<<PruneJob(Job.base), HdrJob(TRUE)>>
                       \o SubSeq(op.jobs, Cardinality(FillingJobs) + 1, Len(op.jobs)))
  BY DEF DataRefused, NextJob, FillingJobs
<1>2. op.pc \in Calling /\ Job.do \notin {"prune", "gc"} /\ Job.do # "hdr"
  BY DEF Calling
<1>3. /\ FileSound(nand, file, doubt, content) /\ Guarded(nand, dev, {})
      /\ SettledTo(nand, file, doubt, file.stored_size)
      /\ SettledTo(nand, file, doubt, file.file_size)
      /\ JobsLead(op.jobs) /\ JobsShape(op.jobs)
  BY DEF UpInv, JobInv, Pending
<1>4. (\A j \in doubt : ~(j > file.stored_size)) /\ SizeBelow(nand, file, doubt)
  BY <1>2, NoCut DEF UpInv
<1>5. /\ Up /\ FlashInv(nand) /\ file \in File /\ file' \in File /\ doubt \subseteq Ids
      /\ Sane(dev, InUse) /\ FlashMatches(nand, dev)
  BY DEF IInv, Up, Mounted
<1>6. PICK i \in Ids : i = Job.id
  BY <1>2, TheJob, JobFields
<1>7. /\ i \in Int /\ file.stored_size \in Int /\ file.file_size \in Int /\ Stored(i) \in Int
      /\ file.stored_size <= Stored(i) /\ i <= Stored(i)
  BY <1>5, LogAssumption DEF File, Ids, Stored
<1>8. /\ file'.tree = file.tree /\ file'.hdr_chunk = file.hdr_chunk
      /\ file'.file_size = file.file_size /\ file'.stored_size = Stored(i)
  BY <1>1, <1>5, <1>6 DEF File
<1>9. doubt \subseteq doubt' /\ \A j \in doubt' : j \in doubt \/ (j = i /\ i > file.stored_size)
  BY <1>1, <1>6
<1>10. FileCut(file, file', doubt, doubt')
  <2>1. \A j \in Ids : file.tree[j] # NoChunk => j <= file.stored_size
    BY <1>3 DEF FileSound, TreeKept
  <2>2. \A j \in Ids : file.tree[j] # NoChunk => j <= Stored(i)
    BY <1>7, <2>1 DEF Ids
  <2> QED BY <1>7, <1>8, <1>9, <2>2 DEF FileCut
<1>11. /\ FileSound(nand', file', doubt', content')
       /\ \A j \in Ids : Settled(nand, file, doubt, j) => Settled(nand', file', doubt', j)
  <2>1. /\ FileSound(nand, file', doubt', content)
        /\ \A j \in Ids : Settled(nand, file, doubt, j) => Settled(nand, file', doubt', j)
    BY <1>3, <1>5, <1>10, CutSound
  <2> QED BY <1>1, <2>1
<1>12. SettledTo(nand', file', doubt', file'.stored_size)
  <2>1. SUFFICES ASSUME NEW j \in Ids, j <= Stored(i)
                 PROVE  Settled(nand', file', doubt', j)
    BY <1>8 DEF SettledTo
  <2>2. CASE j <= file.stored_size
    BY <1>3, <1>11, <2>2 DEF SettledTo
  <2>3. CASE ~(j <= file.stored_size) /\ j = i
    <3>1. i \in doubt'
      BY <1>1, <1>6, <1>7, <2>3
    <3> QED BY <2>3, <3>1 DEF Settled
  <2>4. CASE ~(j <= file.stored_size) /\ j # i
    <3>1. j < Job.id
      BY <1>6, <1>7, <2>1, <2>4 DEF Stored, Ids
    <3>2. 1 \in DOMAIN op.jobs /\ op.jobs[1] = Job
      BY <1>2, TailIs
    <3>3. Passes(op.jobs[1], j)
      BY <3>1, <3>2 DEF Passes
    <3>4. ~\E l \in 1 .. 1 - 1 : Settles(op.jobs[l], j)
      OBVIOUS
    <3>5. Settled(nand, file, doubt, j)
      BY <1>3, <3>2, <3>3, <3>4 DEF JobsLead, SettledNow
    <3> QED BY <1>11, <3>5
  <2> QED BY <2>2, <2>3, <2>4
<1>13. SettledTo(nand', file', doubt', file'.file_size)
  BY <1>3, <1>8, <1>11 DEF SettledTo
<1>14. SizeBelow(nand', file', doubt')
  <2>1. CASE i > file.stored_size
    <3>1. Stored(i) = i /\ i \in doubt'
      BY <1>1, <1>6, <2>1 DEF Stored
    <3> QED BY <1>8, <3>1 DEF SizeBelow
  <2>2. CASE ~(i > file.stored_size)
    <3>1. Stored(i) = file.stored_size /\ doubt' = doubt
      BY <1>1, <1>6, <2>2 DEF Stored
    <3> QED BY <1>1, <1>4, <1>8, <3>1 DEF SizeBelow
  <2> QED BY <2>1, <2>2
<1>15. Guarded(nand', dev', {})
  <2>1. PICK S \in SUBSET Blocks : S = {}
    OBVIOUS
  <2>2. Guarded(nand, dev, S)
    BY <1>3, <2>1
  <2>3. Guarded(nand, d, S)
    BY <1>5, <2>2, AllocGuarded
  <2> QED BY <1>1, <2>1, <2>3
<1>16. CutsAhead'
  <2>1. \A j \in doubt' : ~(j > Stored(i))
    <3> TAKE j \in doubt'
    <3>1. j = i \/ (j \in doubt /\ j \in Int)
      BY <1>5, <1>9 DEF Ids
    <3> QED BY <1>4, <1>7, <3>1
  <2> QED BY <1>8, <2>1 DEF CutsAhead
<1>17. \A j \in Ids : SettledNow(j) => SettledNow(j)'
  BY <1>11 DEF SettledNow
<1>18. CASE Job.base = -1
  <2>1. Tail(op.jobs) \in Seq(Jobs)
    BY <1>2, TailIs
  <2>2. op'.jobs = Tail(op.jobs)
    BY <1>1, <1>18, <2>1, ContinueIs
  <2>3. JobsLead(op.jobs)'
    <3>1. \A j \in Ids : Settles(Job, j) => SettledNow(j)'
      BY <1>18 DEF Settles, Filling
    <3> QED BY <1>2, <1>3, <1>17, <2>2, <3>1, LeadTail
  <2>4. JobsShape(op.jobs)'
    <3>1. file.file_size <= file'.file_size
      BY <1>7, <1>8
    <3> QED BY <1>2, <1>3, <1>5, <2>2, <3>1, ShapeTail
  <2> QED BY <1>1, <1>11, <1>12, <1>13, <1>14, <1>15, <1>16, <1>18, <2>1, <2>3, <2>4, NextScan
<1>19. CASE Job.base # -1
  <2>1. PICK h \in Jobs : h = HdrJob(TRUE)
    <3>1. TRUE \in BOOLEAN
      OBVIOUS
    <3> QED BY <3>1, JobTypes
  <2>2. PICK n : n = Cardinality(FillingJobs)
    OBVIOUS
  <2>3. PICK t : t = SubSeq(op.jobs, n + 1, Len(op.jobs))
    OBVIOUS
  <2>4. PICK s : s = <<PruneJob(Job.base), h>> \o t
    OBVIOUS
  <2>5. Continue(s)
    BY <1>1, <1>19, <2>1, <2>2, <2>3, <2>4
  <2>6. op'.jobs = s
    <3>1. s = <<>> \/ s # <<>>
      OBVIOUS
    <3> QED BY <2>5, <3>1 DEF Continue, Idle
  <2>7. s \in Seq(Jobs) /\ JobsLead(op.jobs)' /\ JobsShape(op.jobs)'
    BY <1>2, <1>8, <1>19, <2>1, <2>2, <2>3, <2>4, <2>6, UnfillJobs
  <2> QED BY <1>11, <1>12, <1>13, <1>14, <1>15, <1>16, <2>5, <2>7, NextScan
<1> QED BY <1>18, <1>19

\* yaffs_wr_data_obj().
LEMMA WriteDataScan ==
    ASSUME IInv, IInv', UpInv, content \in [Ids -> Data \cup {Hole}], WriteData
    PROVE  UpInv'
<1>1. PICK d : d = with_alloc_block(dev)
  OBVIOUS
<1>2. /\ op.pc = "program" /\ Job.do = "data"
      /\ IF CanAlloc(d, FALSE) THEN DataWritten(d) ELSE DataRefused(d)
  BY <1>1 DEF WriteData
<1>3. CASE CanAlloc(d, FALSE)
  BY <1>1, <1>2, <1>3, DataWrittenScan
<1>4. CASE ~CanAlloc(d, FALSE)
  BY <1>1, <1>2, <1>4, DataRefusedScan
<1> QED BY <1>3, <1>4


-----------------------------------------------------------------------------
(* Power failure and mount.                                                *)

\* A scan finds the file, and no more of it.
LEMMA ScanFinds ==
    ASSUME IInv, UpInv, NEW g, g = FoundFile(nand)
    PROVE  /\ g \in File /\ g.hdr_chunk = file.hdr_chunk
           /\ \A i \in Ids \ doubt :
                g.tree[i] = file.tree[i] /\ FoundContent(nand)[i] = content[i]
           /\ \/ g.stored_size <= file.stored_size
              \/ \A i \in Ids : i > file.stored_size => i \in doubt
           /\ ~Shortening =>
                file.stored_size <= g.stored_size \/ file.stored_size \in doubt
<1>1. /\ FlashInv(nand) /\ file \in File /\ FileSound(nand, file, doubt, content)
      /\ ~Shortening => SizeBelow(nand, file, doubt)
  BY DEF IInv, UpInv
<1>2. PICK t : t = FoundContent(nand)
  OBVIOUS
<1>3. PICK E : E = {}
  OBVIOUS
<1>4. g \in File /\ FileSound(nand, g, {}, t) /\ SizeBelow(nand, g, {})
  BY <1>1, <1>2, FoundSound
<1>5. g.hdr_chunk = file.hdr_chunk
  BY <1>1, <1>4, SoundUnique
<1>6. \A i \in Ids \ (doubt \cup E) : file.tree[i] = g.tree[i] /\ content[i] = t[i]
  <2>1. FileSound(nand, g, E, t)
    BY <1>3, <1>4
  <2> QED BY <1>1, <2>1, SoundUnique
<1>7. \/ g.stored_size <= file.stored_size
      \/ \A i \in Ids : i > file.stored_size => i \in doubt
  BY <1>1, <1>4, SizeAtMost
<1>8. ~Shortening => file.stored_size <= g.stored_size \/ file.stored_size \in doubt
  BY <1>1, <1>4, SizeAtLeast
<1> QED BY <1>2, <1>3, <1>4, <1>5, <1>6, <1>7, <1>8

\* Power fails.
LEMMA CrashScan ==
    ASSUME IInv, UpInv, Crash
    PROVE  DownInv'
<1>1. UNCHANGED <<nand, content, doubt>>
  BY DEF Crash, history
<1>2. PICK g : g = FoundFile(nand)
  OBVIOUS
<1>3. /\ g \in File /\ file \in File
      /\ \A i \in Ids \ doubt : g.tree[i] = file.tree[i] /\ FoundContent(nand)[i] = content[i]
      /\ \/ g.stored_size <= file.stored_size
         \/ \A i \in Ids : i > file.stored_size => i \in doubt
  BY <1>2, ScanFinds DEF IInv
<1>4. SettledTo(nand, file, doubt, file.stored_size)
  BY DEF UpInv
<1>5. ASSUME NEW i \in Ids \ doubt, i <= g.stored_size
      PROVE  Settled(nand, g, doubt, i)
  <2>1. i <= file.stored_size
    BY <1>3, <1>5, LogAssumption DEF File, Ids
  <2>2. Settled(nand, file, doubt, i)
    BY <1>4, <2>1 DEF SettledTo
  <2> QED BY <1>3, <2>2 DEF Settled
<1>6. DownInv
  BY <1>2, <1>3, <1>5 DEF DownInv
<1>7. FoundContent(nand') = FoundContent(nand) /\ FoundFile(nand') = FoundFile(nand)
  BY <1>1
<1> QED BY <1>1, <1>6, <1>7 DEF DownInv

\* A block without a shrink header is clear.
LEMMA NoShrinkClear ==
    ASSUME NEW n, NEW b, ~HasShrink(n, b)
    PROVE  Clear(n, b)
BY DEF HasShrink, Clear, Shrinks

\* The scan erases a block in which it has found nothing.
LEMMA ScanEraseScan ==
    ASSUME IInv, IInv', DownInv, ScanErase
    PROVE  DownInv'
<1>1. PICK b \in Stale(nand) :
        nand' = [c \in Chunks |-> IF c[1] = b THEN Blank ELSE nand[c]]
  BY DEF ScanErase
<1>2. FlashInv(nand) /\ FlashInv(nand') /\ UNCHANGED <<content, doubt>>
  BY DEF IInv, ScanErase, history
<1>3. PICK n : n = nand
  OBVIOUS
<1>4. PICK m : m = nand'
  OBVIOUS
<1>5. PICK f : f = FoundFile(n)
  OBVIOUS
<1>6. PICK g : g = FoundFile(m)
  OBVIOUS
<1>7. PICK t : t = FoundContent(n)
  OBVIOUS
<1>8. PICK u : u = FoundContent(m)
  OBVIOUS
<1>9. PICK D : D = {}
  OBVIOUS
<1>10. FlashInv(n) /\ FlashInv(m)
  BY <1>2, <1>3, <1>4
<1>11. /\ f \in File /\ FileSound(n, f, D, t) /\ SizeBelow(n, f, D)
       /\ g \in File /\ FileSound(m, g, D, u) /\ SizeBelow(m, g, D)
  BY <1>5, <1>6, <1>7, <1>8, <1>9, <1>10, FoundSound
<1>12. b \in Blocks /\ UsedBy(f, b) = {} /\ ~HasShrink(n, b)
  BY <1>1, <1>3, <1>5 DEF Stale
<1>13. /\ f.hdr_chunk[1] # b
       /\ \A i \in Ids : f.tree[i] # NoChunk => f.tree[i][1] # b
  <2>1. f.hdr_chunk \in Chunks /\ \A i \in Ids : f.tree[i] # NoChunk => f.tree[i] \in Chunks
    BY <1>11, KindParts, <1>10 DEF FileSound, HdrNewest, File
  <2> QED BY <1>12, <2>1, ChunkParts DEF UsedBy
<1>14. Blanked(n, m, {b})
  <2>1. \A c \in Chunks : c[1] = b => ~Written(m, c)
    BY <1>1, <1>4 DEF Written
  <2>2. \A c \in Chunks : c[1] # b => m[c] = n[c]
    BY <1>1, <1>3, <1>4
  <2> QED BY <1>10, <2>1, <2>2 DEF Blanked
<1>15. /\ FileSound(m, f, D, t)
       /\ \A j \in Ids : Settled(n, f, D, j) => Settled(m, f, D, j)
  <2>1. PICK B : B = {b}
    OBVIOUS
  <2>2. Clear(n, b)
    BY <1>12, NoShrinkClear
  <2>3. /\ Blanked(n, m, B) /\ \A x \in B : Clear(n, x)
        /\ f.hdr_chunk[1] \notin B
        /\ \A i \in Ids : f.tree[i] # NoChunk => f.tree[i][1] \notin B
    BY <1>13, <1>14, <2>1, <2>2
  <2> QED BY <1>11, <2>3, BlankedSound
<1>16. \A i \in Ids : f.tree[i] = g.tree[i] /\ t[i] = u[i]
  <2>1. \A i \in Ids \ (D \cup D) : f.tree[i] = g.tree[i] /\ t[i] = u[i]
    BY <1>10, <1>11, <1>15, SoundUnique
  <2> QED BY <1>9, <2>1
<1>17. \A i \in Ids : i <= g.stored_size => i <= f.stored_size
  <2>1. \/ g.stored_size <= f.stored_size
        \/ \A i \in Ids : i > f.stored_size => i \in D
    <3>1. FileSound(m, g, {}, u) /\ SizeBelow(m, g, {})
      BY <1>9, <1>11
    <3> QED BY <1>10, <1>11, <1>15, <3>1, SizeAtMost
  <2> QED BY <1>9, <1>11, <2>1, LogAssumption DEF File, Ids
<1>18. \A i \in Ids \ doubt :
         /\ t[i] = content[i]
         /\ i <= f.stored_size => Settled(n, f, doubt, i)
  BY <1>3, <1>5, <1>7 DEF DownInv
<1>19. ASSUME NEW i \in Ids \ doubt
       PROVE  /\ u[i] = content[i]
              /\ i <= g.stored_size => Settled(m, g, doubt, i)
  <2>1. u[i] = content[i]
    BY <1>16, <1>18
  <2>2. ASSUME i <= g.stored_size
        PROVE  Settled(m, g, doubt, i)
    <3>1. Settled(n, f, D, i)
      BY <1>17, <1>18, <2>2 DEF Settled
    <3>2. Settled(m, f, D, i)
      BY <1>15, <3>1
    <3> QED BY <1>9, <1>16, <3>2 DEF Settled
  <2> QED BY <2>1, <2>2
<1> QED BY <1>2, <1>4, <1>6, <1>8, <1>19 DEF DownInv


\* The scan marks the blocks with shrink headers.
LEMMA FoundShrink ==
    ASSUME NEW n, NEW f, NEW d, DevFields(n, f, d), NEW b \in Blocks
    PROVE  d.bi[b].has_shrink_hdr = HasShrink(n, b)
<1>1. d.bi[b] = FoundInfo(n, f, b)
  BY DEF DevFields
<1> DEFINE h == HasShrink(n, b)
           st == IF SeqOf(n, b) = 0 THEN "EMPTY" ELSE "FULL"
           s == SeqOf(n, b)
           k == Cardinality(UsedBy(f, b))
<1>2. FoundInfo(n, f, b) = [EmptyBlockInfo EXCEPT !.block_state = st, !.seq_number = s,
                                                  !.pages_in_use = k, !.has_shrink_hdr = h]
  BY DEF FoundInfo
<1> HIDE DEF h, st, s, k
<1>3. FoundInfo(n, f, b).has_shrink_hdr = h
  BY <1>2 DEF EmptyBlockInfo
<1> QED BY <1>1, <1>3 DEF h

\* Blocks that are marked for the shrink headers they have are guarded.
LEMMA MarkedGuarded ==
    ASSUME NEW n, NEW d, d.gc_block = NoBlock, d.gc_dirtiest = NoBlock,
           \A b \in Blocks : ~HasShrink(n, b) \/ d.bi[b].has_shrink_hdr
    PROVE  Guarded(n, d, {})
BY NoShrinkClear DEF Guarded

\* The file is what the scan has found.
LEMMA MountScan ==
    ASSUME IInv, DownInv, Mount
    PROVE  UpInv'
<1>1. PICK n : n = nand
  OBVIOUS
<1>2. PICK f : f = FoundFile(n)
  OBVIOUS
<1>3. PICK t : t = FoundContent(n)
  OBVIOUS
<1>4. PICK d : d = FoundDev(n, f)
  OBVIOUS
<1>5. PICK D : D = {}
  OBVIOUS
<1>6. PICK E : E = {i \in doubt : t[i] = Hole /\ i <= f.stored_size}
  OBVIOUS
<1>7. /\ nand' = n /\ file' = f /\ dev' = d /\ op' = Idle /\ content' = t /\ doubt' = E
      /\ FlashInv(n) /\ doubt \subseteq Ids
  BY <1>1, <1>2, <1>3, <1>4, <1>6 DEF Mount, IInv
<1>8. /\ f \in File /\ FileSound(n, f, D, t) /\ SizeBelow(n, f, D)
      /\ f.file_size = f.stored_size
  BY <1>2, <1>3, <1>5, <1>7, FoundSound
<1>9. f.stored_size \in Int
  BY <1>8, LogAssumption DEF File
<1>10. FileSound(n, f, E, t)
  <2>1. \A i \in Ids : f.tree[i] # NoChunk => i <= f.stored_size
    BY <1>8 DEF FileSound, TreeKept
  <2>2. FileCut(f, f, D, E)
    BY <1>5, <1>9, <2>1 DEF FileCut
  <2> QED BY <1>7, <1>8, <2>2, CutSound
<1>11. SizeBelow(n, f, E)
  BY <1>5, <1>8 DEF SizeBelow
<1>12. SettledTo(n, f, E, f.stored_size)
  <2>1. SUFFICES ASSUME NEW j \in Ids, j <= f.stored_size
                 PROVE  Settled(n, f, E, j)
    BY DEF SettledTo
  <2>2. CASE j \in doubt
    <3>1. t[j] # Hole => f.tree[j] # NoChunk
      BY <1>5, <1>8 DEF FileSound, ContentIs
    <3>2. t[j] = Hole => j \in E
      BY <1>6, <2>1, <2>2
    <3> QED BY <3>1, <3>2 DEF Settled
  <2>3. CASE j \notin doubt
    <3>1. Settled(n, f, doubt, j)
      BY <1>1, <1>2, <2>1, <2>3 DEF DownInv
    <3> QED BY <2>3, <3>1 DEF Settled
  <2> QED BY <2>2, <2>3
<1>13. Guarded(n, d, {})
  <2>1. DevFields(n, f, d)
    BY <1>4, <1>7, FoundDevIs
  <2>2. d.gc_block = NoBlock /\ d.gc_dirtiest = NoBlock
    BY <2>1 DEF DevFields
  <2>3. \A b \in Blocks : ~HasShrink(n, b) \/ d.bi[b].has_shrink_hdr
    BY <2>1, FoundShrink
  <2> QED BY <2>2, <2>3, MarkedGuarded
<1>14. op'.pc = "idle" /\ op'.jobs = <<>> /\ DOMAIN op'.jobs = {}
  BY <1>7 DEF Idle
<1>15. Pending' = {}
  BY <1>14 DEF Pending
<1>16. \A i \in E : ~(i > f.stored_size)
  BY <1>6, <1>7, <1>9 DEF Ids
<1>17. CutsAhead'
  BY <1>7, <1>16 DEF CutsAhead
<1>18. JobsLead(op.jobs)' /\ JobsShape(op.jobs)' /\ JobDone'
  BY <1>14 DEF JobsLead, JobsShape, JobDone
<1>19. JobInv'
  BY <1>14, <1>17, <1>18 DEF JobInv
<1> QED BY <1>7, <1>8, <1>10, <1>11, <1>12, <1>13, <1>15, <1>19 DEF UpInv

\* A formatted partition.
LEMMA InitScan == Init => ScanInv
<1> SUFFICES ASSUME Init PROVE ScanInv
  OBVIOUS
<1>1. PICK z : z = <<1, 0>>
  OBVIOUS
<1>2. /\ nand = [c \in Chunks |-> IF c = z THEN HdrChunk(0, FALSE, 1) ELSE Blank]
      /\ file = [tree |-> [i \in Ids |-> NoChunk], hdr_chunk |-> z,
                 file_size |-> 0, stored_size |-> 0]
      /\ op.pc = "idle" /\ op.jobs = <<>>
      /\ content = [i \in Ids |-> Hole] /\ doubt = {}
  BY <1>1 DEF Init, Idle
<1>3. z \in Chunks
  BY <1>1, GeometryAssumption DEF Chunks, Blocks, Pages
<1>4. OfKind(nand, "data") = {}
  BY <1>2 DEF OfKind, HdrChunk, Blank
<1>5. \A h : h \in OfKind(nand, "hdr") <=> h = z
  BY <1>2, <1>3 DEF OfKind, HdrChunk, Blank
<1>6. nand[z].size = 0
  BY <1>2, <1>3 DEF HdrChunk
<1>7. \A i : CopiesOf(nand, i) = {}
  BY <1>4 DEF CopiesOf
<1>8. /\ \A i \in Ids : file.tree[i] = NoChunk /\ content[i] = Hole
      /\ file.hdr_chunk = z /\ file.file_size = 0 /\ file.stored_size = 0
  BY <1>2
<1>9. FileSound(nand, file, doubt, content)
  <2>1. HdrNewest(nand, file)
    BY <1>5, <1>8 DEF HdrNewest
  <2>2. TreeKept(nand, file) /\ ContentIs(nand, file, doubt, content)
    BY <1>8 DEF TreeKept, ContentIs
  <2>3. OthersGone(nand, file, doubt)
    BY <1>7, <1>8 DEF OthersGone
  <2>4. SizeAbove(nand, file, doubt)
    BY <1>4, <1>6, <1>8 DEF SizeAbove
  <2> QED BY <2>1, <2>2, <2>3, <2>4 DEF FileSound
<1>10. \A b : Clear(nand, b)
  BY <1>4 DEF Clear
<1>11. Guarded(nand, dev, Pending)
  BY <1>10 DEF Guarded
<1>12. SettledTo(nand, file, doubt, 0)
  BY LogAssumption DEF SettledTo, Ids
<1>13. SizeBelow(nand, file, doubt)
  BY <1>6, <1>8 DEF SizeBelow
<1>14. JobInv
  <2>1. DOMAIN op.jobs = {}
    BY <1>2
  <2>2. JobsLead(op.jobs) /\ JobsShape(op.jobs) /\ JobDone
    BY <1>2, <2>1 DEF JobsLead, JobsShape, JobDone
  <2>3. CutsAhead
    BY <1>2 DEF CutsAhead
  <2> QED BY <1>2, <2>2, <2>3 DEF JobInv
<1>15. UpInv
  BY <1>8, <1>9, <1>11, <1>12, <1>13, <1>14 DEF UpInv
<1>16. content \in [Ids -> Data \cup {Hole}] /\ Up
  BY <1>2 DEF Up
<1> QED BY <1>15, <1>16 DEF ScanInv


-----------------------------------------------------------------------------
(* Every step.                                                             *)

\* A call goes on with RAM as it is.
LEMMA ContinueUp ==
    ASSUME NEW s, Continue(s)
    PROVE  Up'
<1>1. s = <<>> \/ s # <<>>
  OBVIOUS
<1> QED BY <1>1 DEF Continue, Idle, Up

\* The calls and the collector run while the device is mounted.
LEMMA StaysUp ==
    ASSUME IInv, Calls \/ Gc \/ Resizing \/ Writing
    PROVE  Up /\ Up'
<1>1. op \in Operation
  BY DEF IInv
<1>2. CASE Calls
  <2>1. ASSUME NEW s, Call(s) PROVE Up /\ Up'
    <3>1. Continue(s) /\ Up
      BY <2>1 DEF Call, Up
    <3> QED BY <3>1, ContinueUp
  <2> QED BY <1>2, <2>1 DEF Calls, WriteFile, ResizeFile, FlushFile
<1>3. CASE Gc
  <2>1. ASSUME NEW d, NEW b, GcDue, CollectBlock(d, b) PROVE Up /\ Up'
    BY <1>1, <2>1 DEF CollectBlock, GcDue, Up, Operation
  <2>2. CASE GcResume \/ GcRefresh \/ GcSelect
    BY <2>1, <2>2 DEF GcResume, GcRefresh, GcSelect
  <2>3. CASE GcRemember \/ GcPass
    BY <1>1, <2>3, AfterGcIs DEF GcRemember, GcPass, GcDue, Up
  <2>4. CASE GcCopy
    BY <1>1, <2>4 DEF GcCopy, Up, Operation
  <2>5. CASE GcDelete \/ GcEnd
    <3>1. CASE GcDelete
      BY <1>1, <3>1 DEF GcDelete, Up, Operation
    <3>2. CASE GcEnd
      <4>1. op' \in {[op EXCEPT !.pc = "start"], AfterGc} /\ Up
        BY <3>2 DEF GcEnd, Up
      <4> QED BY <1>1, <4>1, AfterGcIs DEF Up, Operation
    <3> QED BY <2>5, <3>1, <3>2
  <2> QED BY <1>3, <2>2, <2>3, <2>4, <2>5 DEF Gc
<1>4. CASE Resizing
  <2>1. Up
    BY <1>4 DEF Resizing, HandleHole, Grow, PruneChunk, PruneEnd, At, Up
  <2>2. CASE HandleHole
    <3>1. \E s : Continue(s)
      BY <2>2 DEF HandleHole
    <3> QED BY <2>1, <3>1, ContinueUp
  <2>3. CASE Grow \/ PruneEnd
    <3>1. \E s : Continue(s)
      BY <2>3 DEF Grow, PruneEnd, NextJob
    <3> QED BY <2>1, <3>1, ContinueUp
  <2>4. CASE PruneChunk
    BY <2>1, <2>4 DEF PruneChunk, Up
  <2> QED BY <1>4, <2>2, <2>3, <2>4 DEF Resizing
<1>5. CASE Writing
  <2>1. Up
    BY <1>5 DEF Writing, GcOnly, WriteData, WriteHdr, DeleteOld, Up
  <2>2. CASE GcOnly \/ DeleteOld
    <3>1. \E s : Continue(s)
      BY <2>2 DEF GcOnly, DeleteOld, NextJob
    <3> QED BY <2>1, <3>1, ContinueUp
  <2>3. ASSUME NEW d, DataWritten(d) PROVE Up'
    BY <1>1, <2>3 DEF DataWritten, Up, Operation
  <2>4. ASSUME NEW d, DataRefused(d) PROVE Up'
    <3>1. \E s : Continue(s)
      BY <2>4 DEF DataRefused, NextJob
    <3> QED BY <3>1, ContinueUp
  <2>5. CASE WriteData
    BY <2>1, <2>3, <2>4, <2>5 DEF WriteData
  <2>6. CASE WriteHdr
    BY <1>1, <2>1, <2>6 DEF WriteHdr, Up, Operation
  <2> QED BY <1>5, <2>2, <2>5, <2>6 DEF Writing
<1> QED BY <1>2, <1>3, <1>4, <1>5

\* What a file holds at any time.
LEMMA ContentType ==
    ASSUME IInv, content \in [Ids -> Data \cup {Hole}], Next
    PROVE  content' \in [Ids -> Data \cup {Hole}]
<1>1. CASE UNCHANGED content
  BY <1>1
<1>2. ASSUME Calls \/ Gc \/ Resizing PROVE UNCHANGED content
  <2>1. CASE Calls
    BY <2>1 DEF Calls, WriteFile, ResizeFile, FlushFile, Call, history
  <2>2. CASE Gc
    BY <2>2 DEF Gc, GcResume, GcRefresh, GcSelect, GcRemember, GcPass, GcCopy, GcDelete, GcEnd,
                CollectBlock, history
  <2>3. CASE Resizing
    BY <2>3 DEF Resizing, HandleHole, Grow, PruneChunk, PruneEnd, history
  <2> QED BY <1>2, <2>1, <2>2, <2>3
<1>3. CASE GcOnly \/ DeleteOld
  BY <1>1, <1>3 DEF GcOnly, DeleteOld, history
<1>4. CASE WriteData
  <2>1. ASSUME NEW d, DataWritten(d), Job.val \in Data
        PROVE  content' \in [Ids -> Data \cup {Hole}]
    BY <2>1 DEF DataWritten
  <2>2. Job.val \in Data
    <3>1. op.pc \in Calling /\ Job.do = "data"
      BY <1>4 DEF WriteData, Calling
    <3> QED BY <3>1, TheJob, JobFields
  <2>3. ASSUME NEW d, DataRefused(d)
        PROVE  UNCHANGED content
    BY <2>3 DEF DataRefused
  <2> QED BY <1>1, <1>4, <2>1, <2>2, <2>3 DEF WriteData
<1>5. CASE WriteHdr
  BY <1>5 DEF WriteHdr
<1>6. CASE Crash \/ ScanErase
  BY <1>1, <1>6 DEF Crash, ScanErase, history
<1>7. CASE Mount
  <2>1. FlashInv(nand) /\ content' = FoundContent(nand)
    BY <1>7 DEF IInv, Mount
  <2>2. PICK f : f = FoundFile(nand)
    OBVIOUS
  <2> QED BY <2>1, <2>2, FoundSound
<1> QED BY <1>1, <1>2, <1>3, <1>4, <1>5, <1>6, <1>7 DEF Next, Writing, Power

\* Every step keeps the invariant.
LEMMA NextScanInv == IInv /\ ScanInv /\ [Next]_vars => ScanInv'
<1> SUFFICES ASSUME IInv, ScanInv, [Next]_vars PROVE ScanInv'
  OBVIOUS
<1>1. CASE UNCHANGED vars
  <2>1. UNCHANGED <<dev, nand, file, op, content, doubt>>
    BY <1>1 DEF vars, history
  <2>2. UpInv' <=> UpInv
    BY <2>1 DEF UpInv, JobInv, JobsLead, JobsShape, JobDone, CutsAhead, Shortening, SettledNow,
                Pending, Job
  <2>3. DownInv' <=> DownInv
    BY <2>1 DEF DownInv
  <2>4. Up' <=> Up
    BY <2>1 DEF Up
  <2> QED BY <2>1, <2>2, <2>3, <2>4 DEF ScanInv
<1>2. CASE Next
  <2>1. IInv'
    BY <1>2, NextIInv
  <2>2. content \in [Ids -> Data \cup {Hole}] /\ content' \in [Ids -> Data \cup {Hole}]
    BY <1>2, ContentType DEF ScanInv
  <2>3. CASE Calls \/ Gc \/ Resizing \/ Writing
    <3>1. Up /\ Up' /\ UpInv
      BY <2>3, StaysUp DEF ScanInv
    <3>2. UpInv'
      <4>1. CASE Calls
        BY <3>1, <4>1, CallsScan
      <4>2. CASE Gc
        BY <2>1, <3>1, <4>2, CheckGcScan, GcCopyScan, GcDeleteScan, GcEndScan DEF Gc
      <4>3. CASE Resizing
        BY <2>1, <3>1, <4>3, HoleScan, GrowScan, PruneChunkScan, PruneEndScan DEF Resizing
      <4>4. CASE Writing
        BY <2>1, <2>2, <3>1, <4>4, GcOnlyScan, WriteDataScan, WriteHdrScan, DeleteOldScan
           DEF Writing
      <4> QED BY <2>3, <4>1, <4>2, <4>3, <4>4
    <3> QED BY <2>2, <3>1, <3>2 DEF ScanInv
  <2>4. CASE Crash
    <3>1. Up /\ ~Up'
      BY <2>4 DEF Crash, Idle, Up
    <3>2. DownInv'
      BY <2>4, <3>1, CrashScan DEF ScanInv
    <3> QED BY <2>2, <3>1, <3>2 DEF ScanInv
  <2>5. CASE ScanErase
    <3>1. ~Up /\ ~Up'
      BY <2>5 DEF ScanErase, Up
    <3>2. DownInv'
      BY <2>1, <2>5, <3>1, ScanEraseScan DEF ScanInv
    <3> QED BY <2>2, <3>1, <3>2 DEF ScanInv
  <2>6. CASE Mount
    <3>1. ~Up /\ Up'
      BY <2>6 DEF Mount, Idle, Up
    <3>2. UpInv'
      BY <2>6, <3>1, MountScan DEF ScanInv
    <3> QED BY <2>2, <3>1, <3>2 DEF ScanInv
  <2> QED BY <1>2, <2>3, <2>4, <2>5, <2>6 DEF Next, Power
<1> QED BY <1>1, <1>2


-----------------------------------------------------------------------------
(* The abstract file.                                                      *)

\* At the start both are empty.
LEMMA InitStore == Init => Store!Init
BY DEF Init, Store!Init, Store!Ids, Ids

\* Every step is one of the abstract file, or leaves it alone.
LEMMA NextStore == IInv /\ ScanInv /\ [Next]_vars => [Store!Next]_(Store!vars)
<1> SUFFICES ASSUME IInv, ScanInv, [Next]_vars PROVE Store!Next \/ UNCHANGED <<content, doubt>>
  BY DEF Store!vars
<1>1. CASE UNCHANGED vars
  BY <1>1 DEF vars, history
<1>2. CASE Calls
  BY <1>2 DEF Calls, WriteFile, ResizeFile, FlushFile, Call, history
<1>3. CASE Gc
  BY <1>3 DEF Gc, GcResume, GcRefresh, GcSelect, GcRemember, GcPass, GcCopy, GcDelete, GcEnd,
              CollectBlock, history
<1>4. CASE HandleHole \/ Grow
  BY <1>4 DEF HandleHole, Grow, history
<1>5. CASE PruneChunk \/ PruneEnd
  <2>1. Job.size \in 0 .. MaxId
    <3>1. op.pc \in Calling /\ Job.do = "prune"
      BY <1>5 DEF PruneChunk, PruneEnd, At, Calling
    <3> QED BY <3>1, TheJob, JobFields
  <2>2. content' = content /\ doubt' = doubt \cup {i \in Ids : i > Job.size}
    BY <1>5 DEF PruneChunk, PruneEnd
  <2>3. Store!Truncating(Job.size)
    BY <2>2 DEF Store!Truncating, Store!Ids, Ids
  <2> QED BY <2>1, <2>3 DEF Store!Next
<1>6. CASE GcOnly \/ DeleteOld
  BY <1>6 DEF GcOnly, DeleteOld, history
<1>7. CASE WriteData
  <2>1. Job.id \in Ids /\ Job.val \in Data
    <3>1. op.pc \in Calling /\ Job.do = "data"
      BY <1>7 DEF WriteData, Calling
    <3> QED BY <3>1, TheJob, JobFields
  <2>2. ASSUME NEW d, DataWritten(d)
        PROVE  Store!Write(Job.id, Job.val)
    BY <2>2 DEF DataWritten, Store!Write
  <2>3. ASSUME NEW d, DataRefused(d)
        PROVE  Store!Refuse(Job.id) \/ UNCHANGED <<content, doubt>>
    BY <2>3 DEF DataRefused, Store!Refuse
  <2>4. PICK i \in Ids : i = Job.id
    BY <2>1
  <2>5. PICK v \in Data : v = Job.val
    BY <2>1
  <2>6. Store!Write(i, v) \/ Store!Refuse(i) \/ UNCHANGED <<content, doubt>>
    BY <1>7, <2>2, <2>3, <2>4, <2>5 DEF WriteData
  <2> QED BY <2>6 DEF Store!Next, Store!Ids, Ids
<1>8. CASE WriteHdr
  <2>1. file.stored_size \in 0 .. MaxId
    BY DEF IInv, File
  <2>2. /\ doubt' = {i \in doubt : i <= file.stored_size}
        /\ content' = [i \in Ids |-> IF i \in doubt \ doubt' THEN Hole ELSE content[i]]
    BY <1>8 DEF WriteHdr
  <2>3. Store!EndTruncate(file.stored_size)
    BY <2>2 DEF Store!EndTruncate, Store!Ids, Ids
  <2> QED BY <2>1, <2>3 DEF Store!Next
<1>9. CASE Crash \/ ScanErase
  BY <1>9 DEF Crash, ScanErase, history
<1>10. CASE Mount
  <2>1. content' = FoundContent(nand) /\ DownInv /\ FlashInv(nand)
    BY <1>10 DEF Mount, ScanInv, Up, IInv
  <2>2. PICK f : f = FoundFile(nand)
    OBVIOUS
  <2>3. content' \in [Ids -> Data \cup {Hole}]
    BY <2>1, <2>2, FoundSound
  <2>4. \A i \in Ids \ doubt : content'[i] = content[i]
    BY <2>1 DEF DownInv
  <2>5. doubt' \in SUBSET {i \in doubt : content'[i] = Hole}
    BY <1>10 DEF Mount
  <2>6. Store!Mount
    BY <2>3, <2>4, <2>5 DEF Store!Mount, Store!Contents, Store!Ids, Ids
  <2> QED BY <2>6 DEF Store!Next
<1> QED BY <1>1, <1>2, <1>3, <1>4, <1>5, <1>6, <1>7, <1>8, <1>9, <1>10
    DEF Next, Resizing, Writing, Power

-----------------------------------------------------------------------------
(* The theorems.                                                           *)

\* What the scan finds follows from the invariant.
LEMMA ScanInvContent == IInv /\ ScanInv => ScanFindsContent
<1> SUFFICES ASSUME IInv, ScanInv PROVE ScanFindsContent
  OBVIOUS
<1>1. CASE Up
  <2>1. PICK g : g = FoundFile(nand)
    OBVIOUS
  <2> QED BY <1>1, <2>1, ScanFinds DEF ScanInv, ScanFindsContent
<1>2. CASE ~Up
  BY <1>2 DEF ScanInv, DownInv, ScanFindsContent
<1> QED BY <1>1, <1>2

\* What the scan makes of the flash is the file.
LEMMA ScanInvFile == IInv /\ ScanInv => ScanFindsFile
<1> SUFFICES ASSUME IInv, ScanInv, Up PROVE ScanFindsFile
  BY DEF ScanFindsFile
<1>1. PICK f : f = FoundFile(nand)
  OBVIOUS
<1>2. /\ f \in File /\ file \in File /\ f.hdr_chunk = file.hdr_chunk
      /\ \A i \in Ids \ doubt : f.tree[i] = file.tree[i]
      /\ \/ f.stored_size <= file.stored_size
         \/ \A i \in Ids : i > file.stored_size => i \in doubt
      /\ ~Shortening =>
           file.stored_size <= f.stored_size \/ file.stored_size \in doubt
  BY <1>1, ScanFinds DEF ScanInv, IInv
<1>3. ASSUME ~Shortening
      PROVE  \/ f.stored_size = file.stored_size
             \/ f.stored_size < file.stored_size /\ file.stored_size \in doubt
  <2>1. f.stored_size \in 0 .. MaxId /\ file.stored_size \in 0 .. MaxId
    BY <1>2 DEF File
  <2>2. f.stored_size <= file.stored_size
    <3> SUFFICES ASSUME \A i \in Ids : i > file.stored_size => i \in doubt
                 PROVE  f.stored_size <= file.stored_size
      BY <1>2
    <3>1. \A i \in Ids : ~(i > file.stored_size)
      BY <1>3 DEF Shortening
    <3> QED BY <2>1, <3>1, LogAssumption DEF Ids
  <2> QED BY <1>2, <1>3, <2>1, <2>2, LogAssumption
<1> QED BY <1>1, <1>2, <1>3 DEF ScanFindsFile

\* In every state: which of the headers on flash have to stay there, and for how
\* long, and what the call in progress has still to cut off (yaffs_update_oh,
\* yaffs2_handle_hole, yaffs_resize_file_down, has_shrink_hdr,
\* yaffs_block_ok_for_gc).
THEOREM LogScanInvariance == Spec => []ScanInv
<1>1. Init => IInv /\ ScanInv
  BY InitIInv, InitScan
<1>2. (IInv /\ ScanInv) /\ [Next]_vars => (IInv /\ ScanInv)'
  BY NextIInv, NextScanInv
<1> QED BY <1>1, <1>2, PTL DEF Spec

\* Whatever was written is on flash: a scan made at any moment, in the middle of a
\* write, a truncation, a collection or another scan, finds in every chunk of the
\* file what the calls have made of it; no chunk a truncation has cut off comes
\* back when its header or the block it is in is collected, and none that was
\* written is lost (yaffs2_scan_chunk against yaffs_wr_data_obj, yaffs_update_oh,
\* yaffs2_handle_hole and yaffs_gc_process_chunk).
THEOREM LogScanFindsContent == Spec => []ScanFindsContent
<1> QED BY LogInvariance, LogScanInvariance, ScanInvContent, PTL

\* The scan would rebuild the tree, hdr_chunk and the size that the mounted
\* device has in RAM.
THEOREM LogScanFindsFile == Spec => []ScanFindsFile
<1> QED BY LogInvariance, LogScanInvariance, ScanInvFile, PTL

\* Writes, holes, truncations, collections, power failures and mounts are, as far
\* as the data of the file goes, steps of the abstract file.
THEOREM LogImplementsStore == Spec => ImplementsStore
<1> QED BY InitStore, NextStore, LogInvariance, LogScanInvariance, PTL
        DEF Spec, ImplementsStore, Store!Spec
=============================================================================
