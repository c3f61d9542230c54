--------------------------- MODULE YaffsSuperProofs ---------------------------
(***************************************************************************)
(* That the dirty flag of the super block tells what has to be written,     *)
(* and that a sync leaves nothing it found unwritten: FlagTellsAll and      *)
(* SyncWritesAll of YaffsSuper, for all files, directories and processes.   *)
(*                                                                         *)
(* Neither is inductive.  A flush reaches an unsaved object only through    *)
(* its inode or the list of directories (ReachInv); the flag says nothing   *)
(* while the file system is being mounted, when nothing may be unwritten    *)
(* (MountInv); and the thread is started and stopped by steps that other    *)
(* steps come between (ThreadInv).                                         *)
(***************************************************************************)
EXTENDS YaffsSuper, TLAPS

-----------------------------------------------------------------------------
(* The inductive invariant.                                                *)

Flags ==
    [mounted : BOOLEAN, rdonly : BOOLEAN, read_only : BOOLEAN, dirty : BOOLEAN,
     is_checkpointed : BOOLEAN, bg_running : BOOLEAN, bg_thread : BOOLEAN,
     defered_dir_update : BOOLEAN, auto_checkpoint : Int]

Threads ==
    [state : {"none", "top", "lock", "arm", "sleep", "gone"}, stop : BOOLEAN,
     next_dir : Int, next_gc : Int, timer : Int]

Steps == {"none", "begin", "root", "start", "kthread_stop", "wait", "stopped"}

SuperType ==
    /\ lc \in Flags
    /\ cached \subseteq Files /\ dirs \subseteq Dirs
    /\ inodes \subseteq Files /\ open \subseteq inodes
    /\ bg \in Threads
    /\ sync \in [Procs -> [step : {"none", "lock"}, request : BOOLEAN,
                           one_shot : BOOLEAN, dirty : BOOLEAN,
                           due : SUBSET (Files \cup Dirs)]]
    /\ admin \in [op : {"none", "mount", "ro", "rw", "umount"}, step : Steps, count : Int]

\* What is unsaved can be found: by its inode, in the list of directories, or
\* nobody can.
ReachInv ==
    /\ cached \subseteq unsaved /\ dirs \subseteq unsaved /\ stray \subseteq unsaved
    /\ unsaved \subseteq inodes \cup dirs \cup stray
    /\ stray \subseteq Files
    /\ ~lc.defered_dir_update => dirs = {}

\* Nothing is unwritten before the first call, and each step has its call.
MountInv ==
    /\ admin.op = "mount" => unsaved = {} /\ admin.step \in {"begin", "root"}
    /\ admin.op = "mount" /\ admin.step = "begin" =>
           ~Mounted /\ ~lc.bg_running /\ ~lc.bg_thread /\ (lc.rdonly => lc.read_only)
    /\ admin.op = "mount" /\ admin.step = "root" => Mounted
    /\ admin.op = "rw" => lc.rdonly
    /\ admin.op \in {"ro", "rw", "umount"} => Mounted
    /\ admin.op # "none" => Quiet

\* The thread is there from its start to the end of the wait for it.
ThreadInv ==
    /\ lc.bg_thread <=> bg.state # "none"
    /\ lc.rdonly => ~lc.bg_thread /\ ~lc.bg_running
    /\ admin.step \in {"kthread_stop", "wait"} =>
           lc.bg_thread /\ admin.op \in {"ro", "umount"}
    /\ admin.step = "stopped" => ~lc.bg_thread /\ ~lc.bg_running
    /\ admin.step \in {"kthread_stop", "wait"} => ~lc.bg_running
    /\ bg.next_dir <= HZ
    /\ bg.timer \in 0 .. HZ + 1

FlagInv ==
    /\ Mounted /\ ~lc.dirty /\ admin.op # "mount" => Unwritten = {}
    /\ ~Mounted => Unwritten = {} /\ ~lc.bg_thread

\* A sync that goes without a flush has nothing to write.
SyncInv ==
    \A p \in Procs : sync[p].step = "none" \/ ~sync[p].dirty => sync[p].due = {}

SuperInv == SuperType /\ ReachInv /\ MountInv /\ ThreadInv /\ FlagInv /\ SyncInv

-----------------------------------------------------------------------------
(* The proof.  The steps by which files and directories change, apart from  *)
(* what they change, leave the flags but for two as they are, and the syncs *)
(* waiting for no more than before.                                        *)

\* A step that is no part of mounting: what it leaves unwritten was so before,
\* or the flag says so.
Touched ==
    /\ lc' \in Flags
    /\ \A x \in {"mounted", "rdonly", "read_only", "bg_running", "bg_thread",
                 "defered_dir_update"} : lc'[x] = lc[x]
    /\ lc.dirty => lc'.dirty
    /\ Unwritten' \subseteq Unwritten \/ lc'.dirty

\* The flags after a step that may write to the flash.
LEMMA FlagsAfter ==
    ASSUME NEW l \in Flags
    PROVE  /\ checkpt_invalidate(l) = [l EXCEPT !.is_checkpointed = FALSE, !.dirty = TRUE]
           /\ checkpt_invalidate(l) \in Flags
           /\ MayWrite(l) \subseteq Flags
           /\ \A x \in BOOLEAN : WriteIf(l, x) \in Flags
  BY DEF checkpt_invalidate, MayWrite, WriteIf, Flags

\* The flags after a step that may write to the flash and marks the super block.
LEMMA DirtyFlags ==
    ASSUME NEW l \in Flags, NEW x \in BOOLEAN
    PROVE  LET k == [WriteIf(l, x) EXCEPT !.dirty = TRUE]
           IN  /\ k \in Flags /\ k.dirty
               /\ \A y \in {"mounted", "rdonly", "read_only", "bg_running", "bg_thread",
                            "defered_dir_update"} : k[y] = l[y]
<1>1. CASE x
  BY <1>1 DEF WriteIf, checkpt_invalidate, Flags
<1>2. CASE ~x
  BY <1>2 DEF WriteIf, Flags
<1> QED  BY <1>1, <1>2

\* A step on files and directories keeps the invariant, if it keeps what can be
\* reached in reach.
LEMMA TouchKeeps ==
    ASSUME SuperInv, Touched, Settle, Mounted, admin.op # "mount",
           bg' = bg, admin' = admin,
           cached' \subseteq Files, dirs' \subseteq Dirs, inodes' \subseteq Files,
           open' \subseteq inodes', ReachInv'
    PROVE  SuperInv'
<1> USE DEF SuperInv
<1>1. SuperType'
  <2>1. sync' \in [Procs -> [step : {"none", "lock"}, request : BOOLEAN,
                             one_shot : BOOLEAN, dirty : BOOLEAN,
                             due : SUBSET (Files \cup Dirs)]]
    BY DEF Settle, SuperType
  <2> QED  BY <2>1 DEF SuperType, Touched
<1>2. \A p \in Procs : /\ sync'[p].step = sync[p].step
                       /\ sync'[p].dirty = sync[p].dirty
                       /\ sync'[p].due \subseteq sync[p].due
  BY DEF Settle, SuperType
<1>3. MountInv'
  BY <1>2 DEF MountInv, Mounted, Quiet, Touched
<1>4. ThreadInv'
  BY DEF ThreadInv, Touched
<1>5. FlagInv'
  <2>1. SuperType!1 /\ lc' \in Flags
    BY DEF SuperType, Touched
  <2> QED  BY <2>1 DEF FlagInv, Mounted, Touched, Flags
<1>6. SyncInv'
  BY <1>2 DEF SyncInv, SuperType
<1> QED  BY <1>1, <1>3, <1>4, <1>5, <1>6

\* A write into a file: its inode is there, so the header can be found.
LEMMA LFileWrite == ASSUME SuperInv, NEW f \in Files, FileWrite(f) PROVE SuperInv'
<1> USE DEF SuperInv
<1>1. Mounted /\ admin.op # "mount"
  BY DEF FileWrite, Writable, Usable
<1>2. lc \in Flags /\ f \in inodes
  BY DEF FileWrite, SuperType
<1>3. Touched /\ lc'.dirty
  <2>1. PICK x \in BOOLEAN : lc' = [WriteIf(lc, x) EXCEPT !.dirty = TRUE]
    BY DEF FileWrite, WrFile
  <2> QED  BY <1>2, <2>1, DirtyFlags DEF Touched
<1>4. ReachInv'
  BY <1>2, <1>3, SuperAssumption DEF FileWrite, WrFile, ReachInv, Touched, SuperType
<1>5. bg' = bg /\ admin' = admin /\ Settle
  BY DEF FileWrite, WrFile
<1>6. cached' \subseteq Files /\ dirs' \subseteq Dirs /\ inodes' \subseteq Files
        /\ open' \subseteq inodes'
  BY DEF FileWrite, WrFile, SuperType
<1> QED  BY <1>1, <1>3, <1>4, <1>5, <1>6, TouchKeeps

\* The kernel writes a page back.
LEMMA LWritePage == ASSUME SuperInv, NEW f \in Files, WritePage(f) PROVE SuperInv'
<1> USE DEF SuperInv
<1>1. Mounted /\ admin.op # "mount"
  BY DEF WritePage, Writable, Usable
<1>2. lc \in Flags /\ f \in inodes
  BY DEF WritePage, SuperType
<1>3. Touched /\ lc'.dirty
  <2>1. PICK x \in BOOLEAN : lc' = [WriteIf(lc, x) EXCEPT !.dirty = TRUE]
    BY DEF WritePage, WrFile
  <2> QED  BY <1>2, <2>1, DirtyFlags DEF Touched
<1>4. ReachInv'
  BY <1>2, <1>3, SuperAssumption DEF WritePage, WrFile, ReachInv, Touched, SuperType
<1>5. bg' = bg /\ admin' = admin /\ Settle
  BY DEF WritePage, WrFile
<1>6. cached' \subseteq Files /\ dirs' \subseteq Dirs /\ inodes' \subseteq Files
        /\ open' \subseteq inodes'
  BY DEF WritePage, WrFile, SuperType
<1> QED  BY <1>1, <1>3, <1>4, <1>5, <1>6, TouchKeeps

\* Closing a file or fsync() on it writes its buffers, then its header.
LEMMA LFileFlush == ASSUME SuperInv, NEW f \in Files, FileFlush(f) PROVE SuperInv'
<1> USE DEF SuperInv
<1>1. Mounted /\ admin.op # "mount"
  BY DEF FileFlush, Writable, Usable
<1>2. lc \in Flags /\ f \in inodes /\ f \notin Dirs
  BY SuperAssumption DEF FileFlush, SuperType
<1>3. cached' \subseteq cached /\ Unwritten' \subseteq Unwritten
  BY DEF FileFlush, flush_file, Unwritten
<1>4. Touched
  BY <1>2, <1>3, FlagsAfter DEF FileFlush, flush_file, WriteIf, Touched, Flags,
         checkpt_invalidate
<1>5. ReachInv'
  BY <1>2, <1>4 DEF FileFlush, flush_file, ReachInv, Touched, SuperType
<1>6. bg' = bg /\ admin' = admin /\ Settle
  BY DEF FileFlush
<1>7. cached' \subseteq Files /\ dirs' \subseteq Dirs /\ inodes' \subseteq Files
        /\ open' \subseteq inodes'
  BY <1>3 DEF FileFlush, SuperType
<1> QED  BY <1>1, <1>4, <1>5, <1>6, <1>7, TouchKeeps

\* fdatasync() leaves the header as it is.
LEMMA LDataSync == ASSUME SuperInv, NEW f \in Files, DataSync(f) PROVE SuperInv'
<1> USE DEF SuperInv
<1>1. Mounted /\ admin.op # "mount"
  BY DEF DataSync, Writable, Usable
<1>2. lc \in Flags
  BY DEF SuperType
<1>3. cached' \subseteq cached /\ Unwritten' \subseteq Unwritten
  BY DEF DataSync, Unwritten
<1>4. Touched
  BY <1>2, <1>3, FlagsAfter DEF DataSync, WriteIf, Touched, Flags, checkpt_invalidate
<1>5. ReachInv'
  BY <1>4 DEF DataSync, ReachInv, Touched
<1>6. bg' = bg /\ admin' = admin /\ Settle
  BY DEF DataSync
<1>7. cached' \subseteq Files /\ dirs' \subseteq Dirs /\ inodes' \subseteq Files
        /\ open' \subseteq inodes'
  BY <1>3 DEF DataSync, SuperType
<1> QED  BY <1>1, <1>4, <1>5, <1>6, <1>7, TouchKeeps

\* A file that is opened has an inode from then on.
LEMMA LOpenFile == ASSUME SuperInv, NEW f \in Files, OpenFile(f) PROVE SuperInv'
  BY DEF OpenFile, SuperInv, SuperType, ReachInv, MountInv, ThreadInv, FlagInv, SyncInv,
         Unwritten, Mounted, Quiet

\* Without its inode nobody can reach a header that is unsaved.
LEMMA LEvictInode == ASSUME SuperInv, NEW f \in Files, EvictInode(f) PROVE SuperInv'
<1> USE DEF SuperInv
<1>1. Mounted /\ admin.op # "mount"
  BY DEF EvictInode, Usable
<1>2. Touched
  BY DEF EvictInode, Touched, SuperType, Unwritten
<1>3. ReachInv'
  BY DEF EvictInode, ReachInv, SuperType
<1>4. bg' = bg /\ admin' = admin /\ Settle
  BY DEF EvictInode
<1>5. cached' \subseteq Files /\ dirs' \subseteq Dirs /\ inodes' \subseteq Files
        /\ open' \subseteq inodes'
  BY DEF EvictInode, SuperType
<1> QED  BY <1>1, <1>2, <1>3, <1>4, <1>5, TouchKeeps

\* A changed directory is written, or put in the list of dirty ones.
LEMMA LChangeDir == ASSUME SuperInv, NEW d \in Dirs, ChangeDir(d) PROVE SuperInv'
<1> USE DEF SuperInv
<1>1. Mounted /\ admin.op # "mount"
  BY DEF ChangeDir, Writable, Usable
<1>2. lc \in Flags /\ d \notin Files
  BY SuperAssumption DEF SuperType
<1>3. Touched /\ lc'.dirty
  BY <1>2, FlagsAfter, ZenonT(40) DEF ChangeDir, Touched, Flags, checkpt_invalidate
<1>4. ReachInv'
  BY <1>2, <1>3 DEF ChangeDir, ReachInv, Touched, SuperType
<1>5. bg' = bg /\ admin' = admin /\ Settle
  BY DEF ChangeDir
<1>6. cached' \subseteq Files /\ dirs' \subseteq Dirs /\ inodes' \subseteq Files
        /\ open' \subseteq inodes'
  BY DEF ChangeDir, SuperType
<1> QED  BY <1>1, <1>3, <1>4, <1>5, <1>6, TouchKeeps

\* yaffs_do_sync_fs() reads the flag before it takes the lock.
LEMMA LSyncBegin == ASSUME SuperInv, NEW p \in Procs, SyncBegin(p) PROVE SuperInv'
<1> USE DEF SuperInv
<1>1. PICK request \in Requests : Look(p, request)
  BY DEF SyncBegin
<1>2. lc \in Flags /\ admin.op = "none" /\ Mounted /\ UNCHANGED <<lc, fsVars, bg, admin>>
  BY DEF SyncBegin, Usable, SuperType
<1>3. request \in BOOLEAN /\ OneShot \in BOOLEAN
  <2>1. (lc.auto_checkpoint >= 1) \in BOOLEAN /\ (lc.auto_checkpoint >= 4) \in BOOLEAN
    OBVIOUS
  <2> QED  BY <2>1, Zenon DEF Requests, OneShot
<1>3a. Unwritten \subseteq Files \cup Dirs
  BY <1>2 DEF Unwritten, ReachInv, SuperType
<1>4. /\ sync' \in [Procs -> [step : {"none", "lock"}, request : BOOLEAN,
                             one_shot : BOOLEAN, dirty : BOOLEAN,
                             due : SUBSET (Files \cup Dirs)]]
      /\ sync'[p].dirty = lc.dirty /\ sync'[p].due = Unwritten
      /\ \A q \in Procs \ {p} : sync'[q] = sync[q]
  BY <1>1, <1>2, <1>3, <1>3a DEF Look, SuperType, Flags
<1>5. SuperType' /\ ReachInv'
  BY <1>2, <1>4 DEF SuperType, ReachInv, fsVars
<1>6. MountInv' /\ ThreadInv'
  BY <1>2 DEF MountInv, ThreadInv, Mounted
<1>7. FlagInv'
  BY <1>2 DEF FlagInv, Unwritten, Mounted, fsVars
<1>8. SyncInv'
  <2>1. ~sync'[p].dirty => sync'[p].due = {}
    BY <1>2, <1>4 DEF FlagInv
  <2>2. sync'[p].step = "lock"
    BY <1>1 DEF Look, SuperType
  <2> QED  BY <1>4, <2>1, <2>2 DEF SyncInv
<1> QED  BY <1>5, <1>6, <1>7, <1>8

\* A flush writes all there is, whatever becomes of the checkpoint.
LEMMA FlushWritesAll ==
    ASSUME SuperInv, Flushed, inodes' = inodes
    PROVE  Unwritten' = {} /\ (lc'.defered_dir_update = lc.defered_dir_update => ReachInv')
<1>1. ReachInv
  BY DEF SuperInv
<1>2. /\ cached' = {} /\ dirs' = {}
      /\ unsaved' = unsaved \ (inodes \cup dirs)
      /\ stray' = stray \ (unsaved \cap (inodes \cup dirs))
  BY <1>1 DEF Flushed, Reached
<1>3. unsaved' \subseteq stray'
  BY <1>1, <1>2 DEF ReachInv
<1> QED  BY <1>1, <1>2, <1>3 DEF Unwritten, ReachInv

\* The flags after a flush.
LEMMA FlagsFlushed ==
    ASSUME NEW do_checkpoint \in BOOLEAN, lc \in Flags,
           NEW l \in FlushOutcomes(do_checkpoint)
    PROVE  /\ l \in Flags
           /\ \A x \in {"mounted", "rdonly", "read_only", "bg_running", "bg_thread",
                        "defered_dir_update", "auto_checkpoint"} : l[x] = lc[x]
<1> DEFINE w == WriteIf(lc, Reached \cup cached # {})
<1>1. /\ w \in Flags
      /\ \A x \in {"mounted", "rdonly", "read_only", "bg_running", "bg_thread",
                   "defered_dir_update", "auto_checkpoint"} : w[x] = lc[x]
  BY DEF WriteIf, checkpt_invalidate, Flags
<1>2. CASE l = w
  BY <1>1, <1>2
<1>3. CASE l # w
  <2>1. PICK c \in BOOLEAN : l = [checkpt_invalidate(w) EXCEPT !.is_checkpointed = c]
    BY <1>3 DEF FlushOutcomes, checkpoint_save
  <2>2. checkpt_invalidate(w) \in Flags
    BY <1>1, FlagsAfter
  <2>3. \A x \in {"mounted", "rdonly", "read_only", "bg_running", "bg_thread",
                  "defered_dir_update", "auto_checkpoint"} : checkpt_invalidate(w)[x] = w[x]
    <3> HIDE DEF w
    <3> QED  BY <1>1 DEF checkpt_invalidate, Flags
  <2> HIDE DEF w
  <2> QED  BY <1>1, <2>1, <2>2, <2>3 DEF Flags
<1> QED  BY <1>2, <1>3

\* Under the lock: a sync that found the flag set flushes, another has nothing
\* to write.
LEMMA LSyncEnd == ASSUME SuperInv, NEW p \in Procs, SyncEnd(p) PROVE SuperInv'
<1> USE DEF SuperInv
<1>1. lc \in Flags /\ admin.op = "none" /\ sync[p].step = "lock"
  BY DEF SyncEnd, SuperType, MountInv, Quiet
<1>2. /\ sync' \in [Procs -> [step : {"none", "lock"}, request : BOOLEAN,
                             one_shot : BOOLEAN, dirty : BOOLEAN,
                             due : SUBSET (Files \cup Dirs)]]
      /\ \A q \in Procs : /\ sync'[q].due = sync[q].due \cap Unwritten'
                           /\ sync'[q].dirty = (sync[q].dirty /\ q # p)
                           /\ sync'[q].step = IF q = p THEN "none" ELSE sync[q].step
  BY DEF SyncEnd, SuperType, NoSync
<1>3. UNCHANGED <<inodes, open, bg, admin>>
  BY DEF SyncEnd
<1> DEFINE do_checkpoint == sync[p].request /\ ~lc.is_checkpointed
           bit == sync[p].one_shot /\ OneShot
<1>4. IF sync[p].dirty \/ do_checkpoint
      THEN \E l \in FlushOutcomes(do_checkpoint) :
              /\ Flushed
              /\ lc' = [l EXCEPT !.dirty = FALSE,
                           !.auto_checkpoint = IF bit THEN @ - 4 ELSE @]
      ELSE UNCHANGED <<lc, cached, unsaved, dirs, stray>>
  BY DEF SyncEnd
<1>5. CASE sync[p].dirty \/ do_checkpoint
  <2>1. PICK l \in FlushOutcomes(do_checkpoint) :
            /\ Flushed
            /\ lc' = [l EXCEPT !.dirty = FALSE,
                         !.auto_checkpoint = IF bit THEN @ - 4 ELSE @]
    BY <1>4, <1>5
  <2>2. l \in Flags /\ \A x \in {"mounted", "rdonly", "read_only", "bg_running", "bg_thread",
                        "defered_dir_update", "auto_checkpoint"} : l[x] = lc[x]
    BY <1>1, FlagsFlushed
  <2>3. lc' \in Flags /\ \A x \in {"mounted", "rdonly", "read_only", "bg_running",
                        "bg_thread", "defered_dir_update"} : lc'[x] = lc[x]
    <3> DEFINE a == IF bit THEN l.auto_checkpoint - 4 ELSE l.auto_checkpoint
    <3>1. lc' = [l EXCEPT !.dirty = FALSE, !.auto_checkpoint = a] /\ a \in Int
      BY <2>1, <2>2 DEF Flags
    <3> HIDE DEF a
    <3> QED  BY <2>2, <3>1 DEF Flags
  <2>4. Unwritten' = {} /\ ReachInv'
    BY <1>3, <2>1, <2>3, FlushWritesAll
  <2>5. SuperType'
    BY <1>2, <1>3, <2>1, <2>3 DEF SuperType, Flushed
  <2>6. MountInv'
    BY <1>1, <1>2, <1>3, <2>3 DEF MountInv, Mounted
  <2>7. ThreadInv'
    BY <1>3, <2>3 DEF ThreadInv
  <2>8. FlagInv'
    BY <2>3, <2>4 DEF FlagInv, Mounted
  <2>9. SyncInv'
    BY <1>2, <2>4 DEF SyncInv
  <2> QED  BY <2>4, <2>5, <2>6, <2>7, <2>8, <2>9
<1>6. CASE ~(sync[p].dirty \/ do_checkpoint)
  <2>1. UNCHANGED <<lc, cached, unsaved, dirs, stray>>
    BY <1>4, <1>6
  <2>2. Unwritten' = Unwritten
    BY <2>1 DEF Unwritten
  <2>3. SuperType' /\ ReachInv' /\ ThreadInv'
    BY <1>2, <1>3, <2>1 DEF SuperType, ReachInv, ThreadInv
  <2>4. MountInv' /\ FlagInv'
    BY <1>1, <1>3, <2>1, <2>2 DEF MountInv, FlagInv, Mounted
  <2>5. SyncInv'
    BY <1>2, <1>6, <2>2 DEF SyncInv
  <2> QED  BY <2>3, <2>4, <2>5
<1> QED  BY <1>5, <1>6

-----------------------------------------------------------------------------
(* The thread.                                                             *)

\* The top of the loop of the thread.
LEMMA LBgTop == ASSUME SuperInv, BgTop PROVE SuperInv'
  BY DEF BgTop, SuperInv, SuperType, Threads, ReachInv, MountInv, ThreadInv, FlagInv,
         SyncInv, Unwritten, Mounted, Quiet, fsVars

\* The thread goes to sleep.
LEMMA LBgSleep == ASSUME SuperInv, BgSleep PROVE SuperInv'
  BY DEF BgSleep, SuperInv, SuperType, Threads, ReachInv, MountInv, ThreadInv, FlagInv,
         SyncInv, Unwritten, Mounted, Quiet, fsVars

\* A tick of the clock: no timer runs past its end.
LEMMA LTick == ASSUME SuperInv, Tick PROVE SuperInv'
<1> USE DEF SuperInv
<1>1. UNCHANGED <<lc, fsVars, sync, admin>> /\ bg \in Threads /\ bg.state = "sleep"
  BY DEF Tick, SuperType
<1>2. /\ bg' \in Threads /\ bg'.state # "none"
      /\ bg'.next_dir <= bg.next_dir \/ bg'.next_dir <= 0
      /\ bg'.timer = IF bg.timer = 0 THEN 0 ELSE bg.timer - 1
  <2> DEFINE down(n) == IF n < 0 THEN n ELSE n - 1
             d == down(bg.next_dir)
             g == down(bg.next_gc)
             t == IF bg.timer = 0 THEN 0 ELSE bg.timer - 1
             s == IF bg.timer = 1 THEN "top" ELSE "sleep"
  <2>1. bg' = [bg EXCEPT !.next_dir = d, !.next_gc = g, !.timer = t, !.state = s]
    BY <1>1 DEF Tick, Threads
  <2>2. d \in Int /\ g \in Int /\ t \in Int /\ s \in {"top", "sleep"} /\ d <= bg.next_dir
    BY <1>1 DEF Threads
  <2> HIDE DEF down, d, g, t, s
  <2>3. bg' \in Threads /\ bg'.state = s /\ bg'.next_dir = d /\ bg'.timer = t
    BY <1>1, <2>1, <2>2 DEF Threads
  <2> QED  BY <2>2, <2>3 DEF t
<1>3. bg'.next_dir <= HZ /\ bg'.timer \in 0 .. HZ + 1
  BY <1>1, <1>2, SuperAssumption DEF ThreadInv, Threads
<1>4. SuperType' /\ ReachInv' /\ ThreadInv'
  BY <1>1, <1>2, <1>3 DEF SuperType, ReachInv, ThreadInv, fsVars
<1>5. MountInv' /\ FlagInv' /\ SyncInv'
  BY <1>1 DEF MountInv, FlagInv, SyncInv, Unwritten, Mounted, Quiet, fsVars
<1> QED  BY <1>4, <1>5

\* The thread writes directories and collects, at any time between two steps of
\* the others.
LEMMA LBgWork == ASSUME SuperInv, BgWork PROVE SuperInv'
<1> USE DEF SuperInv
<1> DEFINE dir_due == bg.next_dir < 0
           gc_due == bg.next_gc < 0
           written == WriteIf(lc, dir_due /\ dirs # {})
           next_dir == IF dir_due THEN HZ ELSE bg.next_dir
<1>1. /\ bg \in Threads /\ lc \in Flags /\ bg.state = "lock"
      /\ UNCHANGED <<cached, inodes, open, stray, admin>> /\ Settle
  BY DEF BgWork, SuperType
<1>2. /\ IF dir_due THEN dirs' = {} /\ unsaved' = unsaved \ dirs
                    ELSE UNCHANGED <<dirs, unsaved>>
      /\ lc' \in {written} \cup MayWrite(written)
  BY DEF BgWork, MayWrite
<1>3. PICK next_gc \in {bg.next_gc, next_dir} \cup GcPeriods :
          bg' = [bg EXCEPT !.state = "arm", !.next_dir = next_dir,
                    !.next_gc = next_gc, !.timer = Expires(next_dir, next_gc) + 1]
  BY DEF BgWork
<1>4. next_dir \in Int /\ next_dir <= HZ /\ next_gc \in Int
  BY <1>1, SuperAssumption DEF ThreadInv, Threads, GcPeriods
<1>5. Expires(next_dir, next_gc) \in 0 .. HZ
  BY <1>4, SuperAssumption DEF Expires
<1>6. bg' \in Threads /\ bg'.state = "arm" /\ bg'.next_dir <= HZ /\ bg'.timer \in 0 .. HZ + 1
  <2> DEFINE t == Expires(next_dir, next_gc) + 1
  <2>1. t \in 0 .. HZ + 1 /\ t \in Int
    BY <1>5, SuperAssumption
  <2>2. bg' = [bg EXCEPT !.state = "arm", !.next_dir = next_dir, !.next_gc = next_gc,
                         !.timer = t]
    BY <1>3
  <2> HIDE DEF next_dir, t
  <2>3. bg' \in Threads /\ bg'.state = "arm" /\ bg'.next_dir = next_dir /\ bg'.timer = t
    BY <1>1, <1>4, <2>1, <2>2 DEF Threads
  <2> QED  BY <1>4, <2>1, <2>3
<1>7. /\ lc' \in Flags
      /\ \A x \in {"mounted", "rdonly", "read_only", "bg_running", "bg_thread",
                   "defered_dir_update"} : lc'[x] = lc[x]
      /\ lc.dirty => lc'.dirty
  <2>1. /\ written \in Flags
        /\ \A x \in {"mounted", "rdonly", "read_only", "bg_running", "bg_thread",
                     "defered_dir_update"} : written[x] = lc[x]
        /\ lc.dirty => written.dirty
    BY <1>1 DEF WriteIf, checkpt_invalidate, Flags
  <2>2. lc' = written \/ lc' = checkpt_invalidate(written)
    BY <1>2 DEF MayWrite
  <2> HIDE DEF written
  <2> QED  BY <2>1, <2>2 DEF checkpt_invalidate, Flags
<1>8. Unwritten' \subseteq Unwritten
  BY <1>1, <1>2 DEF Unwritten, ReachInv
<1>9. ReachInv'
  BY <1>1, <1>2, <1>7, SuperAssumption DEF ReachInv, SuperType
<1>10. \A q \in Procs : /\ sync'[q].step = sync[q].step
                        /\ sync'[q].dirty = sync[q].dirty
                        /\ sync'[q].due \subseteq sync[q].due
  BY <1>1 DEF Settle, SuperType
<1>11. SuperType'
  <2>1. sync' \in [Procs -> [step : {"none", "lock"}, request : BOOLEAN,
                             one_shot : BOOLEAN, dirty : BOOLEAN,
                             due : SUBSET (Files \cup Dirs)]]
    BY <1>1 DEF Settle, SuperType
  <2> QED  BY <1>1, <1>2, <1>6, <1>7, <2>1 DEF SuperType
<1>12. MountInv'
  BY <1>1, <1>2, <1>7, <1>10 DEF MountInv, Mounted, Quiet
<1>13. ThreadInv'
  BY <1>1, <1>6, <1>7 DEF ThreadInv
<1>14. FlagInv'
  BY <1>1, <1>7, <1>8 DEF FlagInv, Mounted, Flags
<1>15. SyncInv'
  BY <1>10 DEF SyncInv, SuperType
<1> QED  BY <1>9, <1>11, <1>12, <1>13, <1>14, <1>15

-----------------------------------------------------------------------------
(* Mounting, remounting and unmounting.                                    *)

\* The flags after the thread was to be started.
LEMMA ThreadStarted ==
    ASSUME NEW c \in Flags, NEW l \in BgStart(c), bg \in Threads,
           ~lc.bg_running, ~c.bg_running, ~c.bg_thread, bg.state = "none",
           lc' \in Flags, lc'.bg_running = l.bg_running
    PROVE  /\ l \in Flags
           /\ \A x \in {"mounted", "rdonly", "read_only", "dirty",
                        "defered_dir_update"} : l[x] = c[x]
           /\ l.bg_thread = l.bg_running
           /\ c.read_only => ~l.bg_thread
           /\ Started \in Threads
           /\ l.bg_thread <=> Started.state # "none"
           /\ \/ Started.next_dir = 0 /\ Started.timer = 0
              \/ Started = bg
<1>1. CASE c.read_only
  BY <1>1 DEF BgStart, Started, Flags
<1>2. CASE ~c.read_only
  <2>1. PICK ok \in BOOLEAN : l = [c EXCEPT !.bg_running = ok, !.bg_thread = ok]
    BY <1>2 DEF BgStart
  <2>2. /\ l \in Flags /\ l.bg_running = ok /\ l.bg_thread = ok
        /\ \A x \in {"mounted", "rdonly", "read_only", "dirty",
                     "defered_dir_update"} : l[x] = c[x]
    BY <2>1 DEF Flags
  <2>3. CASE ok
    <3>1. Started = [state |-> "top", stop |-> FALSE, next_dir |-> 0, next_gc |-> 0,
                     timer |-> 0]
      BY <2>2, <2>3 DEF Started, NoThread
    <3>2. Started \in Threads /\ Started.state = "top" /\ Started.next_dir = 0
            /\ Started.timer = 0
      BY <3>1 DEF Threads
    <3> QED  BY <1>2, <2>2, <2>3, <3>2
  <2>4. CASE ~ok
    <3>1. Started = bg
      BY <2>2, <2>4 DEF Started
    <3> QED  BY <1>2, <2>2, <2>4, <3>1
  <2> QED  BY <2>3, <2>4
<1> QED  BY <1>1, <1>2

\* A mount begins with nothing in memory.
LEMMA LMountBegin == ASSUME SuperInv, MountBegin PROVE SuperInv'
<1> USE DEF SuperInv
<1>1. /\ lc' \in Flags /\ ~lc'.mounted /\ ~lc'.bg_running /\ ~lc'.bg_thread
      /\ lc'.rdonly = lc'.read_only /\ lc'.defered_dir_update
  BY SuperAssumption DEF MountBegin, Flags
<1>2. /\ admin' \in [op : {"mount"}, step : {"begin"}, count : Int] /\ Quiet /\ ~Mounted
      /\ UNCHANGED <<cached, dirs, inodes, open, bg, sync>> /\ unsaved' = {} /\ stray' = {}
  BY DEF MountBegin, Begin, SuperType
<1>3. cached = {} /\ dirs = {} /\ bg.state = "none"
  BY <1>2 DEF FlagInv, Unwritten, ThreadInv
<1>4. SuperType' /\ ReachInv'
  BY <1>1, <1>2, <1>3 DEF SuperType, ReachInv, Steps
<1>5. MountInv' /\ ThreadInv'
  BY <1>1, <1>2, <1>3 DEF MountInv, ThreadInv, Quiet, Mounted, SuperType
<1>6. FlagInv' /\ SyncInv'
  BY <1>1, <1>2, <1>3 DEF FlagInv, SyncInv, Unwritten, Mounted
<1> QED  BY <1>4, <1>5, <1>6

\* The device is initialised, and the thread started if there is to be one.
LEMMA LMountInit == ASSUME SuperInv, MountInit PROVE SuperInv'
<1> USE DEF SuperInv
<1>1. /\ admin.op = "mount" /\ admin.step = "begin"
      /\ admin' = [admin EXCEPT !.step = "root"] /\ UNCHANGED <<fsVars, sync>>
      /\ bg' = Started
  BY DEF MountInit, Admin, Goto
<1>2. /\ ~Mounted /\ ~lc.bg_running /\ ~lc.bg_thread /\ (lc.rdonly => lc.read_only)
      /\ unsaved = {} /\ cached = {} /\ dirs = {} /\ stray = {}
      /\ bg.state = "none" /\ bg \in Threads /\ lc \in Flags
  BY <1>1 DEF MountInv, ReachInv, ThreadInv, SuperType
<1>3. PICK c \in {[lc EXCEPT !.is_checkpointed = TRUE]} \cup MayWrite(lc) :
        \E l \in BgStart(c) :
            lc' = [l EXCEPT !.mounted = TRUE, !.defered_dir_update = l.bg_thread]
  BY DEF MountInit
<1>3a. PICK l \in BgStart(c) :
          lc' = [l EXCEPT !.mounted = TRUE, !.defered_dir_update = l.bg_thread]
  BY <1>3
<1>4. /\ c \in Flags /\ ~c.bg_running /\ ~c.bg_thread
      /\ c.rdonly = lc.rdonly /\ c.read_only = lc.read_only
  BY <1>2, <1>3 DEF MayWrite, checkpt_invalidate, Flags
<1>5. l \in Flags
  BY <1>4 DEF BgStart, Flags
<1>6. /\ lc' \in Flags /\ lc'.mounted
      /\ \A x \in {"rdonly", "read_only", "bg_running", "bg_thread"} : lc'[x] = l[x]
  BY <1>3a, <1>5 DEF Flags
<1>7. /\ l.rdonly = lc.rdonly /\ l.bg_thread = l.bg_running
      /\ lc.read_only => ~l.bg_thread
      /\ Started \in Threads /\ (l.bg_thread <=> Started.state # "none")
      /\ \/ Started.next_dir = 0 /\ Started.timer = 0
         \/ Started = bg
  BY <1>2, <1>4, <1>6, ThreadStarted
<1>8. admin' \in [op : {"mount"}, step : {"root"}, count : Int]
  BY <1>1 DEF SuperType, Steps
<1>9. SuperType' /\ ReachInv'
  BY <1>1, <1>2, <1>6, <1>7, <1>8 DEF SuperType, ReachInv, Steps, fsVars
<1>10. MountInv'
  BY <1>1, <1>2, <1>6, <1>8 DEF MountInv, Mounted, Quiet, fsVars
<1>11. ThreadInv'
  BY <1>1, <1>2, <1>6, <1>7, <1>8, SuperAssumption DEF ThreadInv
<1>12. FlagInv' /\ SyncInv'
  BY <1>1, <1>6, <1>8 DEF FlagInv, SyncInv, Mounted, Unwritten, fsVars
<1> QED  BY <1>9, <1>10, <1>11, <1>12

\* A remount for writing starts the thread, and then is one for writing.
LEMMA LRemountStart == ASSUME SuperInv, RemountStart PROVE SuperInv'
<1> USE DEF SuperInv
<1>1. /\ admin.op = "rw" /\ admin.step = "start"
      /\ admin' = [admin EXCEPT !.op = "none", !.step = "none"]
      /\ UNCHANGED <<fsVars, sync>> /\ bg' = Started
  BY DEF RemountStart, Admin, Done
<1>2. /\ lc.rdonly /\ ~lc.bg_running /\ ~lc.bg_thread
      /\ bg.state = "none" /\ bg \in Threads /\ lc \in Flags
  BY <1>1 DEF MountInv, ThreadInv, SuperType
<1>3. PICK l \in BgStart(lc) : lc' = [l EXCEPT !.rdonly = FALSE]
  BY DEF RemountStart
<1>4. l \in Flags
  BY <1>2 DEF BgStart, Flags
<1>5. /\ lc' \in Flags /\ ~lc'.rdonly
      /\ \A x \in {"mounted", "dirty", "bg_running", "bg_thread",
                   "defered_dir_update"} : lc'[x] = l[x]
  BY <1>3, <1>4 DEF Flags
<1>6. /\ l.mounted = lc.mounted /\ l.dirty = lc.dirty
      /\ l.defered_dir_update = lc.defered_dir_update
      /\ l.bg_thread = l.bg_running
      /\ Started \in Threads /\ (l.bg_thread <=> Started.state # "none")
      /\ \/ Started.next_dir = 0 /\ Started.timer = 0
         \/ Started = bg
  BY <1>2, <1>5, ThreadStarted
<1>7. admin' \in [op : {"none"}, step : {"none"}, count : Int]
  BY <1>1 DEF SuperType, Steps
<1>8. SuperType' /\ ReachInv'
  BY <1>1, <1>5, <1>6, <1>7 DEF SuperType, ReachInv, Steps, fsVars
<1>9. MountInv'
  BY <1>7 DEF MountInv
<1>10. ThreadInv'
  BY <1>1, <1>2, <1>5, <1>6, <1>7, SuperAssumption DEF ThreadInv
<1>11. FlagInv' /\ SyncInv'
  BY <1>1, <1>5, <1>6, <1>7 DEF FlagInv, SyncInv, Mounted, Unwritten, fsVars, MountInv
<1> QED  BY <1>8, <1>9, <1>10, <1>11

\* kthread_stop(): the thread is still there.
LEMMA LKthreadStop == ASSUME SuperInv, KthreadStop PROVE SuperInv'
  BY DEF KthreadStop, Goto, SuperInv, SuperType, Threads, Steps, ReachInv, MountInv,
         ThreadInv, FlagInv, SyncInv, Unwritten, Mounted, Quiet, fsVars

\* put_super flushes before the device is gone.
LEMMA LPutSuper == ASSUME SuperInv, PutSuper PROVE SuperInv'
<1> USE DEF SuperInv
<1>1. /\ admin.op = "umount" /\ admin.step = "stopped"
      /\ admin' = [admin EXCEPT !.op = "none", !.step = "none"]
      /\ Flushed /\ UNCHANGED <<inodes, open, bg, sync>>
  BY DEF PutSuper, Admin, Done
<1>2. PICK l \in FlushOutcomes(TRUE) : lc' = [l EXCEPT !.mounted = FALSE]
  BY DEF PutSuper
<1>3. lc \in Flags /\ ~lc.bg_thread
  BY <1>1 DEF SuperType, ThreadInv
<1>4. l \in Flags /\ \A x \in {"mounted", "rdonly", "read_only", "bg_running", "bg_thread",
                              "defered_dir_update", "auto_checkpoint"} : l[x] = lc[x]
  BY <1>3, FlagsFlushed
<1>5. /\ lc' \in Flags /\ ~lc'.mounted
      /\ \A x \in {"rdonly", "read_only", "bg_running", "bg_thread",
                   "defered_dir_update"} : lc'[x] = lc[x]
  BY <1>2, <1>4 DEF Flags
<1>6. Unwritten' = {} /\ ReachInv'
  BY <1>1, <1>5, FlushWritesAll
<1>7. admin' \in [op : {"none"}, step : {"none"}, count : Int]
  BY <1>1 DEF SuperType, Steps
<1>8. SuperType'
  BY <1>1, <1>5, <1>7 DEF SuperType, Flushed, Steps
<1>9. MountInv'
  BY <1>7 DEF MountInv
<1>10. ThreadInv'
  BY <1>1, <1>5, <1>7 DEF ThreadInv
<1>11. FlagInv' /\ SyncInv'
  BY <1>1, <1>3, <1>5, <1>6 DEF FlagInv, SyncInv, Mounted
<1> QED  BY <1>6, <1>8, <1>9, <1>10, <1>11

\* The mount has its root inode.
LEMMA LMountEnd == ASSUME SuperInv, MountEnd PROVE SuperInv'
  BY SuperAssumption DEF MountEnd, Admin, Done, fsVars, SuperInv, SuperType, Flags,
         Threads, Steps, ReachInv, MountInv, ThreadInv, FlagInv, SyncInv, Unwritten,
         Mounted, Quiet

\* What a remount for writing cleans up marks the super block as it writes.
LEMMA LRemountCleanup == ASSUME SuperInv, RemountCleanup PROVE SuperInv'
  BY SuperAssumption, ZenonT(40) DEF RemountCleanup, Admin, Goto, MayWrite, checkpt_invalidate,
         fsVars, SuperInv, SuperType, Flags,
         Threads, Steps, ReachInv, MountInv, ThreadInv, FlagInv, SyncInv, Unwritten,
         Mounted, Quiet

\* The thread has gone before the file system is read-only.
LEMMA LRemountStopped == ASSUME SuperInv, RemountStopped PROVE SuperInv'
  BY SuperAssumption DEF RemountStopped, Admin, Done, fsVars, SuperInv, SuperType, Flags,
         Threads, Steps, ReachInv, MountInv, ThreadInv, FlagInv, SyncInv, Unwritten,
         Mounted, Quiet

\* The thread is told to stop.
LEMMA LBgStop == ASSUME SuperInv, BgStop PROVE SuperInv'
  BY SuperAssumption DEF BgStop, Goto, fsVars, SuperInv, SuperType, Flags,
         Threads, Steps, ReachInv, MountInv, ThreadInv, FlagInv, SyncInv, Unwritten,
         Mounted, Quiet

\* The wait for the thread ends.
LEMMA LBgStopped == ASSUME SuperInv, BgStopped PROVE SuperInv'
<1> USE DEF SuperInv
<1>1. /\ admin.step = "wait" /\ admin' = [admin EXCEPT !.step = "stopped"]
      /\ bg' = NoThread /\ lc' = [lc EXCEPT !.bg_thread = FALSE]
      /\ UNCHANGED <<fsVars, sync>>
  BY DEF BgStopped, Goto
<1>2. lc \in Flags /\ admin.op \in {"ro", "umount"} /\ ~lc.bg_running
  BY <1>1 DEF SuperType, ThreadInv
<1>3. /\ lc' \in Flags /\ ~lc'.bg_thread
      /\ \A x \in {"mounted", "rdonly", "read_only", "dirty", "bg_running",
                   "defered_dir_update"} : lc'[x] = lc[x]
  BY <1>1, <1>2 DEF Flags
<1>4. /\ bg' \in Threads /\ bg'.state = "none" /\ bg'.next_dir = 0 /\ bg'.timer = 0
      /\ admin' \in [op : {admin.op}, step : {"stopped"}, count : Int]
  BY <1>1 DEF NoThread, Threads, SuperType
<1>5. SuperType' /\ ReachInv'
  BY <1>1, <1>2, <1>3, <1>4 DEF SuperType, ReachInv, Steps, fsVars
<1>6. MountInv' /\ ThreadInv'
  BY <1>1, <1>2, <1>3, <1>4, SuperAssumption DEF MountInv, ThreadInv, Mounted, Quiet, fsVars
<1>7. FlagInv' /\ SyncInv'
  BY <1>1, <1>2, <1>3, <1>4 DEF FlagInv, SyncInv, Mounted, Unwritten, fsVars
<1> QED  BY <1>5, <1>6, <1>7

\* An unmount begins: no call may enter any more.
LEMMA LUnmount == ASSUME SuperInv, Unmount PROVE SuperInv'
  BY SuperAssumption DEF Unmount, Begin, Usable, fsVars, SuperInv, SuperType, Flags,
         Threads, Steps, ReachInv, MountInv, ThreadInv, FlagInv, SyncInv, Unwritten,
         Mounted, Quiet

\* A remount begins.
LEMMA LRemount == ASSUME SuperInv, NEW ro \in BOOLEAN, Remount(ro) PROVE SuperInv'
  BY DEF Remount, Begin, fsVars, SuperInv, SuperType, Flags,
         Threads, Steps, ReachInv, MountInv, ThreadInv, FlagInv, SyncInv, Unwritten,
         Mounted, Quiet

-----------------------------------------------------------------------------
(* The theorems.                                                           *)

\* Before the first mount the invariant holds.
LEMMA SuperInvInit == SuperInit => SuperInv
  BY SuperAssumption DEF SuperInit, NoThread, NoSync, SuperInv, SuperType, Flags, Threads,
     Steps, ReachInv, MountInv, ThreadInv, FlagInv, SyncInv, Unwritten, Mounted, Quiet

\* Every step keeps it.
LEMMA SuperInvStep == SuperInv /\ [SuperNext]_superVars => SuperInv'
<1> SUFFICES ASSUME SuperInv, [SuperNext]_superVars PROVE SuperInv'
  OBVIOUS
<1>1. ASSUME NEW f \in Files, OnFile(f) PROVE SuperInv'
  BY <1>1, LFileWrite, LWritePage, LFileFlush, LDataSync, LOpenFile, LEvictInode DEF OnFile
<1>2. ASSUME NEW d \in Dirs, ChangeDir(d) PROVE SuperInv'
  BY <1>2, LChangeDir
<1>3. ASSUME NEW p \in Procs, SyncBegin(p) \/ SyncEnd(p) PROVE SuperInv'
  BY <1>3, LSyncBegin, LSyncEnd
<1>4. CASE BgThread
  BY <1>4, LBgTop, LBgWork, LBgSleep DEF BgThread
<1>5. CASE Tick
  BY <1>5, LTick
<1>6. CASE MountBegin \/ Unmount
  BY <1>6, LMountBegin, LUnmount
<1>7. CASE AdminStep
  BY <1>7, LMountInit, LMountEnd, LRemountCleanup, LRemountStart, LRemountStopped,
     LBgStop, LKthreadStop, LBgStopped, LPutSuper DEF AdminStep
<1>8. ASSUME NEW ro \in BOOLEAN, Remount(ro) PROVE SuperInv'
  BY <1>8, LRemount
<1>9. CASE UNCHANGED superVars
  BY <1>9 DEF superVars, fsVars, SuperInv, SuperType, ReachInv, MountInv, ThreadInv, FlagInv,
     SyncInv, Unwritten, Mounted, Quiet
<1> QED  BY <1>1, <1>2, <1>3, <1>4, <1>5, <1>6, <1>7, <1>8, <1>9 DEF SuperNext

\* So it always holds.
LEMMA SuperInvHolds == SuperSpec => []SuperInv
  BY SuperInvInit, SuperInvStep, PTL DEF SuperSpec

\* Whether anything has to be written back can be read off s_dirt, which
\* yaffs_do_sync_fs() looks at before it takes the lock, at any time but while
\* the file system is being mounted; and put_super leaves no thread and
\* nothing unwritten, whatever was remounted before.
THEOREM FlagIsRight == SuperSpec => []FlagTellsAll
<1>1. SuperInv => FlagTellsAll
  BY DEF SuperInv, ReachInv, ThreadInv, FlagInv, FlagTellsAll
<1> QED  BY <1>1, SuperInvHolds, PTL

\* When yaffs_sync_fs() returns, the flash has what was in memory only when it
\* was called, although it reads the flag without the lock and other syncs,
\* writers and the thread come in between.
THEOREM SyncsWriteAll == SuperSpec => []SyncWritesAll
<1>1. SuperInv => SyncWritesAll
  BY DEF SuperInv, SyncInv, SyncWritesAll
<1> QED  BY <1>1, SuperInvHolds, PTL
===============================================================================
