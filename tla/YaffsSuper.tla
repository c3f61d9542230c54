------------------------------ MODULE YaffsSuper ------------------------------
(***************************************************************************)
(* linux/yaffs_vfs_multi.c: the super block.  What is dirty, who writes it  *)
(* back and when: sync, close, the background thread, remounting and        *)
(* unmounting.                                                             *)
(*                                                                         *)
(* A region under the gross lock is one step.  Outside of it are what a    *)
(* sync reads before it takes the lock, the flags by which the thread  *)
(* is told to stop, its timer, and the order in which a remount changes     *)
(* them.  Every program and erasure of the flash goes through               *)
(* yaffs2_checkpt_invalidate(), which marks the super block dirty.         *)
(*                                                                         *)
(* External rules of the kernel: mounting, remounting and unmounting         *)
(* exclude each other and every sync, a remount for reading waits for        *)
(* writers, unmounting syncs, evicts the inodes and calls put_super.        *)
(***************************************************************************)
EXTENDS Integers, FiniteSets

CONSTANTS
    Files,     \* regular files
    Dirs,      \* directories
    Procs,     \* processes that sync
    HZ,        \* ticks of a second
    AutoCheckpoint, \* yaffs_auto_checkpoint, the module parameter, at a mount
    MaxCalls   \* bound: how often the file system is mounted or remounted

ASSUME SuperAssumption ==
    /\ HZ \in Nat \ {0}
    /\ AutoCheckpoint \in Nat
    /\ MaxCalls \in Nat
    /\ Files \cap Dirs = {}

VARIABLES
    lc,       \* flags of the device and of its struct yaffs_linux_context
    cached,   \* files with dirty buffers in the short-operation cache
    unsaved,  \* objects with obj->dirty set: the header is older
    dirs,     \* dev->dirty_dirs
    inodes,   \* files that have an inode
    open,     \* files that are open for writing
    stray,    \* history: files that lost their inode while unsaved
    bg,       \* the background thread, its timers, ticks from now
    sync,     \* the sync of each process
    admin     \* the mount, remount or unmount in progress

fsVars == <<cached, unsaved, dirs, inodes, open, stray>>
superVars == <<lc, fsVars, bg, sync, admin>>

NoThread == [state |-> "none", stop |-> FALSE, next_dir |-> 0, next_gc |-> 0, timer |-> 0]
NoSync == [step |-> "none", request |-> FALSE, one_shot |-> FALSE, dirty |-> FALSE,
           due |-> {}]

Mounted == lc.mounted
\* A call may enter: the file system is mounted, and nobody unmounts it.
Usable == Mounted /\ admin.op \notin {"mount", "umount"}
Writable == Usable /\ ~lc.rdonly /\ admin.op # "ro"

\* What is only in memory, but for the headers nobody can reach.
Unwritten == cached \cup (unsaved \ stray) \cup dirs

-----------------------------------------------------------------------------
(* Effects on the flags.                                                   *)

\* yaffs2_checkpt_invalidate(), before any change of the flash.
checkpt_invalidate(l) == [l EXCEPT !.is_checkpointed = FALSE, !.dirty = TRUE]

\* yaffs2_checkpt_required(); a save may also find no room, or fail.
checkpt_required(l) == ~l.read_only

\* The outcomes of yaffs_checkpoint_save().
checkpoint_save(l) ==
    IF l.is_checkpointed THEN {l}
    ELSE {[checkpt_invalidate(l) EXCEPT !.is_checkpointed = c] :
             c \in IF checkpt_required(l) THEN BOOLEAN ELSE {FALSE}}

\* A call that may write to the flash, or not.
MayWrite(l) == {l, checkpt_invalidate(l)}
WriteIf(l, cond) == IF cond THEN checkpt_invalidate(l) ELSE l

\* The syncs go on waiting for what is still unwritten.
Settle == sync' = [p \in Procs |-> [sync[p] EXCEPT !.due = @ \cap Unwritten']]

-----------------------------------------------------------------------------
(* Files and directories.                                                  *)

\* yaffs_wr_file(): the data stays in a buffer, which may push out others, or
\* goes to the flash at once.
WrFile(f) ==
    /\ \E pushed \in SUBSET (cached \cup {f}) :
          /\ cached' = (cached \cup {f}) \ pushed
          /\ lc' = [WriteIf(lc, pushed # {}) EXCEPT !.dirty = TRUE]
    /\ unsaved' = unsaved \cup {f}
    /\ UNCHANGED <<dirs, inodes, open, bg, admin>>

\* yaffs_file_write(), from write_end.
FileWrite(f) ==
    /\ Writable /\ f \in open
    /\ WrFile(f)
    /\ stray' = stray \ {f}
    /\ Settle

\* yaffs_writepage(): a page that was mapped and changed, at any time up to the
\* eviction of the inode.
WritePage(f) ==
    /\ Writable /\ f \in inodes
    /\ WrFile(f)
    /\ UNCHANGED stray
    /\ Settle

\* yaffs_flush_file(): buffers and header, if the object is dirty.
flush_file(f) ==
    LET w == {f} \cap unsaved
    IN  /\ cached' = cached \ w
        /\ unsaved' = unsaved \ w
        /\ stray' = stray \ w
        /\ lc' = WriteIf(lc, w # {})

\* yaffs_file_flush(), for every close, and yaffs_sync_object() for fsync.
FileFlush(f) ==
    /\ Writable /\ f \in open
    /\ open' \in {open, open \ {f}}
    /\ flush_file(f)
    /\ UNCHANGED <<dirs, inodes, bg, admin>>
    /\ Settle

\* yaffs_sync_object() for fdatasync: the header stays as it is.
DataSync(f) ==
    /\ Writable /\ f \in open \cap unsaved
    /\ cached' = cached \ {f}
    /\ lc' = WriteIf(lc, f \in cached)
    /\ UNCHANGED <<unsaved, dirs, inodes, open, stray, bg, admin>>
    /\ Settle

\* A lookup and an open bring the inode in.
OpenFile(f) ==
    /\ Writable /\ f \notin open
    /\ inodes' = inodes \cup {f}
    /\ open' = open \cup {f}
    /\ UNCHANGED <<lc, cached, unsaved, dirs, stray, bg, sync, admin>>

\* yaffs_evict_inode() writes nothing: a file dirtied through a mapping since it
\* was closed keeps its buffers, and its old header.
EvictInode(f) ==
    /\ Usable /\ f \in inodes \ open
    /\ inodes' = inodes \ {f}
    /\ stray' = IF f \in unsaved THEN stray \cup {f} ELSE stray
    /\ UNCHANGED <<lc, cached, unsaved, dirs, open, bg, admin>>
    /\ Settle

\* Something is made in, renamed in or removed from the directory d: a header
\* is written, and yaffs_update_parent() writes that of d or puts it off.
ChangeDir(d) ==
    /\ Writable
    /\ lc' = checkpt_invalidate(lc)
    /\ IF lc.defered_dir_update
       THEN unsaved' = unsaved \cup {d} /\ dirs' = dirs \cup {d}
       ELSE unsaved' = unsaved \ {d} /\ UNCHANGED dirs
    /\ UNCHANGED <<cached, inodes, open, stray, bg, admin>>
    /\ Settle

-----------------------------------------------------------------------------
(* Sync.                                                                   *)

\* What yaffs_flush_super() saves by itself: dirty inodes and directories.
Reached == unsaved \cap (inodes \cup dirs)

slip_Flushed ==
    /\ cached' = cached \ inodes
    /\ dirs' = {}
    /\ unsaved' = unsaved \ Reached
    /\ stray' = stray \ Reached

\* yaffs_flush_super(): inodes, directories, and the buffers that are left.
Flushed ==
    /\ cached' = {}
    /\ dirs' = {}
    /\ unsaved' = unsaved \ Reached
    /\ stray' = stray \ Reached

\* The flags after it, with the checkpoint, if there is to be one.
FlushOutcomes(do_checkpoint) ==
    LET written == WriteIf(lc, Reached \cup cached # {})
    IN  IF do_checkpoint THEN checkpoint_save(written) ELSE {written}

\* What a sync asks for: sync_fs a checkpoint from 1 on, write_super from 2 on,
\* unless collection is urgent, as it may always be; bit 2 asks for one, once.
Requests == {FALSE, lc.auto_checkpoint >= 1}
OneShot == lc.auto_checkpoint >= 4

\* What it reads before it takes the lock.
Look(p, request) ==
    sync' = [sync EXCEPT ![p] =
        [step |-> "lock", request |-> request \/ OneShot, one_shot |-> OneShot,
         dirty |-> lc.dirty, due |-> Unwritten]]

slip_SyncBegin(p) ==
    /\ Usable /\ admin.op = "none" /\ sync[p].step = "none"
    /\ \E request \in Requests : Look(p, request)
    /\ lc' = [lc EXCEPT !.dirty = FALSE]
    /\ UNCHANGED <<fsVars, bg, admin>>

\* yaffs_sync_fs() and yaffs_write_super() up to the lock.
SyncBegin(p) ==
    /\ Usable /\ admin.op = "none" /\ sync[p].step = "none"
    /\ \E request \in Requests : Look(p, request)
    /\ UNCHANGED <<lc, fsVars, bg, admin>>

\* The rest of yaffs_do_sync_fs(): bit 2 is cleared by whoever saw it, though
\* another may have done so.  The flag is cleared whatever the save did.
SyncEnd(p) ==
    LET do_checkpoint == sync[p].request /\ ~lc.is_checkpointed
    IN  /\ sync[p].step = "lock"
        /\ IF sync[p].dirty \/ do_checkpoint
           THEN \E l \in FlushOutcomes(do_checkpoint) :
                   /\ Flushed
                   /\ lc' = [l EXCEPT !.dirty = FALSE,
                                !.auto_checkpoint =
                                    IF sync[p].one_shot /\ OneShot THEN @ - 4 ELSE @]
           ELSE UNCHANGED <<lc, cached, unsaved, dirs, stray>>
        /\ sync' = [q \in Procs |->
               [IF q = p THEN NoSync ELSE sync[q]
                   EXCEPT !.due = sync[q].due \cap Unwritten']]
        /\ UNCHANGED <<inodes, open, bg, admin>>

-----------------------------------------------------------------------------
(* The background thread, yaffs_bg_thread_fn().                            *)

\* The top of the loop.
BgTop ==
    /\ bg.state = "top"
    /\ bg' = [bg EXCEPT !.state = IF lc.bg_running /\ ~bg.stop THEN "lock" ELSE "gone"]
    /\ UNCHANGED <<lc, fsVars, sync, admin>>

\* yaffs_bg_gc_urgency() as a period: HZ/20 and HZ/10 are one tick here.
GcPeriods == IF lc.bg_running THEN {1, HZ * 2} ELSE {HZ * 2}

\* When the timer is set for: the sooner of the two, and a second at least once
\* both have passed.
Expires(next_dir, next_gc) ==
    LET first == IF next_gc < next_dir THEN next_gc ELSE next_dir
    IN  IF first < 0 THEN HZ ELSE first

\* The region under the lock: directories once a second, and collection unless
\* there is a checkpoint, which a write may then make untrue.
BgWork ==
    LET dir_due == bg.next_dir < 0
        gc_due == bg.next_gc < 0
        written == WriteIf(lc, dir_due /\ dirs # {})
        next_dir == IF dir_due THEN HZ ELSE bg.next_dir
    IN  /\ bg.state = "lock"
        /\ IF dir_due
           THEN dirs' = {} /\ unsaved' = unsaved \ dirs
           ELSE UNCHANGED <<dirs, unsaved>>
        /\ lc' \in IF gc_due /\ ~written.is_checkpointed
                   THEN MayWrite(written) ELSE {written}
        /\ \E next_gc \in IF ~gc_due THEN {bg.next_gc}
                          ELSE IF written.is_checkpointed THEN {next_dir}
                          ELSE GcPeriods :
              bg' = [bg EXCEPT !.state = "arm", !.next_dir = next_dir,
                        !.next_gc = next_gc, !.timer = Expires(next_dir, next_gc) + 1]
        /\ UNCHANGED <<cached, inodes, open, stray, admin>>
        /\ Settle

slip_BgSleep ==
    /\ bg.state = "arm"
    /\ bg' = [bg EXCEPT !.state = "sleep", !.timer = 0]
    /\ UNCHANGED <<lc, fsVars, sync, admin>>

\* set_current_state(), add_timer() and schedule(): a wake-up that came before
\* is lost.
BgSleep ==
    /\ bg.state = "arm"
    /\ bg' = [bg EXCEPT !.state = "sleep"]
    /\ UNCHANGED <<lc, fsVars, sync, admin>>

\* Time passes; yaffs_background_waker() wakes the thread.
Tick ==
    LET down(n) == IF n < 0 THEN n ELSE n - 1
    IN  /\ bg.state = "sleep"
        /\ bg' = [bg EXCEPT !.next_dir = down(@), !.next_gc = down(@),
                     !.timer = IF @ = 0 THEN 0 ELSE @ - 1,
                     !.state = IF bg.timer = 1 THEN "top" ELSE "sleep"]
        /\ UNCHANGED <<lc, fsVars, sync, admin>>

\* yaffs_bg_start(); the kernel may refuse the thread.
BgStart(l) ==
    IF l.read_only THEN {l}
    ELSE {[l EXCEPT !.bg_running = ok, !.bg_thread = ok] : ok \in BOOLEAN}

Started == IF lc'.bg_running /\ ~lc.bg_running THEN [NoThread EXCEPT !.state = "top"] ELSE bg

-----------------------------------------------------------------------------
(* Mount, remount, unmount.                                                *)

Quiet == \A p \in Procs : sync[p].step = "none"

\* The steps of mounting and so on, one after the other.
Admin(op, step) == admin.op = op /\ admin.step = step
Goto(step) == admin' = [admin EXCEPT !.step = step]
Done == admin' = [admin EXCEPT !.op = "none", !.step = "none"]
Begin(op) ==
    /\ admin.op = "none" /\ Quiet
    /\ admin.count < MaxCalls
    /\ admin' = [op |-> op, step |-> "begin", count |-> admin.count + 1]

MountBegin ==
    /\ ~Mounted
    /\ Begin("mount")
    /\ \E ro \in BOOLEAN :
          lc' = [mounted |-> FALSE, rdonly |-> ro, read_only |-> ro, dirty |-> FALSE,
                 is_checkpointed |-> FALSE, bg_running |-> FALSE, bg_thread |-> FALSE,
                 defered_dir_update |-> TRUE, auto_checkpoint |-> AutoCheckpoint]
    /\ unsaved' = {} /\ stray' = {}
    /\ UNCHANGED <<cached, dirs, inodes, open, bg, sync>>

\* The region of yaffs_internal_read_super(): a scan may write, a checkpoint is
\* restored without; then the thread is started.
MountInit ==
    /\ Admin("mount", "begin")
    /\ \E c \in {[lc EXCEPT !.is_checkpointed = TRUE]} \cup MayWrite(lc) :
       \E l \in BgStart(c) :
          lc' = [l EXCEPT !.mounted = TRUE, !.defered_dir_update = l.bg_thread]
    /\ bg' = Started
    /\ Goto("root")
    /\ UNCHANGED <<fsVars, sync>>

\* After the lock, with the root directory there.
MountEnd ==
    /\ Admin("mount", "root")
    /\ lc' = IF lc.is_checkpointed THEN lc ELSE [lc EXCEPT !.dirty = TRUE]
    /\ Done
    /\ UNCHANGED <<fsVars, bg, sync>>

\* yaffs_remount_fs(): the device is read-only at once.
Remount(ro) ==
    /\ Mounted /\ ro # lc.rdonly
    /\ ro => open = {}
    /\ Begin(IF ro THEN "ro" ELSE "rw")
    /\ lc' = [lc EXCEPT !.read_only = ro]
    /\ UNCHANGED <<fsVars, bg, sync>>

\* yaffs_guts_cleanup() under the lock, and then the thread.
RemountCleanup ==
    /\ Admin("rw", "begin")
    /\ lc' \in MayWrite(lc)
    /\ Goto("start")
    /\ UNCHANGED <<fsVars, bg, sync>>

RemountStart ==
    /\ Admin("rw", "start")
    /\ \E l \in BgStart(lc) : lc' = [l EXCEPT !.rdonly = FALSE]
    /\ bg' = Started
    /\ Done
    /\ UNCHANGED <<fsVars, sync>>

\* yaffs_bg_stop(), for a remount and for an unmount: the flag, then
\* kthread_stop(), which wakes the thread and waits for its end.
BgStop ==
    /\ admin.op \in {"ro", "umount"} /\ admin.step = "begin"
    /\ lc' = [lc EXCEPT !.bg_running = FALSE]
    /\ Goto(IF lc.bg_thread THEN "kthread_stop" ELSE "stopped")
    /\ UNCHANGED <<fsVars, bg, sync>>

KthreadStop ==
    /\ admin.step = "kthread_stop"
    /\ bg' = [bg EXCEPT !.stop = TRUE, !.state = IF @ = "sleep" THEN "top" ELSE @]
    /\ Goto("wait")
    /\ UNCHANGED <<lc, fsVars, sync>>

BgStopped ==
    /\ admin.step = "wait"
    /\ bg.state = "gone"
    /\ bg' = NoThread
    /\ lc' = [lc EXCEPT !.bg_thread = FALSE]
    /\ Goto("stopped")
    /\ UNCHANGED <<fsVars, sync>>

RemountStopped ==
    /\ Admin("ro", "stopped")
    /\ lc' = [lc EXCEPT !.rdonly = TRUE]
    /\ Done
    /\ UNCHANGED <<fsVars, bg, sync>>

\* The kernel has closed all files, synced and evicted every inode.
Unmount ==
    /\ Usable /\ open = {} /\ inodes = {}
    /\ Begin("umount")
    /\ UNCHANGED <<lc, fsVars, bg, sync>>

\* The region of yaffs_put_super(), with yaffs_deinitialise(), which frees all
\* objects: a header that was not written is lost.
PutSuper ==
    /\ Admin("umount", "stopped")
    /\ \E l \in FlushOutcomes(TRUE) : lc' = [l EXCEPT !.mounted = FALSE]
    /\ Flushed
    /\ Done
    /\ UNCHANGED <<inodes, open, bg, sync>>

-----------------------------------------------------------------------------
SuperInit ==
    /\ lc = [mounted |-> FALSE, rdonly |-> FALSE, read_only |-> FALSE, dirty |-> FALSE,
             is_checkpointed |-> FALSE, bg_running |-> FALSE, bg_thread |-> FALSE,
             defered_dir_update |-> FALSE, auto_checkpoint |-> 0]
    /\ cached = {} /\ unsaved = {} /\ dirs = {}
    /\ inodes = {} /\ open = {} /\ stray = {}
    /\ bg = NoThread
    /\ sync = [p \in Procs |-> NoSync]
    /\ admin = [op |-> "none", step |-> "none", count |-> 0]

OnFile(f) ==
    \/ FileWrite(f) \/ WritePage(f) \/ FileFlush(f) \/ DataSync(f)
    \/ OpenFile(f) \/ EvictInode(f)

BgThread == BgTop \/ BgWork \/ BgSleep

\* The steps of mounting and so on once it has begun.
AdminStep ==
    \/ MountInit \/ MountEnd
    \/ RemountCleanup \/ RemountStart \/ RemountStopped
    \/ BgStop \/ KthreadStop \/ BgStopped
    \/ PutSuper

SuperNext ==
    \/ \E f \in Files : OnFile(f)
    \/ \E d \in Dirs : ChangeDir(d)
    \/ \E p \in Procs : SyncBegin(p) \/ SyncEnd(p)
    \/ BgThread
    \/ Tick
    \/ MountBegin \/ Unmount \/ AdminStep
    \/ \E ro \in BOOLEAN : Remount(ro)

\* The thread and the callers are scheduled, and time goes on.
SuperSpec ==
    /\ SuperInit /\ [][SuperNext]_superVars
    /\ WF_superVars(BgThread) /\ WF_superVars(Tick) /\ WF_superVars(AdminStep)
    /\ \A p \in Procs : WF_superVars(SyncEnd(p))
-----------------------------------------------------------------------------
(* Properties.                                                             *)

\* Whether anything has to be written can be read off the flag: sync looks at it
\* without the lock and does nothing when it is clear.  And "the thread should be
\* stopped before yaffs is unmounted", with everything written by then.
FlagTellsAll ==
    /\ Mounted /\ ~lc.dirty /\ admin.op # "mount" => Unwritten = {}
    /\ ~Mounted => Unwritten = {} /\ bg.state = "none"
    /\ cached \subseteq unsaved /\ dirs \subseteq unsaved
    /\ stray \subseteq unsaved
    /\ lc.bg_thread <=> bg.state # "none"
    /\ bg.timer \in 0 .. HZ + 1

\* What was only in memory when a sync began is on the flash when it returns,
\* whatever writes, other syncs and the thread do between its look at the flag
\* and the lock.
SyncWritesAll == \A p \in Procs : sync[p].step = "none" => sync[p].due = {}

\* A directory whose header was put off is written while the thread runs, and
\* mounting, remounting and unmounting end: the thread that is told to stop
\* while it goes to sleep wakes by its timer.
WorkGetsDone ==
    /\ \A d \in Dirs : d \in dirs /\ lc.bg_thread ~> d \notin dirs \/ ~lc.bg_running
    /\ admin.op # "none" ~> admin.op = "none"
=============================================================================
