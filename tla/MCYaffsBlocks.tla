---------------------------- MODULE MCYaffsBlocks ----------------------------
(***************************************************************************)
(* Instances of YaffsBlocks for TLC: the smallest partition                *)
(* yaffs_guts_ll_init() accepts with two reserved blocks.                  *)
(***************************************************************************)
EXTENDS YaffsBlocks

CONSTANT MaxCalls        \* bound: calls of a behaviour of CallsSpec

VARIABLE calls           \* calls begun

MCInit == Init /\ calls = 0

-----------------------------------------------------------------------------
\* A call begins only while the blocks allocated and the failures add up to
\* less than MaxSeq.  That data may replace a chunk and not use the reserve, or
\* use it and replace none, is tried where it makes a difference: near the
\* limit of check_alloc_available().
BoundedNext ==
    /\ Next
    /\ op.pc = "idle" /\ op'.pc # "idle" =>
        /\ dev.seq_number + faults < MaxSeq
        /\ op'.reserve # op'.replace => ~check_alloc_available(dev, 2)
    /\ UNCHANGED calls

BoundedSpec == MCInit /\ [][BoundedNext]_<<vars, calls>>

-----------------------------------------------------------------------------
\* A few writes and collections.  The second may use up all blocks by itself:
\* neither the failures nor the blocks allocated are bounded within it.  The
\* others meet no new failure.
Begin == \/ \E replace, reserve \in BOOLEAN : StartWrite(replace, reserve, FALSE)
         \/ BgGc

CallStep ==
    /\ CheckGc \/ GcBlock \/ WriteNewChunk
    /\ calls # 2 => faults' = faults
    /\ UNCHANGED calls

AllReturned == calls = MaxCalls /\ op.pc = "idle" /\ UNCHANGED <<vars, calls>>

CallsNext ==
    \/ calls < MaxCalls /\ Begin /\ calls' = calls + 1
    \/ CallStep
    \/ AllReturned

\* The thread that holds the lock is scheduled.  A call in progress can always
\* take a step, and only it can (the check for deadlock shows the first), so
\* this is WF(CallStep), and far quicker to evaluate.
CallsSpec ==
    /\ MCInit
    /\ [][CallsNext]_<<vars, calls>>
    /\ \/ []<>(op.pc = "idle")
       \/ []<><<TRUE>>_<<vars, calls>>
=============================================================================
