------------------------------ MODULE FramePool ------------------------------
(***************************************************************************)
(* FramePool: the free list of an arena, kept as an array whose first      *)
(* free_count cells are the free frames, with the debug flags in_use.  A   *)
(* frame that is lent is in a PacketBuf (handles) or, after into_parts or  *)
(* alloc_n, with the kernel rings of the device (kernel).  The pool is     *)
(* not shared between threads, so each call is one step.                   *)
(***************************************************************************)
EXTENDS Naturals, Sequences, FiniteSets

CONSTANT NumFrames

\* What the constants have to satisfy.
PoolAssumption == NumFrames \in Nat \ {0}

VARIABLES free_list, free_count, in_use, handles, kernel,
          panicked       \* mark_used or a slice bound failed

vars == <<free_list, free_count, in_use, handles, kernel, panicked>>

Indices == 0..(NumFrames - 1)
Least(a, b) == IF a < b THEN a ELSE b
Elements(s) == {s[i] : i \in DOMAIN s}

\* build: frame 0 is on top
Init ==
    /\ free_list = [i \in Indices |-> NumFrames - 1 - i]
    /\ free_count = NumFrames
    /\ in_use = [f \in Indices |-> FALSE]
    /\ handles = {} /\ kernel = {} /\ panicked = FALSE

\* mark_used on each frame of S; a frame that already has the flag panics
MarkUsed(S, used) ==
    /\ in_use' = [f \in Indices |-> IF f \in S THEN used ELSE in_use[f]]
    /\ panicked' = (panicked \/ \E f \in S : in_use[f] = used)

\* Faulty variant of the definition that follows it, for mutation checks.
TopOffByOne(n) == {free_list[i] : i \in (free_count - n)..(Least(free_count, NumFrames - 1))}

\* alloc_n reads the top n cells and lowers the count
Top(n) == {free_list[i] : i \in (free_count - n)..(free_count - 1)}
AllocN(n) ==
    /\ free_count' = free_count - n
    /\ MarkUsed(Top(n), TRUE)
    /\ UNCHANGED free_list

\* free and free_n: the cells above the count take the indices
FreeN(indices) ==
    /\ MarkUsed(Elements(indices), FALSE)
    /\ free_list' = [i \in Indices |-> IF i \in free_count..(free_count + Len(indices) - 1)
                                      THEN indices[i - free_count + 1] ELSE free_list[i]]
    /\ free_count' = free_count + Len(indices)

-----------------------------------------------------------------------------
\* alloc and alloc_batch: up to max frames become PacketBufs
AllocBatch(max) ==
    LET n == Least(max, free_count)
    IN  /\ AllocN(n)
        /\ handles' = handles \cup Top(n)
        /\ UNCHANGED kernel

\* XdpDevice::refill takes frames for the fill ring
TakeForKernel(max) ==
    LET n == Least(max, free_count)
    IN  /\ AllocN(n)
        /\ kernel' = kernel \cup Top(n)
        /\ UNCHANGED handles

\* PacketBuf::into_parts: the handle is gone, the frame stays in use
IntoParts(f) ==
    /\ f \in handles
    /\ handles' = handles \ {f} /\ kernel' = kernel \cup {f}
    /\ UNCHANGED <<free_list, free_count, in_use, panicked>>

\* packet_buf of a received frame
PacketBuf(f) ==
    /\ f \in kernel
    /\ kernel' = kernel \ {f} /\ handles' = handles \cup {f}
    /\ UNCHANGED <<free_list, free_count, in_use, panicked>>

\* PacketBuf::drop
Drop(f) ==
    /\ f \in handles
    /\ FreeN(<<f>>)
    /\ handles' = handles \ {f}
    /\ UNCHANGED kernel

\* drain_cq returns a batch of completed frames; refill what did not fit
Return(indices) ==
    /\ FreeN(indices)
    /\ kernel' = kernel \ Elements(indices)
    /\ UNCHANGED handles

Batches == {s \in UNION {[1..k -> kernel] : k \in 1..Cardinality(kernel)} :
              Cardinality(Elements(s)) = Len(s)}

Next ==
    \/ \E max \in 1..NumFrames : AllocBatch(max) \/ TakeForKernel(max)
    \/ \E f \in Indices : IntoParts(f) \/ PacketBuf(f) \/ Drop(f)
    \/ \E indices \in Batches : Return(indices)

Spec == Init /\ [][Next]_vars

-----------------------------------------------------------------------------
(* Properties *)

FreeFrames == {free_list[i] : i \in 0..(free_count - 1)}

TypeOK ==
    /\ free_list \in [Indices -> Indices] /\ free_count \in 0..NumFrames
    /\ in_use \in [Indices -> BOOLEAN] /\ panicked \in BOOLEAN
    /\ handles \subseteq Indices /\ kernel \subseteq Indices

\* After any sequence of allocations, drops and kernel transfers the first
\* free_count cells hold distinct frames, exactly those that nobody holds:
\* none is lost and none is handed out twice, and the debug flags of
\* mark_used agree.
FreeListExact ==
    /\ Cardinality(FreeFrames) = free_count
    /\ FreeFrames = Indices \ (handles \cup kernel)
    /\ handles \cap kernel = {}
    /\ in_use = [f \in Indices |-> f \notin FreeFrames]

\* The assertions "double-allocated" and "double-freed" never fail.
NoPanic == ~panicked
=============================================================================
