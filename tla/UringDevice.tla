----------------------------- MODULE UringDevice -----------------------------
(***************************************************************************)
(* UringTunDevice: reads and writes of a TUN descriptor through io_uring.  *)
(* A request keeps its PacketBuf in the pending table, under the id that   *)
(* the completion carries, until it is reaped.  Requests are pushed to the *)
(* submission queue, published and handed over by submit (io_uring_enter,  *)
(* which may take only some of them), executed by the kernel in any order  *)
(* and reaped in completion order.  The kernel is external.                *)
(***************************************************************************)
EXTENDS Naturals, Sequences, FiniteSets

CONSTANTS Ids,        \* request ids, one per submission queue entry
          Frames,     \* frames of the pool
          NoFrame,
          RxDepth     \* UringConfig::rx_depth

\* validate, and from_parts: "RX depth must leave frames for TX"
UringAssumption ==
    /\ IsFiniteSet(Ids) /\ IsFiniteSet(Frames) /\ NoFrame \notin Frames
    /\ RxDepth \in Nat /\ RxDepth < Cardinality(Ids) /\ RxDepth < Cardinality(Frames)

VARIABLES
    pool, app, ready,      \* free frames; the application's handles; received packets
    pending, isRead, free, \* pending table (frame of each id), its read flags, free ids
    rx_pending, tx_pending,
    error,                 \* a deferred error is held
    lost,                  \* a deferred error was overwritten before it was returned
    panicked,
    call, at,              \* the call in progress and its next step
    sqLocal, sq,           \* requests pushed; requests published
    kernel, cq,            \* requests the kernel took; completions
    open

tables == <<pending, isRead, free, rx_pending, tx_pending>>
vars == <<pool, app, ready, tables, error, lost, panicked, call, at, sqLocal, sq, kernel, cq, open>>

Requests == [id : Ids, frame : Frames, read : BOOLEAN]
Elements(q) == {q[k] : k \in DOMAIN q}

Init ==
    /\ pool = Frames /\ app = {} /\ ready = {}
    /\ pending = [i \in Ids |-> NoFrame] /\ isRead = [i \in Ids |-> FALSE] /\ free = Ids
    /\ rx_pending = 0 /\ tx_pending = 0
    /\ error = FALSE /\ lost = FALSE /\ panicked = FALSE
    /\ call = "none" /\ at = "start"
    /\ sqLocal = <<>> /\ sq = <<>> /\ kernel = {} /\ cq = <<>> /\ open = TRUE

-----------------------------------------------------------------------------
\* Ring::free_slots; only submit moves the head of an ordinary ring
FreeSlots == Cardinality(Ids) - (Len(sqLocal) + Len(sq))

Done == {cq[k].id : k \in DOMAIN cq}
DoneWith(results) == {cq[k].id : k \in {j \in DOMAIN cq : cq[j].result \in results}}
FramesOf(ids) == {pending[i] : i \in ids} \ {NoFrame}

DoneReads == {i \in Done : isRead[i]}

\* The reads that reap turns into received packets
Received == DoneWith({"ok"}) \cap DoneReads

\* reap: every completion frees its id; a good read becomes a packet, any
\* other buffer drops back to the pool; the first failure is kept.
ReapTables ==
    /\ panicked' = (panicked \/ Cardinality(Done) # Len(cq) \/ (\E i \in Done : pending[i] = NoFrame)
                             \/ rx_pending < Cardinality(DoneReads)
                             \/ tx_pending < Cardinality(Done \ DoneReads))
    /\ pool' = pool \cup FramesOf(Done \ Received)
    /\ pending' = [i \in Ids |-> IF i \in Done THEN NoFrame ELSE pending[i]]
    /\ free' = free \cup Done
    /\ rx_pending' = rx_pending - Cardinality(DoneReads)
    /\ tx_pending' = tx_pending - Cardinality(Done \ DoneReads)
    /\ cq' = <<>>
    /\ UNCHANGED isRead

Reap == ReapTables /\ ready' = ready \cup FramesOf(Received)

Failed == error \/ DoneWith({"error"}) # {}

-----------------------------------------------------------------------------
(* The calls *)

\* What a step does with an error: send keeps it for the next call, the other
\* calls return it.
Fail ==
    /\ call' = "none" /\ at' = "start"
    /\ error' = (call = "send")
    /\ lost' = (lost \/ (call = "send" /\ error /\ at = "submit"))

\* progress, recv and send start with a reap and return a held or new error
\* at once; send also returns when its batch has an empty frame.
Start(c) ==
    /\ call = "none" /\ open
    /\ Reap
    /\ \/ /\ Failed /\ Fail
       \/ /\ ~Failed /\ call' = c /\ UNCHANGED <<error, lost>>
          /\ at' = IF c = "progress" THEN "submit" ELSE "queue"
       \/ /\ ~Failed /\ c = "send" /\ UNCHANGED <<call, at, error, lost>>
    /\ UNCHANGED <<app, sqLocal, sq, kernel, open>>

\* queue: the buffer enters the table before the request enters the ring
Queue(i, f, read) ==
    /\ panicked' = (panicked \/ FreeSlots = 0)
    /\ free' = free \ {i}
    /\ pending' = [pending EXCEPT ![i] = f]
    /\ isRead' = [isRead EXCEPT ![i] = read]
    /\ sqLocal' = Append(sqLocal, [id |-> i, frame |-> f, read |-> read])
    /\ rx_pending' = rx_pending + (IF read THEN 1 ELSE 0)
    /\ tx_pending' = tx_pending + (IF read THEN 0 ELSE 1)
    /\ UNCHANGED <<ready, error, lost, call, at, sq, kernel, cq, open>>

\* Faulty variant of the definition that follows it, for mutation checks.
WantsReadIgnoresReady ==
    /\ rx_pending < RxDepth
    /\ free # {} /\ FreeSlots > 0 /\ pool # {}

\* recv keeps rx_depth reads outstanding, counting packets not yet taken
WantsRead ==
    /\ rx_pending + Cardinality(ready) < RxDepth
    /\ free # {} /\ FreeSlots > 0 /\ pool # {}

QueueRead ==
    /\ call = "recv" /\ at = "queue" /\ WantsRead
    /\ \E i \in free, f \in pool : Queue(i, f, TRUE) /\ pool' = pool \ {f}
    /\ UNCHANGED app

QueueWrite ==
    /\ call = "send" /\ at = "queue" /\ free # {} /\ FreeSlots > 0
    /\ \E i \in free, f \in app : Queue(i, f, FALSE) /\ app' = app \ {f}
    /\ UNCHANGED pool

QueueDone ==
    /\ at = "queue" /\ (call = "recv" => ~WantsRead)
    /\ at' = "reap"
    /\ UNCHANGED <<pool, app, ready, tables, error, lost, panicked, call, sqLocal, sq, kernel, cq, open>>

\* Faulty variant of the definition that follows it, for mutation checks.
ReapQueuedIgnoresError ==
    /\ at = "reap"
    /\ Reap
    /\ at' = "submit" /\ error' = Failed /\ UNCHANGED <<call, lost>>
    /\ UNCHANGED <<app, sqLocal, sq, kernel, open>>

\* The reap at the start of progress, when recv or send called it
ReapQueued ==
    /\ at = "reap"
    /\ Reap
    /\ IF Failed THEN Fail ELSE at' = "submit" /\ UNCHANGED <<call, error, lost>>
    /\ UNCHANGED <<app, sqLocal, sq, kernel, open>>

\* Faulty variant of the definition that follows it, for mutation checks.
SubmitDropsRest(k) ==
    /\ at = "submit"
    /\ sqLocal' = <<>> /\ sq' = <<>>
    /\ kernel' = kernel \cup Elements(SubSeq(sq \o sqLocal, 1, k))
    /\ at' = "finish"
    /\ UNCHANGED <<pool, app, ready, tables, error, lost, panicked, call, cq, open>>

\* Ring::submit publishes everything; the kernel takes a prefix.  EINTR and
\* EAGAIN take nothing and are not errors.
SubmitTakes(k) ==
    /\ at = "submit"
    /\ sqLocal' = <<>>
    /\ sq' = SubSeq(sq \o sqLocal, k + 1, Len(sq \o sqLocal))
    /\ kernel' = kernel \cup Elements(SubSeq(sq \o sqLocal, 1, k))
    /\ at' = "finish"
    /\ UNCHANGED <<pool, app, ready, tables, error, lost, panicked, call, cq, open>>

SubmitFails ==
    /\ at = "submit" /\ free # Ids
    /\ sq' = sq \o sqLocal /\ sqLocal' = <<>>
    /\ Fail
    /\ UNCHANGED <<pool, app, ready, tables, panicked, kernel, cq, open>>

\* The last reap; recv then hands out up to max packets
Finish ==
    /\ at = "finish"
    /\ IF Failed
       THEN Reap /\ Fail /\ UNCHANGED app
       ELSE /\ \E S \in SUBSET (ready \cup FramesOf(Received)) :
                /\ call # "recv" => S = {}
                /\ app' = app \cup S
                /\ ready' = (ready \cup FramesOf(Received)) \ S
            /\ ReapTables
            /\ call' = "none" /\ at' = "start" /\ UNCHANGED <<error, lost>>
    /\ UNCHANGED <<sqLocal, sq, kernel, open>>

\* Device::alloc, and the drop of a PacketBuf
AppAlloc(f) ==
    /\ call = "none" /\ open /\ f \in pool
    /\ pool' = pool \ {f} /\ app' = app \cup {f}
    /\ UNCHANGED <<ready, tables, error, lost, panicked, call, at, sqLocal, sq, kernel, cq, open>>

AppDrop(f) ==
    /\ call = "none" /\ f \in app
    /\ app' = app \ {f} /\ pool' = pool \cup {f}
    /\ UNCHANGED <<ready, tables, error, lost, panicked, call, at, sqLocal, sq, kernel, cq, open>>

\* Faulty variant of the definition that follows it, for mutation checks.
CloseFreesAlways(cancelled) ==
    /\ call = "none" /\ open /\ open' = FALSE
    /\ pool' = pool \cup ready \cup FramesOf(Ids)
    /\ ready' = {}
    /\ pending' = [i \in Ids |-> NoFrame] /\ free' = Ids
    /\ rx_pending' = 0 /\ tx_pending' = 0
    /\ kernel' = IF cancelled THEN {} ELSE kernel
    /\ sqLocal' = <<>> /\ sq' = <<>> /\ cq' = <<>>
    /\ UNCHANGED <<app, isRead, error, lost, panicked, call, at>>

\* Drop: after a synchronous cancellation the kernel holds nothing and the
\* buffers return to the pool; otherwise they are forgotten.
Close(cancelled) ==
    /\ call = "none" /\ open /\ open' = FALSE
    /\ pool' = pool \cup ready \cup (IF cancelled THEN FramesOf(Ids) ELSE {})
    /\ ready' = {}
    /\ pending' = [i \in Ids |-> NoFrame] /\ free' = Ids
    /\ rx_pending' = 0 /\ tx_pending' = 0
    /\ kernel' = IF cancelled THEN {} ELSE kernel
    /\ sqLocal' = <<>> /\ sq' = <<>> /\ cq' = <<>>
    /\ UNCHANGED <<app, isRead, error, lost, panicked, call, at>>

\* A request the kernel took completes, in any order and with any outcome
KernelComplete(r, result) ==
    /\ r \in kernel /\ (result = "again" => r.read)
    /\ kernel' = kernel \ {r}
    /\ cq' = IF open THEN Append(cq, [id |-> r.id, result |-> result]) ELSE cq
    /\ UNCHANGED <<pool, app, ready, tables, error, lost, panicked, call, at, sqLocal, sq, open>>

-----------------------------------------------------------------------------
Next ==
    \/ \E c \in {"progress", "recv", "send"} : Start(c)
    \/ QueueRead \/ QueueWrite \/ QueueDone \/ ReapQueued
    \/ \E k \in 0..Len(sq \o sqLocal) : SubmitTakes(k)
    \/ SubmitFails \/ Finish
    \/ \E f \in Frames : AppAlloc(f) \/ AppDrop(f)
    \/ \E cancelled \in BOOLEAN : Close(cancelled)
    \/ \E r \in kernel, result \in {"ok", "again", "error"} : KernelComplete(r, result)

\* The application keeps calling, a call runs to its end, the kernel answers
\* every write it took, and does not refuse every submission for ever.
Thread ==
    \/ Start("progress") \/ QueueRead \/ QueueDone \/ ReapQueued \/ SubmitTakes(0) \/ Finish
SubmitAll == Len(sq \o sqLocal) > 0 /\ SubmitTakes(Len(sq \o sqLocal))
Answers(i) == \E r \in kernel : r.id = i /\ ~r.read /\ KernelComplete(r, "ok")
Fairness == WF_vars(Thread) /\ SF_vars(SubmitAll) /\ \A i \in Ids : WF_vars(Answers(i))

SafetySpec == Init /\ [][Next]_vars
Spec == SafetySpec /\ Fairness

-----------------------------------------------------------------------------
(* Properties *)

\* Every variable has its type.
TypeOK ==
    /\ pool \subseteq Frames /\ app \subseteq Frames /\ ready \subseteq Frames
    /\ pending \in [Ids -> Frames \cup {NoFrame}] /\ isRead \in [Ids -> BOOLEAN] /\ free \subseteq Ids
    /\ rx_pending \in Nat /\ tx_pending \in Nat
    /\ {error, lost, panicked, open} \subseteq BOOLEAN
    /\ sqLocal \in Seq(Requests) /\ sq \in Seq(Requests) /\ kernel \subseteq Requests
    /\ cq \in Seq([id : Ids, result : {"ok", "again", "error"}])

InFlight == Elements(sqLocal) \cup Elements(sq) \cup kernel

\* A frame whose address the kernel was given is in the pending table under
\* the id of its request, and nowhere else, until its completion is reaped;
\* after a close that could not cancel, it is never free or handed out again
\* ("quarantine outstanding handles so neither the arena nor a foreign pool
\* can reuse kernel-owned bytes").
KernelFramesHeld ==
    /\ open => \A r \in InFlight : pending[r.id] = r.frame
    /\ \A r \in InFlight : r.frame \notin pool \cup app \cup ready
    /\ \A i, j \in Ids : i # j /\ pending[i] # NoFrame => pending[i] # pending[j]
    /\ pool \cap app = {} /\ ready \cap (pool \cup app) = {}

\* The free ids, the table and the two counters agree, and reads plus
\* packets not yet taken stay within rx_depth, which leaves a frame and an
\* id to the TX side.  The kernel never has more to say than the completion
\* queue can hold and names each live request at most once, so the expect in
\* reap ("kernel returned a live request id"), the one in queue ("space
\* checked") and the assertion in push never fail.
TableExact ==
    /\ TypeOK
    /\ free = {i \in Ids : pending[i] = NoFrame}
    /\ rx_pending = Cardinality({i \in Ids \ free : isRead[i]})
    /\ tx_pending = Cardinality({i \in Ids \ free : ~isRead[i]})
    /\ rx_pending + Cardinality(ready) <= RxDepth
    /\ Len(cq) + Len(sqLocal) + Len(sq) + Cardinality(kernel) <= Cardinality(Ids)
    /\ ~panicked

\* A failure that send defers is returned by a later call: no later failure
\* overwrites it ("Report the deferred failure on the next
\* progress/recv/send").
NoErrorLost == ~lost

Writing(i) == pending[i] # NoFrame /\ ~isRead[i]

\* A write that send accepted is submitted and reaped in the end, even when
\* submissions are partial, interrupted or refused and calls return early
\* with the errors of other requests.
WritesReaped == \A i \in Ids : Writing(i) ~> ~Writing(i)
=============================================================================
