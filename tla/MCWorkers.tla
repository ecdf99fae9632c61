----------------------------- MODULE MCWorkers -----------------------------
(* Threads, processes and kernel requests that must make progress, and share *)
(* no state: the telemetry exporter, the TUN workers, the io_uring device,   *)
(* the wakeup handshake between the AF_XDP device and the kernel, and the    *)
(* two processes of the shared-memory NIC.  As none can disturb another, a   *)
(* behaviour exercises one of them and leaves the others in their initial    *)
(* states.                                                                   *)
EXTENDS Telemetry

CONSTANTS
    Shards, None,                            \* TunReactor
    Ids, Frames, NoFrame, RxDepth,           \* UringDevice
    MaxSends, MaxPackets, RxFrames,          \* XdpWakeup
    Slots, SlotBatch, Warmup, Packets, PipeCapacity    \* ShmNic

VARIABLES
    part,                                    \* the part this behaviour is about
    stage, queued, stop, firstError, failed, returned,
    pool, app, packets, inflight, isRead, free, rx_pending, writes, error, lost, panicked,
    call, doing, sqLocal, sq, kernel, completions, open,
    pc, sent, tx_pending, received, rxFree, txq, cq, fq, rxq, wire, arrived,
    txKernel, rxKernel, txFlag, fillFlag, needWakeup,
    wait, slow, published, completed, ready, phase, phaseDone, armed, descriptor, frame,
    step, outcome, round, cursor, peer, todo, done, tokens, closed

Reactor == INSTANCE TunReactor WITH at <- stage
Uring == INSTANCE UringDevice WITH
    ready <- packets, pending <- inflight, tx_pending <- writes, at <- doing, cq <- completions
Wakeup == INSTANCE XdpWakeup
Shm == INSTANCE ShmNic WITH Ring <- Slots, Batch <- SlotBatch, pc <- step

ASSUME PartsAssumption ==
    /\ Reactor!ShardsAssumption /\ Uring!UringAssumption
    /\ Wakeup!WakeupAssumption /\ Shm!ShmAssumption

reactorVars == <<stage, queued, stop, firstError, failed, returned>>
uringVars == <<pool, app, packets, inflight, isRead, free, rx_pending, writes, error, lost,
               panicked, call, doing, sqLocal, sq, kernel, completions, open>>
wakeupVars == <<pc, sent, tx_pending, received, rxFree, txq, cq, fq, rxq, wire, arrived,
                txKernel, rxKernel, txFlag, fillFlag, needWakeup>>
shmVars == <<wait, slow, published, completed, ready, phase, phaseDone, armed, descriptor, frame,
             step, outcome, round, cursor, peer, todo, done, tokens, closed>>
allVars == <<part, vars, reactorVars, uringVars, wakeupVars, shmVars>>

WorkersInit ==
    /\ part \in {"telemetry", "reactor", "uring", "wakeup", "shm"}
    /\ Init /\ Reactor!Init /\ Uring!Init /\ Wakeup!Init /\ Shm!Init
    /\ part # "wakeup" => needWakeup
    /\ part # "shm" => wait = "spin" /\ ~slow

Others(p) ==
    /\ part = p /\ part' = part
    /\ IF p = "telemetry" THEN TRUE ELSE UNCHANGED vars
    /\ IF p = "reactor" THEN TRUE ELSE UNCHANGED reactorVars
    /\ IF p = "uring" THEN TRUE ELSE UNCHANGED uringVars
    /\ IF p = "wakeup" THEN TRUE ELSE UNCHANGED wakeupVars
    /\ IF p = "shm" THEN TRUE ELSE UNCHANGED shmVars

\* The exporter and the TUN workers end, and so does a closed device; ShmNic
\* says so itself, and the wakeup handshake always has a next step.
Ended ==
    /\ \/ part = "telemetry" /\ at = "done"
       \/ part = "reactor" /\ returned # "no"
       \/ part = "uring" /\ ~open
    /\ UNCHANGED allVars

WorkersNext ==
    \/ Others("telemetry") /\ Next
    \/ Others("reactor") /\ Reactor!Next
    \/ Others("uring") /\ Uring!Next
    \/ Others("wakeup") /\ Wakeup!Next
    \/ Others("shm") /\ Shm!Next
    \/ Ended

\* The fairness each part's module states.
WorkersSpec ==
    /\ WorkersInit /\ [][WorkersNext]_allVars
    /\ WF_vars(part = "telemetry" /\ Export) /\ WF_vars(part = "telemetry" /\ Join)
    /\ WF_reactorVars(part = "reactor" /\ Reactor!Return)
    /\ \A s \in Shards : WF_reactorVars(part = "reactor" /\ Reactor!Worker(s))
    /\ WF_uringVars(part = "uring" /\ Uring!Thread)
    /\ SF_uringVars(part = "uring" /\ Uring!SubmitAll)
    /\ \A i \in Ids : WF_uringVars(part = "uring" /\ Uring!Answers(i))
    /\ WF_wakeupVars(part = "wakeup" /\ Wakeup!Call)
    /\ WF_wakeupVars(part = "wakeup" /\ Wakeup!KernelTransmit)
    /\ WF_wakeupVars(part = "wakeup" /\ Wakeup!KernelReceive)
    /\ WF_wakeupVars(part = "wakeup" /\ Wakeup!KernelTxStop)
    /\ WF_wakeupVars(part = "wakeup" /\ Wakeup!KernelRxStop)
    /\ WF_shmVars(part = "shm" /\ Shm!HostStep) /\ WF_shmVars(part = "shm" /\ Shm!GuestStep)
    /\ \A p \in Shm!Procs : SF_shmVars(part = "shm" /\ Shm!TimeOut(p))

-----------------------------------------------------------------------------
(* Properties, of the module of each part (Conserved and DrainedAtEnd are    *)
(* those of Telemetry)                                                       *)

\* A frame whose address the kernel was given stays in the pending table until
\* its completion is reaped; the table, its counters and the free ids agree;
\* and a failure that send defers is returned by a later call.
RequestsHeld ==
    part = "uring" => Uring!KernelFramesHeld /\ Uring!TableExact /\ Uring!NoErrorLost

\* The producer of the shared-memory NIC never writes a slot its consumer
\* still reads, and no interleaving makes one of its checks fail.
SharedSlots == part = "shm" => Shm!TypeOK /\ Shm!SharedSlots

\* No lost wakeup: every frame send accepted is transmitted and reaped, every
\* packet the NIC holds is received.
NoLostWakeup == part = "wakeup" => Wakeup!NoLostWakeup

\* What was begun ends: run returns once a TUN worker failed or the flag is
\* set, with the error if there was one; shutdown returns once the exporter is
\* told; a write that an io_uring device accepted is submitted and reaped (one
\* id stands for all, as nothing tells them apart); and both processes of the
\* shared-memory NIC end even when one of them is killed.
AnId == CHOOSE i \in Ids : TRUE
WorkEnds ==
    /\ Reactor!ReturnsExactly
    /\ \/ part = "reactor" /\ Reactor!Told
       \/ part = "telemetry" /\ stopped
       \/ part = "uring" /\ Uring!Writing(AnId)
       \/ part = "shm"
       ~> \/ part = "reactor" /\ Reactor!Returned
          \/ part = "telemetry" /\ joined
          \/ part = "uring" /\ ~Uring!Writing(AnId)
          \/ part = "shm" /\ Shm!Over
=============================================================================
