------------------------------- MODULE ShmNic -------------------------------
(***************************************************************************)
(* The two-process shared-memory NIC of examples/support/shm_nic.rs.  The  *)
(* host (parent) publishes frames in a ring of slots of a shared mapping,  *)
(* the guest (its child, `worker`) validates and completes them; a warm-up *)
(* and a measured phase each call `run` on both sides.  The processes meet *)
(* only in six counters, the slots and, in pipe mode, two pipes of wakeup  *)
(* tokens.  Every access to shared memory or to a pipe is a step of its    *)
(* own.  Either process may be killed from outside at any time.            *)
(***************************************************************************)
EXTENDS Integers

CONSTANTS Ring,           \* slots, a power of two (Layout::new)
          Batch,          \* --batch, at most Ring
          Warmup,         \* --warmup: packets of phase 1
          Packets,        \* --packets: packets of phase 2
          PipeCapacity    \* tokens a pipe holds

ShmAssumption ==
    /\ Ring \in Nat \ {0} /\ Batch \in 1..Ring
    /\ Warmup \in Nat /\ Packets \in Nat \ {0}
    /\ PipeCapacity \in Nat

Procs == {"host", "guest"}
Peer(p) == IF p = "host" THEN "guest" ELSE "host"
Empty == -1    \* a slot of the zeroed mapping

VARIABLES
    wait,          \* --wait: "spin" or "pipe"; never changes
    slow,          \* may a process pause for longer than --timeout?  never changes
    published, completed, ready, phase, phaseDone, armed,   \* Control
    descriptor, frame,      \* sequence number in a slot's descriptor and in its frame
    pc, outcome,            \* where a process is, and how it ended
    round,                  \* the `phase` argument of the current `run`
    cursor, peer,           \* locals of `run`: own position, cached counter of the peer
    todo, done,             \* packets of the current batch, and those handled so far
    tokens, closed          \* tokens waiting in the pipe p reads; Doorbell::closed

control == <<published, completed, ready, phase, phaseDone, armed>>
slots == <<descriptor, frame>>
bells == <<tokens, closed>>
batch == <<cursor, peer, todo, done>>
frozen == <<wait, slow>>
vars == <<frozen, control, slots, pc, outcome, round, batch, bells>>

Total == Warmup + Packets
Start(r) == IF r = 1 THEN 0 ELSE Warmup
End(r) == IF r = 1 THEN Warmup ELSE Total
Index(seq) == seq % Ring
Least(a, b) == IF a < b THEN a ELSE b

Goto(p, l) == pc' = [pc EXCEPT ![p] = l] /\ UNCHANGED outcome

\* An error return.  The parent's ChildGuard still has to kill the worker.
Fail(p, why) ==
    /\ outcome' = [outcome EXCEPT ![p] = why]
    /\ pc' = [pc EXCEPT ![p] = IF p = "host" THEN "kill" ELSE "end"]

Init ==
    /\ wait \in {"spin", "pipe"} /\ slow \in BOOLEAN
    /\ published = 0 /\ completed = 0 /\ ready = 0 /\ phase = 0 /\ phaseDone = 0 /\ armed = 0
    /\ descriptor = [k \in 0..(Ring - 1) |-> Empty]
    /\ frame = [k \in 0..(Ring - 1) |-> Empty]
    /\ pc = [p \in Procs |-> "ready"]
    /\ outcome = [p \in Procs |-> "running"]
    /\ round = [p \in Procs |-> 1]
    /\ cursor = [p \in Procs |-> 0] /\ peer = [p \in Procs |-> 0]
    /\ todo = [p \in Procs |-> 0] /\ done = [p \in Procs |-> 0]
    /\ tokens = [p \in Procs |-> 0] /\ closed = [p \in Procs |-> FALSE]

-----------------------------------------------------------------------------
(* main and worker: the handshake around the two calls of run *)

\* The worker has its mapping.
WorkerReady ==
    /\ pc["guest"] = "ready"
    /\ ready' = 1
    /\ Goto("guest", "arm")
    /\ UNCHANGED <<frozen, published, completed, phase, phaseDone, armed,
                   slots, round, batch, bells>>

\* wait_counter(ready, 1)
HostReady ==
    /\ pc["host"] = "ready" /\ ready = 1
    /\ Goto("host", "armed")
    /\ UNCHANGED <<frozen, control, slots, round, batch, bells>>

\* run, consumer: announce that this phase may begin
Arm ==
    /\ pc["guest"] = "arm"
    /\ armed' = round["guest"]
    /\ Goto("guest", "phase")
    /\ UNCHANGED <<frozen, published, completed, ready, phase, phaseDone,
                   slots, round, batch, bells>>

\* run, producer: wait_counter(armed, phase)
SeeArmed ==
    /\ pc["host"] = "armed" /\ armed = round["host"]
    /\ Goto("host", "phase")
    /\ UNCHANGED <<frozen, control, slots, round, batch, bells>>

\* run, producer: the store of `phase`, which starts the phase on both sides
StartPhase ==
    /\ pc["host"] = "phase"
    /\ phase' = round["host"]
    /\ Goto("host", "loop")
    /\ UNCHANGED <<frozen, published, completed, ready, phaseDone, armed,
                   slots, round, batch, bells>>

SeePhase ==
    /\ pc["guest"] = "phase" /\ phase = round["guest"]
    /\ Goto("guest", "loop")
    /\ UNCHANGED <<frozen, control, slots, round, batch, bells>>

\* The next call of run starts with cursor = peer = range.start.
NextRound(p) ==
    /\ round' = [round EXCEPT ![p] = 2]
    /\ cursor' = [cursor EXCEPT ![p] = Start(2)]
    /\ peer' = [peer EXCEPT ![p] = Start(2)]
    /\ UNCHANGED <<todo, done>>

\* worker: phase_done after each phase, then the process exits
WorkerPhaseDone ==
    /\ pc["guest"] = "report"
    /\ phaseDone' = round["guest"]
    /\ IF round["guest"] = 1
       THEN Goto("guest", "arm") /\ NextRound("guest")
       ELSE Goto("guest", "exit") /\ UNCHANGED <<round, batch>>
    /\ UNCHANGED <<frozen, published, completed, ready, phase, armed, slots, bells>>

WorkerExit ==
    /\ pc["guest"] = "exit"
    /\ pc' = [pc EXCEPT !["guest"] = "end"]
    /\ outcome' = [outcome EXCEPT !["guest"] = "ok"]
    /\ UNCHANGED <<frozen, control, slots, round, batch, bells>>

\* main: wait_counter(phase_done, round)
HostPhaseDone ==
    /\ pc["host"] = "done" /\ phaseDone = round["host"]
    /\ IF round["host"] = 1
       THEN Goto("host", "armed") /\ NextRound("host")
       ELSE Goto("host", "reap") /\ UNCHANGED <<round, batch>>
    /\ UNCHANGED <<frozen, control, slots, bells>>

\* main: child.wait() and the check of its status
Reap ==
    /\ pc["host"] = "reap" /\ pc["guest"] = "end"
    /\ IF outcome["guest"] = "ok"
       THEN /\ pc' = [pc EXCEPT !["host"] = "end"]
            /\ outcome' = [outcome EXCEPT !["host"] = "ok"]
       ELSE Fail("host", "worker")
    /\ UNCHANGED <<frozen, control, slots, round, batch, bells>>

\* Drop of ChildGuard: kill and reap
KillWorker ==
    /\ pc["host"] = "kill"
    /\ pc' = [p \in Procs |-> "end"]
    /\ outcome' = [outcome EXCEPT !["guest"] = IF @ = "running" THEN "killed" ELSE @]
    /\ UNCHANGED <<frozen, control, slots, round, batch, bells>>

-----------------------------------------------------------------------------
(* run: one call moves the packets Start(round)..End(round)-1 *)

Available(p, seen) == IF p = "host" THEN Ring - (cursor[p] - seen) ELSE seen - cursor[p]

\* Faulty variant of the definition that follows it, for mutation checks.
RefreshedPeerPublished(p) ==
    IF Available(p, peer[p]) < Batch THEN published ELSE peer[p]

\* The peer's counter is loaded only when the cached one leaves less than a batch.
RefreshedPeer(p) ==
    IF Available(p, peer[p]) < Batch
    THEN IF p = "host" THEN completed ELSE published
    ELSE peer[p]

ValidIndex(p, seen) ==
    IF p = "host"
    THEN seen <= cursor[p] /\ cursor[p] - seen <= Ring
    ELSE seen >= cursor[p] /\ seen - cursor[p] <= Ring /\ seen <= End(round[p])

\* Top of the loop: how many packets this iteration moves
Load(p) ==
    LET seen == RefreshedPeer(p)
        n == Least(Least(Available(p, seen), Batch), End(round[p]) - cursor[p])
    IN  /\ pc[p] = "loop" /\ cursor[p] < End(round[p])
        /\ IF ~ValidIndex(p, seen)
           THEN Fail(p, "index") /\ UNCHANGED batch
           ELSE /\ Goto(p, IF n = 0 THEN "idle" ELSE "first")
                /\ peer' = [peer EXCEPT ![p] = seen]
                /\ todo' = [todo EXCEPT ![p] = n]
                /\ done' = [done EXCEPT ![p] = 0]
                /\ UNCHANGED cursor
        /\ UNCHANGED <<frozen, control, slots, round, bells>>

Sequence(p) == cursor[p] + done[p]

\* Producer: generate (and copy) the frame, then write its descriptor
WriteFrame ==
    /\ pc["host"] = "first"
    /\ frame' = [frame EXCEPT ![Index(Sequence("host"))] = Sequence("host")]
    /\ Goto("host", "second")
    /\ UNCHANGED <<frozen, control, descriptor, round, batch, bells>>

\* After the last packet of a batch its counter is stored.
NextPacket(p) ==
    /\ done' = [done EXCEPT ![p] = @ + 1]
    /\ Goto(p, IF done[p] + 1 < todo[p] THEN "first" ELSE "store")

WriteDescriptor ==
    /\ pc["host"] = "second"
    /\ descriptor' = [descriptor EXCEPT ![Index(Sequence("host"))] = Sequence("host")]
    /\ NextPacket("host")
    /\ UNCHANGED <<frozen, control, frame, round, cursor, peer, todo, bells>>

\* Consumer: Layout::validate of the descriptor, then validate_frame
ReadDescriptor ==
    /\ pc["guest"] = "first"
    /\ IF descriptor[Index(Sequence("guest"))] = Sequence("guest")
       THEN Goto("guest", "second")
       ELSE Fail("guest", "corrupt")
    /\ UNCHANGED <<frozen, control, slots, round, batch, bells>>

ReadFrame ==
    /\ pc["guest"] = "second"
    /\ IF frame[Index(Sequence("guest"))] = Sequence("guest")
       THEN NextPacket("guest")
       ELSE Fail("guest", "corrupt") /\ UNCHANGED done
    /\ UNCHANGED <<frozen, control, slots, round, cursor, peer, todo, bells>>

\* The release store that hands the slots of the batch to the peer
Store(p) ==
    /\ pc[p] = "store"
    /\ cursor' = [cursor EXCEPT ![p] = @ + todo[p]]
    /\ IF p = "host" THEN published' = cursor'[p] /\ UNCHANGED completed
                     ELSE completed' = cursor'[p] /\ UNCHANGED published
    /\ Goto(p, "notify")
    /\ UNCHANGED <<frozen, ready, phase, phaseDone, armed, slots, round, peer, todo, done, bells>>

\* End of the loop: the producer also waits for the last completion
Leave(p) ==
    /\ pc[p] = "loop" /\ cursor[p] = End(round[p])
    /\ Goto(p, IF p = "host" THEN "drain" ELSE "report")
    /\ UNCHANGED <<frozen, control, slots, round, batch, bells>>

Drain ==
    /\ pc["host"] = "drain"
    /\ Goto("host", IF completed = End(round["host"]) THEN "done" ELSE "idle")
    /\ UNCHANGED <<frozen, control, slots, round, batch, bells>>

-----------------------------------------------------------------------------
(* Doorbell and Stall *)

\* A write to a pipe whose reader is gone fails with EPIPE; a full pipe
\* already holds a wakeup.
Notify(p) ==
    /\ pc[p] = "notify"
    /\ IF wait = "pipe" /\ (closed[p] \/ pc[Peer(p)] = "end")
       THEN Fail(p, "pipe") /\ UNCHANGED tokens
       ELSE /\ Goto(p, "loop")
            /\ tokens' = IF wait = "pipe"
                         THEN [tokens EXCEPT ![Peer(p)] = Least(@ + 1, PipeCapacity)]
                         ELSE tokens
    /\ UNCHANGED <<frozen, control, slots, round, batch, closed>>

AfterIdle(p) == IF p = "host" /\ cursor[p] = End(round[p]) THEN "drain" ELSE "loop"

\* Doorbell::idle.  A first end of file is only remembered, so that the
\* counters are looked at once more; the second one is an error.
Idle(p) ==
    /\ pc[p] = "idle"
    /\ IF wait = "pipe" /\ closed[p]
       THEN Fail(p, "pipe") /\ UNCHANGED bells
       ELSE /\ Goto(p, AfterIdle(p))
            /\ \/ UNCHANGED bells                          \* spin, or poll ran out
               \/ /\ wait = "pipe" /\ tokens[p] > 0
                  /\ tokens' = [tokens EXCEPT ![p] = 0]
                  /\ UNCHANGED closed
               \/ /\ wait = "pipe" /\ tokens[p] = 0 /\ pc[Peer(p)] = "end"
                  /\ closed' = [closed EXCEPT ![p] = TRUE]
                  /\ UNCHANGED tokens
    /\ UNCHANGED <<frozen, control, slots, round, batch>>

\* The condition a process waits for between two looks at the clock
Blocked(p) ==
    \/ pc[p] = "idle"
    \/ p = "host" /\ pc[p] = "ready" /\ ready # 1
    \/ p = "host" /\ pc[p] = "armed" /\ armed # round[p]
    \/ p = "host" /\ pc[p] = "done" /\ phaseDone # round[p]
    \/ p = "guest" /\ pc[p] = "phase" /\ phase # round[p]

\* The process ended without the progress its peer waits for.
Lost(p) == pc[p] = "end" /\ outcome[p] # "ok"

\* Faulty variant of the definition that follows it, for mutation checks.
TimeOutWhenIdle(p) ==
    /\ pc[p] = "idle" /\ (slow \/ Lost(Peer(p)))
    /\ Fail(p, "timeout")
    /\ UNCHANGED <<frozen, control, slots, round, batch, bells>>

\* Stall::check: no progress for --timeout seconds
TimeOut(p) ==
    /\ Blocked(p) /\ (slow \/ Lost(Peer(p)))
    /\ Fail(p, "timeout")
    /\ UNCHANGED <<frozen, control, slots, round, batch, bells>>

\* A process is killed from outside.
Crash(p) ==
    /\ outcome[p] = "running"
    /\ pc' = [pc EXCEPT ![p] = "end"]
    /\ outcome' = [outcome EXCEPT ![p] = "crashed"]
    /\ UNCHANGED <<frozen, control, slots, round, batch, bells>>

-----------------------------------------------------------------------------
Run(p) == Load(p) \/ Store(p) \/ Leave(p) \/ Notify(p) \/ Idle(p)

HostStep ==
    \/ HostReady \/ SeeArmed \/ StartPhase \/ HostPhaseDone \/ Reap \/ KillWorker
    \/ WriteFrame \/ WriteDescriptor \/ Drain
    \/ Run("host")

GuestStep ==
    \/ WorkerReady \/ Arm \/ SeePhase \/ WorkerPhaseDone \/ WorkerExit
    \/ ReadDescriptor \/ ReadFrame
    \/ Run("guest")

AllEnded == \A p \in Procs : pc[p] = "end"
Ended == AllEnded /\ UNCHANGED vars

Next ==
    \/ HostStep
    \/ GuestStep
    \/ \E p \in Procs : TimeOut(p) \/ Crash(p)
    \/ Ended

Spec == Init /\ [][Next]_vars

\* Both processes are scheduled, and a process that looks at the clock again
\* and again while nothing happens sees the timeout pass.
FairSpec ==
    /\ Spec
    /\ WF_vars(HostStep) /\ WF_vars(GuestStep)
    /\ \A p \in Procs : SF_vars(TimeOut(p))

-----------------------------------------------------------------------------
(* Properties *)

TypeOK ==
    /\ wait \in {"spin", "pipe"} /\ slow \in BOOLEAN
    /\ published \in 0..Total /\ completed \in 0..Total
    /\ ready \in 0..1 /\ phase \in 0..2 /\ phaseDone \in 0..2 /\ armed \in 0..2
    /\ descriptor \in [0..(Ring - 1) -> -1..Total] /\ frame \in [0..(Ring - 1) -> -1..Total]
    /\ pc \in [Procs -> STRING] /\ outcome \in [Procs -> STRING]
    /\ round \in [Procs -> 1..2]
    /\ cursor \in [Procs -> 0..Total] /\ peer \in [Procs -> 0..Total]
    /\ todo \in [Procs -> 0..Batch] /\ done \in [Procs -> 0..Batch]
    /\ tokens \in [Procs -> 0..PipeCapacity] /\ closed \in [Procs -> BOOLEAN]

SlotsHeld(p) ==
    IF pc[p] \in {"first", "second"}
    THEN {Index(s) : s \in Sequence(p)..(cursor[p] + todo[p] - 1)}
    ELSE {}

\* The producer of `run` never touches a slot the consumer is still to read
\* ("completed acquire grants exclusive ownership of this slot"), in either
\* phase, across the wrap of the ring and with a stale cached counter.
NoSlotRace == SlotsHeld("host") \cap SlotsHeld("guest") = {}

\* The checks of `run` raise no false alarm: no process ever reads an index,
\* a descriptor or a frame it has to reject, whatever the interleaving and
\* whenever the other process is killed; and the parent reports success only
\* after every packet of both phases was validated by the worker.
NoFalseAlarm ==
    /\ \A p \in Procs : outcome[p] \notin {"index", "corrupt"}
    /\ outcome["host"] = "ok" => outcome["guest"] = "ok" /\ completed = Total

\* The two processes of `run` never interfere.
SharedSlots == NoSlotRace /\ NoFalseAlarm

Over ==
    /\ AllEnded
    /\ \/ \E p \in Procs : outcome[p] = "crashed"
       \/ slow \/ wait = "pipe"
       \/ \A p \in Procs : outcome[p] = "ok"

\* A process that is waited for may die at any point; both processes end all
\* the same ("a stalled peer produces a bounded timeout",
\* docs/mac-shared-memory.md).  With peers that live and keep up, spinning
\* ends in success on both sides.
PeersEnd == <>Over
=============================================================================
