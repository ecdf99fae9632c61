------------------------------ MODULE PacketIo ------------------------------
(***************************************************************************)
(* The copying devices behind the Device trait: LoopbackDevice, which      *)
(* keeps what is sent in the slots of an arena, and the blocking TUN       *)
(* devices of Linux (tun) and macOS (utun), which read and write one       *)
(* datagram per system call.  One caller allocates frames, sends its       *)
(* batch, keeps what was not accepted, and receives.                       *)
(***************************************************************************)
EXTENDS Naturals, Sequences, FiniteSets

CONSTANTS PoolFrames,   \* frames of the device's pool
          KernelSlots,  \* frames the arena or the kernel's queue holds
          MaxFrames     \* bound on the frames made and on the datagrams arriving

PacketAssumption == PoolFrames \in Nat \ {0} /\ KernelSlots \in Nat \ {0}

VARIABLES
    backend,
    made,        \* frames the caller made so far; each is named by its number
    bad,         \* those with a length or an IP version the device refuses
    batch,       \* what the caller still wants to send, in order
    discarded,   \* frames the caller gave up after an error
    taken,       \* frames send accepted, in order
    free_slots, arena, rx,   \* the loopback arena
    wire,        \* frames in the kernel's transmit queue (tun, utun)
    inbound,     \* datagrams waiting in the kernel's receive queue (tun, utun)
    arrived,     \* datagrams that arrived so far
    out,         \* the caller's receive vector
    got,         \* what recv returned, in order
    lost         \* read in a call of recv that returned an error

vars == <<backend, made, bad, batch, discarded, taken, free_slots, arena, rx, wire, inbound,
          arrived, out, got, lost>>

Slots == 1..KernelSlots
Least(a, b) == IF a < b THEN a ELSE b
Elements(s) == {s[i] : i \in DOMAIN s}
DropFirst(s, n) == SubSeq(s, n + 1, Len(s))

\* with_capacity: slot 1 is on top of the free list
Init ==
    /\ backend \in {"loopback", "tun", "utun"}
    /\ made = 0 /\ bad = {} /\ batch = <<>> /\ discarded = {} /\ taken = <<>>
    /\ free_slots = [i \in Slots |-> KernelSlots + 1 - i]
    /\ arena = [s \in Slots |-> 0] /\ rx = <<>> /\ wire = <<>>
    /\ inbound = <<>> /\ arrived = 0 /\ out = <<>> /\ got = <<>> /\ lost = {}

FreeFrames == PoolFrames - Len(batch) - Len(out)

-----------------------------------------------------------------------------
\* alloc, and the caller fills the frame
Make ==
    /\ FreeFrames > 0 /\ made < MaxFrames
    /\ made' = made + 1
    /\ batch' = Append(batch, made')
    /\ bad' \in {bad, bad \cup {made'}}
    /\ UNCHANGED <<backend, discarded, taken, free_slots, arena, rx, wire, inbound, arrived,
                   out, got, lost>>

Room == IF backend = "loopback" THEN Len(free_slots) ELSE KernelSlots - Len(wire)

\* the first n frames go into slots popped from the free list, or to write
Accept(n) ==
    LET slot(i) == free_slots[Len(free_slots) + 1 - i]
    IN  IF backend = "loopback" THEN
            /\ free_slots' = SubSeq(free_slots, 1, Len(free_slots) - n)
            /\ arena' = [s \in Slots |-> IF \E i \in 1..n : slot(i) = s
                                         THEN batch[CHOOSE i \in 1..n : slot(i) = s]
                                         ELSE arena[s]]
            /\ rx' = rx \o [i \in 1..n |-> slot(i)]
            /\ UNCHANGED wire
        ELSE wire' = wire \o SubSeq(batch, 1, n) /\ UNCHANGED <<free_slots, arena, rx>>

\* The loop of send stops at a refused frame, at a full queue or, for a system
\* call, at any error; what it accepted before is Ok and leaves the batch.  With
\* nothing accepted an error consumes nothing.
Send ==
    \E n \in 0..Least(Len(batch), Room) :
        /\ batch # <<>>
        /\ \A i \in 1..n : batch[i] \notin bad
        /\ backend = "loopback" =>
             n = Len(batch) \/ n = Room \/ (n < Len(batch) /\ batch[n + 1] \in bad)
        /\ Accept(n)
        /\ taken' = taken \o SubSeq(batch, 1, n)
        /\ batch' = DropFirst(batch, n)
        /\ UNCHANGED <<backend, made, bad, discarded, inbound, arrived, out, got, lost>>

\* the caller drops the frame an error was about
GiveUp ==
    /\ batch # <<>> /\ Head(batch) \in bad
    /\ discarded' = discarded \cup {Head(batch)}
    /\ batch' = Tail(batch)
    /\ UNCHANGED <<backend, made, bad, taken, free_slots, arena, rx, wire, inbound, arrived,
                   out, got, lost>>

-----------------------------------------------------------------------------
\* Faulty variant of the definition that follows it, for mutation checks.
LoopbackRecvCountsQueue(n, k) ==
    /\ out' = [i \in 1..k |-> arena[rx[i]]]
    /\ free_slots' = free_slots \o SubSeq(rx, 1, n)
    /\ rx' = DropFirst(rx, n)

\* n descriptors are wanted, for which alloc_batch had k frames
LoopbackRecv(n, k) ==
    /\ out' = [i \in 1..k |-> arena[rx[i]]]
    /\ free_slots' = free_slots \o SubSeq(rx, 1, k)
    /\ rx' = DropFirst(rx, k)

\* recv clears out, which frees its frames, and takes up to max frames
RecvLoopback(max) ==
    LET n == Least(max, Len(rx))
        k == Least(n, PoolFrames - Len(batch))
    IN  /\ backend = "loopback"
        /\ LoopbackRecv(n, k)
        /\ got' = got \o out'
        /\ UNCHANGED <<backend, made, bad, batch, discarded, taken, arena, wire, inbound,
                       arrived, lost>>

\* read_datagram and read_packet refuse a datagram that fills the frame and,
\* on utun, one that is too short for the address family
Refused(d) == d.kind = "full" \/ (backend = "utun" /\ d.kind = "short")

\* An error ends the call; what it read before is left in out, uncounted.
RecvFails(read, consumed) ==
    /\ out' = [i \in 1..read |-> inbound[i].id]
    /\ lost' = lost \cup {inbound[i].id : i \in 1..consumed}
    /\ inbound' = DropFirst(inbound, consumed)
    /\ UNCHANGED got

RecvTun(max) ==
    LET wanted == Least(max, PoolFrames - Len(batch))
        n == Least(wanted, Len(inbound))
        Readable(k) == \A i \in 1..k : ~Refused(inbound[i])
    IN  /\ backend # "loopback"
        /\ \/ /\ Readable(n)
              /\ out' = [i \in 1..n |-> inbound[i].id]
              /\ got' = got \o out'
              /\ inbound' = DropFirst(inbound, n)
              /\ UNCHANGED lost
           \/ \E k \in 1..n : Readable(k - 1) /\ Refused(inbound[k]) /\ RecvFails(k - 1, k)
           \/ \E k \in 0..n : k < wanted /\ Readable(k) /\ RecvFails(k, k)
        /\ UNCHANGED <<backend, made, bad, batch, discarded, taken, free_slots, arena, rx,
                       wire, arrived>>

\* the caller drops what it received
Clear ==
    /\ out # <<>> /\ out' = <<>>
    /\ UNCHANGED <<backend, made, bad, batch, discarded, taken, free_slots, arena, rx, wire,
                   inbound, arrived, got, lost>>

\* the kernel transmits a frame, and a datagram arrives (external)
Transmit ==
    /\ wire # <<>> /\ wire' = Tail(wire)
    /\ UNCHANGED <<backend, made, bad, batch, discarded, taken, free_slots, arena, rx, inbound,
                   arrived, out, got, lost>>
Arrive ==
    /\ backend # "loopback" /\ arrived < MaxFrames
    /\ arrived' = arrived + 1
    /\ \E k \in {"packet", "short", "full"} :
          inbound' = Append(inbound, [id |-> arrived', kind |-> k])
    /\ UNCHANGED <<backend, made, bad, batch, discarded, taken, free_slots, arena, rx, wire,
                   out, got, lost>>

Next == Make \/ Send \/ GiveUp \/ Clear \/ Transmit \/ Arrive
        \/ \E max \in 1..PoolFrames : RecvLoopback(max) \/ RecvTun(max)

Spec == Init /\ [][Next]_vars

-----------------------------------------------------------------------------
(* Properties *)

TypeOK == /\ Elements(batch) \subseteq 1..made /\ bad \subseteq 1..made
          /\ FreeFrames \in 0..PoolFrames /\ Len(rx) <= KernelSlots

Increasing(s) == \A i, j \in DOMAIN s : i < j => s[i] < s[j]

\* A frame is accepted at most once and in the order of the batch, is with the
\* caller until then, and is never accepted when the device refuses it.  The
\* loopback device returns exactly what it accepted, in order, whatever slots
\* it reuses; a TUN device returns what arrived in order, and what it leaves out
\* was read in a call that reported an error.
FramesConserved ==
    /\ Increasing(taken) /\ Elements(taken) \cap bad = {}
    /\ Elements(taken) \cup Elements(batch) \cup discarded = 1..made
    /\ Len(taken) + Len(batch) + Cardinality(discarded) = made
    /\ backend = "loopback" =>
         /\ taken = got \o [i \in DOMAIN rx |-> arena[rx[i]]]
         /\ Elements(rx) \cup Elements(free_slots) = Slots
         /\ Len(rx) + Len(free_slots) = KernelSlots
    /\ backend # "loopback" =>
         /\ Increasing(got)
         /\ Elements(got) \cup lost \cup {inbound[i].id : i \in DOMAIN inbound} = 1..arrived
         /\ Elements(got) \cap lost = {}
=============================================================================
