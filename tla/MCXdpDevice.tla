----------------------------- MODULE MCXdpDevice -----------------------------
(* The AF_XDP device and, each in behaviours of its own, the parts it is     *)
(* made of: its rings, its free list and its redirect program.  The device   *)
(* abstracts from what they do inside, so they share no state with it here.  *)
EXTENDS XdpDevice, TLC

CONSTANTS
    Entries, Modulus, Items, MaxBatch,       \* Ring
    NumFrames,                               \* FramePool
    Queues, Queue, None                      \* XskProgram

VARIABLES
    part,                                    \* the part this behaviour is about
    producer, consumer, desc, cachedProducer, cachedConsumer, batch, written, cachedRx,
    toRead, popped, delivered,
    free_list, free_count, in_use, holders, held, overdrawn,
    host, hook, opening, config, left, attach_mode, link_fd, detach_mode, bound, stocked,
    xskmap, refcnt, forsaken

Rings == INSTANCE Ring WITH Descs <- Items
Pool == INSTANCE FramePool WITH handles <- holders, kernel <- held, panicked <- overdrawn
Program == INSTANCE XskProgram WITH kernel <- host, at <- opening

ASSUME PartsAssumption == Rings!RingAssumption /\ Pool!PoolAssumption

FrameSymmetry == Permutations(Frames)

itemVars == <<producer, consumer, desc, cachedProducer, cachedConsumer, batch, written,
              cachedRx, toRead, popped, delivered>>
listVars == <<free_list, free_count, in_use, holders, held, overdrawn>>
programVars == <<host, hook, opening, config, left, attach_mode, link_fd, detach_mode, bound,
                 stocked, xskmap, refcnt, forsaken>>
allVars == <<part, vars, itemVars, listVars, programVars>>

PartsInit ==
    /\ part \in {"device", "ring", "pool", "program"}
    /\ Init /\ Rings!Init /\ Pool!Init /\ Program!Init
    /\ part # "program" => host = [link |-> TRUE, native |-> TRUE, zerocopy |-> TRUE]

Others(p) ==
    /\ part = p /\ part' = part
    /\ IF p = "device" THEN TRUE ELSE UNCHANGED vars
    /\ IF p = "ring" THEN TRUE ELSE UNCHANGED itemVars
    /\ IF p = "pool" THEN TRUE ELSE UNCHANGED listVars
    /\ IF p = "program" THEN TRUE ELSE UNCHANGED programVars

PartsNext ==
    \/ Others("device") /\ Next
    \/ Others("ring") /\ Rings!Next
    \/ Others("pool") /\ Pool!Next
    \/ Others("program") /\ Program!Next

PartsSpec == PartsInit /\ [][PartsNext]_allVars

-----------------------------------------------------------------------------
(* Properties, of the module of each part (NoAlias, CountersMatch and        *)
(* SingleOwner are those of XdpDevice)                                       *)

\* The parts are what XdpDevice takes them for.  A ring is a bounded FIFO of
\* whole batches, across u32 rollover, and fill_push and tx_push never write a
\* slot that rx_pop or cq_pop has to read.  The pool's free list holds exactly
\* the frames nobody holds, so that the assertions of mark_used never fail.
PartsSound ==
    /\ Rings!ImplementsFifo
    /\ [](part = "pool" => Pool!TypeOK /\ Pool!FreeListExact /\ Pool!NoPanic)

\* The device removes its own program, unless the netlink request to do so fails,
\* and nobody else's, whoever attaches or replaces one in between; it redirects
\* nothing into an unready socket, and what it could not remove passes every packet.
ProgramOwned ==
    /\ [](part = "program" => Program!TypeOK /\ Program!Contained)
    /\ Program!OthersUntouched
=============================================================================
