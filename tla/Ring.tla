-------------------------------- MODULE Ring --------------------------------
(***************************************************************************)
(* One shared-memory descriptor ring of the AF_XDP socket: two wrapping    *)
(* u32 counters and a descriptor array, written by one side and read by    *)
(* the other.  The producer side is UMem::fill_push and XskSocket::tx_push *)
(* (the same code twice), the consumer side XskSocket::rx_pop and          *)
(* UMem::cq_pop.  On a real ring one of the sides is the kernel, which     *)
(* follows the same protocol.  Every access to shared memory is a step of  *)
(* its own, so the two sides interleave inside a push and inside a pop.    *)
(***************************************************************************)
EXTENDS Naturals, Sequences

CONSTANTS Entries,    \* ring size, a power of two (validate_ring_size)
          Modulus,    \* counters are kept modulo this; 2^32 in the code
          Descs,      \* descriptors
          MaxBatch    \* longest batch offered to a push or asked of a pop

\* What the constants have to satisfy.
RingAssumption ==
    /\ Entries \in Nat \ {0} /\ Modulus \in Nat /\ MaxBatch \in Nat \ {0}
    /\ Descs # {}
    /\ Entries < Modulus          \* ring sizes are at most 2^30
    /\ Modulus % Entries = 0

VARIABLES
    producer, consumer,   \* the shared counters
    desc,                 \* the shared descriptor array
    cachedProducer,       \* producer side: its own counter
    cachedConsumer,       \* producer side: last consumer read, plus Entries
    batch, written,       \* producer side: descriptors to publish, and how many are written
    cachedRx,             \* consumer side: its own counter
    toRead, popped,       \* consumer side: descriptors to read, and those read so far
    delivered             \* consumer side: the batch the last pop returned

producerVars == <<producer, desc, cachedProducer, cachedConsumer, batch, written>>
consumerVars == <<consumer, cachedRx, toRead, popped, delivered>>
vars == <<producerVars, consumerVars>>

\* u32::wrapping_add, u32::wrapping_sub
WrappingAdd(a, b) == (a + b) % Modulus
WrappingSub(a, b) == (a + Modulus - b) % Modulus
Index(i) == i % Entries
Least(a, b) == IF a < b THEN a ELSE b

Init ==
    /\ producer = 0 /\ consumer = 0
    /\ desc \in [0..(Entries - 1) -> {CHOOSE d \in Descs : TRUE}]
    /\ cachedProducer = 0 /\ cachedConsumer = Entries
    /\ batch = <<>> /\ written = 0
    /\ cachedRx = 0 /\ toRead = 0 /\ popped = <<>> /\ delivered = <<>>

-----------------------------------------------------------------------------
(* Producer side *)

\* Faulty variant of the definition that follows it, for mutation checks.
RefreshedConsumerOffByOne(needed) ==
    IF WrappingSub(cachedConsumer, cachedProducer) < needed
    THEN WrappingAdd(consumer, Entries + 1)
    ELSE cachedConsumer

\* The consumer counter is loaded only when the cached space is too small.
RefreshedConsumer(needed) ==
    IF WrappingSub(cachedConsumer, cachedProducer) < needed
    THEN WrappingAdd(consumer, Entries)
    ELSE cachedConsumer

\* fill_free_slots / tx_free_slots, and the truncation of the batch to what fits
PushStart(addrs) ==
    LET limit == RefreshedConsumer(Len(addrs))
        n == Least(Len(addrs), WrappingSub(limit, cachedProducer))
    IN  /\ batch = <<>>
        /\ cachedConsumer' = limit
        /\ batch' = SubSeq(addrs, 1, n)
        /\ UNCHANGED <<producer, desc, cachedProducer, written, consumerVars>>

\* write_desc64 / write_desc16
WriteDesc ==
    /\ written < Len(batch)
    /\ desc' = [desc EXCEPT ![Index(WrappingAdd(cachedProducer, written))] = batch[written + 1]]
    /\ written' = written + 1
    /\ UNCHANGED <<producer, cachedProducer, cachedConsumer, batch, consumerVars>>

\* Faulty variant of the definition that follows it, for mutation checks.
PublishEarly ==
    /\ batch # <<>>
    /\ cachedProducer' = WrappingAdd(cachedProducer, Len(batch))
    /\ producer' = cachedProducer'
    /\ batch' = <<>> /\ written' = 0
    /\ UNCHANGED <<desc, cachedConsumer, consumerVars>>

\* producer_store, after every descriptor of the batch is in place
Publish ==
    /\ batch # <<>> /\ written = Len(batch)
    /\ cachedProducer' = WrappingAdd(cachedProducer, Len(batch))
    /\ producer' = cachedProducer'
    /\ batch' = <<>> /\ written' = 0
    /\ UNCHANGED <<desc, cachedConsumer, consumerVars>>

-----------------------------------------------------------------------------
(* Consumer side *)

\* producer_load: one look at the producer bounds the batch.  The caller
\* clears the vector the descriptors go to.
PopStart(max) ==
    /\ toRead = 0
    /\ toRead' = Least(max, WrappingSub(producer, cachedRx))
    /\ delivered' = <<>>
    /\ UNCHANGED <<producerVars, consumer, cachedRx, popped>>

\* desc16 / desc64
ReadDesc ==
    /\ Len(popped) < toRead
    /\ popped' = Append(popped, desc[Index(WrappingAdd(cachedRx, Len(popped)))])
    /\ UNCHANGED <<producerVars, consumer, cachedRx, toRead, delivered>>

\* consumer_store hands the slots back to the producer
Release ==
    /\ toRead > 0 /\ Len(popped) = toRead
    /\ cachedRx' = WrappingAdd(cachedRx, toRead)
    /\ consumer' = cachedRx'
    /\ delivered' = popped
    /\ toRead' = 0 /\ popped' = <<>>
    /\ UNCHANGED producerVars

-----------------------------------------------------------------------------
Batches == UNION {[1..k -> Descs] : k \in 1..MaxBatch}

Next ==
    \/ \E addrs \in Batches : PushStart(addrs)
    \/ WriteDesc
    \/ Publish
    \/ \E max \in 1..MaxBatch : PopStart(max)
    \/ ReadDesc
    \/ Release

Spec == Init /\ [][Next]_vars

-----------------------------------------------------------------------------
(* Properties *)

TypeOK ==
    /\ {producer, consumer, cachedProducer, cachedConsumer, cachedRx} \subseteq 0..(Modulus - 1)
    /\ desc \in [0..(Entries - 1) -> Descs]
    /\ batch \in Seq(Descs) /\ Len(batch) <= Entries /\ written \in 0..Len(batch)
    /\ toRead \in 0..Entries /\ popped \in Seq(Descs) /\ Len(popped) <= toRead
    /\ delivered \in Seq(Descs)

Published == WrappingSub(producer, consumer)
SlotsWritten == {Index(WrappingAdd(cachedProducer, i)) : i \in 0..(Len(batch) - 1)}
SlotsRead == {Index(WrappingAdd(cachedRx, i)) : i \in Len(popped)..(toRead - 1)}

\* A push in progress (fill_push, tx_push) never writes a slot that a pop in
\* progress (rx_pop, cq_pop) still has to read: the plain descriptor accesses
\* of the two sides never race, across u32 rollover and with a stale cached
\* consumer.
NoSlotRace == SlotsWritten \cap SlotsRead = {}

\* The ring implements a bounded FIFO: a published batch is delivered once,
\* in order, unaltered, and never more than Entries descriptors are
\* outstanding ("Index arithmetic wraps across u32 rollover.  Descriptor
\* writes happen before release publication; consumption follows acquire
\* loads", docs/design.md).
Fifo == INSTANCE BoundedFifo WITH
    Capacity <- Entries,
    offered <- batch,
    queue <- [k \in 1..Published |-> desc[Index(WrappingAdd(consumer, k - 1))]]
ImplementsFifo == Fifo!Spec /\ [](TypeOK /\ NoSlotRace)
=============================================================================
