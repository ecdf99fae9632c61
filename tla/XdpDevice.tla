------------------------------ MODULE XdpDevice ------------------------------
(***************************************************************************)
(* Frame ownership in XdpDevice: one arena of frames that move between the *)
(* free list of the FramePool, PacketBuf handles of the application, the   *)
(* four rings and the kernel.  A call of the device touches the completion,*)
(* fill, RX and TX rings one after the other, and the kernel runs between  *)
(* two of them, so a call is a sequence of steps joined by pc.  The rings  *)
(* are bounded queues (module Ring shows that they are).                   *)
(*                                                                         *)
(* The kernel is external.  A correct kernel moves only frames it was      *)
(* given; KernelFault lets it also write descriptors out of the blue, up   *)
(* to MaxFaults times, which is what the state table of the device is for. *)
(***************************************************************************)
EXTENDS Integers, Sequences, FiniteSets

CONSTANTS Frames, Bad,          \* frame indices; a descriptor decode_rx rejects
          FillEntries, CqEntries, RxEntries, TxEntries,
          BatchSize, TxReserve, \* XdpConfig::batch_size, tx_reserve
          MaxFaults             \* descriptors the kernel may invent

ASSUME XdpAssumption ==
    /\ IsFiniteSet(Frames) /\ Bad \notin Frames
    /\ {FillEntries, CqEntries, RxEntries, TxEntries, BatchSize} \subseteq Nat \ {0}
    /\ TxReserve \in Nat /\ TxReserve < Cardinality(Frames)
    /\ MaxFaults \in Nat

VARIABLES
    free,        \* FramePool: the free list
    handles,     \* live PacketBufs of each frame
    state,       \* XdpDevice::state
    rx_owned, tx_pending,
    invalid,     \* XdpCounters::invalid_descriptors
    pc,          \* what the call in progress does next
    panicked,    \* an assert or a checked subtraction failed
    fq, fqHeld,  \* fill ring: entries the kernel has not taken; slots taken but not given back
    txq, txHeld, \* TX ring, likewise
    rxq, cq,     \* RX and completion rings, oldest first
    nicRx, nicTx,\* frames the kernel took from the fill and TX rings
    faults

poolVars == <<free, handles>>
deviceVars == <<state, rx_owned, tx_pending, invalid, pc, panicked>>
ringVars == <<fq, fqHeld, txq, txHeld, rxq, cq>>
kernelVars == <<nicRx, nicTx, faults>>
vars == <<poolVars, deviceVars, ringVars, kernelVars>>

Least(a, b) == IF a < b THEN a ELSE b
Elements(s) == {s[i] : i \in DOMAIN s}
Descs == Frames \cup {Bad}

rx_target == Least(FillEntries, Cardinality(Frames) - TxReserve)

With(f, S, v) == [x \in DOMAIN f |-> IF x \in S THEN v ELSE f[x]]

InState(s) == {f \in Frames : state[f] = s}

-----------------------------------------------------------------------------
(* Device steps *)

\* with_config ends with a refill, before the socket is wired to the map.
Init ==
    \E S \in SUBSET Frames :
        /\ Cardinality(S) = rx_target
        /\ free = Frames \ S
        /\ handles = [f \in Frames |-> 0]
        /\ state = [f \in Frames |-> IF f \in S THEN "RX_KERNEL" ELSE "FREE"]
        /\ rx_owned = rx_target /\ tx_pending = 0 /\ invalid = 0
        /\ pc = "idle" /\ panicked = FALSE
        /\ fq = S /\ fqHeld = 0 /\ txq = {} /\ txHeld = 0 /\ rxq = <<>> /\ cq = <<>>
        /\ nicRx = {} /\ nicTx = {} /\ faults = 0

\* drain_cq: only a frame the table says is with the TX side goes back to the
\* pool, once, however often its address is in the batch.
DrainCq ==
    LET n == Least(BatchSize, Len(cq))
        valid == {f \in Elements(SubSeq(cq, 1, n)) : f \in Frames /\ state[f] = "TX_KERNEL"}
    IN  /\ cq' = SubSeq(cq, n + 1, Len(cq))
        /\ state' = With(state, valid, "FREE")
        /\ free' = free \cup valid
        /\ tx_pending' = tx_pending - Cardinality(valid)
        /\ invalid' = invalid + n - Cardinality(valid)
        /\ panicked' = (panicked \/ valid \cap free # {} \/ tx_pending < Cardinality(valid))

\* The calls that start by draining the completion ring.  alloc does so (in
\* progress) only when the pool is empty.
CallStart(next) ==
    /\ pc = "idle"
    /\ next = "alloc" => free = {}
    /\ DrainCq
    /\ pc' = next
    /\ UNCHANGED <<handles, rx_owned, fq, fqHeld, txq, txHeld, rxq, kernelVars>>

AfterRefill == [progress |-> "idle", recv |-> "recv.pop", alloc |-> "alloc.take"]

RefillBudget ==
    LET spare == Cardinality(free) - TxReserve
    IN  IF spare < 0 THEN 0 ELSE Least(rx_target - rx_owned, spare)

\* Faulty variant of the definition that follows it, for mutation checks.
RefillLosesRest ==
    LET limit == Least(RefillBudget, BatchSize)
        pushed == Least(limit, FillEntries - (Cardinality(fq) + fqHeld))
    IN  /\ pc \in DOMAIN AfterRefill
        /\ \E taken \in SUBSET free : \E S \in SUBSET taken :
            /\ Cardinality(taken) = limit /\ Cardinality(S) = pushed
            /\ free' = free \ taken
            /\ fq' = fq \cup S
            /\ state' = With(state, S, "RX_KERNEL")
        /\ rx_owned' = rx_owned + pushed
        /\ panicked' = (panicked \/ rx_owned > rx_target)
        /\ pc' = IF pushed = limit /\ pushed < RefillBudget THEN pc ELSE AfterRefill[pc]
        /\ UNCHANGED <<handles, tx_pending, invalid, fqHeld, txq, txHeld, rxq, cq, kernelVars>>

\* refill: one turn of its loop.  A batch that did not fit returns its rest to
\* the pool and ends the loop; the kernel may give slots back between batches.
Refill ==
    LET limit == Least(RefillBudget, BatchSize)
        pushed == Least(limit, FillEntries - (Cardinality(fq) + fqHeld))
    IN  /\ pc \in DOMAIN AfterRefill
        /\ \E S \in SUBSET free :
            /\ Cardinality(S) = pushed
            /\ free' = free \ S
            /\ fq' = fq \cup S
            /\ state' = With(state, S, "RX_KERNEL")
        /\ rx_owned' = rx_owned + pushed
        /\ panicked' = (panicked \/ rx_owned > rx_target)
        /\ pc' = IF pushed = limit /\ pushed < RefillBudget THEN pc ELSE AfterRefill[pc]
        /\ UNCHANGED <<handles, tx_pending, invalid, fqHeld, txq, txHeld, rxq, cq, kernelVars>>

\* Faulty variant of the definition that follows it, for mutation checks.
RecvPopTrusting(max) ==
    LET n == Least(Least(max, BatchSize), Len(rxq))
        good == {f \in Elements(SubSeq(rxq, 1, n)) : f \in Frames}
    IN  /\ pc = "recv.pop"
        /\ rxq' = SubSeq(rxq, n + 1, Len(rxq))
        /\ state' = With(state, good, "APP")
        /\ handles' = [f \in Frames |-> IF f \in good THEN handles[f] + 1 ELSE handles[f]]
        /\ rx_owned' = rx_owned - Cardinality(good)
        /\ invalid' = invalid + n - Cardinality(good)
        /\ panicked' = (panicked \/ rx_owned < Cardinality(good))
        /\ pc' = "idle"
        /\ UNCHANGED <<free, tx_pending, fq, fqHeld, txq, txHeld, cq, kernelVars>>

\* recv, after progress: a descriptor that does not decode, or whose frame is
\* not with the RX side, is counted and its frame never becomes a handle.
RecvPop(max) ==
    LET n == Least(Least(max, BatchSize), Len(rxq))
        good == {f \in Elements(SubSeq(rxq, 1, n)) : f \in Frames /\ state[f] = "RX_KERNEL"}
    IN  /\ pc = "recv.pop"
        /\ rxq' = SubSeq(rxq, n + 1, Len(rxq))
        /\ state' = With(state, good, "APP")
        /\ handles' = [f \in Frames |-> IF f \in good THEN handles[f] + 1 ELSE handles[f]]
        /\ rx_owned' = rx_owned - Cardinality(good)
        /\ invalid' = invalid + n - Cardinality(good)
        /\ panicked' = (panicked \/ rx_owned < Cardinality(good))
        /\ pc' = "idle"
        /\ UNCHANGED <<free, tx_pending, fq, fqHeld, txq, txHeld, cq, kernelVars>>

\* alloc and alloc_batch: take up to max frames off the free list.
TakeFrames(max) ==
    \E S \in SUBSET free :
        /\ Cardinality(S) = Least(max, Cardinality(free))
        /\ free' = free \ S
        /\ handles' = [f \in Frames |-> IF f \in S THEN handles[f] + 1 ELSE handles[f]]
        /\ state' = With(state, S, "APP")
        /\ pc' = "idle"
        /\ UNCHANGED <<rx_owned, tx_pending, invalid, panicked, ringVars, kernelVars>>

Alloc ==
    /\ pc = "alloc.take" \/ (pc = "idle" /\ free # {})
    /\ TakeFrames(1)

AllocBatch(max) == pc = "batch" /\ TakeFrames(Least(max, BatchSize))

\* send, after drain_cq: the accepted prefix is validated before any of it is
\* consumed; its frames leave their handles for the TX ring.  A rejected batch
\* (an empty or a foreign buffer) is T = {}.
SendPush(T) ==
    /\ pc = "send"
    /\ \A f \in T : handles[f] > 0
    /\ Cardinality(T) <= Least(BatchSize, TxEntries - (Cardinality(txq) + txHeld))
    /\ state' = With(state, T, "TX_KERNEL")
    /\ handles' = [f \in Frames |-> IF f \in T THEN handles[f] - 1 ELSE handles[f]]
    /\ txq' = txq \cup T
    /\ tx_pending' = tx_pending + Cardinality(T)
    /\ pc' = "idle"
    /\ UNCHANGED <<free, rx_owned, invalid, panicked, fq, fqHeld, txHeld, rxq, cq, kernelVars>>

\* PacketBuf::drop returns the frame to the pool; the table keeps its entry.
DropBuf(f) ==
    /\ pc = "idle" /\ handles[f] > 0
    /\ handles' = [handles EXCEPT ![f] = @ - 1]
    /\ free' = free \cup {f}
    /\ panicked' = (panicked \/ f \in free)
    /\ UNCHANGED <<state, rx_owned, tx_pending, invalid, pc, ringVars, kernelVars>>

-----------------------------------------------------------------------------
(* Kernel steps *)

\* The kernel caches a fill entry before it advances the shared consumer.
KernelTakeFill(f) ==
    /\ f \in fq
    /\ fq' = fq \ {f} /\ fqHeld' = fqHeld + 1 /\ nicRx' = nicRx \cup {f}
    /\ UNCHANGED <<poolVars, deviceVars, txq, txHeld, rxq, cq, nicTx, faults>>

KernelReleaseFill ==
    /\ fqHeld > 0 /\ fqHeld' = 0
    /\ UNCHANGED <<poolVars, deviceVars, fq, txq, txHeld, rxq, cq, kernelVars>>

KernelRx(f) ==
    /\ f \in nicRx /\ Len(rxq) < RxEntries
    /\ nicRx' = nicRx \ {f} /\ rxq' = Append(rxq, f)
    /\ UNCHANGED <<poolVars, deviceVars, fq, fqHeld, txq, txHeld, cq, nicTx, faults>>

KernelTakeTx(f) ==
    /\ f \in txq
    /\ txq' = txq \ {f} /\ txHeld' = txHeld + 1 /\ nicTx' = nicTx \cup {f}
    /\ UNCHANGED <<poolVars, deviceVars, fq, fqHeld, rxq, cq, nicRx, faults>>

KernelReleaseTx ==
    /\ txHeld > 0 /\ txHeld' = 0
    /\ UNCHANGED <<poolVars, deviceVars, fq, fqHeld, txq, rxq, cq, kernelVars>>

KernelComplete(f) ==
    /\ f \in nicTx /\ Len(cq) < CqEntries
    /\ nicTx' = nicTx \ {f} /\ cq' = Append(cq, f)
    /\ UNCHANGED <<poolVars, deviceVars, fq, fqHeld, txq, txHeld, rxq, nicRx, faults>>

KernelFault(d) ==
    /\ faults < MaxFaults /\ faults' = faults + 1
    /\ \/ Len(rxq) < RxEntries /\ rxq' = Append(rxq, d) /\ UNCHANGED cq
       \/ Len(cq) < CqEntries /\ cq' = Append(cq, d) /\ UNCHANGED rxq
    /\ UNCHANGED <<poolVars, deviceVars, fq, fqHeld, txq, txHeld, nicRx, nicTx>>

-----------------------------------------------------------------------------
Calls == {"progress", "recv", "alloc", "batch", "send"}

Device ==
    \/ \E next \in Calls : CallStart(next)
    \/ Refill
    \/ \E max \in 1..BatchSize : RecvPop(max) \/ AllocBatch(max)
    \/ Alloc
    \/ \E T \in SUBSET Frames : SendPush(T)
    \/ \E f \in Frames : DropBuf(f)

Kernel ==
    \/ \E f \in Frames : KernelTakeFill(f) \/ KernelRx(f) \/ KernelTakeTx(f) \/ KernelComplete(f)
    \/ KernelReleaseFill
    \/ KernelReleaseTx
    \/ \E d \in Descs : KernelFault(d)

Next == Device \/ Kernel

Spec == Init /\ [][Next]_vars

-----------------------------------------------------------------------------
(* Properties *)

TypeOK ==
    /\ free \subseteq Frames /\ handles \in [Frames -> Nat]
    /\ state \in [Frames -> {"FREE", "RX_KERNEL", "APP", "TX_KERNEL"}]
    /\ rx_owned \in Nat /\ tx_pending \in Nat /\ invalid \in Int
    /\ pc \in Calls \cup {"idle", "recv.pop", "alloc.take"}
    /\ panicked \in BOOLEAN
    /\ fq \subseteq Frames /\ fqHeld \in Nat /\ txq \subseteq Frames /\ txHeld \in Nat
    /\ rxq \in Seq(Descs) /\ cq \in Seq(Descs)
    /\ nicRx \subseteq Frames /\ nicTx \subseteq Frames /\ faults \in 0..MaxFaults

\* Whatever descriptors the kernel writes, userspace never holds a frame
\* twice: a frame has at most one live PacketBuf, one that has a PacketBuf is
\* not on the free list, and one the table gives to the RX or TX side is
\* neither (recv, drain_cq and send: "quarantine malformed descriptors, never
\* alias frames").
NoAlias ==
    \A f \in Frames :
        /\ handles[f] <= 1
        /\ handles[f] = 1 => f \notin free /\ state[f] = "APP"
        /\ f \in free => state[f] \in {"FREE", "APP"}

\* The counters are the number of frames the table gives to each side, so the
\* subtractions rx_target - rx_owned in refill, rx_owned -= 1 in recv and
\* tx_pending -= valid in drain_cq never wrap, even with a faulty kernel.
CountersMatch ==
    /\ rx_owned = Cardinality(InState("RX_KERNEL")) /\ rx_owned <= rx_target
    /\ tx_pending = Cardinality(InState("TX_KERNEL"))

\* No assertion of the pool (double-allocated, double-freed) and no checked
\* subtraction of the device fails.
NoPanic == ~panicked

\* With a correct kernel every frame is in exactly one place, the table says
\* which, and no descriptor is ever counted as invalid.
Places(f) == <<f \in free, handles[f] > 0,
               f \in fq, f \in nicRx, f \in Elements(rxq),
               f \in txq, f \in nicTx, f \in Elements(cq)>>
SingleOwner == faults = 0 =>
    /\ \A f \in Frames :
        /\ Cardinality({p \in DOMAIN Places(f) : Places(f)[p]}) = 1
        /\ state[f] = "RX_KERNEL" <=> f \in fq \cup nicRx \cup Elements(rxq)
        /\ state[f] = "TX_KERNEL" <=> f \in txq \cup nicTx \cup Elements(cq)
    /\ invalid = 0

=============================================================================
