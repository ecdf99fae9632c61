------------------------------ MODULE XdpWakeup ------------------------------
(***************************************************************************)
(* Wakeups between XdpDevice and a kernel that goes to sleep.  The kernel  *)
(* stops serving a ring when it finds nothing to do and then sets          *)
(* NEED_WAKEUP; a publication that falls between the look and the flag is  *)
(* not noticed, and the flag that would say so is read too early.  Frames  *)
(* are counted here, not named: XdpDevice is about which frame is where.   *)
(***************************************************************************)
EXTENDS Naturals

CONSTANTS MaxSends,    \* frames the application sends
          MaxPackets,  \* packets that arrive from the wire
          RxFrames     \* frames of the RX side

\* What the constants have to satisfy.
WakeupAssumption == {MaxSends, MaxPackets, RxFrames} \subseteq Nat \ {0}

VARIABLES
    pc,                  \* what the call in progress does next
    sent, tx_pending,    \* frames sent; frames not yet reaped
    received,            \* packets recv has returned
    rxFree,              \* RX frames on the free list
    txq, cq, fq, rxq,    \* entries of the rings
    wire, arrived,       \* packets the NIC holds; packets that ever arrived
    txKernel, rxKernel,  \* "run", "stopping" (has seen no work) or "sleep"
    txFlag, fillFlag,    \* NEED_WAKEUP of the TX and the fill ring
    needWakeup           \* need_wakeup_enabled(): the kernel reports flags at all

userVars == <<pc, sent, tx_pending, received, rxFree>>
kernelVars == <<txKernel, rxKernel, txFlag, fillFlag, needWakeup>>
vars == <<userVars, txq, cq, fq, rxq, wire, arrived, kernelVars>>

Init ==
    /\ pc = "idle" /\ sent = 0 /\ tx_pending = 0 /\ received = 0
    /\ rxFree = 0 /\ fq = RxFrames     \* with_config refills
    /\ txq = 0 /\ cq = 0 /\ rxq = 0 /\ wire = 0 /\ arrived = 0
    /\ txKernel = "run" /\ rxKernel = "run"
    /\ txFlag = FALSE /\ fillFlag = FALSE
    /\ needWakeup \in BOOLEAN

-----------------------------------------------------------------------------
(* Device *)

\* send: publish, then wake_tx
SendPush ==
    /\ pc = "idle" /\ sent < MaxSends
    /\ sent' = sent + 1 /\ txq' = txq + 1
    /\ tx_pending' = tx_pending - cq + 1 /\ cq' = 0
    /\ pc' = "send.wake"
    /\ UNCHANGED <<received, rxFree, fq, rxq, wire, arrived, kernelVars>>

\* recv, progress: drain_cq, then refill
Drain ==
    /\ pc = "idle"
    /\ tx_pending' = tx_pending - cq /\ cq' = 0
    /\ pc' = "refill"
    /\ UNCHANGED <<sent, received, rxFree, txq, fq, rxq, wire, arrived, kernelVars>>

Refill ==
    /\ pc = "refill"
    /\ fq' = fq + rxFree /\ rxFree' = 0
    /\ pc' = "rx.wake"
    /\ UNCHANGED <<sent, tx_pending, received, txq, cq, rxq, wire, arrived, kernelVars>>

\* Faulty variant of the definition that follows it, for mutation checks.
WakeTxOnlyInSend ==
    /\ pc \in {"tx.wake", "send.wake"}
    /\ IF pc = "send.wake" /\ (~needWakeup \/ txFlag)
       THEN txKernel' = "run" /\ txFlag' = FALSE
       ELSE UNCHANGED <<txKernel, txFlag>>
    /\ pc' = IF pc = "tx.wake" THEN "rx.pop" ELSE "idle"
    /\ UNCHANGED <<sent, tx_pending, received, rxFree, txq, cq, fq, rxq, wire, arrived,
                   rxKernel, fillFlag, needWakeup>>

\* The end of refill: poll() on the socket, whether or not anything was published
WakeRx ==
    /\ pc = "rx.wake"
    /\ IF ~needWakeup \/ fillFlag
       THEN rxKernel' = "run" /\ fillFlag' = FALSE
       ELSE UNCHANGED <<rxKernel, fillFlag>>
    /\ pc' = "tx.wake"
    /\ UNCHANGED <<sent, tx_pending, received, rxFree, txq, cq, fq, rxq, wire, arrived,
                   txKernel, txFlag, needWakeup>>

\* wake_tx, at the end of progress while frames are pending and at the end of send
WakeTx ==
    /\ pc \in {"tx.wake", "send.wake"}
    /\ IF tx_pending > 0 /\ (~needWakeup \/ txFlag)
       THEN txKernel' = "run" /\ txFlag' = FALSE
       ELSE UNCHANGED <<txKernel, txFlag>>
    /\ pc' = IF pc = "tx.wake" THEN "rx.pop" ELSE "idle"
    /\ UNCHANGED <<sent, tx_pending, received, rxFree, txq, cq, fq, rxq, wire, arrived,
                   rxKernel, fillFlag, needWakeup>>

\* rx_pop; the application looks at the packets and drops them
RxPop ==
    /\ pc = "rx.pop"
    /\ received' = received + rxq /\ rxFree' = rxFree + rxq /\ rxq' = 0
    /\ pc' = "idle"
    /\ UNCHANGED <<sent, tx_pending, txq, cq, fq, wire, arrived, kernelVars>>

-----------------------------------------------------------------------------
(* Kernel and wire *)

Arrive ==
    /\ arrived < MaxPackets
    /\ arrived' = arrived + 1 /\ wire' = wire + 1
    /\ UNCHANGED <<userVars, txq, cq, fq, rxq, kernelVars>>

KernelTransmit ==
    /\ txKernel = "run" /\ txq > 0
    /\ txq' = txq - 1 /\ cq' = cq + 1
    /\ UNCHANGED <<userVars, fq, rxq, wire, arrived, kernelVars>>

KernelReceive ==
    /\ rxKernel = "run" /\ wire > 0 /\ fq > 0
    /\ wire' = wire - 1 /\ fq' = fq - 1 /\ rxq' = rxq + 1
    /\ UNCHANGED <<userVars, txq, cq, arrived, kernelVars>>

\* The kernel looks, finds no work, and only then raises the flag and stops.
KernelTxStop ==
    \/ /\ txKernel = "run" /\ txq = 0 /\ txKernel' = "stopping"
       /\ UNCHANGED <<userVars, txq, cq, fq, rxq, wire, arrived, rxKernel, txFlag, fillFlag, needWakeup>>
    \/ /\ txKernel = "stopping" /\ txKernel' = "sleep" /\ txFlag' = TRUE
       /\ UNCHANGED <<userVars, txq, cq, fq, rxq, wire, arrived, rxKernel, fillFlag, needWakeup>>

KernelRxStop ==
    \/ /\ rxKernel = "run" /\ fq = 0 /\ rxKernel' = "stopping"
       /\ UNCHANGED <<userVars, txq, cq, fq, rxq, wire, arrived, txKernel, txFlag, fillFlag, needWakeup>>
    \/ /\ rxKernel = "stopping" /\ rxKernel' = "sleep" /\ fillFlag' = TRUE
       /\ UNCHANGED <<userVars, txq, cq, fq, rxq, wire, arrived, txKernel, txFlag, needWakeup>>

-----------------------------------------------------------------------------
Call == Drain \/ Refill \/ WakeRx \/ WakeTx \/ RxPop
Kernel == KernelTransmit \/ KernelReceive \/ KernelTxStop \/ KernelRxStop

Next == SendPush \/ Call \/ Kernel \/ Arrive

\* The application polls the device for ever, and a kernel that runs makes
\* progress on each ring.  Nobody has to send, and no packet has to arrive.
Fairness ==
    /\ WF_vars(Call)
    /\ WF_vars(KernelTransmit) /\ WF_vars(KernelReceive)
    /\ WF_vars(KernelTxStop) /\ WF_vars(KernelRxStop)

Spec == Init /\ [][Next]_vars /\ Fairness

-----------------------------------------------------------------------------
(* Properties *)

\* No wakeup is lost.  Every frame that send accepted is transmitted and
\* reaped, although the flag may be raised after send has looked at it, because
\* progress looks again while frames are pending; and a packet the NIC holds is
\* received although the kernel may raise the fill flag after a refill has
\* looked at it, because refill looks at the flag on every call ("Check even
\* when no new entries were published: NEED_WAKEUP can change while idle").
NoLostWakeup == <>[](tx_pending = 0 /\ received = arrived)
=============================================================================
