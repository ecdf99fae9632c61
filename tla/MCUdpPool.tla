----------------------------- MODULE MCUdpPool -----------------------------
(* Two configurations of the pool, one of which each behaviour has: the fair *)
(* queue with pacing of the whole pool and two local endpoints, and the FIFO *)
(* with three peers (more than MaxTxPeers) and a lifetime for every datagram.*)
EXTENDS UdpPool

VARIABLE config

Fifo == INSTANCE UdpPool WITH
    NumPeers <- 3, Sources <- {CHOOSE s \in Sources : TRUE}, FairQueue <- FALSE,
    Spacing <- 0, PeerSpacing <- 1,
    Lifetime <- 2, Ticks <- {1}, Healthy <- {}

poolVars == <<config, vars>>

PoolInit ==
    \/ config = "fair" /\ Init
    \/ config = "fifo" /\ Fifo!Init

PoolNext ==
    /\ config' = config
    /\ \/ config = "fair" /\ Next
       \/ config = "fifo" /\ Fifo!Next

\* Fairness of UdpPool, for the fair queue.
FairMode(A) == config = "fair" /\ config' = config /\ A
PoolSpec ==
    /\ PoolInit /\ [][PoolNext]_poolVars
    /\ WF_poolVars(FairMode(FlushStep)) /\ WF_poolVars(FairMode(RecvDone))
    /\ SF_poolVars(FairMode(\E d \in Ticks \ {0} : Poll(d)))
    /\ \A p \in Healthy : SF_poolVars(FairMode(SubmitTo(p)))

-----------------------------------------------------------------------------
(* The properties of UdpPool, each of the configuration of the behaviour *)

\* Every admitted datagram is queued or has had exactly one outcome, and the
\* scheduler's counts and limits are those of its queue.
PoolOneOutcome == IF config = "fair" THEN OneOutcome ELSE Fifo!OneOutcome

\* Nothing stays queued for an endpoint that is gone or past its deadline.
PoolQueueCurrent == IF config = "fair" THEN QueueCurrent ELSE Fifo!QueueCurrent

\* What flush offers comes no sooner than one spacing after its destination
\* was last served, and one global spacing after any was.
PoolOffersPaced == IF config = "fair" THEN OffersPaced ELSE Fifo!OffersPaced

\* In fair mode a blocked peer does not hold up a healthy one as long as tx_budget
\* leaves an attempt for it.
PoolHealthyServed == config = "fair" => HealthyServed
=============================================================================
