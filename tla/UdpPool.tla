------------------------------- MODULE UdpPool -------------------------------
(***************************************************************************)
(* UdpPool and its Scheduler (src/api/mod.rs, src/api/udp/mod.rs):         *)
(* admission, expiry, pacing, round robin between destinations, and what   *)
(* a change of services does to queued datagrams.                          *)
(*                                                                         *)
(* The pool runs on one thread.  flush and poll loop over datagrams, so    *)
(* they take several steps; `at` says where a call is.  As in the adapter, *)
(* a time is what is left until it.  All datagrams have the same size, so  *)
(* the two rates are two spacings.  Destinations are numbers: round robin  *)
(* follows their order.                                                    *)
(***************************************************************************)
EXTENDS Integers, Sequences, FiniteSets, SequencesExt

CONSTANTS
    NumPeers,                        \* destinations are 1..NumPeers
    Sources,                         \* local endpoints
    None,
    FairQueue,                       \* fair_queue
    QueueCapacity, PerPeerCapacity, MaxTxPeers, TxBudget, PeerCapacity,
    Spacing, PeerSpacing,            \* 0 when the rate is not limited
    Lifetime,                        \* queue_lifetime, None when unlimited
    Deadlines,                       \* bound: deadlines senders ask for
    Lease,                           \* lifetime of a discovered service
    Ticks,                           \* bound: how far time moves between polls
    Reconfigure, Errors,             \* whether a run changes services, and whether
                                     \* its device fails unexpectedly
    Healthy                          \* peers the device accepts sooner or later

Peers == 1..NumPeers

ASSUME UdpAssumption ==
    /\ {NumPeers, QueueCapacity, PerPeerCapacity, MaxTxPeers, TxBudget,
        PeerCapacity, Lease} \subseteq Nat \ {0}
    /\ {Spacing, PeerSpacing} \subseteq Nat
    /\ Ticks \subseteq Nat /\ Deadlines \cup {Lifetime} \subseteq (Nat \ {0}) \cup {None}
    /\ FairQueue \in BOOLEAN /\ {Reconfigure, Errors} \subseteq BOOLEAN /\ Healthy \subseteq Peers

VARIABLES
    services,            \* bound local endpoints
    queue,               \* datagrams [source, dest, left], left = None without deadline
    peers,               \* destination -> [count, wait], None when absent
    next, last,          \* global pacing, destination served last (0: none yet)
    discovered,          \* peer -> time left of its lease, None when unknown
    balance,             \* admitted datagrams less reported outcomes
    at, budget, blocked, \* progress of the current call
    since                \* time since a destination was last served, up to PeerSpacing

sched == <<queue, peers, next, last>>
call == <<at, budget, blocked>>
vars == <<services, sched, discovered, balance, call, since>>

Init ==
    /\ services = {}
    /\ queue = <<>> /\ peers = [p \in Peers |-> None] /\ next = 0 /\ last = 0
    /\ discovered = [p \in Peers |-> None]
    /\ balance = 0
    /\ at = "idle" /\ budget = 0 /\ blocked = {}
    /\ since = [p \in Peers |-> PeerSpacing]

-----------------------------------------------------------------------------
After(t, d) == IF t > d THEN t - d ELSE 0

\* Scheduler::remove for every datagram that fails the test.
Queued(p, q) == Len(SelectSeq(q, LAMBDA d : d.dest = p))
Recount(old, new) ==
    [p \in Peers |->
        IF peers[p] = None THEN None
        ELSE [peers[p] EXCEPT !.count = @ - (Queued(p, old) - Queued(p, new))]]

DropWhere(kept) ==
    /\ queue' = kept
    /\ peers' = Recount(queue, kept)
    /\ balance' = balance - (Len(queue) - Len(kept))

Bind(s) ==
    /\ at = "idle" /\ s \notin services
    /\ services' = services \cup {s}
    /\ UNCHANGED <<sched, discovered, balance, call, since>>

Unbind(s) ==
    /\ at = "idle" /\ Reconfigure /\ s \in services
    /\ services' = services \ {s}
    /\ discovered' = [p \in Peers |-> None]
    /\ DropWhere(SelectSeq(queue, LAMBDA d : d.source # s))
    /\ UNCHANGED <<next, last, call, since>>

\* replace_services with a different set: the scheduler starts afresh, its
\* pacing too.
ReplaceServices(set) ==
    /\ at = "idle" /\ Reconfigure /\ set # services
    /\ services' = set
    /\ discovered' = [p \in Peers |-> None]
    /\ queue' = <<>> /\ peers' = [p \in Peers |-> None] /\ next' = 0 /\ last' = 0
    /\ balance' = balance - Len(queue)
    /\ since' = [p \in Peers |-> PeerSpacing]
    /\ UNCHANGED call

-----------------------------------------------------------------------------
\* Faulty variant of the definition that follows it, for mutation checks.
RetainedBusy == [p \in Peers |-> IF peers[p] # None /\ peers[p].count > 0 THEN peers[p] ELSE None]

\* admission first forgets idle destinations that owe no pacing.
Retained ==
    [p \in Peers |-> IF peers[p] # None /\ (peers[p].count > 0 \/ peers[p].wait > 0)
                     THEN peers[p] ELSE None]

\* The limits admission checks.
Admitted(p) ==
    /\ Len(queue) < QueueCapacity
    /\ IF Retained[p] # None
       THEN Retained[p].count < PerPeerCapacity
       ELSE Cardinality({o \in Peers : Retained[o] # None}) < MaxTxPeers

\* The earlier of the sender's deadline and the configured lifetime.
Deadline(option) ==
    IF option = None \/ (Lifetime # None /\ Lifetime < option) THEN Lifetime ELSE option

\* send_with_options, and the replies poll queues itself (discovery, echo).
\* The device may have no frame, in which case only admission has run.
Enqueue(s, p, option) ==
    /\ at \in {"idle", "recv"} /\ (at = "recv" => option = None)
    /\ s \in services
    /\ Admitted(p)
    /\ queue' = Append(queue, [source |-> s, dest |-> p, left |-> Deadline(option)])
    /\ peers' = [Retained EXCEPT ![p] =
                    [count |-> 1 + (IF @ = None THEN 0 ELSE @.count),
                     wait |-> IF @ = None THEN 0 ELSE @.wait]]
    /\ balance' = balance + 1
    /\ UNCHANGED <<services, next, last, discovered, call, since>>

NotEnqueued(s) ==
    /\ at \in {"idle", "recv"} /\ s \in services
    /\ peers' = Retained
    /\ UNCHANGED <<services, queue, next, last, discovered, balance, call, since>>

-----------------------------------------------------------------------------
\* Faulty variant of the definition that follows it, for mutation checks.
LaterKeepsDue(d) ==
    LET late == SelectSeq(queue, LAMBDA q : q.left = None \/ q.left >= d) IN
    [i \in DOMAIN late |-> [late[i] EXCEPT !.left = IF @ = None THEN None ELSE @ - d]]

\* The datagrams that have not expired after d, with the time they have left.
Later(d) ==
    LET late == SelectSeq(queue, LAMBDA q : q.left = None \/ q.left > d) IN
    [i \in DOMAIN late |-> [late[i] EXCEPT !.left = IF @ = None THEN None ELSE @ - d]]

\* advance: time passes and queued datagrams expire.
Elapse(d) ==
    /\ queue' = Later(d)
    /\ peers' = [p \in Peers |->
                   IF peers[p] = None THEN None
                   ELSE [count |-> peers[p].count - (Queued(p, queue) - Queued(p, Later(d))),
                         wait |-> After(peers[p].wait, d)]]
    /\ balance' = balance - (Len(queue) - Len(Later(d)))
    /\ next' = After(next, d)
    /\ since' = [p \in Peers |-> IF since[p] + d > PeerSpacing THEN PeerSpacing ELSE since[p] + d]
    /\ UNCHANGED <<services, last>>

LeaseAfter(d) == [p \in Peers |-> IF discovered[p] = None THEN None ELSE After(discovered[p], d)]

StartFlush(name) == at' = name /\ budget' = TxBudget /\ blocked' = {}

\* advance, and poll when poll_at fails.  Only poll removes what a lease
\* that ran out had discovered.
Advance(d) == at = "idle" /\ Elapse(d) /\ discovered' = LeaseAfter(d) /\ UNCHANGED call
FlushCall == at = "idle" /\ Elapse(0) /\ StartFlush("flush") /\ UNCHANGED discovered

\* poll expires datagrams and leases, flushes, then receives.
Poll(d) ==
    /\ at = "idle"
    /\ Elapse(d)
    /\ discovered' = [p \in Peers |-> IF LeaseAfter(d)[p] = 0 THEN None ELSE LeaseAfter(d)[p]]
    /\ StartFlush("poll")

-----------------------------------------------------------------------------
Flushing == at \in {"flush", "poll"}
Eligible(i) == queue[i].dest \notin blocked /\ peers[queue[i].dest].wait = 0

\* The rank of a queued datagram in fair mode: destinations after the one
\* served last come first, then smaller destinations, then older datagrams.
Rank(i) == <<IF last # 0 /\ queue[i].dest <= last THEN 1 ELSE 0, queue[i].dest, i>>
Precedes(a, b) ==
    \/ a[1] < b[1]
    \/ a[1] = b[1] /\ (a[2] < b[2] \/ (a[2] = b[2] /\ a[3] < b[3]))

\* Faulty variant of the definition that follows it, for mutation checks.
CandidateByDest(i) ==
    /\ Flushing /\ budget > 0 /\ next = 0 /\ Eligible(i)
    /\ \A j \in DOMAIN queue : j # i /\ Eligible(j) =>
         queue[i].dest < queue[j].dest \/ (queue[i].dest = queue[j].dest /\ i < j)

\* candidate: the datagram flush tries next.
Candidate(i) ==
    /\ Flushing /\ budget > 0 /\ next = 0 /\ Eligible(i)
    /\ IF FairQueue
       THEN \A j \in DOMAIN queue : j # i /\ Eligible(j) => Precedes(Rank(i), Rank(j))
       ELSE i = 1

Tried == budget' = budget - 1 /\ UNCHANGED <<services, discovered, at>>

\* The device takes the datagram: pacing is charged and it is Submitted.
Submit(i) ==
    LET p == queue[i].dest IN
    /\ Candidate(i)
    /\ queue' = RemoveAt(queue, i)
    /\ peers' = [peers EXCEPT ![p] = [count |-> @.count - 1, wait |-> PeerSpacing]]
    /\ last' = p /\ next' = Spacing
    /\ since' = [since EXCEPT ![p] = 0]
    /\ balance' = balance - 1
    /\ Tried /\ UNCHANGED blocked

\* Ok(0) or WouldBlock: the datagram stays and its peer is passed over.
Block(i) ==
    /\ Candidate(i)
    /\ blocked' = blocked \cup {queue[i].dest}
    /\ Tried /\ UNCHANGED <<sched, balance, since>>

\* Faulty variant of the definition that follows it, for mutation checks.
RejectSilently(i) ==
    /\ Candidate(i)
    /\ queue' = RemoveAt(queue, i)
    /\ peers' = [peers EXCEPT ![queue[i].dest].count = @ - 1]
    /\ Tried /\ UNCHANGED <<next, last, since, balance, blocked>>

\* A permanent error drops the datagram.
Reject(i) ==
    LET p == queue[i].dest IN
    /\ Candidate(i)
    /\ queue' = RemoveAt(queue, i)
    /\ peers' = [peers EXCEPT ![p].count = @ - 1]
    /\ blocked' = IF FairQueue THEN blocked \cup {p} ELSE blocked
    /\ balance' = balance - 1
    /\ Tried /\ UNCHANGED <<next, last, since>>

Idle == at' = "idle" /\ budget' = 0 /\ blocked' = {} /\ UNCHANGED <<services, sched, discovered, balance, since>>

\* Any other error ends the call with the datagram still queued.
FlushFails == Errors /\ (\E i \in DOMAIN queue : Candidate(i)) /\ Idle

FlushDone ==
    /\ Flushing /\ ~\E i \in DOMAIN queue : Candidate(i)
    /\ at' = IF at = "poll" THEN "recv" ELSE "idle"
    /\ budget' = 0 /\ blocked' = {}
    /\ UNCHANGED <<services, sched, discovered, balance, since>>

\* An advertisement from p reached a bound endpoint.
ReceiveAdvert(p) ==
    /\ at = "recv" /\ services # {}
    /\ discovered[p] # None \/ Cardinality({o \in Peers : discovered[o] # None}) < PeerCapacity
    /\ discovered' = [discovered EXCEPT ![p] = Lease]
    /\ UNCHANGED <<services, sched, balance, call, since>>

RecvDone == at = "recv" /\ Idle

-----------------------------------------------------------------------------
SubmitTo(p) == \E i \in DOMAIN queue : queue[i].dest = p /\ Submit(i)
FlushStep == (\E i \in DOMAIN queue : Submit(i) \/ Block(i) \/ Reject(i)) \/ FlushFails \/ FlushDone

Next ==
    \/ \E s \in Sources : Bind(s) \/ Unbind(s) \/ NotEnqueued(s)
    \/ \E set \in SUBSET Sources : ReplaceServices(set)
    \/ \E s \in Sources, p \in Peers, option \in Deadlines : Enqueue(s, p, option)
    \/ \E d \in Ticks : Advance(d) \/ Poll(d)
    \/ FlushCall
    \/ FlushStep
    \/ \E p \in Peers : ReceiveAdvert(p)
    \/ RecvDone

SafetySpec == Init /\ [][Next]_vars

\* A call returns, the application polls again and again with time moving, and
\* the device takes a healthy peer's datagram if it is offered for ever.
Fairness ==
    /\ WF_vars(FlushStep) /\ WF_vars(RecvDone)
    /\ SF_vars(\E d \in Ticks \ {0} : Poll(d))
    /\ \A p \in Healthy : SF_vars(SubmitTo(p))

Spec == SafetySpec /\ Fairness

-----------------------------------------------------------------------------
\* Every variable has its type.
TypeOK ==
    /\ services \subseteq Sources
    /\ queue \in Seq([source : Sources, dest : Peers, left : Nat \cup {None}])
    /\ \A p \in Peers : peers[p] = None \/ peers[p] \in [count : Nat, wait : 0..PeerSpacing]
    /\ next \in 0..Spacing /\ last \in 0..NumPeers
    /\ discovered \in [Peers -> (0..Lease) \cup {None}]
    /\ balance \in Int /\ since \in [Peers -> 0..PeerSpacing]
    /\ at \in {"idle", "flush", "poll", "recv"}
    /\ budget \in 0..TxBudget /\ blocked \subseteq Peers

\* The scheduler's per-destination counts are those of its queue, so remove
\* and candidate always find the entry they index, and every limit holds:
\* total, per destination, scheduling state, discovered services.
CountsExact ==
    /\ \A p \in Peers : IF peers[p] = None THEN Queued(p, queue) = 0
                         ELSE peers[p].count = Queued(p, queue) /\ peers[p].count <= PerPeerCapacity
    /\ Len(queue) <= QueueCapacity
    /\ Cardinality({p \in Peers : peers[p] # None}) <= MaxTxPeers
    /\ Cardinality({p \in Peers : discovered[p] # None}) <= PeerCapacity

\* Every admitted datagram has exactly one outcome: those without one yet are
\* the ones queued, and the counts and limits of the scheduler are exact.
OneOutcome == TypeOK /\ balance = Len(queue) /\ CountsExact

\* Nothing waits to be sent from an endpoint that is no longer bound, or past
\* its deadline; so flush never offers such a datagram to the device.
QueueCurrent ==
    \A i \in DOMAIN queue :
        queue[i].source \in services /\ (queue[i].left = None \/ queue[i].left > 0)

\* Pacing cannot be bypassed, not by draining and refilling the queue either:
\* what flush offers to the device comes no sooner than one spacing after the
\* destination was last served, and one global spacing after any was.
OffersPaced ==
    \A i \in DOMAIN queue : Candidate(i) =>
        /\ since[queue[i].dest] = PeerSpacing
        /\ \A p \in Peers : since[p] >= Min({Spacing, PeerSpacing})

\* In fair mode peers that stay blocked, if they are fewer than tx_budget, do not
\* hold up another ("Backpressure or a permanent failure at one peer can be
\* bypassed for another"): as long as a healthy peer has datagrams queued, they
\* leave, unless the device fails unexpectedly again and again.  With as many
\* blocked peers as tx_budget each flush may spend all its attempts on them, and
\* nothing is said.
HealthyServed ==
    Cardinality(Peers \ Healthy) < TxBudget => \A p \in Healthy :
        \/ []<>(Queued(p, queue) = 0) \/ []<><<Queued(p, queue') < Queued(p, queue)>>_vars
        \/ []<><<FlushFails>>_vars

=============================================================================
