------------------------------- MODULE TcpPool -------------------------------
(***************************************************************************)
(* The pool of connections in src/api/tcp/mod.rs: the table, listeners,    *)
(* the bounded reset queue and the stages of poll.  A connection is its    *)
(* address pair, its state, and what the pool does with both; its state    *)
(* moves as TcpConnection shows it to (TcpStates).                         *)
(*                                                                         *)
(* Times are relative: a deadline is the time left to it.                  *)
(***************************************************************************)
EXTENDS Integers, Sequences, FiniteSets, TcpStates

CONSTANTS
    Locals, Remotes,             \* local and remote socket addresses
    MaxConnections, MaxListeners, ControlCapacity, TimeWait,
    MaxIds,                      \* bound: connections ever made
    Operations                   \* which of "abort", "unlisten", "remove" are called

Tuples == Locals \X Remotes
Ids == 1..MaxIds

ASSUME PoolAssumption ==
    /\ {MaxConnections, MaxListeners, ControlCapacity, TimeWait} \subseteq Nat \ {0}
    /\ MaxIds \in Nat

VARIABLES
    connections,                 \* identifier -> connection, for those in the table
    listeners,
    resets,                      \* queued resets: the pair each one answers
    nextId,
    at, todo,                    \* stage of poll; connections still to transmit
    ended,                       \* pair -> time left since it entered TIME-WAIT
    handed                       \* history: identifiers from connect and accept, until removed

vars == <<connections, listeners, resets, nextId, at, todo, ended, handed>>

Init ==
    /\ connections = <<>> /\ listeners = {} /\ resets = <<>> /\ nextId = 1
    /\ at = "idle" /\ todo = {}
    /\ ended = [t \in Tuples |-> 0] /\ handed = {}

-----------------------------------------------------------------------------
Live(id) == connections[id].state \notin Ended

\* Faulty variant of the definition that follows it, for mutation checks.
FindOpen(t) == {id \in DOMAIN connections : connections[id].tuple = t
                    /\ connections[id].state \notin Ended \cup {"TimeWait"}}

\* find ignores connections that ended: their pair may be used again.
Find(t) == {id \in DOMAIN connections : connections[id].tuple = t /\ Live(id)}

\* Faulty variant of the definition that follows it, for mutation checks.
FullLate == Cardinality(DOMAIN connections) > MaxConnections

Full == Cardinality(DOMAIN connections) = MaxConnections

Insert(t, state, accepted) ==
    /\ nextId \in Ids /\ nextId' = nextId + 1
    /\ connections' =
         [id \in DOMAIN connections \cup {nextId} |->
            IF id = nextId THEN [tuple |-> t, state |-> state, accepted |-> accepted, left |-> 0]
            ELSE connections[id]]

Keep(ids) == [id \in ids |-> connections[id]]

\* A connection entering TIME-WAIT starts its clock.
Moved(c, s) ==
    [c EXCEPT !.state = s, !.left = IF s = "TimeWait" /\ c.state # s THEN TimeWait ELSE @]

\* The pair is out of use from then on, until the time is over or the connection
\* is given up: by abort, by a local failure to send, or by unlisten below.
Entered(id, s) ==
    LET c == connections[id] IN
    IF s = "TimeWait" /\ c.state # s THEN [ended EXCEPT ![c.tuple] = TimeWait]
    ELSE IF c.state = "TimeWait" /\ s \in Ended THEN [ended EXCEPT ![c.tuple] = 0]
    ELSE ended

QueueReset(t) == IF Len(resets) < ControlCapacity THEN Append(resets, t) ELSE resets

-----------------------------------------------------------------------------
Listen(l) ==
    /\ at = "idle" /\ l \notin listeners /\ Cardinality(listeners) < MaxListeners
    /\ listeners' = listeners \cup {l}
    /\ UNCHANGED <<connections, resets, nextId, at, todo, ended, handed>>

\* Faulty variant of the definition that follows it, for mutation checks.
UnlistenOnly(l) ==
    /\ "unlisten" \in Operations /\ at = "idle" /\ l \in listeners
    /\ listeners' = listeners \ {l}
    /\ UNCHANGED <<connections, resets, nextId, at, todo, ended, handed>>

\* unlisten: children nobody accepted are dropped, whatever their state; one that
\* was closed through connections() or an event may be in TIME-WAIT.
Children(l) ==
    {id \in DOMAIN connections : ~connections[id].accepted /\ connections[id].tuple[1] = l}

Unlisten(l) ==
    /\ "unlisten" \in Operations /\ at = "idle" /\ l \in listeners
    /\ listeners' = listeners \ {l}
    /\ connections' = Keep(DOMAIN connections \ Children(l))
    /\ ended' = [t \in Tuples |-> IF Find(t) \cap Children(l) # {} THEN 0 ELSE ended[t]]
    /\ UNCHANGED <<resets, nextId, at, todo, handed>>

Connect(t) ==
    /\ at = "idle" /\ ~Full /\ Find(t) = {}
    /\ Insert(t, "SynSent", TRUE)
    /\ handed' = handed \cup {nextId}
    /\ UNCHANGED <<listeners, resets, at, todo, ended>>

\* accept: the first child of the listener that is ready.
Acceptable(l) ==
    {id \in DOMAIN connections :
        /\ connections[id].tuple[1] = l /\ ~connections[id].accepted
        /\ connections[id].state \in {"Established", "CloseWait"}}

Accept(l) ==
    /\ at = "idle" /\ l \in listeners
    /\ \E id \in Acceptable(l) :
        /\ \A other \in Acceptable(l) : id <= other
        /\ connections' = [connections EXCEPT ![id].accepted = TRUE]
        /\ handed' = handed \cup {id}
    /\ UNCHANGED <<listeners, resets, nextId, at, todo, ended>>

\* abort, of any connection in the table, ended and unaccepted ones included.
Abort(id) ==
    /\ "abort" \in Operations /\ at = "idle"
    /\ connections' = [connections EXCEPT ![id] = Moved(@, "Reset")]
    /\ resets' = QueueReset(connections[id].tuple)
    /\ ended' = Entered(id, "Reset")
    /\ UNCHANGED <<listeners, nextId, at, todo, handed>>

\* Faulty variant of the definition that follows it, for mutation checks.
RemovableAnytime(id) == TRUE

Removable(id) == ~Live(id)

Remove(id) ==
    /\ "remove" \in Operations /\ at = "idle" /\ Removable(id)
    /\ connections' = Keep(DOMAIN connections \ {id})
    /\ handed' = handed \ {id}
    /\ UNCHANGED <<listeners, resets, nextId, at, todo, ended>>

-----------------------------------------------------------------------------
Later(t, d) == IF t > d THEN t - d ELSE 0

\* tick: TIME-WAIT ends with its time; others may meet one of their deadlines.
Ticked(c, elapsed, late) ==
    IF c.state = "TimeWait"
    THEN [c EXCEPT !.left = Later(@, elapsed),
                   !.state = IF c.left <= elapsed THEN "Closed" ELSE @]
    ELSE IF late /\ c.state \notin Ended THEN [c EXCEPT !.state = "TimedOut"] ELSE c

\* Faulty variants of the definition that follows them, for mutation checks.
KeptEnded(table) == DOMAIN table
KeptLive(table) == {id \in DOMAIN table : table[id].state \notin Ended}

\* Ended children nobody accepted are dropped.
Kept(table) == {id \in DOMAIN table : table[id].accepted \/ table[id].state \notin Ended}

\* poll, up to the device: a device that fails ends the call.
Poll(elapsed, late) ==
    LET ticked == [id \in DOMAIN connections |-> Ticked(connections[id], elapsed, id \in late)] IN
    /\ at = "idle"
    /\ connections' = [id \in Kept(ticked) |-> ticked[id]]
    /\ ended' = [t \in Tuples |-> Later(ended[t], elapsed)]
    /\ at' \in {"idle", "receive"}
    /\ UNCHANGED <<listeners, resets, nextId, todo, handed>>

\* A segment for a live connection.  A repeated FIN restarts TIME-WAIT.
Input(id, s, again) ==
    LET c == connections[id] IN
    /\ at = "receive" /\ Live(id)
    /\ s = c.state \/ <<c.state, s>> \in InputMoves
    /\ connections' = [connections EXCEPT ![id] =
         IF again /\ c.state = "TimeWait" THEN [c EXCEPT !.left = TimeWait] ELSE Moved(c, s)]
    /\ ended' = IF again /\ c.state = "TimeWait"
                THEN [ended EXCEPT ![c.tuple] = TimeWait] ELSE Entered(id, s)
    /\ UNCHANGED <<listeners, resets, nextId, at, todo, handed>>

\* A segment no live connection takes.  Resets are sent only for addresses in use.
Open(t) ==
    /\ at = "receive" /\ Find(t) = {} /\ t[1] \in listeners /\ ~Full
    /\ Insert(t, "SynReceived", FALSE)
    /\ UNCHANGED <<listeners, resets, at, todo, ended, handed>>

Refuse(t) ==
    /\ at = "receive" /\ Find(t) = {} /\ (listeners # {} \/ DOMAIN connections # {})
    /\ resets' = QueueReset(t)
    /\ UNCHANGED <<connections, listeners, nextId, at, todo, ended, handed>>

\* flush_reset: one reset is sent; a missing route drops it; a busy device keeps it.
Flushed(outcome) ==
    IF resets # <<>> /\ outcome \in {"sent", "unroutable"} THEN Tail(resets) ELSE resets

FlushReset(outcome) ==
    /\ at = "receive"
    /\ resets' = Flushed(outcome)
    /\ at' = "transmit" /\ todo' = DOMAIN connections
    /\ UNCHANGED <<connections, listeners, nextId, ended, handed>>

\* transmit of each connection: FIN moves one that was closed, accepted or not; a
\* local failure ends it alone.
Transmit(id, s) ==
    LET c == connections[id] IN
    /\ at = "transmit" /\ id \in todo /\ \A other \in todo : id <= other
    /\ todo' = todo \ {id}
    /\ \/ s = c.state
       \/ <<c.state, s>> \in SendMoves
       \/ Live(id) /\ s = "Failed"
    /\ connections' = [connections EXCEPT ![id].state = s]
    /\ ended' = Entered(id, s)
    /\ UNCHANGED <<listeners, resets, nextId, at, handed>>

\* poll returns: everything was done, or an error ended it early.
EndPoll ==
    /\ at # "idle" /\ at' = "idle" /\ todo' = {}
    /\ UNCHANGED <<connections, listeners, resets, nextId, ended, handed>>

Next ==
    \/ \E l \in Locals : Listen(l) \/ Unlisten(l) \/ Accept(l)
    \/ \E t \in Tuples : Connect(t) \/ Open(t) \/ Refuse(t)
    \/ \E id \in DOMAIN connections : Abort(id) \/ Remove(id)
    \/ \E elapsed \in 0..TimeWait, late \in SUBSET (DOMAIN connections) : Poll(elapsed, late)
    \/ \E id \in DOMAIN connections, s \in TcpState, again \in BOOLEAN : Input(id, s, again)
    \/ \E outcome \in {"sent", "unroutable", "busy"} : FlushReset(outcome)
    \/ \E id \in DOMAIN connections, s \in TcpState : Transmit(id, s)
    \/ EndPoll

Spec == Init /\ [][Next]_vars

\* The application keeps polling and the device does not fail or stay busy for
\* ever; a reset no route leads to is no longer than that in the queue.
FairSpec ==
    /\ Spec
    /\ SF_vars(\E late \in SUBSET (DOMAIN connections) : Poll(1, late) /\ at' = "receive")
    /\ SF_vars(FlushReset("sent") \/ FlushReset("unroutable"))
    /\ WF_vars(EndPoll)

-----------------------------------------------------------------------------
\* Every variable has its type.
TypeOK ==
    /\ DOMAIN connections \subseteq 1..(nextId - 1)
    /\ nextId \in 1..(MaxIds + 1)
    /\ connections \in
         [DOMAIN connections ->
            [tuple : Tuples, state : TcpState, accepted : BOOLEAN, left : 0..TimeWait]]
    /\ listeners \subseteq Locals
    /\ \A i \in DOMAIN resets : resets[i] \in Tuples
    /\ at \in {"idle", "receive", "transmit"} /\ todo \subseteq DOMAIN connections
    /\ ended \in [Tuples -> 0..TimeWait] /\ handed \subseteq 1..(nextId - 1)

\* Whatever fills them (children nobody accepts, connections that ended and were
\* not removed, resets), the table, the listeners and the reset queue stay within
\* their limits, and poll's list is of existing connections.
WithinCapacity ==
    /\ TypeOK
    /\ Cardinality(DOMAIN connections) <= MaxConnections
    /\ Cardinality(listeners) <= MaxListeners /\ Len(resets) <= ControlCapacity

\* A segment finds at most one connection: two that have not ended never share an
\* address pair, whoever opened them and whatever ended and was kept in between.
OneLivePerTuple ==
    \A i, j \in DOMAIN connections :
        Live(i) /\ Live(j) /\ connections[i].tuple = connections[j].tuple => i = j

\* A pair in TIME-WAIT stays taken by the connection that entered it for the
\* whole period: neither remove, connect nor a SYN can take it early.  Only abort,
\* a local failure to send, and unlisten of a child that was closed without having
\* been accepted give it up.
TimeWaitHeld ==
    \A t \in Tuples : ended[t] > 0 =>
        \E id \in Find(t) : connections[id].state = "TimeWait" /\ connections[id].left >= ended[t]

\* The table keeps what it must within its limits: a pair in TIME-WAIT stays
\* taken for the whole period, and connections, listeners and resets, whatever
\* fills them, stay within their capacities.
TableHolds == WithinCapacity /\ TimeWaitHeld

\* Every connection has somebody who can end it: the application keeps what
\* connect or accept gave it until it removes it, although polls and unlisten drop
\* entries of the table; and a child it did not accept belongs to a listener that
\* can still accept it.
ConnectionsOwned ==
    /\ handed \subseteq DOMAIN connections
    /\ \A id \in DOMAIN connections :
        IF connections[id].accepted THEN id \in handed
        ELSE id \notin handed /\ connections[id].tuple[1] \in listeners

\* Polling gives room back.  A full queue of resets empties, though one poll sends
\* at most one and resets nobody can route are queued as well; and a child that
\* ended before anyone accepted it gives its place back.
ResetRoom == []<>(Len(resets) < ControlCapacity)

ChildrenReclaimed ==
    \A id \in Ids :
        (id \in DOMAIN connections /\ ~connections[id].accepted /\ ~Live(id))
            ~> (id \notin DOMAIN connections)
PollReclaims == ResetRoom /\ ChildrenReclaimed

=============================================================================
