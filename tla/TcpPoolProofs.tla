--------------------------- MODULE TcpPoolProofs ---------------------------
(***************************************************************************)
(* Proofs about TcpPool for any number of addresses and any capacities.    *)
(* The argument: every step but an open only takes connections away, keeps *)
(* their address pairs and never revives one (Shrinks); an open adds one   *)
(* whose pair find did not see.                                            *)
(*                                                                         *)
(* The pool takes from TcpStates how the state of a connection may move.   *)
(* For TcpConnection, as the instance Conn, with any capacities, sequence  *)
(* space and network: its connections move that way and no other.          *)
(***************************************************************************)
EXTENDS TcpPool, FiniteSetTheorems, TLAPS

\* Time for the provers on a busy machine.
USE SMTT(60)

Connection == [tuple : Tuples, state : TcpState, accepted : BOOLEAN, left : 0..TimeWait]

\* The part of the types the argument needs: identifiers are below the next one.
Typed ==
    /\ nextId \in Nat \ {0}
    /\ connections \in [DOMAIN connections -> Connection]
    /\ \A id \in DOMAIN connections : id \in Nat \ {0} /\ id < nextId
    /\ \A id \in handed : id \in Nat \ {0} /\ id < nextId

\* What every step but an open does to the table.
Shrinks ==
    /\ DOMAIN connections' \subseteq DOMAIN connections
    /\ \A id \in DOMAIN connections' :
        /\ connections'[id].tuple = connections[id].tuple
        /\ Live(id)' => Live(id)

Opens(t) == Find(t) = {} /\ \E s \in {"SynSent", "SynReceived"}, a \in BOOLEAN : Insert(t, s, a)

\* A move between states starts in one that has not ended.
LEMMA StatesDisjoint ==
    /\ \A s \in TcpState, t \in TcpState :
        <<s, t>> \in InputMoves \cup SendMoves => s \notin Ended
    /\ "TimeWait" \notin Ended /\ {"SynSent", "SynReceived", "Reset", "TimedOut", "Closed", "Failed"} \subseteq TcpState
BY DEF TcpState, Ended, Synchronized, InputMoves, SendMoves

\* A step of the pool opens one connection on a free pair, or shrinks the table.
LEMMA StepShape ==
    ASSUME Typed, [Next]_vars
    PROVE  Shrinks \/ \E t \in Tuples : Opens(t)
<1>1. CASE UNCHANGED vars
  BY <1>1 DEF vars, Shrinks, Live
<1>2. ASSUME NEW l \in Locals, Listen(l) \/ Unlisten(l) \/ Accept(l) PROVE Shrinks
  <2>1. CASE Listen(l)
    BY <2>1 DEF Listen, Shrinks, Live
  <2>2. CASE Unlisten(l)
    BY <2>2 DEF Unlisten, Keep, Children, Shrinks, Live
  <2>3. CASE Accept(l)
    <3>1. PICK i : connections' = [connections EXCEPT ![i].accepted = TRUE]
      BY ZenonT(60), <2>3 DEF Accept
    <3> QED
      BY <3>1 DEF Shrinks, Live, Typed, Connection
  <2> QED BY <1>2, <2>1, <2>2, <2>3
<1>3. ASSUME NEW t \in Tuples, Connect(t) \/ Open(t) \/ Refuse(t)
      PROVE  Shrinks \/ Opens(t)
  BY ZenonT(60), <1>3 DEF Connect, Open, Refuse, Opens, Shrinks, Live
<1>4. ASSUME NEW id \in DOMAIN connections, Abort(id) \/ Remove(id) PROVE Shrinks
  <2>1. CASE Abort(id)
    BY <2>1 DEF Abort, Moved, Shrinks, Live, Typed, Connection, Ended
  <2>2. CASE Remove(id)
    BY <2>2 DEF Remove, Keep, Shrinks, Live
  <2> QED BY <1>4, <2>1, <2>2
<1>5. ASSUME NEW elapsed \in 0..TimeWait, NEW late \in SUBSET (DOMAIN connections), Poll(elapsed, late)
      PROVE  Shrinks
  <2> DEFINE ticked == [id \in DOMAIN connections |-> Ticked(connections[id], elapsed, id \in late)]
  <2>1. ASSUME NEW id \in DOMAIN connections
        PROVE  /\ ticked[id].tuple = connections[id].tuple
               /\ ticked[id].state \notin Ended => connections[id].state \notin Ended
    BY DEF Ticked, Typed, Connection, Ended
  <2>2. connections' = [id \in Kept(ticked) |-> ticked[id]]
    BY <1>5 DEF Poll
  <2>3. Kept(ticked) \subseteq DOMAIN connections
    BY DEF Kept
  <2> HIDE DEF ticked
  <2> QED BY <2>1, <2>2, <2>3 DEF Shrinks, Live
<1>6. ASSUME NEW id \in DOMAIN connections, NEW s \in TcpState, NEW again \in BOOLEAN,
             Input(id, s, again)
      PROVE  Shrinks
  <2> DEFINE c == IF again /\ connections[id].state = "TimeWait"
                  THEN [connections[id] EXCEPT !.left = TimeWait] ELSE Moved(connections[id], s)
  <2>1. connections' = [connections EXCEPT ![id] = c]
    BY <1>6 DEF Input
  <2>3. c.tuple = connections[id].tuple
    BY DEF Moved, Typed, Connection
  <2> HIDE DEF c
  <2>2. Live(id)
    BY <1>6 DEF Input
  <2> QED BY <2>1, <2>2, <2>3 DEF Shrinks, Live, Typed
<1>7. ASSUME NEW outcome, FlushReset(outcome) PROVE Shrinks
  BY <1>7 DEF FlushReset, Shrinks, Live
<1>8. ASSUME NEW id \in DOMAIN connections, NEW s \in TcpState, Transmit(id, s) PROVE Shrinks
  <2>1. connections' = [connections EXCEPT ![id].state = s]
    BY <1>8 DEF Transmit
  <2>2. s \notin Ended => Live(id)
    <3>1. CASE s = connections[id].state
      BY <3>1 DEF Live
    <3>2. CASE <<connections[id].state, s>> \in SendMoves
      BY <3>2 DEF Live, SendMoves, Ended
    <3> QED BY <1>8, <3>1, <3>2 DEF Transmit
  <2> QED BY <2>1, <2>2 DEF Shrinks, Live, Typed, Connection
<1>9. ASSUME EndPoll PROVE Shrinks
  BY <1>9 DEF EndPoll, Shrinks, Live
<1> QED BY <1>1, <1>2, <1>3, <1>4, <1>5, <1>6, <1>7, <1>8, <1>9 DEF Next

\* Shrinking or opening on a free pair keeps live pairs unique.
LEMMA UniqueStep ==
    ASSUME Typed, OneLivePerTuple, Shrinks \/ \E t \in Tuples : Opens(t)
    PROVE  OneLivePerTuple'
<1>1. CASE Shrinks
  BY <1>1 DEF Shrinks, OneLivePerTuple
<1>2. ASSUME NEW t \in Tuples, Opens(t) PROVE OneLivePerTuple'
  <2>1. PICK s \in {"SynSent", "SynReceived"}, a \in BOOLEAN : Insert(t, s, a)
    BY <1>2 DEF Opens
  <2>2. /\ DOMAIN connections' = DOMAIN connections \cup {nextId}
        /\ connections'[nextId].tuple = t
        /\ \A id \in DOMAIN connections : id # nextId /\ connections'[id] = connections[id]
    BY <2>1 DEF Insert, Typed
  <2>3. ASSUME NEW i \in DOMAIN connections, Live(i) PROVE connections[i].tuple # t
    BY <1>2, <2>3 DEF Opens, Find
  <2>4. ASSUME NEW i \in DOMAIN connections', NEW j \in DOMAIN connections',
               Live(i)', Live(j)', connections'[i].tuple = connections'[j].tuple
        PROVE  i = j
    <3>1. CASE i \in DOMAIN connections /\ j \in DOMAIN connections
      BY <2>2, <2>4, <3>1 DEF OneLivePerTuple, Live
    <3>2. CASE i = nextId /\ j \in DOMAIN connections
      BY <2>2, <2>3, <2>4, <3>2 DEF Live
    <3>3. CASE j = nextId /\ i \in DOMAIN connections
      BY <2>2, <2>3, <2>4, <3>3 DEF Live
    <3> QED BY <2>2, <2>4, <3>1, <3>2, <3>3
  <2> QED BY <2>4 DEF OneLivePerTuple
<1> QED BY <1>1, <1>2

\* connect and a SYN to a listener add a well-formed connection.
LEMMA InsertTyped ==
    ASSUME Typed, NEW t \in Tuples, NEW s \in {"SynSent", "SynReceived"}, NEW a \in BOOLEAN,
           Insert(t, s, a), handed' = handed \/ handed' = handed \cup {nextId}
    PROVE  Typed'
<1> DEFINE new == [tuple |-> t, state |-> s, accepted |-> a, left |-> 0]
<1>1. new \in Connection
  BY StatesDisjoint, PoolAssumption DEF Connection
<1>2. connections' = [id \in DOMAIN connections \cup {nextId} |->
                        IF id = nextId THEN new ELSE connections[id]]
  BY DEF Insert
<1> HIDE DEF new
<1>3. connections' \in [DOMAIN connections' -> Connection]
  BY <1>1, <1>2 DEF Typed
<1>4. nextId' = nextId + 1
  BY DEF Insert
<1> QED BY <1>2, <1>3, <1>4 DEF Typed

\* The entries a step leaves are connections of the table before it.
LEMMA ShrunkTyped ==
    ASSUME Typed, nextId' = nextId,
           \A id \in handed' : id \in handed \/ id \in DOMAIN connections,
           DOMAIN connections' \subseteq DOMAIN connections,
           connections' \in [DOMAIN connections' -> Connection]
    PROVE  Typed'
BY DEF Typed

\* A connection stays well-formed when its state or time changes.
LEMMA UpdateTyped ==
    ASSUME NEW c \in Connection, NEW s \in TcpState, NEW n \in 0..TimeWait
    PROVE  /\ [c EXCEPT !.state = s, !.left = n] \in Connection
           /\ [c EXCEPT !.left = n, !.state = s] \in Connection
           /\ [c EXCEPT !.left = n] \in Connection
           /\ [c EXCEPT !.state = s] \in Connection
BY ZenonT(60) DEF Connection

\* A move of state gives a connection.
LEMMA MovedTyped ==
    ASSUME NEW c \in Connection, NEW s \in TcpState
    PROVE  Moved(c, s) \in Connection
<1> DEFINE n == IF s = "TimeWait" /\ c.state # s THEN TimeWait ELSE c.left
<1>1. n \in 0..TimeWait
  BY PoolAssumption DEF Connection
<1>2. Moved(c, s) = [c EXCEPT !.state = s, !.left = n]
  BY ZenonT(60) DEF Moved
<1> HIDE DEF n
<1>3. [c EXCEPT !.state = s, !.left = n] \in Connection
  BY ZenonT(60), <1>1, UpdateTyped
<1> QED BY <1>2, <1>3

\* tick gives a connection.
LEMMA TickedTyped ==
    ASSUME NEW c \in Connection, NEW d \in Nat, NEW late
    PROVE  Ticked(c, d, late) \in Connection
<1>1. Later(c.left, d) \in 0..TimeWait
  BY PoolAssumption DEF Later, Connection
<1>2. (IF c.left <= d THEN "Closed" ELSE c.state) \in TcpState
  BY StatesDisjoint, PoolAssumption DEF Connection
<1>3. [c EXCEPT !.left = Later(c.left, d),
                !.state = IF c.left <= d THEN "Closed" ELSE c.state] \in Connection
  BY ZenonT(60), <1>1, <1>2, UpdateTyped
<1>4. [c EXCEPT !.state = "TimedOut"] \in Connection
  BY StatesDisjoint DEF Connection
<1> QED BY <1>3, <1>4 DEF Ticked

\* Every step keeps the table well-formed, with identifiers below the next.
LEMMA TypedStep ==
    ASSUME Typed, [Next]_vars
    PROVE  Typed'
<1>1. CASE UNCHANGED vars
  BY <1>1 DEF vars, Typed
<1>2. ASSUME NEW l \in Locals, Listen(l) \/ Unlisten(l) \/ Accept(l) PROVE Typed'
  <2>1. CASE Listen(l)
    BY <2>1 DEF Listen, Typed
  <2>2. CASE Unlisten(l)
    BY <2>2, ShrunkTyped DEF Unlisten, Keep, Children, Typed
  <2>3. CASE Accept(l)
    <3>1. PICK i \in DOMAIN connections :
            connections' = [connections EXCEPT ![i].accepted = TRUE] /\ handed' = handed \cup {i}
      BY ZenonT(60), <2>3 DEF Accept, Acceptable
    <3>2. [connections[i] EXCEPT !.accepted = TRUE] \in Connection
      BY ZenonT(60) DEF Typed, Connection
    <3> QED
      BY ZenonT(60), <2>3, <3>1, <3>2, ShrunkTyped DEF Accept, Typed
  <2> QED BY <1>2, <2>1, <2>2, <2>3
<1>3. ASSUME NEW t \in Tuples, Connect(t) \/ Open(t) \/ Refuse(t) PROVE Typed'
  <2>1. CASE Connect(t)
    BY ZenonT(60), <2>1, InsertTyped DEF Connect
  <2>2. CASE Open(t)
    BY ZenonT(60), <2>2, InsertTyped DEF Open
  <2>3. CASE Refuse(t)
    BY <2>3 DEF Refuse, Typed
  <2> QED BY <1>3, <2>1, <2>2, <2>3
<1>4. ASSUME NEW id \in DOMAIN connections, Abort(id) \/ Remove(id) PROVE Typed'
  <2>1. CASE Abort(id)
    <3>1. Moved(connections[id], "Reset") \in Connection
      BY MovedTyped, StatesDisjoint DEF Typed
    <3>2. connections' = [connections EXCEPT ![id] = Moved(connections[id], "Reset")]
      BY <2>1 DEF Abort
    <3> QED BY <2>1, <3>1, <3>2, ShrunkTyped DEF Abort, Typed
  <2>2. CASE Remove(id)
    BY <2>2, ShrunkTyped DEF Remove, Keep, Typed
  <2> QED BY <1>4, <2>1, <2>2
<1>5. ASSUME NEW elapsed \in 0..TimeWait, NEW late \in SUBSET (DOMAIN connections), Poll(elapsed, late)
      PROVE  Typed'
  <2> DEFINE ticked == [id \in DOMAIN connections |-> Ticked(connections[id], elapsed, id \in late)]
  <2>1. ASSUME NEW id \in DOMAIN connections PROVE ticked[id] \in Connection
    BY PoolAssumption, TickedTyped DEF Typed
  <2>2. connections' = [id \in Kept(ticked) |-> ticked[id]] /\ nextId' = nextId /\ handed' = handed
    BY <1>5 DEF Poll
  <2>3. Kept(ticked) \subseteq DOMAIN connections
    BY DEF Kept
  <2> HIDE DEF ticked
  <2> QED BY <2>1, <2>2, <2>3, ShrunkTyped
<1>6. ASSUME NEW id \in DOMAIN connections, NEW s \in TcpState, NEW again \in BOOLEAN,
             Input(id, s, again)
      PROVE  Typed'
  <2> DEFINE c == IF again /\ connections[id].state = "TimeWait"
                  THEN [connections[id] EXCEPT !.left = TimeWait] ELSE Moved(connections[id], s)
  <2>1. connections' = [connections EXCEPT ![id] = c] /\ nextId' = nextId /\ handed' = handed
    BY <1>6 DEF Input
  <2>2. c \in Connection
    <3>1. connections[id] \in Connection /\ TimeWait \in 0..TimeWait
      BY PoolAssumption DEF Typed
    <3>2. Moved(connections[id], s) \in Connection
      BY <3>1, MovedTyped
    <3>3. [connections[id] EXCEPT !.left = TimeWait] \in Connection
      BY ZenonT(60), <3>1, UpdateTyped
    <3> QED BY <3>2, <3>3
  <2> HIDE DEF c
  <2> QED BY <2>1, <2>2, ShrunkTyped DEF Typed
<1>7. ASSUME NEW outcome, FlushReset(outcome) PROVE Typed'
  BY <1>7 DEF FlushReset, Typed
<1>8. ASSUME NEW id \in DOMAIN connections, NEW s \in TcpState, Transmit(id, s) PROVE Typed'
  <2>1. connections' = [connections EXCEPT ![id].state = s] /\ nextId' = nextId /\ handed' = handed
    BY <1>8 DEF Transmit
  <2>2. [connections[id] EXCEPT !.state = s] \in Connection
    BY DEF Typed, Connection
  <2> QED BY <2>1, <2>2, ShrunkTyped DEF Typed
<1>9. ASSUME EndPoll PROVE Typed'
  BY <1>9 DEF EndPoll, Typed
<1> QED BY <1>1, <1>2, <1>3, <1>4, <1>5, <1>6, <1>7, <1>8, <1>9 DEF Next

\* The pool starts with an empty table.
LEMMA InitTyped ==
    ASSUME Init
    PROVE  Typed /\ DOMAIN connections = {}
<1>1. DOMAIN connections = {} /\ nextId = 1 /\ handed = {}
  BY DEF Init
<1>2. connections \in [DOMAIN connections -> Connection]
  BY DEF Init
<1> QED BY <1>1, <1>2 DEF Typed

\* A segment finds at most one connection that has not ended (find), for every
\* sequence of opens from both sides, ends, removals and polls.
THEOREM TuplesUnique == Spec => []OneLivePerTuple
<1>1. Init => Typed /\ OneLivePerTuple
  BY InitTyped DEF OneLivePerTuple
<1>2. Typed /\ OneLivePerTuple /\ [Next]_vars => (Typed /\ OneLivePerTuple)'
  BY TypedStep, StepShape, UniqueStep
<1> QED BY <1>1, <1>2, PTL DEF Spec

\* A step that keeps what was accepted, and changes states and times only.
LEMMA OwnedUpdated ==
    ASSUME ConnectionsOwned, UNCHANGED <<listeners, handed>>,
           DOMAIN connections' \subseteq DOMAIN connections,
           \A id \in DOMAIN connections : connections[id].accepted => id \in DOMAIN connections',
           \A id \in DOMAIN connections' :
             /\ connections'[id].accepted = connections[id].accepted
             /\ connections'[id].tuple = connections[id].tuple
    PROVE  ConnectionsOwned'
BY DEF ConnectionsOwned

\* Every step keeps the application's connections, and children with their listener.
LEMMA OwnedStep ==
    ASSUME Typed, ConnectionsOwned, [Next]_vars
    PROVE  ConnectionsOwned'
<1>1. CASE UNCHANGED vars
  BY <1>1 DEF vars, ConnectionsOwned
<1>2. ASSUME NEW l \in Locals, Listen(l) \/ Unlisten(l) \/ Accept(l) PROVE ConnectionsOwned'
  <2>1. CASE Listen(l)
    BY <2>1 DEF Listen, ConnectionsOwned
  <2>2. CASE Unlisten(l)
    BY <2>2 DEF Unlisten, Keep, Children, ConnectionsOwned, Typed, Connection
  <2>3. CASE Accept(l)
    <3>1. PICK i \in DOMAIN connections :
            connections' = [connections EXCEPT ![i].accepted = TRUE] /\ handed' = handed \cup {i}
      BY ZenonT(60), <2>3 DEF Accept, Acceptable
    <3>2. connections'[i].accepted = TRUE
      BY <3>1 DEF Typed, Connection
    <3>3. \A id \in DOMAIN connections : id # i => connections'[id] = connections[id]
      BY <3>1
    <3>4. DOMAIN connections' = DOMAIN connections /\ listeners' = listeners
      BY <2>3, <3>1 DEF Accept
    <3> QED
      BY <3>1, <3>2, <3>3, <3>4 DEF ConnectionsOwned
  <2> QED BY <1>2, <2>1, <2>2, <2>3
<1>3. ASSUME NEW t \in Tuples, Connect(t) \/ Open(t) \/ Refuse(t) PROVE ConnectionsOwned'
  <2>1. CASE Connect(t)
    <3>1. /\ DOMAIN connections' = DOMAIN connections \cup {nextId}
          /\ connections'[nextId].accepted = TRUE
          /\ \A id \in DOMAIN connections : id # nextId /\ connections'[id] = connections[id]
      BY <2>1 DEF Connect, Insert, Typed
    <3>2. handed' = handed \cup {nextId} /\ listeners' = listeners
      BY <2>1 DEF Connect
    <3> QED BY <3>1, <3>2 DEF ConnectionsOwned
  <2>2. CASE Open(t)
    <3>1. /\ DOMAIN connections' = DOMAIN connections \cup {nextId}
          /\ connections'[nextId].accepted = FALSE
          /\ connections'[nextId].tuple = t
          /\ \A id \in DOMAIN connections : id # nextId /\ connections'[id] = connections[id]
      BY <2>2 DEF Open, Insert, Typed
    <3>2. handed' = handed /\ listeners' = listeners /\ t[1] \in listeners /\ nextId \notin handed
      BY <2>2 DEF Open, Typed
    <3> QED BY <3>1, <3>2 DEF ConnectionsOwned
  <2>3. CASE Refuse(t)
    BY <2>3 DEF Refuse, ConnectionsOwned
  <2> QED BY <1>3, <2>1, <2>2, <2>3
<1>4. ASSUME NEW id \in DOMAIN connections, Abort(id) \/ Remove(id) PROVE ConnectionsOwned'
  <2>1. CASE Abort(id)
    <3> DEFINE c == Moved(connections[id], "Reset")
    <3>1. connections' = [connections EXCEPT ![id] = c] /\ UNCHANGED <<listeners, handed>>
      BY <2>1 DEF Abort
    <3>2. /\ c.tuple = connections[id].tuple /\ c.accepted = connections[id].accepted
      BY DEF Moved, Typed, Connection
    <3> HIDE DEF c
    <3> QED BY <3>1, <3>2, OwnedUpdated DEF Typed
  <2>2. CASE Remove(id)
    BY <2>2 DEF Remove, Keep, ConnectionsOwned
  <2> QED BY <1>4, <2>1, <2>2
<1>5. ASSUME NEW elapsed \in 0..TimeWait, NEW late \in SUBSET (DOMAIN connections), Poll(elapsed, late)
      PROVE  ConnectionsOwned'
  <2> DEFINE ticked == [id \in DOMAIN connections |-> Ticked(connections[id], elapsed, id \in late)]
  <2>1. ASSUME NEW id \in DOMAIN connections
        PROVE  /\ ticked[id].tuple = connections[id].tuple
               /\ ticked[id].accepted = connections[id].accepted
    BY DEF Ticked, Typed, Connection
  <2>2. connections' = [id \in Kept(ticked) |-> ticked[id]] /\ UNCHANGED <<listeners, handed>>
    BY <1>5 DEF Poll
  <2>3. /\ Kept(ticked) \subseteq DOMAIN connections
        /\ \A id \in DOMAIN connections : connections[id].accepted => id \in Kept(ticked)
    BY <2>1 DEF Kept
  <2> HIDE DEF ticked
  <2> QED BY <2>1, <2>2, <2>3, OwnedUpdated
<1>6. ASSUME NEW id \in DOMAIN connections, NEW s \in TcpState, NEW again \in BOOLEAN,
             Input(id, s, again)
      PROVE  ConnectionsOwned'
  <2> DEFINE c == IF again /\ connections[id].state = "TimeWait"
                  THEN [connections[id] EXCEPT !.left = TimeWait] ELSE Moved(connections[id], s)
  <2>1. connections' = [connections EXCEPT ![id] = c] /\ UNCHANGED <<listeners, handed>>
    BY <1>6 DEF Input
  <2>2. /\ c.tuple = connections[id].tuple /\ c.accepted = connections[id].accepted
    BY DEF Moved, Typed, Connection
  <2> HIDE DEF c
  <2> QED BY <2>1, <2>2, OwnedUpdated DEF Typed
<1>7. ASSUME NEW outcome, FlushReset(outcome) PROVE ConnectionsOwned'
  BY <1>7 DEF FlushReset, ConnectionsOwned
<1>8. ASSUME NEW id \in DOMAIN connections, NEW s \in TcpState, Transmit(id, s)
      PROVE  ConnectionsOwned'
  <2> DEFINE c == [connections[id] EXCEPT !.state = s]
  <2>1. connections' = [connections EXCEPT ![id] = c] /\ UNCHANGED <<listeners, handed>>
    BY <1>8 DEF Transmit
  <2>2. /\ c.tuple = connections[id].tuple /\ c.accepted = connections[id].accepted
    BY DEF Typed, Connection
  <2> HIDE DEF c
  <2> QED BY <2>1, <2>2, OwnedUpdated DEF Typed
<1>9. ASSUME EndPoll PROVE ConnectionsOwned'
  BY <1>9 DEF EndPoll, ConnectionsOwned
<1> QED BY <1>1, <1>2, <1>3, <1>4, <1>5, <1>6, <1>7, <1>8, <1>9 DEF Next

\* Nothing is left behind and nothing taken away: whatever poll, unlisten, abort
\* and failures do, the application finds what connect and accept gave it until it
\* calls remove, and any other connection belongs to a current listener.
THEOREM NoOrphans == Spec => []ConnectionsOwned
<1>1. Init => Typed /\ ConnectionsOwned
  <2>1. Init => handed = {}
    BY DEF Init
  <2> QED BY <2>1, InitTyped DEF ConnectionsOwned
<1>2. Typed /\ ConnectionsOwned /\ [Next]_vars => (Typed /\ ConnectionsOwned)'
  BY TypedStep, OwnedStep
<1> QED BY <1>1, <1>2, PTL DEF Spec

-----------------------------------------------------------------------------
\* What the table's limits rest on: poll's list is empty outside its last stage,
\* so no call that removes connections can leave a removed one in it.
Limits ==
    /\ nextId \in 1..(MaxIds + 1)
    /\ listeners \subseteq Locals /\ IsFiniteSet(listeners)
    /\ Cardinality(listeners) <= MaxListeners
    /\ resets \in Seq(Tuples) /\ Len(resets) <= ControlCapacity
    /\ at \in {"idle", "receive", "transmit"}
    /\ todo \subseteq DOMAIN connections /\ (at # "transmit" => todo = {})
    /\ ended \in [Tuples -> 0..TimeWait]
    /\ IsFiniteSet(DOMAIN connections)
    /\ Cardinality(DOMAIN connections) <= MaxConnections

\* A table of fewer or as many connections is within the limit.
LEMMA FewerConnections ==
    ASSUME Limits, NEW S \in SUBSET DOMAIN connections
    PROVE  IsFiniteSet(S) /\ Cardinality(S) <= MaxConnections
<1>1. IsFiniteSet(S) /\ Cardinality(S) <= Cardinality(DOMAIN connections)
  BY FS_Subset DEF Limits
<1>2. Cardinality(S) \in Nat /\ Cardinality(DOMAIN connections) \in Nat
  BY <1>1, FS_CardinalityType DEF Limits
<1> QED BY <1>1, <1>2, PoolAssumption DEF Limits

\* An open is only made while the table is not full.
LEMMA OneMoreConnection ==
    ASSUME Limits, Typed, ~Full
    PROVE  /\ IsFiniteSet(DOMAIN connections \cup {nextId})
           /\ Cardinality(DOMAIN connections \cup {nextId}) <= MaxConnections
<1>1. nextId \notin DOMAIN connections
  BY DEF Typed
<1>2. /\ IsFiniteSet(DOMAIN connections \cup {nextId})
      /\ Cardinality(DOMAIN connections \cup {nextId}) = Cardinality(DOMAIN connections) + 1
  BY <1>1, FS_AddElement DEF Limits
<1>3. Cardinality(DOMAIN connections) \in Nat
  BY FS_CardinalityType DEF Limits
<1> QED BY <1>2, <1>3, PoolAssumption DEF Limits, Full

\* The queue of resets takes one more only while it has room.
LEMMA QueueResetTyped ==
    ASSUME Limits, NEW t \in Tuples
    PROVE  QueueReset(t) \in Seq(Tuples) /\ Len(QueueReset(t)) <= ControlCapacity
BY PoolAssumption DEF Limits, QueueReset

\* TIME-WAIT clocks stay within the period.
LEMMA EnteredTyped ==
    ASSUME Limits, NEW id, NEW s
    PROVE  Entered(id, s) \in [Tuples -> 0..TimeWait]
<1>1. \A t : \A n \in 0..TimeWait : [ended EXCEPT ![t] = n] \in [Tuples -> 0..TimeWait]
  BY ZenonT(60) DEF Limits
<1>2. 0 \in 0..TimeWait /\ TimeWait \in 0..TimeWait /\ ended \in [Tuples -> 0..TimeWait]
  BY PoolAssumption DEF Limits
<1> QED BY <1>1, <1>2 DEF Entered

\* Every step keeps the limits.
LEMMA LimitsStep ==
    ASSUME Typed, Limits, [Next]_vars
    PROVE  Limits'
<1>1. CASE UNCHANGED vars
  BY <1>1 DEF vars, Limits
<1>2. ASSUME NEW l \in Locals, Listen(l) \/ Unlisten(l) \/ Accept(l) PROVE Limits'
  <2>1. CASE Listen(l)
    <3>1. IsFiniteSet(listeners \cup {l}) /\ Cardinality(listeners \cup {l}) = Cardinality(listeners) + 1
      BY <2>1, FS_AddElement DEF Listen, Limits
    <3>2. Cardinality(listeners) \in Nat /\ Cardinality(listeners) < MaxListeners
      BY <2>1, FS_CardinalityType DEF Listen, Limits
    <3> QED BY <2>1, <3>1, <3>2, PoolAssumption DEF Listen, Limits
  <2>2. CASE Unlisten(l)
    <3>1. IsFiniteSet(listeners') /\ Cardinality(listeners') <= MaxListeners
      <4>1. IsFiniteSet(listeners \ {l}) /\ Cardinality(listeners \ {l}) = Cardinality(listeners) - 1
        BY <2>2, FS_RemoveElement DEF Unlisten, Limits
      <4>2. Cardinality(listeners) \in Nat
        BY FS_CardinalityType DEF Limits
      <4> QED BY <2>2, <4>1, <4>2, PoolAssumption DEF Unlisten, Limits
    <3>2. DOMAIN connections' \subseteq DOMAIN connections /\ at = "idle"
      BY <2>2 DEF Unlisten, Keep, Children
    <3>3. IsFiniteSet(DOMAIN connections') /\ Cardinality(DOMAIN connections') <= MaxConnections
      BY <3>2, FewerConnections
    <3>4. UNCHANGED <<resets, nextId, at, todo>> /\ listeners' = listeners \ {l}
      BY <2>2 DEF Unlisten
    <3>5. ended' \in [Tuples -> 0..TimeWait]
      BY <2>2, PoolAssumption DEF Unlisten, Limits
    <3> QED BY <3>1, <3>2, <3>3, <3>4, <3>5 DEF Limits
  <2>3. CASE Accept(l)
    <3>1. UNCHANGED <<listeners, resets, nextId, at, todo, ended>>
      BY <2>3 DEF Accept
    <3>2. DOMAIN connections' = DOMAIN connections
      BY <2>3 DEF Accept
    <3> QED BY <3>1, <3>2 DEF Limits
  <2> QED BY <1>2, <2>1, <2>2, <2>3
<1>3. ASSUME NEW t \in Tuples, Connect(t) \/ Open(t) \/ Refuse(t) PROVE Limits'
  <2>1. CASE Connect(t) \/ Open(t)
    <3>1. /\ DOMAIN connections' = DOMAIN connections \cup {nextId}
          /\ nextId \in 1..MaxIds /\ nextId' = nextId + 1
          /\ UNCHANGED <<listeners, resets, at, todo, ended>>
          /\ ~Full
      BY <2>1 DEF Connect, Open, Insert, Ids
    <3>2. /\ IsFiniteSet(DOMAIN connections') /\ Cardinality(DOMAIN connections') <= MaxConnections
      BY <3>1, OneMoreConnection
    <3> QED BY <3>1, <3>2, PoolAssumption DEF Limits
  <2>2. CASE Refuse(t)
    BY <2>2, QueueResetTyped DEF Refuse, Limits
  <2> QED BY <1>3, <2>1, <2>2
<1>4. ASSUME NEW id \in DOMAIN connections, Abort(id) \/ Remove(id) PROVE Limits'
  <2>1. CASE Abort(id)
    <3>1. /\ DOMAIN connections' = DOMAIN connections
          /\ resets' = QueueReset(connections[id].tuple)
          /\ ended' = Entered(id, "Reset")
          /\ UNCHANGED <<listeners, nextId, at, todo>>
      BY <2>1 DEF Abort
    <3>2. connections[id].tuple \in Tuples
      BY DEF Typed, Connection
    <3>3. resets' \in Seq(Tuples) /\ Len(resets') <= ControlCapacity
      BY <3>1, <3>2, QueueResetTyped
    <3>4. ended' \in [Tuples -> 0..TimeWait]
      BY <3>1, EnteredTyped
    <3> QED BY <3>1, <3>3, <3>4 DEF Limits
  <2>2. CASE Remove(id)
    <3>1. /\ DOMAIN connections' \subseteq DOMAIN connections /\ at = "idle"
          /\ UNCHANGED <<listeners, resets, nextId, at, todo, ended>>
      BY <2>2 DEF Remove, Keep
    <3>2. IsFiniteSet(DOMAIN connections') /\ Cardinality(DOMAIN connections') <= MaxConnections
      BY <3>1, FewerConnections
    <3> QED BY <3>1, <3>2 DEF Limits
  <2> QED BY <1>4, <2>1, <2>2
<1>5. ASSUME NEW elapsed \in 0..TimeWait, NEW late \in SUBSET (DOMAIN connections), Poll(elapsed, late)
      PROVE  Limits'
  <2>1. /\ DOMAIN connections' \subseteq DOMAIN connections /\ at = "idle" /\ at' \in {"idle", "receive"}
        /\ ended' = [t \in Tuples |-> Later(ended[t], elapsed)]
        /\ UNCHANGED <<listeners, resets, nextId, todo>>
    BY <1>5 DEF Poll, Kept
  <2>2. ended' \in [Tuples -> 0..TimeWait]
    BY <2>1, PoolAssumption DEF Limits, Later
  <2>3. IsFiniteSet(DOMAIN connections') /\ Cardinality(DOMAIN connections') <= MaxConnections
    BY <2>1, FewerConnections
  <2> QED BY <2>1, <2>2, <2>3 DEF Limits
<1>6. ASSUME NEW id \in DOMAIN connections, NEW s \in TcpState, NEW again \in BOOLEAN,
             Input(id, s, again)
      PROVE  Limits'
  <2>1. /\ DOMAIN connections' = DOMAIN connections
        /\ UNCHANGED <<listeners, resets, nextId, at, todo>>
        /\ \/ ended' = [ended EXCEPT ![connections[id].tuple] = TimeWait]
           \/ ended' = Entered(id, s)
    BY <1>6 DEF Input
  <2>2. ended' \in [Tuples -> 0..TimeWait]
    BY <2>1, EnteredTyped, PoolAssumption DEF Limits
  <2> QED BY <2>1, <2>2 DEF Limits
<1>7. ASSUME NEW outcome, FlushReset(outcome) PROVE Limits'
  <2>1. resets' \in Seq(Tuples) /\ Len(resets') <= ControlCapacity
    BY <1>7, PoolAssumption DEF FlushReset, Flushed, Limits
  <2> QED BY <1>7, <2>1 DEF FlushReset, Limits
<1>8. ASSUME NEW id \in DOMAIN connections, NEW s \in TcpState, Transmit(id, s) PROVE Limits'
  <2>1. /\ DOMAIN connections' = DOMAIN connections /\ at = "transmit" /\ todo' = todo \ {id}
        /\ ended' = Entered(id, s)
        /\ UNCHANGED <<listeners, resets, nextId, at>>
    BY <1>8 DEF Transmit
  <2> QED BY <2>1, EnteredTyped DEF Limits
<1>9. ASSUME EndPoll PROVE Limits'
  BY <1>9 DEF EndPoll, Limits
<1> QED BY <1>1, <1>2, <1>3, <1>4, <1>5, <1>6, <1>7, <1>8, <1>9 DEF Next

\* The connection id holds the pair t at least as long as TIME-WAIT lasts.
Waits(id, t) ==
    /\ id \in DOMAIN connections /\ connections[id].tuple = t
    /\ connections[id].state = "TimeWait" /\ connections[id].left >= ended[t]

\* A pair that is still in TIME-WAIT has a holder when the step gave it one or
\* kept those it had.
LEMMA HoldersKept ==
    ASSUME TimeWaitHeld,
           \A t \in Tuples : ended'[t] > 0 =>
             \/ \E id : Waits(id, t)'
             \/ ended[t] > 0 /\ \A id : Waits(id, t) => Waits(id, t)'
    PROVE  TimeWaitHeld'
<1>1. "TimeWait" \notin Ended
  BY StatesDisjoint
<1>2. ASSUME NEW t \in Tuples, ended[t] > 0 PROVE \E id : Waits(id, t)
  BY <1>2 DEF TimeWaitHeld, Find, Waits
<1>3. ASSUME NEW t \in Tuples, ended'[t] > 0 PROVE \E id : Waits(id, t)'
  BY <1>2, <1>3
<1>4. ASSUME NEW t \in Tuples, NEW id, Waits(id, t)'
      PROVE  id \in Find(t)' /\ connections'[id].state = "TimeWait" /\ connections'[id].left >= ended'[t]
  BY <1>1, <1>4 DEF Waits, Find, Live
<1> QED BY <1>3, <1>4 DEF TimeWaitHeld

\* A step that leaves the connections in TIME-WAIT and the clocks alone.
LEMMA WaitersUntouched ==
    ASSUME TimeWaitHeld, ended' = ended,
           \A id \in DOMAIN connections : connections[id].state = "TimeWait" =>
             id \in DOMAIN connections' /\ connections'[id] = connections[id]
    PROVE  TimeWaitHeld'
<1>1. ASSUME NEW t \in Tuples, NEW id, Waits(id, t) PROVE Waits(id, t)'
  BY <1>1 DEF Waits
<1> QED BY <1>1, HoldersKept

\* Moving one connection, with the clock of its pair as Entered says.
LEMMA WaiterMoved ==
    ASSUME Typed, Limits, TimeWaitHeld, NEW id \in DOMAIN connections, NEW s \in TcpState,
           NEW c \in Connection, connections' = [connections EXCEPT ![id] = c],
           c.tuple = connections[id].tuple, c.state = s,
           ended' = Entered(id, s),
           connections[id].state = "TimeWait" => s \in Ended \/ c = connections[id],
           s = "TimeWait" /\ connections[id].state # s => c.left = TimeWait
    PROVE  TimeWaitHeld'
<1> DEFINE t0 == connections[id].tuple
<1>0. t0 \in Tuples /\ "TimeWait" \notin Ended /\ connections[id].state \in TcpState
  BY StatesDisjoint DEF Typed, Connection
<1>1. CASE s = "TimeWait" /\ connections[id].state # s
  <2>1. ended' = [ended EXCEPT ![t0] = TimeWait]
    BY <1>1 DEF Entered
  <2>2. Waits(id, t0)'
    BY <1>0, <1>1, <2>1, PoolAssumption DEF Waits, Typed, Limits
  <2>3. ASSUME NEW t \in Tuples, t # t0, NEW i, Waits(i, t) PROVE Waits(i, t)'
    BY <1>0, <2>1, <2>3 DEF Waits, Typed, Limits
  <2>4. ASSUME NEW t \in Tuples, t # t0 PROVE ended'[t] = ended[t]
    BY <2>1, <2>4 DEF Limits
  <2> QED BY <2>2, <2>3, <2>4, HoldersKept
<1>2. CASE connections[id].state = "TimeWait" /\ s \in Ended
  <2>1. ended' = [ended EXCEPT ![t0] = 0]
    BY <1>0, <1>2 DEF Entered
  <2>3. ASSUME NEW t \in Tuples, t # t0, NEW i, Waits(i, t) PROVE Waits(i, t)'
    BY <1>0, <2>1, <2>3 DEF Waits, Typed, Limits
  <2>4. ASSUME NEW t \in Tuples, t # t0 PROVE ended'[t] = ended[t]
    BY <2>1, <2>4 DEF Limits
  <2>5. ended'[t0] = 0
    BY <1>0, <2>1 DEF Limits
  <2> QED BY <2>3, <2>4, <2>5, HoldersKept
<1>3. CASE /\ ~(s = "TimeWait" /\ connections[id].state # s)
           /\ ~(connections[id].state = "TimeWait" /\ s \in Ended)
  <2>1. ended' = ended
    BY <1>3 DEF Entered
  <2>2. ASSUME NEW i \in DOMAIN connections, connections[i].state = "TimeWait"
        PROVE  i \in DOMAIN connections' /\ connections'[i] = connections[i]
    BY <1>3, <2>2 DEF Typed
  <2> QED BY <2>1, <2>2, WaitersUntouched
<1> QED BY <1>1, <1>2, <1>3

\* Every step keeps a pair in TIME-WAIT taken.
LEMMA TimeWaitStep ==
    ASSUME Typed, Limits, TimeWaitHeld, [Next]_vars
    PROVE  TimeWaitHeld'
<1>1. CASE UNCHANGED vars
  BY <1>1, WaitersUntouched DEF vars
<1>2. ASSUME NEW l \in Locals, Listen(l) \/ Unlisten(l) \/ Accept(l) PROVE TimeWaitHeld'
  <2>1. CASE Listen(l)
    BY <2>1, WaitersUntouched DEF Listen
  <2>2. CASE Unlisten(l)
    <3>1. ASSUME NEW t \in Tuples, ended'[t] > 0
          PROVE  ended'[t] = ended[t] /\ Find(t) \cap Children(l) = {}
      BY <2>2, <3>1 DEF Unlisten
    <3>2. ASSUME NEW t \in Tuples, NEW id, Waits(id, t) PROVE id \in Find(t)
      BY <3>2, StatesDisjoint DEF Waits, Find, Live
    <3>3. ASSUME NEW id \in DOMAIN connections, id \notin Children(l)
          PROVE  id \in DOMAIN connections' /\ connections'[id] = connections[id]
      BY <2>2, <3>3 DEF Unlisten, Keep
    <3>4. ASSUME NEW t \in Tuples, ended'[t] > 0, NEW id, Waits(id, t) PROVE Waits(id, t)'
      BY <3>1, <3>2, <3>3, <3>4 DEF Waits
    <3> QED BY <3>1, <3>4, HoldersKept
  <2>3. CASE Accept(l)
    <3>1. PICK i \in DOMAIN connections :
            /\ connections' = [connections EXCEPT ![i].accepted = TRUE]
            /\ connections[i].state \in {"Established", "CloseWait"}
      BY ZenonT(60), <2>3 DEF Accept, Acceptable
    <3>2. ASSUME NEW id \in DOMAIN connections, connections[id].state = "TimeWait"
          PROVE  id \in DOMAIN connections' /\ connections'[id] = connections[id]
      BY <3>1, <3>2 DEF Typed
    <3> QED BY <2>3, <3>2, WaitersUntouched DEF Accept
  <2> QED BY <1>2, <2>1, <2>2, <2>3
<1>3. ASSUME NEW t \in Tuples, Connect(t) \/ Open(t) \/ Refuse(t) PROVE TimeWaitHeld'
  <2>1. ASSUME NEW id \in DOMAIN connections
        PROVE  id \in DOMAIN connections' /\ connections'[id] = connections[id]
    BY <1>3 DEF Connect, Open, Refuse, Insert, Typed
  <2> QED BY ZenonT(60), <1>3, <2>1, WaitersUntouched DEF Connect, Open, Refuse
<1>4. ASSUME NEW id \in DOMAIN connections, Abort(id) \/ Remove(id) PROVE TimeWaitHeld'
  <2>1. CASE Abort(id)
    <3> DEFINE c == Moved(connections[id], "Reset")
    <3>1. c \in Connection
      BY MovedTyped, StatesDisjoint DEF Typed
    <3>2. connections' = [connections EXCEPT ![id] = c] /\ ended' = Entered(id, "Reset")
      BY <2>1 DEF Abort
    <3>3. c.tuple = connections[id].tuple /\ c.state = "Reset"
      BY DEF Moved, Typed, Connection
    <3> HIDE DEF c
    <3>4. "Reset" \in TcpState /\ "Reset" \in Ended /\ "Reset" # "TimeWait"
      BY DEF TcpState, Ended
    <3> QED BY ZenonT(60), <3>1, <3>2, <3>3, <3>4, WaiterMoved
  <2>2. CASE Remove(id)
    <3>1. ASSUME NEW i \in DOMAIN connections, connections[i].state = "TimeWait"
          PROVE  i \in DOMAIN connections' /\ connections'[i] = connections[i]
      BY <2>2, <3>1, StatesDisjoint DEF Remove, Removable, Live, Keep
    <3> QED BY <2>2, <3>1, WaitersUntouched DEF Remove
  <2> QED BY <1>4, <2>1, <2>2
<1>5. ASSUME NEW elapsed \in 0..TimeWait, NEW late \in SUBSET (DOMAIN connections), Poll(elapsed, late)
      PROVE  TimeWaitHeld'
  <2> DEFINE ticked == [id \in DOMAIN connections |-> Ticked(connections[id], elapsed, id \in late)]
  <2>1. connections' = [id \in Kept(ticked) |-> ticked[id]]
        /\ ended' = [t \in Tuples |-> Later(ended[t], elapsed)]
    BY <1>5 DEF Poll
  <2>2. ASSUME NEW id \in DOMAIN connections, connections[id].state = "TimeWait",
               connections[id].left > elapsed
        PROVE  /\ ticked[id].state = "TimeWait" /\ ticked[id].tuple = connections[id].tuple
               /\ ticked[id].left = connections[id].left - elapsed
    <3>1. connections[id] \in Connection /\ ~(connections[id].left <= elapsed)
      BY <2>2, PoolAssumption DEF Typed, Connection
    <3> QED BY <2>2, <3>1 DEF Ticked, Later, Connection
  <2>3. ASSUME NEW t \in Tuples, ended'[t] > 0
        PROVE  ended[t] > elapsed /\ ended'[t] = ended[t] - elapsed /\ ended[t] \in Nat
    BY <2>1, <2>3, PoolAssumption DEF Later, Limits
  <2>4. ASSUME NEW t \in Tuples, ended'[t] > 0, NEW id, Waits(id, t) PROVE Waits(id, t)'
    <3>1. connections[id].left \in Nat /\ connections[id].left >= ended[t]
      BY <2>4, PoolAssumption DEF Waits, Typed, Connection
    <3>2. connections[id].left > elapsed
      BY <2>3, <2>4, <3>1
    <3>3. /\ ticked[id].state = "TimeWait" /\ ticked[id].tuple = t /\ id \in DOMAIN connections
          /\ ticked[id].left = connections[id].left - elapsed
      BY <2>2, <2>4, <3>2 DEF Waits
    <3>4. id \in Kept(ticked)
      BY <3>3, StatesDisjoint DEF Kept
    <3> HIDE DEF ticked
    <3>5. connections'[id] = ticked[id] /\ id \in DOMAIN connections'
      BY <2>1, <3>4
    <3> QED BY <2>3, <2>4, <3>1, <3>3, <3>5 DEF Waits
  <2>5. ASSUME NEW t \in Tuples, ended'[t] > 0 PROVE ended[t] > 0
    BY <2>3, <2>5
  <2> QED BY <2>4, <2>5, HoldersKept
<1>6. ASSUME NEW id \in DOMAIN connections, NEW s \in TcpState, NEW again \in BOOLEAN,
             Input(id, s, again)
      PROVE  TimeWaitHeld'
  <2> DEFINE old == connections[id]
  <2>0. old \in Connection /\ old.tuple \in Tuples
    BY DEF Typed, Connection
  <2>1. CASE again /\ old.state = "TimeWait"
    <3> DEFINE c == [old EXCEPT !.left = TimeWait]
    <3>0. PICK t0 \in Tuples : t0 = old.tuple
      BY <2>0
    <3>1. connections' = [connections EXCEPT ![id] = c] /\ ended' = [ended EXCEPT ![t0] = TimeWait]
      BY <1>6, <2>1, <3>0 DEF Input
    <3>2. c.tuple = t0 /\ c.left = TimeWait /\ c.state = "TimeWait"
      BY <2>0, <2>1, <3>0 DEF Connection
    <3> HIDE DEF c
    <3>3. Waits(id, t0)'
      BY <2>0, <3>1, <3>2, PoolAssumption DEF Waits, Limits, Typed
    <3>4. ASSUME NEW t \in Tuples, t # t0, NEW i, Waits(i, t) PROVE Waits(i, t)'
      BY <3>0, <3>1, <3>4 DEF Waits, Typed, Limits
    <3>5. ASSUME NEW t \in Tuples, t # t0 PROVE ended'[t] = ended[t]
      BY <3>1, <3>5 DEF Limits
    <3> QED BY <3>3, <3>4, <3>5, HoldersKept
  <2>2. CASE ~(again /\ old.state = "TimeWait")
    <3> DEFINE c == Moved(old, s)
    <3>1. connections' = [connections EXCEPT ![id] = c] /\ ended' = Entered(id, s)
      BY ZenonT(60), <1>6, <2>2 DEF Input
    <3>2. c.tuple = old.tuple /\ c.state = s /\ (s = "TimeWait" /\ old.state # s => c.left = TimeWait)
      BY <2>0 DEF Moved, Connection
    <3>3. old.state = "TimeWait" => s = "TimeWait"
      BY <1>6 DEF Input, InputMoves
    <3>4. old.state = "TimeWait" => c = old
      BY ZenonT(60), <2>0, <3>3 DEF Moved, Connection
    <3>5. c \in Connection
      BY <2>0, MovedTyped
    <3> HIDE DEF c, old
    <3> QED BY ZenonT(60), <3>1, <3>2, <3>4, <3>5, WaiterMoved DEF old
  <2> QED BY <2>1, <2>2
<1>7. ASSUME NEW outcome, FlushReset(outcome) PROVE TimeWaitHeld'
  BY <1>7, WaitersUntouched DEF FlushReset
<1>8. ASSUME NEW id \in DOMAIN connections, NEW s \in TcpState, Transmit(id, s) PROVE TimeWaitHeld'
  <2> DEFINE c == [connections[id] EXCEPT !.state = s]
  <2>1. connections' = [connections EXCEPT ![id] = c] /\ ended' = Entered(id, s)
    BY <1>8 DEF Transmit
  <2>2. c.tuple = connections[id].tuple /\ c.state = s /\ c \in Connection
    BY DEF Typed, Connection
  <2>3. s = "TimeWait" => connections[id].state = s
    BY <1>8 DEF Transmit, SendMoves
  <2>4. connections[id].state = "TimeWait" => s \in Ended \/ c = connections[id]
    BY <1>8 DEF Transmit, SendMoves, Ended, Typed, Connection
  <2> HIDE DEF c
  <2> QED BY ZenonT(60), <2>1, <2>2, <2>3, <2>4, WaiterMoved
<1>9. ASSUME EndPoll PROVE TimeWaitHeld'
  BY <1>9, WaitersUntouched DEF EndPoll
<1> QED BY <1>1, <1>2, <1>3, <1>4, <1>5, <1>6, <1>7, <1>8, <1>9 DEF Next

\* The table keeps what it must, within its limits, for any capacities: poll's
\* list names existing connections, connections, listeners and resets stay
\* within their bounds, and a pair in TIME-WAIT stays taken for its whole
\* period: neither remove, connect nor a SYN takes it early, only abort, a local
\* failure and unlisten of a child nobody accepted give it up.
THEOREM TableKept == Spec => []TableHolds
<1> DEFINE IInv == Typed /\ Limits /\ TimeWaitHeld
<1>1. Init => IInv
  <2> SUFFICES ASSUME Init PROVE IInv
    OBVIOUS
  <2>1. DOMAIN connections = {} /\ Typed
    BY InitTyped
  <2>2. \A t \in Tuples : ended[t] = 0
    BY DEF Init
  <2>3. TimeWaitHeld
    BY <2>2 DEF TimeWaitHeld
  <2>4. Limits
    <3>1. IsFiniteSet({}) /\ Cardinality({}) = 0
      BY FS_EmptySet
    <3>2. /\ listeners = {} /\ resets = <<>> /\ nextId = 1 /\ at = "idle" /\ todo = {}
          /\ ended \in [Tuples -> 0..TimeWait]
      BY PoolAssumption DEF Init
    <3> QED BY <2>1, <3>1, <3>2, PoolAssumption DEF Limits
  <2> QED BY <2>1, <2>3, <2>4
<1>2. IInv /\ [Next]_vars => IInv'
  BY TypedStep, LimitsStep, TimeWaitStep
<1>3. IInv => TableHolds
  <2> SUFFICES ASSUME IInv PROVE TableHolds
    OBVIOUS
  <2>1. \A id \in DOMAIN connections \cup handed : id \in 1..(nextId - 1)
    BY DEF Typed
  <2> QED BY <2>1 DEF TableHolds, WithinCapacity, TypeOK, Typed, Limits, Connection
<1> QED BY <1>1, <1>2, <1>3, PTL DEF Spec

-----------------------------------------------------------------------------
(* TcpConnection *)

CONSTANTS Modulus, Iss, WindowLimit, MaxInflight, MaxCwnd, Configs
VARIABLES config, conn, net, written, read

Conn == INSTANCE TcpConnection

\* c has a state, and an operation that returns d left it alone
Stated(c) == "state" \in DOMAIN c /\ c.state \in Conn!TcpState
Keeps(c, d) == "state" \in DOMAIN d /\ d.state = c.state

\* Where a segment may take a connection that is live
InputTo(s, t) == s = t \/ <<s, t>> \in Conn!InputMoves

\* Every endpoint has a state, or no connection yet.
StatesTyped ==
    /\ DOMAIN conn = Conn!Ends
    /\ \A e \in Conn!Ends : "state" \in DOMAIN conn[e] /\ conn[e].state \in Conn!TcpState \cup {"None"}

-----------------------------------------------------------------------------
(* What each method does to the state *)

\* What transmit may send comes from one call of prepare.
LEMMA ReadyFrom ==
    ASSUME NEW c, NEW due, NEW r \in Conn!Ready(c, due)
    PROVE  \E cwnd, probeDue :
              LET p == Conn!Prepare(c, cwnd, probeDue) IN
              r = Conn!Recheck(p, Conn!Pick(p, due), cwnd, probeDue)
<1>1. PICK cwnd \in {Conn!Mss, MaxCwnd}, probeDue \in BOOLEAN :
         r \in {Conn!Recheck(p, Conn!Pick(p, due), cwnd, probeDue) :
                   p \in {Conn!Prepare(c, cwnd, probeDue)}}
  BY SMTT(60) DEF Conn!Ready
<1> QED  BY <1>1, SMTT(60)

\* StartFlight, Nudge, Probed and UpdateWindow leave the state alone.
LEMMA StartFlightKeeps ==
    ASSUME NEW c, NEW kind, NEW data, Stated(c)
    PROVE  Keeps(c, Conn!StartFlight(c, kind, data))
BY DEF Conn!StartFlight, Keeps, Stated

LEMMA NudgeKeeps ==
    ASSUME NEW c, Stated(c)
    PROVE  Keeps(c, Conn!Nudge(c))
BY DEF Conn!Nudge, Keeps, Stated

LEMMA ProbedKeeps ==
    ASSUME NEW c, NEW due, Stated(c)
    PROVE  Keeps(c, Conn!Probed(c, due))
BY DEF Conn!Probed, Keeps, Stated

LEMMA UpdateWindowKeeps ==
    ASSUME NEW c, NEW s, Stated(c)
    PROVE  Keeps(c, Conn!UpdateWindow(c, s))
BY DEF Conn!UpdateWindow, Keeps, Stated

\* fail: the state it is given
LEMMA FailTo ==
    ASSUME NEW c, NEW state, Stated(c)
    PROVE  "state" \in DOMAIN Conn!Fail(c, state) /\ Conn!Fail(c, state).state = state
BY DEF Conn!Fail, Stated

\* acknowledge: the state stays, or is the one after the FIN
LEMMA AcknowledgeTo ==
    ASSUME NEW c, NEW s, Stated(c)
    PROVE  /\ "state" \in DOMAIN Conn!Acknowledge(c, s)
           /\ Conn!Acknowledge(c, s).state \in {c.state, Conn!AfterFin(c.state)}
<1> DEFINE w == Conn!UpdateWindow(c, s)
           fin == \E i \in DOMAIN c.flights :
                    c.flights[i].kind = "fin" /\ ~Conn!Before(s.ack, Conn!End(c.flights[i]))
           cut == [w EXCEPT !.flights = Conn!Uncovered(@, s.ack), !.una = s.ack,
                            !.state = IF fin THEN Conn!AfterFin(@) ELSE @,
                            !.ackp = @ /\ ~(fin /\ c.state = "LastAck")]
<1>1. "state" \in DOMAIN w /\ w.state = c.state
  BY UpdateWindowKeeps DEF Keeps
<1>2. Conn!Acknowledge(c, s) = IF Conn!Before(s.ack, c.una) THEN c ELSE IF s.ack = c.una THEN w ELSE cut
  BY DEF Conn!Acknowledge
<1>3. "state" \in DOMAIN cut /\ cut.state = IF fin THEN Conn!AfterFin(c.state) ELSE c.state
  <2> HIDE DEF w, fin
  <2> QED  BY <1>1
<1> HIDE DEF cut, w, fin
<1> QED  BY <1>1, <1>2, <1>3 DEF Stated

\* receive_data: the state stays, or is the one at the FIN of an open stream
LEMMA ReceiveDataTo ==
    ASSUME NEW c, NEW s, Stated(c)
    PROVE  LET d == Conn!ReceiveData(c, s) IN
           /\ "state" \in DOMAIN d
           /\ \/ d.state = c.state
              \/ /\ c.state \in {"Established", "FinWait1", "FinWait2"} /\ s.fin
                 /\ d.state = Conn!AtFin(c.state)
BY DEF Conn!ReceiveData, Conn!FinTaken, Stated

\* The handshake's answer
LEMMA SynSentInputTo ==
    ASSUME NEW c, NEW s, Stated(c), c.state = "SynSent"
    PROVE  /\ "state" \in DOMAIN Conn!SynSentInput(c, s)
           /\ Conn!SynSentInput(c, s).state \in {"SynSent", "Reset", "Established"}
<1> DEFINE opened == [c EXCEPT !.rnext = Conn!Wrap(s.seq + 1), !.window = s.window,
                               !.wseq = s.seq, !.wack = s.ack]
           acked == Conn!Acknowledge(opened, s)
           done == [acked EXCEPT !.state = "Established", !.ackp = TRUE]
           rest == [s EXCEPT !.seq = Conn!Wrap(@ + 1), !.syn = FALSE]
<1>1. Stated(opened)
  BY DEF Stated
<1> HIDE DEF opened
<1>2. "state" \in DOMAIN acked
  BY <1>1, AcknowledgeTo
<1> HIDE DEF acked
<1>3. "state" \in DOMAIN done /\ done.state = "Established"
  BY <1>2
<1> HIDE DEF done
<1>4. \/ Conn!SynSentInput(c, s) \in {c, Conn!Fail(c, "Reset")}
      \/ ~s.fin /\ Conn!SynSentInput(c, s) = Conn!ReceiveData(done, rest)
  BY DEF Conn!SynSentInput, done, acked, opened
<1>5. CASE Conn!SynSentInput(c, s) \in {c, Conn!Fail(c, "Reset")}
  BY <1>5, FailTo DEF Stated
<1>6. CASE ~s.fin /\ Conn!SynSentInput(c, s) = Conn!ReceiveData(done, rest)
  <2>1. Stated(done)
    BY <1>3 DEF Stated, Conn!TcpState, Conn!Synchronized
  <2>2. ~rest.fin
    BY <1>6
  <2> HIDE DEF rest
  <2> QED  BY <1>3, <1>6, <2>1, <2>2, ReceiveDataTo
<1> QED  BY <1>4, <1>5, <1>6

\* A segment that passed every check
LEMMA AcceptedTo ==
    ASSUME NEW c, NEW s, Stated(c), c.state \notin Conn!Ended \cup {"SynSent", "TimeWait"}
    PROVE  "state" \in DOMAIN Conn!Accepted(c, s) /\ InputTo(c.state, Conn!Accepted(c, s).state)
<1> DEFINE open == IF c.state = "SynReceived" THEN [c EXCEPT !.state = "Established"] ELSE c
           acked == Conn!Acknowledge(open, s)
           last == Conn!ReceiveData(acked, s)
<1>1. /\ Stated(open)
      /\ open.state = IF c.state = "SynReceived" THEN "Established" ELSE c.state
  BY DEF Stated, Conn!TcpState, Conn!Synchronized
<1> HIDE DEF open
<1>2. "state" \in DOMAIN acked /\ acked.state \in {open.state, Conn!AfterFin(open.state)}
  BY <1>1, AcknowledgeTo
<1> HIDE DEF acked
<1>3. Stated(acked)
  BY <1>1, <1>2 DEF Stated, Conn!AfterFin, Conn!TcpState, Conn!Synchronized, Conn!Ended
<1>4. /\ "state" \in DOMAIN last
      /\ \/ last.state = acked.state
         \/ /\ acked.state \in {"Established", "FinWait1", "FinWait2"}
            /\ last.state = Conn!AtFin(acked.state)
  BY <1>3, ReceiveDataTo
<1> HIDE DEF last
<1>5. Conn!Accepted(c, s) = IF Conn!Terminal(acked) THEN acked ELSE last
  BY DEF Conn!Accepted, last, acked, open
<1>6. InputTo(c.state, acked.state)
  BY <1>1, <1>2 DEF Conn!AfterFin, InputTo, Conn!InputMoves, Stated
<1>7. InputTo(c.state, last.state)
  <2>1. CASE acked.state = "Established"
    BY <2>1, <1>1, <1>2, <1>4, <1>6, ZenonT(60) DEF Conn!AtFin, Conn!AfterFin, InputTo, Conn!InputMoves
  <2>2. CASE acked.state = "FinWait1"
    BY <2>2, <1>1, <1>2, <1>4, <1>6, ZenonT(60) DEF Conn!AtFin, Conn!AfterFin, InputTo, Conn!InputMoves
  <2>3. CASE acked.state = "FinWait2"
    BY <2>3, <1>1, <1>2, <1>4, <1>6, ZenonT(60) DEF Conn!AtFin, Conn!AfterFin, InputTo, Conn!InputMoves
  <2>4. CASE acked.state \notin {"Established", "FinWait1", "FinWait2"}
    BY <2>4, <1>4, <1>6
  <2> QED  BY <2>1, <2>2, <2>3, <2>4
<1> QED  BY <1>2, <1>4, <1>5, <1>6, <1>7

\* input takes a live connection along InputMoves.
LEMMA InputToMoves ==
    ASSUME NEW c, NEW s, Stated(c), c.state \notin Conn!Ended
    PROVE  "state" \in DOMAIN Conn!Input(c, s) /\ InputTo(c.state, Conn!Input(c, s).state)
<1>1. CASE c.state = "SynSent"
  <2>1. Conn!Input(c, s) = Conn!SynSentInput(c, s)
    BY <1>1 DEF Conn!Input
  <2>2. \A t \in {"SynSent", "Reset", "Established"} : InputTo("SynSent", t)
    BY DEF InputTo, Conn!InputMoves, Conn!TcpState, Conn!Ended
  <2> QED  BY <1>1, <2>1, <2>2, SynSentInputTo, ZenonT(60)
<1>2. CASE c.state = "TimeWait"
  <2>1. Conn!Input(c, s) \in {c, Conn!Nudge(c)}
    BY <1>2 DEF Conn!Input
  <2> QED  BY <2>1, NudgeKeeps DEF Keeps, Stated, InputTo
<1>3. CASE c.state \notin {"SynSent", "TimeWait"}
  <2>1. Conn!Input(c, s) \in {c, Conn!Nudge(c), Conn!Fail(c, "Reset"), Conn!Accepted(c, s)}
    BY <1>3 DEF Conn!Input
  <2>2. InputTo(c.state, "Reset")
    BY <1>3 DEF InputTo, Conn!InputMoves, Stated
  <2>3. "state" \in DOMAIN Conn!Accepted(c, s) /\ InputTo(c.state, Conn!Accepted(c, s).state)
    BY <1>3, AcceptedTo
  <2>4. CASE Conn!Input(c, s) \in {c, Conn!Nudge(c)}
    BY <2>4, NudgeKeeps DEF Keeps, Stated, InputTo
  <2>5. CASE Conn!Input(c, s) = Conn!Fail(c, "Reset")
    BY <2>5, <2>2, FailTo
  <2> QED  BY <2>1, <2>3, <2>4, <2>5
<1> QED  BY <1>1, <1>2, <1>3

\* prepare keeps the state, or takes it along SendMoves.
LEMMA PrepareTo ==
    ASSUME NEW c, NEW cwnd, NEW due, Stated(c)
    PROVE  LET d == Conn!Prepare(c, cwnd, due) IN
           "state" \in DOMAIN d /\ (d.state = c.state \/ <<c.state, d.state>> \in Conn!SendMoves)
<1> DEFINE d == Conn!Prepare(c, cwnd, due)
           started == Conn!StartFlight(c, "fin", <<>>)
           fin == [started EXCEPT !.state = IF @ = "CloseWait" THEN "LastAck" ELSE "FinWait1"]
<1>1. \/ d = c \/ d = Conn!Probed(c, due)
      \/ \E n : d = Conn!StartFlight([c EXCEPT !.queued = SubSeq(@, n + 1, Len(@))], "data",
                                SubSeq(c.queued, 1, n))
      \/ c.state \in {"Established", "CloseWait"} /\ d = fin
  BY ZenonT(60) DEF Conn!Prepare
<1> HIDE DEF d
<1>2. ASSUME NEW n, d = Conn!StartFlight([c EXCEPT !.queued = SubSeq(@, n + 1, Len(@))], "data",
                                    SubSeq(c.queued, 1, n))
      PROVE  Keeps(c, d)
  <2> DEFINE rest == [c EXCEPT !.queued = SubSeq(@, n + 1, Len(@))]
  <2>1. Stated(rest) /\ rest.state = c.state
    BY DEF Stated
  <2> HIDE DEF rest
  <2>2. Keeps(rest, Conn!StartFlight(rest, "data", SubSeq(c.queued, 1, n)))
    BY <2>1, StartFlightKeeps
  <2> QED  BY <1>2, <2>1, <2>2 DEF Keeps, rest
<1>3. "state" \in DOMAIN started /\ started.state = c.state
  BY StartFlightKeeps DEF Keeps
<1> HIDE DEF started
<1>4. ASSUME c.state \in {"Established", "CloseWait"}, d = fin
      PROVE  "state" \in DOMAIN d /\ <<c.state, d.state>> \in Conn!SendMoves
  <2>1. "state" \in DOMAIN d /\ d.state = IF c.state = "CloseWait" THEN "LastAck" ELSE "FinWait1"
    BY <1>3, <1>4
  <2> QED  BY <2>1, <1>4 DEF Conn!SendMoves
<1> HIDE DEF fin
<1>5. ASSUME d = c \/ d = Conn!Probed(c, due)
      PROVE  Keeps(c, d)
  BY <1>5, ProbedKeeps DEF Keeps, Stated
<1> QED  BY <1>1, <1>2, <1>4, <1>5, ZenonT(60) DEF Keeps, d

\* What transmit does after prepare leaves the state alone.
LEMMA RecheckKeeps ==
    ASSUME NEW c, NEW i, NEW cwnd, NEW due, Stated(c)
    PROVE  Keeps(c, Conn!Recheck(c, i, cwnd, due).c)
<1> DEFINE d == Conn!Recheck(c, i, cwnd, due).c
<1>1. \/ d = c
      \/ \E p : d = Conn!Probed(c, p)
      \/ \E f, n, q : d = [c EXCEPT !.flights[i] = f, !.next = n, !.queued = q \o @]
  BY ZenonT(60) DEF Conn!Recheck
<1> HIDE DEF d
<1>2. CASE d = c
  BY <1>2 DEF Keeps, Stated, d
<1>3. CASE \E p : d = Conn!Probed(c, p)
  BY <1>3, ProbedKeeps DEF d
<1>4. ASSUME NEW f, NEW n, NEW q, d = [c EXCEPT !.flights[i] = f, !.next = n, !.queued = q \o @]
      PROVE  Keeps(c, d)
  BY <1>4 DEF Keeps, Stated
<1> QED  BY <1>1, <1>2, <1>3, <1>4, ZenonT(60) DEF d

LEMMA SubmittedKeeps ==
    ASSUME NEW c, NEW i, Stated(c)
    PROVE  Keeps(c, Conn!Submitted(c, i))
BY DEF Conn!Submitted, Keeps, Stated

-----------------------------------------------------------------------------
(* Every step *)

\* The moves of one endpoint
Moves(s, t) ==
    s # t =>
        \/ s = "None" /\ t = "SynReceived"
        \/ <<s, t>> \in Conn!InputMoves \cup Conn!SendMoves
        \/ s # "None" /\ t = "Reset"
        \/ s \notin Conn!Ended \cup {"None", "TimeWait"} /\ t = "TimedOut"
        \/ s = "TimeWait" /\ t = "Closed"

\* Every state a move leads to is a state.
LEMMA MovesTyped ==
    ASSUME NEW s \in Conn!TcpState \cup {"None"}, NEW t, Moves(s, t)
    PROVE  t \in Conn!TcpState \cup {"None"}
BY DEF Moves, Conn!InputMoves, Conn!SendMoves, Conn!TcpState, Conn!Synchronized, Conn!Ended

\* An endpoint's connection becomes d, the other stays.
Becomes(e, d) ==
    conn' = [conn EXCEPT ![e] = d] /\ "state" \in DOMAIN d /\ Moves(conn[e].state, d.state)

\* Such a step preserves the types, and moves as the pool expects.
LEMMA BecomesMoves ==
    ASSUME StatesTyped, NEW e \in Conn!Ends, NEW d, Becomes(e, d)
    PROVE  StatesTyped' /\ \A x \in Conn!Ends : Moves(conn[x].state, conn'[x].state)
<1>1. DOMAIN conn' = Conn!Ends /\ \A x \in Conn!Ends : conn'[x] = IF x = e THEN d ELSE conn[x]
  BY DEF StatesTyped, Becomes
<1>2. \A x \in Conn!Ends : "state" \in DOMAIN conn'[x] /\ Moves(conn[x].state, conn'[x].state)
  BY <1>1 DEF StatesTyped, Becomes, Moves
<1>3. \A x \in Conn!Ends : conn'[x].state \in Conn!TcpState \cup {"None"}
  BY <1>2, MovesTyped DEF StatesTyped
<1> QED  BY <1>1, <1>2, <1>3 DEF StatesTyped

\* A live connection has a state of TcpState that has not ended.
LEMMA LiveStated ==
    ASSUME StatesTyped, NEW e \in Conn!Ends, Conn!Live(conn[e])
    PROVE  Stated(conn[e]) /\ conn[e].state \notin Conn!Ended \cup {"None"}
BY DEF StatesTyped, Conn!Live, Conn!Terminal, Stated

\* Each action of an endpoint is such a step, or leaves the connections alone.
LEMMA StepBecomes ==
    ASSUME StatesTyped, NEW e \in Conn!Ends,
           \/ Conn!Write(e) \/ Conn!Read(e) \/ Conn!Close(e) \/ Conn!Abort(e)
           \/ Conn!TimeOut(e) \/ Conn!TimeWaitEnds(e) \/ Conn!Deliver(e)
           \/ \E due \in BOOLEAN : Conn!Transmit(e, due)
    PROVE  conn' = conn \/ \E d : Becomes(e, d)
<1> DEFINE c == conn[e]
<1>0. "state" \in DOMAIN c
  BY DEF StatesTyped
<1>1. CASE Conn!Write(e)
  <2> DEFINE d == [c EXCEPT !.queued = Append(@, written[e] + 1)]
  <2>1. conn' = [conn EXCEPT ![e] = d]
    BY <1>1 DEF Conn!Write
  <2>2. "state" \in DOMAIN d /\ d.state = c.state
    BY <1>0
  <2> QED  BY <2>1, <2>2, ZenonT(60) DEF Becomes, Moves
<1>2. CASE Conn!Read(e)
  <2> DEFINE d == [c EXCEPT !.received = Tail(@), !.ackp = TRUE]
  <2>1. conn' = [conn EXCEPT ![e] = d]
    BY <1>2, ZenonT(60) DEF Conn!Read, StatesTyped
  <2>2. "state" \in DOMAIN d /\ d.state = c.state
    BY <1>0
  <2> QED  BY <2>1, <2>2, ZenonT(60) DEF Becomes, Moves
<1>3. CASE Conn!Close(e)
  <2> DEFINE d == [c EXCEPT !.closed = TRUE]
  <2>1. conn' = [conn EXCEPT ![e] = d]
    BY <1>3 DEF Conn!Close
  <2>2. "state" \in DOMAIN d /\ d.state = c.state
    BY <1>0
  <2> QED  BY <2>1, <2>2, ZenonT(60) DEF Becomes, Moves
<1>4. CASE Conn!Abort(e)
  <2>1. conn' = [conn EXCEPT ![e] = Conn!Fail(c, "Reset")] /\ c.state # "None"
    BY <1>4 DEF Conn!Abort
  <2>2. Stated(c)
    BY <2>1 DEF StatesTyped, Stated
  <2>3. "state" \in DOMAIN Conn!Fail(c, "Reset") /\ Moves(c.state, Conn!Fail(c, "Reset").state)
    BY <2>1, <2>2, FailTo DEF Moves
  <2> QED  BY <2>1, <2>3, ZenonT(60) DEF Becomes
<1>5. CASE Conn!TimeOut(e)
  <2>1. conn' = [conn EXCEPT ![e] = Conn!Fail(c, "TimedOut")] /\ Conn!Live(c) /\ c.state # "TimeWait"
    BY <1>5 DEF Conn!TimeOut
  <2>2. "state" \in DOMAIN Conn!Fail(c, "TimedOut") /\ Moves(c.state, Conn!Fail(c, "TimedOut").state)
    BY <2>1, LiveStated, FailTo DEF Moves
  <2> QED  BY <2>1, <2>2, ZenonT(60) DEF Becomes
<1>6. CASE Conn!TimeWaitEnds(e)
  <2> DEFINE d == [c EXCEPT !.state = "Closed", !.ackp = FALSE]
  <2>1. conn' = [conn EXCEPT ![e] = d] /\ c.state = "TimeWait"
    BY <1>6, ZenonT(60) DEF Conn!TimeWaitEnds, StatesTyped
  <2>2. "state" \in DOMAIN d /\ d.state = "Closed"
    BY <1>0, ZenonT(60)
  <2> QED  BY <2>1, <2>2, ZenonT(60) DEF Becomes, Moves
<1>7. CASE Conn!Deliver(e)
  <2>1. PICK s \in net[e] :
           \/ Conn!Live(c) /\ conn' = [conn EXCEPT ![e] = Conn!Input(c, s)]
           \/ \E rest : ~Conn!Live(c) /\ Conn!Unmatched(e, s, rest)
    BY <1>7 DEF Conn!Deliver
  <2>2. CASE Conn!Live(c) /\ conn' = [conn EXCEPT ![e] = Conn!Input(c, s)]
    <3>1. "state" \in DOMAIN Conn!Input(c, s) /\ InputTo(c.state, Conn!Input(c, s).state)
      BY <2>2, LiveStated, InputToMoves, ZenonT(60)
    <3> QED  BY <2>2, <3>1, ZenonT(60) DEF Becomes, Moves, InputTo
  <2>3. CASE \E rest : ~Conn!Live(c) /\ Conn!Unmatched(e, s, rest)
    <3>1. conn' = conn \/ (c = Conn!None /\ conn' = [conn EXCEPT ![e] = Conn!Passive(e, s)])
      BY <2>3, ZenonT(60) DEF Conn!Unmatched
    <3>2. "state" \in DOMAIN Conn!Passive(e, s) /\ Conn!Passive(e, s).state = "SynReceived"
      BY DEF Conn!Passive, Conn!Active, Conn!StartFlight
    <3> QED  BY <3>1, <3>2 DEF Becomes, Moves, Conn!None
  <2> QED  BY <2>1, <2>2, <2>3, ZenonT(60)
<1>8. ASSUME NEW due \in BOOLEAN, Conn!Transmit(e, due)
      PROVE  \E d : Becomes(e, d)
  <2>1. PICK r \in Conn!Ready(c, due) :
           conn' = [conn EXCEPT ![e] = Conn!Submitted(r.c, r.i)] \/ conn' = [conn EXCEPT ![e] = r.c]
    BY <1>8, ZenonT(60) DEF Conn!Transmit
  <2>2. PICK cwnd, probeDue :
           LET p == Conn!Prepare(c, cwnd, probeDue) IN
           r = Conn!Recheck(p, Conn!Pick(p, due), cwnd, probeDue)
    BY <2>1, ReadyFrom, ZenonT(60)
  <2> DEFINE p == Conn!Prepare(c, cwnd, probeDue)
  <2>3. Stated(c)
    BY <1>8, LiveStated, ZenonT(60) DEF Conn!Transmit
  <2>4. "state" \in DOMAIN p /\ (p.state = c.state \/ <<c.state, p.state>> \in Conn!SendMoves)
    BY <2>3, PrepareTo, ZenonT(60)
  <2> HIDE DEF p
  <2>5. Stated(p) /\ Moves(c.state, p.state)
    BY <2>3, <2>4 DEF Stated, Moves, Conn!SendMoves, Conn!TcpState, Conn!Synchronized
  <2>6. Keeps(p, r.c)
    BY <2>2, <2>5, RecheckKeeps, ZenonT(60) DEF p
  <2>7. Stated(r.c) /\ r.c.state = p.state
    BY <2>5, <2>6, ZenonT(60) DEF Keeps, Stated
  <2>8. Keeps(r.c, Conn!Submitted(r.c, r.i))
    BY <2>7, SubmittedKeeps
  <2> QED  BY <2>1, <2>5, <2>7, <2>8, ZenonT(60) DEF Becomes, Keeps, Stated
<1> QED  BY <1>1, <1>2, <1>3, <1>4, <1>5, <1>6, <1>7, <1>8, ZenonT(60)

-----------------------------------------------------------------------------
(* The theorem about the two endpoints *)

\* At the start one endpoint has sent its SYN, and the other has no connection.
LEMMA InitStates == Conn!Init => StatesTyped
<1> SUFFICES ASSUME Conn!Init PROVE StatesTyped
  OBVIOUS
<1>1. "state" \in DOMAIN Conn!Active("a") /\ Conn!Active("a").state = "SynSent"
  BY DEF Conn!Active, Conn!StartFlight
<1>2. "state" \in DOMAIN Conn!None /\ Conn!None.state = "None"
  BY DEF Conn!None
<1>3. DOMAIN conn = Conn!Ends /\ \A e \in Conn!Ends : conn[e] = IF e = "a" THEN Conn!Active("a") ELSE Conn!None
  BY DEF Conn!Init
<1> QED  BY <1>1, <1>2, <1>3 DEF StatesTyped, Conn!TcpState

\* Every step preserves the types, and moves as the pool expects.
LEMMA StepMoves ==
    ASSUME StatesTyped, [Conn!Next]_(Conn!vars)
    PROVE  StatesTyped' /\ \A e \in Conn!Ends : Moves(conn[e].state, conn'[e].state)
<1>1. ASSUME conn' = conn
      PROVE  StatesTyped' /\ \A e \in Conn!Ends : Moves(conn[e].state, conn'[e].state)
  BY <1>1 DEF StatesTyped, Moves
<1>2. CASE Conn!Next
  <2>1. PICK e \in Conn!Ends :
           \/ Conn!Write(e) \/ Conn!Read(e) \/ Conn!Close(e) \/ Conn!Abort(e)
           \/ Conn!TimeOut(e) \/ Conn!TimeWaitEnds(e) \/ Conn!Deliver(e)
           \/ \E due \in BOOLEAN : Conn!Transmit(e, due)
    BY <1>2 DEF Conn!Next
  <2>2. conn' = conn \/ \E d : Becomes(e, d)
    BY <2>1, StepBecomes
  <2> QED  BY <1>1, <2>2, BecomesMoves, ZenonT(60)
<1> QED  BY <1>1, <1>2 DEF Conn!vars

\* Connection's methods: whatever arrives, in whatever order, and whichever
\* timer expires, a connection changes state only along the moves TcpPool relies
\* on (TcpStates), and one that ended only to Reset, by its application's abort.
THEOREM StatesMoveAsThePoolExpects == Conn!Spec => Conn!PoolMoves
<1>1. Conn!Init => StatesTyped
  BY InitStates
<1>2. StatesTyped /\ [Conn!Next]_(Conn!vars) => StatesTyped'
  BY StepMoves
<1>3. StatesTyped /\ [Conn!Next]_(Conn!vars) =>
        [\A e \in Conn!Ends :
            LET s == conn[e].state
                t == conn'[e].state
            IN s # t =>
                \/ s = "None" /\ t = "SynReceived"
                \/ <<s, t>> \in Conn!InputMoves \cup Conn!SendMoves
                \/ s # "None" /\ t = "Reset"
                \/ s \notin Conn!Ended \cup {"None", "TimeWait"} /\ t = "TimedOut"
                \/ s = "TimeWait" /\ t = "Closed"]_(Conn!vars)
  BY StepMoves DEF Moves
<1> QED  BY <1>1, <1>2, <1>3, PTL DEF Conn!Spec, Conn!PoolMoves

=============================================================================
