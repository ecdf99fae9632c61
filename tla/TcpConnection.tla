---------------------------- MODULE TcpConnection ----------------------------
(***************************************************************************)
(* Two TCP endpoints (src/api/tcp/connection.rs) and the network between   *)
(* them.  "a" opens actively, "b" listens.  Every function of the module   *)
(* maps a connection record to a connection record, as the method it       *)
(* models maps self.                                                       *)
(*                                                                         *)
(* A byte is its position in the stream its sender wrote.  Sequence        *)
(* numbers wrap at Modulus (2^32 in the code).  Timers are abstract: the   *)
(* retransmission timer, the window probe and every deadline may expire at *)
(* any poll; and the congestion window is any value the sender may have.   *)
(***************************************************************************)
EXTENDS Integers, Sequences, FiniteSets, TcpStates

CONSTANTS
    Modulus, Iss,                \* sequence space, initial number of each endpoint
    WindowLimit, MaxInflight, MaxCwnd,
    Configs                      \* configurations, of which a behaviour has one

Ends == {"a", "b"}
FaultKinds ==
    {"loss", "dup",              \* the network loses, duplicates
     "cross",                    \* segments cross, timers beat answers under way
     "blocked", "drop",          \* the device is busy; the reset queue is full
     "timeout", "abort"}         \* the connection times out, is aborted
Peer(e) == IF e = "a" THEN "b" ELSE "a"

ASSUME TcpAssumption ==
    /\ {WindowLimit, MaxInflight, MaxCwnd} \subseteq Nat \ {0}
    /\ Iss \in [Ends -> 0..(Modulus - 1)]
    /\ \A c \in Configs :
        /\ {c.mss, c.sendCapacity, c.receiveCapacity, c.netCapacity} \subseteq Nat \ {0}
        /\ c.mss <= c.receiveCapacity /\ c.mss <= MaxCwnd
        /\ c.bytes \in [Ends -> Nat]
        /\ Modulus > 4 * (c.bytes["a"] + c.bytes["b"] + c.receiveCapacity + 4)
        /\ c.faults \subseteq FaultKinds
        /\ c.readers \subseteq Ends /\ c.closers \subseteq Ends

VARIABLES
    config,                      \* what both pools and the network are set up with
    conn,                        \* endpoint -> connection
    net,                         \* endpoint -> segments under way to it
    written, read                \* endpoint -> bytes its application wrote, read

vars == <<config, conn, net, written, read>>

Mss == config.mss
SendCapacity == config.sendCapacity
ReceiveCapacity == config.receiveCapacity
MaxBytes == config.bytes         \* bound: what each endpoint's application writes
NetCapacity == config.netCapacity  \* bound: segments under way to one endpoint
Faults == config.faults          \* what may go wrong, a subset of FaultKinds
Readers == config.readers        \* endpoints whose application reads
Closers == config.closers        \* endpoints whose application closes

-----------------------------------------------------------------------------
Wrap(n) == n % Modulus
\* The signed distance from b to a.
Distance(a, b) == ((a - b + Modulus \div 2) % Modulus) - Modulus \div 2
Before(a, b) == Distance(a, b) < 0

Least(m, n) == IF m < n THEN m ELSE n
One(flag) == IF flag THEN 1 ELSE 0
Last(s) == s[Len(s)]
Values(s) == {s[i] : i \in DOMAIN s}
SequenceLen(s) == Len(s.data) + One(s.syn) + One(s.fin)

\* A Flight: a segment kept until it is acknowledged.
Flight(seq, kind, data) == [seq |-> seq, kind |-> kind, data |-> data, sent |-> FALSE]
End(f) == Wrap(f.seq + Len(f.data) + One(f.kind # "data"))

StartFlight(c, kind, data) ==
    LET f == Flight(c.next, kind, data) IN
    [c EXCEPT !.flights = Append(@, f), !.next = End(f)]

Active(e) ==
    StartFlight([state |-> "SynSent", received |-> <<>>, queued |-> <<>>, flights |-> <<>>,
                 una |-> Iss[e], next |-> Iss[e], sent |-> Iss[e], rnext |-> 0,
                 window |-> 0, wseq |-> 0, wack |-> 0,
                 ackp |-> FALSE, eof |-> FALSE, closed |-> FALSE, probe |-> FALSE],
                "syn", <<>>)

\* A connection that answers the SYN s.
Passive(e, s) ==
    [Active(e) EXCEPT !.state = "SynReceived", !.rnext = Wrap(s.seq + 1),
                      !.window = s.window, !.wseq = s.seq,
                      !.flights[1].kind = "synack"]

None == [state |-> "None"]
Terminal(c) == c.state \in Ended
Live(c) == c.state # "None" /\ ~Terminal(c)

Init ==
    /\ config \in Configs
    /\ conn = [e \in Ends |-> IF e = "a" THEN Active("a") ELSE None]
    /\ net = [e \in Ends |-> {}]
    /\ written = [e \in Ends |-> 0] /\ read = [e \in Ends |-> 0]

\* The bytes of the flights, in order.
FlightBytes(c) ==
    LET upTo[i \in 0..Len(c.flights)] ==
            IF i = 0 THEN <<>> ELSE upTo[i - 1] \o c.flights[i].data
    IN upTo[Len(c.flights)]

SendBuffered(c) == Len(c.queued) + Len(FlightBytes(c))
AdvertisedWindow(c) == Least(ReceiveCapacity - Len(c.received), WindowLimit)

Fail(c, state) ==
    [c EXCEPT !.state = state, !.queued = <<>>, !.received = <<>>, !.flights = <<>>,
              !.una = c.sent, !.next = c.sent, !.ackp = FALSE]

-----------------------------------------------------------------------------
\* Faulty variant of the definition that follows it, for mutation checks.
UncoveredPastAck(flights, ack) == SelectSeq(flights, LAMBDA f : Before(ack, f.seq))

\* acknowledge: window update, then every flight the ACK covers is dropped and
\* the one it covers in part is cut.
Uncovered(flights, ack) ==
    LET left == SelectSeq(flights, LAMBDA f : Before(ack, End(f))) IN
    [i \in DOMAIN left |->
        IF Before(left[i].seq, ack)
        THEN [left[i] EXCEPT !.seq = ack,
                !.data = SubSeq(@, 1 + Distance(ack, left[i].seq), Len(@))]
        ELSE left[i]]

UpdateWindow(c, s) ==
    IF Before(c.wseq, s.seq) \/ (c.wseq = s.seq /\ ~Before(s.ack, c.wack))
    THEN [c EXCEPT !.window = s.window, !.wseq = s.seq, !.wack = s.ack]
    ELSE c

\* Faulty variant of the definition that follows it, for mutation checks.
AfterFinCloses(state) == IF state = "Closing" THEN "TimeWait" ELSE "Closed"

AfterFin(state) ==
    CASE state = "FinWait1" -> "FinWait2"
      [] state = "Closing" -> "TimeWait"
      [] state = "LastAck" -> "Closed"
      [] OTHER -> state

Acknowledge(c, s) ==
    LET w == UpdateWindow(c, s)
        fin == \E i \in DOMAIN c.flights : c.flights[i].kind = "fin" /\ ~Before(s.ack, End(c.flights[i]))
    IN
    IF Before(s.ack, c.una) THEN c
    ELSE IF s.ack = c.una THEN w
    ELSE [w EXCEPT !.flights = Uncovered(@, s.ack), !.una = s.ack,
                   !.state = IF fin THEN AfterFin(@) ELSE @,
                   !.ackp = @ /\ ~(fin /\ c.state = "LastAck")]

\* The FIN is taken once everything before it is, and only into an open window.
FinTaken(c, s, count) ==
    s.fin /\ Wrap(s.seq + Len(s.data)) = Wrap(c.rnext + count) /\ count < AdvertisedWindow(c)

AtFin(state) ==
    CASE state = "Established" -> "CloseWait"
      [] state = "FinWait1" -> "Closing"
      [] state = "FinWait2" -> "TimeWait"

\* Faulty variant of the definition that follows it, for mutation checks.
NextExpectedStuck(c, count, end) == Wrap(c.rnext + One(end))

NextExpected(c, count, end) == Wrap(c.rnext + count + One(end))

\* receive_data: no out-of-order storage, and no more than the window.
ReceiveData(c, s) ==
    LET skip == Wrap(c.rnext - s.seq)
        fits == Len(s.data) - skip
        count == Least(fits, AdvertisedWindow(c))
        end == FinTaken(c, s, count)
    IN
    IF s.data = <<>> /\ ~s.fin THEN c
    ELSE IF \/ c.eof \/ c.state \notin {"Established", "FinWait1", "FinWait2"}
            \/ Before(c.rnext, s.seq) \/ skip > Len(s.data)
    THEN [c EXCEPT !.ackp = TRUE]
    ELSE [c EXCEPT !.ackp = TRUE,
                   !.received = @ \o SubSeq(s.data, skip + 1, skip + count),
                   !.rnext = NextExpected(c, count, end),
                   !.eof = end,
                   !.state = IF end THEN AtFin(@) ELSE @]

-----------------------------------------------------------------------------
\* input: the early returns in the code's order.
Nudge(c) == [c EXCEPT !.ackp = TRUE]

Acceptable(c, s) ==
    LET relative == Distance(s.seq, c.rnext)
        window == AdvertisedWindow(c)
    IN
    IF SequenceLen(s) = 0
    THEN relative = 0 \/ (relative > 0 /\ relative < window)
    ELSE window > 0 /\ relative < window /\ relative + SequenceLen(s) > 0

SynSentInput(c, s) ==
    LET validAck == s.ackf /\ s.ack = c.sent /\ c.sent # c.una
        opened == [c EXCEPT !.rnext = Wrap(s.seq + 1), !.window = s.window,
                            !.wseq = s.seq, !.wack = s.ack]
    IN
    CASE ~validAck -> c
      [] validAck /\ s.rst -> Fail(c, "Reset")
      [] validAck /\ ~s.rst /\ (~s.syn \/ s.fin) -> c
      [] OTHER -> ReceiveData([Acknowledge(opened, s) EXCEPT !.state = "Established", !.ackp = TRUE],
                              [s EXCEPT !.seq = Wrap(@ + 1), !.syn = FALSE])

Accepted(c, s) ==
    LET open == IF c.state = "SynReceived" THEN [c EXCEPT !.state = "Established"] ELSE c
        acked == Acknowledge(open, s)
    IN IF Terminal(acked) THEN acked ELSE ReceiveData(acked, s)

Input(c, s) ==
    IF c.state = "SynSent" THEN SynSentInput(c, s)
    ELSE IF c.state = "TimeWait" THEN IF s.rst THEN c ELSE Nudge(c)
    ELSE IF /\ c.state = "SynReceived" /\ s.syn /\ ~s.ackf /\ ~s.rst
            /\ Wrap(s.seq + 1) = c.rnext
    THEN c                                  \* the SYN-ACK is due again
    ELSE IF ~Acceptable(c, s) THEN IF s.rst THEN c ELSE Nudge(c)
    ELSE IF s.rst THEN IF s.seq = c.rnext THEN Fail(c, "Reset") ELSE Nudge(c)
    ELSE IF s.syn THEN Nudge(c)
    ELSE IF ~s.ackf THEN c
    ELSE IF Before(c.sent, s.ack) THEN Nudge(c)
    ELSE IF c.state = "SynReceived" /\ (s.ack # c.sent \/ c.sent = c.una) THEN c
    ELSE Accepted(c, s)

-----------------------------------------------------------------------------
\* prepare: at most one new flight, of queued bytes or, once none is left, FIN.
Room(c, cwnd, reserved) ==
    LET room == Least(cwnd, c.window) - reserved IN IF room < 0 THEN 0 ELSE room

\* The FIN waits until every byte before it is acknowledged.
MayFinish(c) == c.queued = <<>> /\ c.flights = <<>> /\ c.closed

\* Faulty variant of the definition that follows it, for mutation checks.
NeverPersists(c) == FALSE

\* One byte goes out against a closed window.
Persists(c) == c.window = 0 /\ c.flights = <<>>

Probed(c, probeDue) == [c EXCEPT !.probe = @ \/ probeDue]

Prepare(c, cwnd, probeDue) ==
    LET available == IF Persists(c) THEN 1 ELSE Room(c, cwnd, Wrap(c.next - c.una))
        n == Least(Least(Len(c.queued), Mss), available)
    IN
    IF \/ c.state \notin {"Established", "CloseWait"}
       \/ Len(c.flights) >= MaxInflight
       \/ c.flights # <<>> /\ ~Last(c.flights).sent
       \/ c.queued # <<>> /\ n = 0
    THEN c
    ELSE IF c.queued # <<>>
    THEN StartFlight([c EXCEPT !.queued = SubSeq(@, n + 1, Len(@))], "data", SubSeq(c.queued, 1, n))
    ELSE IF ~MayFinish(c) THEN c
    ELSE IF c.window > 0
    THEN [StartFlight(c, "fin", <<>>) EXCEPT
            !.state = IF @ = "CloseWait" THEN "LastAck" ELSE "FinWait1"]
    ELSE Probed(c, probeDue)

\* The flight transmit picks, 0 for none: the oldest when its timer is due, else a new one.
Pick(c, due) ==
    IF c.flights = <<>> THEN 0
    ELSE IF due \/ ~Head(c.flights).sent THEN 1
    ELSE IF ~Last(c.flights).sent THEN Len(c.flights) ELSE 0

\* An unsent flight is held against both windows again, and cut to what they leave.
Recheck(c, i, cwnd, probeDue) ==
    LET inflight == Wrap(c.sent - c.una)
        persist == c.window = 0 /\ inflight = 0
        available == IF persist THEN 1 ELSE Room(c, cwnd, inflight)
        f == c.flights[i]
        cut == [f EXCEPT !.data = SubSeq(@, 1, available)]
    IN
    IF i = 0 \/ (i > 0 /\ (f.sent \/ f.kind \in {"syn", "synack"})) THEN [c |-> c, i |-> i]
    ELSE IF available = 0 \/ (persist /\ f.kind = "fin")
    THEN [c |-> Probed(c, persist /\ probeDue), i |-> 0]
    ELSE IF Len(f.data) <= available THEN [c |-> c, i |-> i]
    ELSE [c |-> [c EXCEPT !.flights[i] = cut, !.next = End(cut),
                          !.queued = SubSeq(f.data, available + 1, Len(f.data)) \o @],
          i |-> i]

Segment(c, i) ==
    LET f == c.flights[i] IN
    IF i > 0
    THEN [seq |-> f.seq, ack |-> c.rnext, syn |-> f.kind \in {"syn", "synack"},
          fin |-> f.kind = "fin", rst |-> FALSE, ackf |-> f.kind # "syn",
          window |-> AdvertisedWindow(c), data |-> f.data]
    ELSE [seq |-> IF c.probe /\ ~c.ackp THEN Wrap(c.sent - 1) ELSE c.sent,
          ack |-> c.rnext, syn |-> FALSE, fin |-> FALSE, rst |-> FALSE, ackf |-> TRUE,
          window |-> AdvertisedWindow(c), data |-> <<>>]

Submitted(c, i) ==
    LET end == End(c.flights[i])
        clear == [c EXCEPT !.ackp = @ /\ (i > 0 /\ c.flights[i].kind = "syn"), !.probe = FALSE]
    IN
    IF i = 0 THEN clear
    ELSE [clear EXCEPT !.flights[i].sent = TRUE,
                       !.sent = IF Before(@, end) THEN end ELSE @]

-----------------------------------------------------------------------------
\* The application's calls, one byte at a time.
Write(e) ==
    LET c == conn[e] IN
    /\ Live(c) /\ c.state \in {"Established", "CloseWait"} /\ ~c.closed
    /\ written[e] < MaxBytes[e] /\ SendBuffered(c) < SendCapacity
    /\ conn' = [conn EXCEPT ![e].queued = Append(@, written[e] + 1)]
    /\ written' = [written EXCEPT ![e] = @ + 1]
    /\ UNCHANGED <<config, net, read>>

Read(e) ==
    /\ e \in Readers
    /\ conn[e].state \notin {"None", "Reset", "TimedOut"} /\ conn[e].received # <<>>
    /\ conn' = [conn EXCEPT ![e].received = Tail(@), ![e].ackp = TRUE]
    /\ read' = [read EXCEPT ![e] = @ + 1]
    /\ UNCHANGED <<config, net, written>>

Close(e) ==
    /\ e \in Closers
    /\ conn[e].state \in {"Established", "CloseWait"} /\ ~conn[e].closed
    /\ conn' = [conn EXCEPT ![e].closed = TRUE]
    /\ UNCHANGED <<config, net, written, read>>

\* A segment handed to the device arrives, or is lost.
Carry(e, s) ==
    \/ /\ s \in net[Peer(e)] \/ Cardinality(net[Peer(e)]) < NetCapacity
       /\ net' = [net EXCEPT ![Peer(e)] = @ \cup {s}]
    \/ "loss" \in Faults /\ net' = net

Bare(seq, ack, ackf) ==
    [seq |-> seq, ack |-> ack, syn |-> FALSE, fin |-> FALSE, rst |-> TRUE, ackf |-> ackf,
     window |-> 0, data |-> <<>>]

ResetPacket(c) == Bare(c.sent, c.rnext, c.state # "SynSent")

\* abort, of a connection that ended as well: the reset is queued behind a bounded
\* queue, so it may never leave.
Abort(e) ==
    /\ "abort" \in Faults /\ conn[e].state # "None"
    /\ conn' = [conn EXCEPT ![e] = Fail(@, "Reset")]
    /\ Carry(e, ResetPacket(conn[e])) \/ ("drop" \in Faults /\ net' = net)
    /\ UNCHANGED <<config, written, read>>

\* tick: a deadline or the retransmission limit.
TimeOut(e) ==
    /\ "timeout" \in Faults /\ Live(conn[e]) /\ conn[e].state # "TimeWait"
    /\ conn[e].flights # <<>> \/ conn[e].closed
    /\ conn' = [conn EXCEPT ![e] = Fail(@, "TimedOut")]
    /\ UNCHANGED <<config, net, written, read>>

TimeWaitEnds(e) ==
    /\ conn[e].state = "TimeWait"
    /\ conn' = [conn EXCEPT ![e].state = "Closed", ![e].ackp = FALSE]
    /\ UNCHANGED <<config, net, written, read>>

\* What transmit may be about to send, for every congestion window and timer.
Ready(c, due) ==
    UNION {{Recheck(p, Pick(p, due), cwnd, probeDue) : p \in {Prepare(c, cwnd, probeDue)}} :
            cwnd \in {Mss, MaxCwnd}, probeDue \in BOOLEAN}

Transmit(e, due) ==
    /\ Live(conn[e])
    /\ due => Head(conn[e].flights \o <<[sent |-> FALSE]>>).sent
    /\ "cross" \notin Faults => net[e] = {} /\ net[Peer(e)] = {} /\ (due => ~conn[e].ackp)
    /\ \E r \in Ready(conn[e], due) :
        /\ r.i > 0 \/ r.c.ackp \/ r.c.probe
        /\ \/ /\ Carry(e, Segment(r.c, r.i))
              /\ conn' = [conn EXCEPT ![e] = Submitted(r.c, r.i)]
           \/ "blocked" \in Faults /\ net' = net /\ conn' = [conn EXCEPT ![e] = r.c]
        /\ UNCHANGED <<config, written, read>>

\* TcpPool::input for a segment no live connection takes: "b" answers one SYN,
\* anything else is answered with a reset.
Unmatched(e, s, rest) ==
    LET reply == IF s.ackf THEN Bare(s.ack, 0, FALSE)
                 ELSE Bare(0, Wrap(s.seq + SequenceLen(s)), TRUE)
    IN
    IF conn[e] = None /\ s.syn /\ ~s.ackf /\ ~s.fin /\ ~s.rst
    THEN conn' = [conn EXCEPT ![e] = Passive(e, s)] /\ net' = rest
    ELSE /\ conn' = conn
         /\ \/ s.rst /\ net' = rest
            \/ /\ ~s.rst /\ Cardinality(rest[Peer(e)]) < NetCapacity
               /\ net' = [rest EXCEPT ![Peer(e)] = @ \cup {reply}]
            \/ ~s.rst /\ "drop" \in Faults /\ net' = rest

Deliver(e) ==
    \E s \in net[e], again \in {FALSE} \cup (IF "dup" \in Faults THEN {TRUE} ELSE {}) :
        LET rest == IF again THEN net ELSE [net EXCEPT ![e] = @ \ {s}] IN
        /\ IF Live(conn[e])
           THEN conn' = [conn EXCEPT ![e] = Input(@, s)] /\ net' = rest
           ELSE Unmatched(e, s, rest)
        /\ UNCHANGED <<config, written, read>>

Next ==
    \E e \in Ends :
        \/ Write(e) \/ Read(e) \/ Close(e) \/ Abort(e)
        \/ TimeOut(e) \/ TimeWaitEnds(e) \/ Deliver(e)
        \/ \E due \in BOOLEAN : Transmit(e, due)

Spec == Init /\ [][Next]_vars

-----------------------------------------------------------------------------
\* The poll of each endpoint keeps being called, segments that arrive are handled
\* and the application goes on.  The network may lose any segment but not every
\* one: retransmissions, acknowledgments and new segments each get through again.
Arrives(e, due, ack) ==
    Transmit(e, due) /\ conn[e].ackp = ack /\ net'[Peer(e)] # net[Peer(e)]

Consumes(e) == Deliver(e) /\ net'[e] # net[e]

FairSpec ==
    /\ Spec
    /\ \A e \in Ends :
        /\ SF_vars(Arrives(e, TRUE, FALSE))
        /\ SF_vars(Arrives(e, FALSE, TRUE)) /\ SF_vars(Arrives(e, FALSE, FALSE))
        /\ WF_vars(Consumes(e)) /\ WF_vars(Read(e)) /\ WF_vars(Close(e))
        /\ WF_vars(TimeWaitEnds(e))

-----------------------------------------------------------------------------
\* Buffers hold bytes of the peer's and of the own stream within the configured
\* capacities, and no more flights than max_inflight_segments exist.
TypeOK ==
    /\ \A e \in Ends :
        /\ written[e] \in 0..MaxBytes[e] /\ read[e] \in 0..MaxBytes[Peer(e)]
        /\ conn[e] # None =>
            /\ conn[e].state \in TcpState
            /\ Len(conn[e].received) <= ReceiveCapacity
            /\ Values(conn[e].received) \subseteq 1..MaxBytes[Peer(e)]
            /\ Values(conn[e].queued) \subseteq 1..MaxBytes[e]
            /\ Len(conn[e].flights) <= MaxInflight
            /\ {conn[e].una, conn[e].sent, conn[e].next, conn[e].rnext} \subseteq 0..(Modulus - 1)
        /\ Cardinality(net[e]) <= NetCapacity
    /\ conn["a"] # None

\* The stream e has taken from its peer: bytes read, then bytes buffered.
Taken(e) == IF conn[e] = None THEN 0 ELSE read[e] + Len(conn[e].received)

Up(e) == Live(conn[e]) \/ conn[e].state = "Closed"

\* Whatever is lost, duplicated or reordered, the bytes an endpoint buffers are
\* the next ones its peer wrote: none missing, none twice, none out of order.
InOrderOnce ==
    \A e \in Ends :
        conn[e] # None =>
            /\ \A i \in DOMAIN conn[e].received : conn[e].received[i] = read[e] + i
            /\ Taken(e) <= written[Peer(e)]

\* The bytes a sender still holds, in flight and then queued.
Held(c) == FlightBytes(c) \o c.queued

\* Types and limits hold, and the sender's three marks and its flights agree: flights tile the sequence
\* space from send_una to send_next, send_sent lies between, the buffer limit
\* holds, and every byte not held any more has been taken by the peer.
NothingForgotten ==
    TypeOK /\ \A e \in Ends :
        LET c == conn[e]
            gone == written[e] - Len(Held(c))
        IN
        Live(c) =>
            /\ \A i \in DOMAIN c.flights :
                c.flights[i].seq = IF i = 1 THEN c.una ELSE End(c.flights[i - 1])
            /\ c.next = IF c.flights = <<>> THEN c.una ELSE End(Last(c.flights))
            /\ ~Before(c.sent, c.una) /\ ~Before(c.next, c.sent)
            /\ SendBuffered(c) <= SendCapacity
            /\ \A i \in DOMAIN Held(c) : Held(c)[i] = gone + i
            /\ Up(Peer(e)) => gone <= Taken(Peer(e))

\* Half-close: a FIN exists only once the peer has taken every byte written.
FinAfterAll ==
    \A e \in Ends :
        Live(conn[e]) /\ conn[e].state \in {"FinWait1", "FinWait2", "Closing", "LastAck", "TimeWait"}
            => conn[e].closed /\ (Up(Peer(e)) => Taken(Peer(e)) = written[e])

\* End of file is reported after the whole stream, and Closed is reached only
\* when both streams ended: the peer has seen this side's FIN too.  A FIN is
\* sent only after all data.
EofComplete ==
    /\ FinAfterAll
    /\ \A e \in Ends :
        /\ (Up(e) /\ conn[e].eof) => conn[Peer(e)].closed /\ Taken(e) = written[Peer(e)]
        /\ conn[e].state \in {"TimeWait", "Closed"} => conn[e].eof /\ conn[Peer(e)].eof

\* A connection changes state only as the pool expects: by a segment, by sending,
\* by the clock or by its own application's abort.  Once it ended only an abort
\* changes it, to another way of having ended, so none comes back to life.
PoolMoves ==
    [][\A e \in Ends :
        LET s == conn[e].state
            t == conn'[e].state
        IN s # t =>
            \/ s = "None" /\ t = "SynReceived"
            \/ <<s, t>> \in InputMoves \cup SendMoves
            \/ s # "None" /\ t = "Reset"
            \/ s \notin Ended \cup {"None", "TimeWait"} /\ t = "TimedOut"
            \/ s = "TimeWait" /\ t = "Closed"]_vars

\* Every byte written is read by the peer in the end, and once both
\* applications close, both connections end.
StreamsComplete ==
    /\ <>[](\A e \in Ends : read[Peer(e)] = written[e])
    /\ (\A e \in Ends : conn[e] # None /\ conn[e].closed)
           ~> (\A e \in Ends : Terminal(conn[e]))

\* The peer's application reads, so what this side wrote is acknowledged,
\* whether or not this side's own application reads what the peer sends.
Drains ==
    \A e \in Ends : Peer(e) \in Readers =>
        <>[](Live(conn[e]) => Held(conn[e]) = <<>>)

=============================================================================
