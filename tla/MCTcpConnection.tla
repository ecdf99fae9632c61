-------------------------- MODULE MCTcpConnection --------------------------
(* Small instances of TcpConnection: sequence numbers wrap in both streams. *)
EXTENDS TcpConnection

MCIss == [e \in {"a", "b"} |-> IF e = "a" THEN Modulus - 2 ELSE Modulus - 1]
Bytes(a, b) == [e \in {"a", "b"} |-> IF e = "a" THEN a ELSE b]

Small ==
    [bytes |-> Bytes(1, 1), mss |-> 1, sendCapacity |-> 2, receiveCapacity |-> 1,
     netCapacity |-> 1, faults |-> {}, readers |-> {"a", "b"}, closers |-> {"a", "b"}]

\* A byte in each direction with everything that may end or disturb a
\* connection; and three bytes one way through a busy device, cut into segments
\* of up to two, of which two are under way in any order.
Duplex ==
    [Small EXCEPT !.faults = {"cross", "drop", "loss", "dup", "abort", "timeout"}]
Reordering ==
    [Small EXCEPT !.bytes = Bytes(3, 0), !.mss = 2, !.sendCapacity = 3, !.receiveCapacity = 2,
                  !.netCapacity = 2, !.closers = {},
                  !.faults = {"cross", "loss", "dup", "blocked"}]
Streams == {Duplex, Reordering}

\* More to send than a window holds, over a network that loses.
Progress == {[Small EXCEPT !.bytes = Bytes(2, 1), !.faults = {"loss"}]}

\* One side does not read.
OneReader == {[Small EXCEPT !.bytes = Bytes(2, 2), !.readers = {"b"}, !.closers = {}]}
=============================================================================
