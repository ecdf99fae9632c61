------------------------------ MODULE TcpStates ------------------------------
(***************************************************************************)
(* The states of a TCP connection (TcpState) and the moves between them    *)
(* that Connection's methods can make: what the pool relies on.            *)
(***************************************************************************)

Synchronized ==
    {"Established", "FinWait1", "FinWait2", "CloseWait", "Closing", "LastAck", "TimeWait"}
Ended == {"Closed", "Reset", "TimedOut", "Failed"}
TcpState == {"SynSent", "SynReceived"} \cup Synchronized \cup Ended

\* Where one segment can take a connection (input).
InputMoves ==
    {<<"SynSent", "Established">>, <<"SynReceived", "Established">>,
     <<"SynReceived", "CloseWait">>, <<"Established", "CloseWait">>,
     <<"FinWait1", "FinWait2">>, <<"FinWait1", "Closing">>, <<"FinWait1", "TimeWait">>,
     <<"FinWait2", "TimeWait">>, <<"Closing", "TimeWait">>, <<"LastAck", "Closed">>}
      \cup ((TcpState \ (Ended \cup {"TimeWait"})) \X {"Reset"})

\* Where sending can take it (prepare).
SendMoves == {<<"Established", "FinWait1">>, <<"CloseWait", "LastAck">>}

=============================================================================
