----------------------------- MODULE TunReactor -----------------------------
(***************************************************************************)
(* The sharded reactor of src/device/tun_reactor.rs: one worker thread per *)
(* device, a shared stop flag, the first error kept for the caller.        *)
(* A read or a wait may fail at any turn; setup may fail as well.          *)
(***************************************************************************)
EXTENDS Integers, FiniteSets

CONSTANTS Shards, None           \* None: no error

\* What the constants have to satisfy.
ShardsAssumption == None \notin Shards

VARIABLES
    at,                          \* stage of each worker
    queued,                      \* shards whose device has frames to read
    stop, firstError,            \* the flag; the shard whose error is kept
    failed,                      \* shards that failed, in any order
    returned                     \* what run returned: "no", "ok" or an error

vars == <<at, queued, stop, firstError, failed, returned>>

Init ==
    /\ at = [s \in Shards |-> "setup"] /\ queued = {} /\ stop = FALSE
    /\ firstError = None /\ failed = {} /\ returned = "no"

To(s, stage) == at' = [at EXCEPT ![s] = stage]

\* kqueue is made and the device registered, or the worker fails.
Setup(s) ==
    /\ at[s] = "setup" /\ (To(s, "check") \/ To(s, "failing"))
    /\ UNCHANGED <<queued, stop, firstError, failed, returned>>

\* The head of the loop.
CheckStop(s) ==
    /\ at[s] = "check" /\ To(s, IF stop THEN "done" ELSE "wait")
    /\ UNCHANGED <<queued, stop, firstError, failed, returned>>

\* Faulty variant of the definition that follows it, for mutation checks.
WakesForFrames(s) == IF s \in queued THEN {"receive", "failing"} ELSE {"wait"}

\* The wait ends with frames, at its time limit, or with an error.
Wakes(s) == IF s \in queued THEN {"receive", "failing"} ELSE {"check", "failing"}

Wait(s) ==
    /\ at[s] = "wait" /\ \E stage \in Wakes(s) : To(s, stage)
    /\ UNCHANGED <<queued, stop, firstError, failed, returned>>

\* recv empties the queue and the handler runs, or recv fails.
Receive(s) ==
    /\ at[s] = "receive"
    /\ \/ To(s, "check") /\ queued' = queued \ {s}
       \/ To(s, "failing") /\ UNCHANGED queued
    /\ UNCHANGED <<stop, firstError, failed, returned>>

\* Under the mutex, an error already there stays.
First(s) == IF firstError = None THEN s ELSE firstError

Fail(s) ==
    /\ at[s] = "failing" /\ To(s, "signal")
    /\ firstError' = First(s) /\ failed' = failed \cup {s}
    /\ UNCHANGED <<queued, stop, returned>>

Signal(s) ==
    /\ at[s] = "signal" /\ To(s, "done") /\ stop' = TRUE
    /\ UNCHANGED <<queued, firstError, failed, returned>>

\* The scope has joined every worker.
Return ==
    /\ returned = "no" /\ \A s \in Shards : at[s] = "done"
    /\ returned' = IF firstError = None THEN "ok" ELSE "error"
    /\ UNCHANGED <<at, queued, stop, firstError, failed>>

\* The application raises the flag; frames arrive.
Stop ==
    /\ ~stop /\ stop' = TRUE
    /\ UNCHANGED <<at, queued, firstError, failed, returned>>

Arrive(s) ==
    /\ s \notin queued /\ queued' = queued \cup {s}
    /\ UNCHANGED <<at, stop, firstError, failed, returned>>

Worker(s) == Setup(s) \/ CheckStop(s) \/ Wait(s) \/ Receive(s) \/ Fail(s) \/ Signal(s)

Next == Return \/ Stop \/ \E s \in Shards : Worker(s) \/ Arrive(s)

\* Workers are threads; handlers return; the application need not stop anything.
FairSpec == Init /\ [][Next]_vars /\ WF_vars(Return) /\ \A s \in Shards : WF_vars(Worker(s))

-----------------------------------------------------------------------------
Stages == {"setup", "check", "wait", "receive", "failing", "signal", "done"}

\* Stages and flags; the kept error is one of a worker that failed.
TypeOK ==
    /\ at \in [Shards -> Stages] /\ queued \subseteq Shards /\ stop \in BOOLEAN
    /\ firstError \in failed \cup {None} /\ failed \subseteq Shards
    /\ returned \in {"no", "ok", "error"}

Told == failed # {} \/ stop
Returned == returned # "no"

\* run returns an error exactly if some worker failed, with no worker left.
ReturnsExactly ==
    [](/\ TypeOK
       /\ Returned => (returned = "error" <=> failed # {}) /\ \A s \in Shards : at[s] = "done")

\* A failure ends run with an error, and so does the flag without one: idle
\* workers look at the flag again after each time limit.
FailureEnds == ReturnsExactly /\ (Told ~> Returned)

=============================================================================
