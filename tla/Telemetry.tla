------------------------------ MODULE Telemetry ------------------------------
(***************************************************************************)
(* The exporter of src/telemetry.rs: an application that never waits and a *)
(* worker thread that swaps its buffer with the shared one and sends what  *)
(* it got.  Records are their numbers; the wire format is left out.        *)
(*                                                                         *)
(* The flag is a relaxed atomic; the worker reads it before it takes the   *)
(* lock, and the application sets it after its last record, so the lock    *)
(* orders what matters and steps are modelled as interleaved.              *)
(***************************************************************************)
EXTENDS Integers, Sequences

CONSTANTS
    Capacity, Batch,             \* records in a buffer, in a datagram
    MaxCalls                     \* bound: calls of record

ASSUME TelemetryAssumption == {Capacity, Batch, MaxCalls} \subseteq Nat \ {0}

VARIABLES
    records, locked,             \* the shared buffer; the worker holds its lock
    pending, at, stopping,       \* the worker: its buffer, stage, and copy of the flag
    stopped, joined,             \* flag of shutdown and drop; shutdown returned
    calls, dropped,              \* calls of record, and those that were refused
    accepted, exported           \* records taken, records put into datagrams

vars == <<records, locked, pending, at, stopping, stopped, joined, calls, dropped, accepted, exported>>
worker == <<pending, at, stopping, exported>>
application == <<stopped, joined, calls, dropped, accepted>>

Init ==
    /\ records = <<>> /\ locked = FALSE
    /\ pending = <<>> /\ at = "load" /\ stopping = FALSE
    /\ stopped = FALSE /\ joined = FALSE
    /\ calls = 0 /\ dropped = 0 /\ accepted = <<>> /\ exported = <<>>

-----------------------------------------------------------------------------
Room == Len(records) < Capacity

\* record: a held lock or a full buffer drops the record.
Record ==
    /\ ~stopped /\ calls < MaxCalls /\ calls' = calls + 1
    /\ IF ~locked /\ Room
       THEN /\ records' = Append(records, calls) /\ accepted' = Append(accepted, calls)
            /\ UNCHANGED dropped
       ELSE dropped' = dropped + 1 /\ UNCHANGED <<records, accepted>>
    /\ UNCHANGED <<worker, locked, stopped, joined>>

\* shutdown and drop both set the flag and take the handle away.
SetStopped ==
    /\ ~stopped /\ stopped' = TRUE
    /\ UNCHANGED <<worker, records, locked, joined, calls, dropped, accepted>>

\* shutdown returns once the worker did.
Join ==
    /\ stopped /\ at = "done" /\ ~joined /\ joined' = TRUE
    /\ UNCHANGED <<worker, records, locked, stopped, calls, dropped, accepted>>

-----------------------------------------------------------------------------
\* The loop of export, in its steps.
Load ==
    /\ at = "load" /\ stopping' = stopped /\ at' = "lock"
    /\ UNCHANGED <<application, records, locked, pending, exported>>

Lock ==
    /\ at = "lock" /\ locked' = TRUE /\ at' = "swap"
    /\ UNCHANGED <<application, records, pending, stopping, exported>>

Swap ==
    /\ at = "swap" /\ records' = pending /\ pending' = records
    /\ locked' = FALSE /\ at' = "send"
    /\ UNCHANGED <<application, stopping, exported>>

Smaller(m, n) == IF m < n THEN m ELSE n

\* Faulty variant of the definition that follows it, for mutation checks.
RestOverlapping(n) == SubSeq(pending, n, Len(pending))

Rest(n) == SubSeq(pending, n + 1, Len(pending))

\* One datagram; what the socket refuses is counted and not sent again.
Send ==
    /\ at = "send" /\ pending # <<>>
    /\ LET n == Smaller(Batch, Len(pending)) IN
        /\ exported' = exported \o SubSeq(pending, 1, n)
        /\ pending' = Rest(n)
    /\ UNCHANGED <<application, records, locked, at, stopping>>

\* Faulty variant of the definition that follows it, for mutation checks.
AfterSendNow == IF stopped THEN "done" ELSE "park"

AfterSend == IF stopping THEN "done" ELSE "park"

Clear ==
    /\ at = "send" /\ pending = <<>> /\ at' = AfterSend
    /\ UNCHANGED <<application, records, locked, pending, stopping, exported>>

\* park_timeout returns in any case.
Park ==
    /\ at = "park" /\ at' = "load"
    /\ UNCHANGED <<application, records, locked, pending, stopping, exported>>

Export == Load \/ Lock \/ Swap \/ Send \/ Clear \/ Park

Next == Record \/ SetStopped \/ Join \/ Export

Spec == Init /\ [][Next]_vars

\* The worker is a thread of its own and every wait of it is bounded.
FairSpec == Spec /\ WF_vars(Export) /\ WF_vars(Join)

-----------------------------------------------------------------------------
\* Two buffers of Capacity records bound the storage.
TypeOK ==
    /\ records \in Seq(Nat) /\ pending \in Seq(Nat)
    /\ Len(records) <= Capacity /\ Len(pending) <= Capacity
    /\ at \in {"load", "lock", "swap", "send", "park", "done"}
    /\ locked \in BOOLEAN /\ stopping \in BOOLEAN /\ stopped \in BOOLEAN /\ joined \in BOOLEAN
    /\ calls \in Nat /\ dropped \in Nat
    /\ accepted \in Seq(Nat) /\ exported \in Seq(Nat)

\* Swapping buffers neither loses, repeats nor reorders a record: what was taken
\* is what was exported, then what the worker holds, then what waits.
Conserved == accepted = exported \o (pending \o records)

\* An orderly shutdown returns with every record taken put into a datagram
\* (the flag is read before the last swap, and no record follows the flag).
DrainedAtEnd == at = "done" => exported = accepted

\* The worker ends once it is told to, and shutdown returns.
ShutdownReturns == stopped ~> joined

=============================================================================
