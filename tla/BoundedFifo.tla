----------------------------- MODULE BoundedFifo -----------------------------
(***************************************************************************)
(* What a descriptor ring promises its two sides: a queue of at most       *)
(* Capacity descriptors, to which one side appends the batch it offered    *)
(* and from whose head the other takes a batch at a time.                  *)
(***************************************************************************)
EXTENDS Naturals, Sequences

CONSTANTS Capacity,   \* most descriptors the queue holds
          Descs       \* the descriptors

VARIABLES offered,    \* the batch the producing side is about to append
          queue,      \* appended and not yet taken, oldest first
          delivered   \* the batch the last Take returned

fifoVars == <<offered, queue, delivered>>

Init == offered = <<>> /\ queue = <<>> /\ delivered = <<>>

Offer == \E k \in 1..(Capacity - Len(queue)) :
            /\ offered = <<>>
            /\ offered' \in [1..k -> Descs]
            /\ UNCHANGED <<queue, delivered>>

Put == /\ queue' = queue \o offered
       /\ offered' = <<>>
       /\ UNCHANGED delivered

Take == \E n \in 0..Len(queue) :
          /\ delivered' = SubSeq(queue, 1, n)
          /\ queue' = SubSeq(queue, n + 1, Len(queue))
          /\ UNCHANGED offered

Next == Offer \/ Put \/ Take

Spec == Init /\ [][Next]_fifoVars
=============================================================================
