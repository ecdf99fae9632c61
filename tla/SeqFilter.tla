----------------------------- MODULE SeqFilter -----------------------------
(***************************************************************************)
(* The elements of a sequence that lie in a set, in their order: what      *)
(* retain, filter and drain leave of a queue.  SelectSeq takes the test as *)
(* an operator; taking it as a set makes every fact about Filter a         *)
(* statement of first-order logic (module EthernetIpv4Lemmas).             *)
(***************************************************************************)
EXTENDS Naturals, Sequences

Filter(s, S) ==
    LET kept[i \in 0..Len(s)] ==
          IF i = 0 THEN <<>>
          ELSE IF s[i] \in S THEN Append(kept[i - 1], s[i]) ELSE kept[i - 1]
    IN  kept[Len(s)]

=============================================================================
