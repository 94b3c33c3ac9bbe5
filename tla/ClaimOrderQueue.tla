--------------------------- MODULE ClaimOrderQueue ---------------------------
(***************************************************************************)
(* What a Starling Disruptor promises its users: a bounded queue ordered   *)
(* by claim.  Producers reserve consecutive sequence numbers, publish them *)
(* in any order, and the consumer receives every sequence exactly once, in *)
(* claim order, and only after it was published.  A sequence is published  *)
(* only while it fits the ring, so at most Capacity sequences wait between *)
(* the consumer and the newest publication.                                *)
(***************************************************************************)
EXTENDS Integers

CONSTANT Capacity

VARIABLES
    claimed,    \* the highest reserved sequence
    published,  \* the set of published sequences
    consumed    \* the highest delivered sequence

vars == <<claimed, published, consumed>>

Init ==
    /\ claimed = -1
    /\ published = {}
    /\ consumed = -1

\* A producer reserves n consecutive sequences.
Claim(n) ==
    /\ claimed' = claimed + n
    /\ UNCHANGED <<published, consumed>>

\* Reserved sequences that fit the ring become visible, a block at a time.
Publish(first, last) ==
    /\ first <= last
    /\ consumed < first
    /\ last <= claimed
    /\ last <= consumed + Capacity
    /\ published \intersect (first .. last) = {}
    /\ published' = published \union (first .. last)
    /\ UNCHANGED <<claimed, consumed>>

\* The consumer takes the next sequence in claim order.
Deliver ==
    /\ consumed + 1 \in published
    /\ consumed' = consumed + 1
    /\ UNCHANGED <<claimed, published>>

Next ==
    \/ \E n \in 1 .. Capacity : Claim(n)
    \/ \E first, last \in 0 .. claimed : Publish(first, last)
    \/ Deliver

Spec == Init /\ [][Next]_vars
=============================================================================
