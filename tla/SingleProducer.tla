--------------------------- MODULE SingleProducer ---------------------------
(***************************************************************************)
(* Disruptor<T> over a SingleProducerSequencer and a                       *)
(* TimeoutBlockingWaitStrategy: one producer, one consumer, no slot        *)
(* generations.  The producer claims against a cached capacity limit and   *)
(* reads the consumer's position only when the limit runs out; the         *)
(* consumer pulls against a cached published frontier.                     *)
(*                                                                         *)
(* A step is one access to a shared atomic, one access to a ring slot, or  *)
(* one critical section of the wait strategy's mutex.  The payload of a    *)
(* sequence is the sequence itself.                                        *)
(***************************************************************************)
EXTENDS Integers

CONSTANTS
    Capacity,     \* capacity_, the ring size
    MaxBatch,     \* the largest count passed to next_batch
    MaxSequence   \* bound: no claim passes this sequence

ASSUME SingleProducerAssumption ==
    /\ Capacity \in Nat \ {0}
    /\ MaxBatch \in 1 .. Capacity
    /\ MaxSequence \in Nat

Torn == -2          \* a slot between destroy_at and construct_at
NeverWritten == -1  \* the default-constructed payload

VARIABLES
    claimed,    \* claimed_sequence_
    limit,      \* cached_capacity_limit_
    published,  \* published_sequence_
    consumed,   \* consumed_sequence_
    ring,       \* ring_buffer_
    pc,         \* where the producer is
    hi,         \* the last sequence of the producer's claim
    at,         \* the sequence the producer works on
    cpc,        \* where the consumer is
    cached,     \* cached_published_sequence_
    got,        \* the payload moved out of the ring
    wsMutex     \* the holder of the wait strategy's mutex between steps

producerVars == <<claimed, limit, pc, hi, at>>
consumerVars == <<consumed, cpc, cached, got>>
vars == <<producerVars, consumerVars, published, ring, wsMutex>>

Slots == 0 .. Capacity - 1
SlotOf(s) == s % Capacity

Init ==
    /\ claimed = -1
    /\ limit = Capacity - 1
    /\ published = -1
    /\ consumed = -1
    /\ ring = [i \in Slots |-> NeverWritten]
    /\ pc = "idle"
    /\ hi = -1
    /\ at = 0
    /\ cpc = "idle"
    /\ cached = -1
    /\ got = NeverWritten
    /\ wsMutex = "free"

-----------------------------------------------------------------------------
(* The producer *)

Goto(from, to) == pc = from /\ pc' = to

Claim ==
    /\ claimed' = hi
    /\ at' = claimed + 1

\* next() is the case n = 1.  The cached limit spares the read of consumed.
NextBatch(n) ==
    /\ claimed + n <= MaxSequence
    /\ Goto("idle", IF claimed + n > limit THEN "capacity" ELSE "claim")
    /\ hi' = claimed + n
    /\ UNCHANGED <<claimed, limit, at, consumerVars, published, ring, wsMutex>>

\* Bug: the spin looks at the cached limit only.
WaitForCapacityStale ==
    /\ hi <= limit
    /\ Goto("capacity", "claim")
    /\ UNCHANGED <<claimed, limit, hi, at, consumerVars, published, ring, wsMutex>>

\* The spin ends once the last slot has been consumed; the limit is refreshed
\* from the position that was read.
WaitForCapacity ==
    /\ hi - Capacity <= consumed
    /\ Goto("capacity", "claim")
    /\ limit' = consumed + Capacity
    /\ UNCHANGED <<claimed, hi, at, consumerVars, published, ring, wsMutex>>

\* claimed_sequence_.set_relaxed(...)
SetClaimed ==
    /\ Goto("claim", "destroy")
    /\ Claim
    /\ UNCHANGED <<limit, hi, consumerVars, published, ring, wsMutex>>

\* try_next() reads the consumed position itself and leaves the limit alone.
TryNext ==
    /\ claimed < MaxSequence
    /\ claimed + 1 - Capacity <= consumed
    /\ Goto("idle", "claim")
    /\ hi' = claimed + 1
    /\ UNCHANGED <<claimed, limit, at, consumerVars, published, ring, wsMutex>>

\* std::destroy_at(slot)
DestroySlot ==
    /\ Goto("destroy", "construct")
    /\ ring' = [ring EXCEPT ![SlotOf(at)] = Torn]
    /\ UNCHANGED <<claimed, limit, hi, at, consumerVars, published, wsMutex>>

\* std::construct_at(slot, ...); a batch fills its slots one after the other.
ConstructSlot ==
    /\ Goto("construct", IF at < hi THEN "destroy" ELSE "publish")
    /\ ring' = [ring EXCEPT ![SlotOf(at)] = at]
    /\ at' = at + 1
    /\ UNCHANGED <<claimed, limit, hi, consumerVars, published, wsMutex>>

\* publish() and publish_batch(): one release store moves the frontier.
Publish ==
    /\ Goto("publish", "signal")
    /\ published' = hi
    /\ UNCHANGED <<claimed, limit, hi, at, consumerVars, ring, wsMutex>>

\* signal(): lock, notify_one, unlock.
Signal ==
    /\ wsMutex = "free"
    /\ Goto("signal", "idle")
    /\ cpc' = IF cpc = "parked" THEN "lock" ELSE cpc
    /\ UNCHANGED <<claimed, limit, hi, at, consumed, cached, got, published, ring, wsMutex>>

-----------------------------------------------------------------------------
(* The consumer *)

CGoto(from, to) == cpc = from /\ cpc' = to

PullBegin ==
    /\ CGoto("idle", IF consumed + 1 > cached THEN "wait" ELSE "read")
    /\ UNCHANGED <<producerVars, consumed, cached, got, published, ring, wsMutex>>

\* cursor.get() >= sequence: pull() caches what the wait returned.
SeePublished(from) ==
    /\ published >= consumed + 1
    /\ CGoto(from, "read")
    /\ cached' = published

WaitQuickCheck ==
    /\ \/ SeePublished("wait")
       \/ published < consumed + 1 /\ CGoto("wait", "lock") /\ UNCHANGED cached
    /\ UNCHANGED <<producerVars, consumed, got, published, ring, wsMutex>>

WaitLock ==
    /\ wsMutex = "free"
    /\ CGoto("lock", "check")
    /\ wsMutex' = "consumer"
    /\ UNCHANGED <<producerVars, consumed, cached, got, published, ring>>

\* The loop condition under the mutex; cv_.wait_for unlocks and sleeps.
WaitCheck ==
    /\ \/ SeePublished("check")
       \/ published < consumed + 1 /\ CGoto("check", "parked") /\ UNCHANGED cached
    /\ wsMutex' = "free"
    /\ UNCHANGED <<producerVars, consumed, got, published, ring>>

\* Bug: the timeout ends the wait without another look at the cursor.
TimeoutReads ==
    /\ CGoto("parked", "read")
    /\ cached' = consumed + 1
    /\ UNCHANGED <<producerVars, consumed, got, published, ring, wsMutex>>

\* The wait strategy's own timeout.
Timeout ==
    /\ CGoto("parked", "lock")
    /\ UNCHANGED <<producerVars, consumed, cached, got, published, ring, wsMutex>>

\* T value = std::move(ring_buffer_[sequence])
ReadSlot ==
    /\ CGoto("read", "consume")
    /\ got' = ring[SlotOf(consumed + 1)]
    /\ UNCHANGED <<producerVars, consumed, cached, published, ring, wsMutex>>

\* Bug: the acknowledgement covers the whole cached frontier.
ConsumeFrontier ==
    /\ CGoto("consume", "idle")
    /\ consumed' = cached
    /\ UNCHANGED <<producerVars, cached, got, published, ring, wsMutex>>

Consume ==
    /\ CGoto("consume", "idle")
    /\ consumed' = consumed + 1
    /\ UNCHANGED <<producerVars, cached, got, published, ring, wsMutex>>

-----------------------------------------------------------------------------
ProducerStep ==
    \/ WaitForCapacity
    \/ SetClaimed
    \/ DestroySlot
    \/ ConstructSlot
    \/ Publish
    \/ Signal

ConsumerStep ==
    \/ PullBegin
    \/ WaitQuickCheck
    \/ WaitLock
    \/ WaitCheck
    \/ Timeout
    \/ ReadSlot
    \/ Consume

Next ==
    \/ \E n \in 1 .. MaxBatch : NextBatch(n)
    \/ TryNext
    \/ ProducerStep
    \/ ConsumerStep

Spec == Init /\ [][Next]_vars

\* Both threads run and the wait strategy's timeout fires; the mutex is held for
\* one step at a time and is granted to a producer that keeps asking.
FairSpec == Spec /\ SF_vars(ProducerStep) /\ WF_vars(ConsumerStep)
-----------------------------------------------------------------------------
(* Properties *)

PCs == {"idle", "capacity", "claim", "destroy", "construct", "publish", "signal"}
CPCs == {"idle", "wait", "lock", "check", "parked", "read", "consume"}

\* Every variable has its type, and the consumer holds the mutex only at its check.
TypeOK ==
    /\ claimed \in Int
    /\ limit \in Int
    /\ published \in Int
    /\ consumed \in Int
    /\ ring \in [Slots -> Int]
    /\ pc \in PCs
    /\ hi \in Int
    /\ at \in Int
    /\ cpc \in CPCs
    /\ cached \in Int
    /\ got \in Int
    /\ wsMutex = IF cpc = "check" THEN "consumer" ELSE "free"

\* pull() moves out the payload of the sequence it acknowledges.
PulledPayload == cpc = "consume" => got = consumed + 1

\* The producer never fills a slot that holds an unread payload, although it
\* checks the capacity against a cached limit.
NoOverwrite ==
    pc \in {"destroy", "construct"} =>
        \A s \in (consumed + 1) .. published : SlotOf(at) # SlotOf(s)

\* The cached limit never grants more than the ring: a stale limit is too small,
\* never too large.
LimitSafe == limit <= consumed + Capacity

\* Neither end of the ring works on the other's slot: every pulled payload is the
\* one published under its sequence, and no unread one is overwritten.
PayloadsIntact == PulledPayload /\ NoOverwrite

Queue == INSTANCE ClaimOrderQueue WITH published <- 0 .. published

\* The sequencer with its caches implements the claim-ordered queue.
ImplementsQueue == Queue!Spec

\* What is published is consumed, and a producer that waits for room gets it.
\* (Claims end at MaxSequence, so that the consumer catches up with the last.)
PublishedConsumed ==
    /\ (consumed < published) ~> (consumed = published)
    /\ (pc = "capacity") ~> (pc # "capacity")
=============================================================================
