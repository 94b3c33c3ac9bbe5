------------------------------ MODULE Disruptor ------------------------------
(***************************************************************************)
(* Disruptor<T> over a MultiProducerSequencer and a BlockingWaitStrategy:  *)
(* many producers claim sequences with a fetch-add, fill their ring slots  *)
(* and publish slot generations; one consumer calls pull().                *)
(*                                                                         *)
(* A step is one access to a shared atomic, one access to a ring slot, or  *)
(* one critical section of the wait strategy's mutex.  The payload of a    *)
(* sequence is the sequence itself, so reading another sequence's payload, *)
(* or a slot between its destroy_at and construct_at, can be told apart.   *)
(***************************************************************************)
EXTENDS Integers

CONSTANTS
    Producers,
    Capacity,     \* capacity_, the ring size
    Generations,  \* how many values a slot generation has: 2^32 in the code
    MaxBatch,     \* the largest n passed to next_batch
    MaxSequence   \* bound: no claim passes this sequence

ASSUME ConstantsAssumption ==
    /\ Capacity \in Nat \ {0}
    /\ Generations \in Nat \ {0, 1}
    /\ MaxBatch \in 1 .. Capacity
    /\ MaxSequence \in Nat

Torn == -2          \* a slot between destroy_at and construct_at
NeverWritten == -1  \* the default-constructed payload

VARIABLES
    claimed,      \* claimed_sequence_
    consumed,     \* consumed_sequence_
    generations,  \* slot_generations_
    ring,         \* ring_buffer_
    cached,       \* cached_published_sequence_
    pc,           \* producer -> where it is
    lo, hi,       \* producer -> first and last sequence of its claim
    at,           \* producer -> the sequence it works on
    cpc,          \* where the consumer is
    limit,        \* consumer: the claimed position its scan stops at
    scan,         \* consumer: the sequence its scan looks at
    got,          \* consumer: the payload moved out of the ring
    wsMutex       \* the holder of the wait strategy's mutex between steps

producerVars == <<pc, lo, hi, at>>
consumerVars == <<cached, limit, scan, got, wsMutex>>
vars == <<claimed, consumed, generations, ring, producerVars, cpc, consumerVars>>

Slots == 0 .. Capacity - 1

SlotOf(s) == s % Capacity

\* static_cast<int32_t>(sequence >> generation_shift_)
GenerationOf(s) == (s \div Capacity) % Generations

\* -1 = never published, which is the last generation value modulo the width.
NoGeneration == Generations - 1

Available(s) == generations[SlotOf(s)] = GenerationOf(s)

Init ==
    /\ claimed = -1
    /\ consumed = -1
    /\ generations = [i \in Slots |-> NoGeneration]
    /\ ring = [i \in Slots |-> NeverWritten]
    /\ cached = -1
    /\ pc = [p \in Producers |-> "idle"]
    /\ lo = [p \in Producers |-> 0]
    /\ hi = [p \in Producers |-> 0]
    /\ at = [p \in Producers |-> 0]
    /\ cpc = "idle"
    /\ limit = -1
    /\ scan = 0
    /\ got = NeverWritten
    /\ wsMutex = "free"

-----------------------------------------------------------------------------
(* Producers *)

Goto(p, from, to) ==
    /\ pc[p] = from
    /\ pc' = [pc EXCEPT ![p] = to]

Claim(p, first, last) ==
    /\ claimed' = last
    /\ lo' = [lo EXCEPT ![p] = first]
    /\ hi' = [hi EXCEPT ![p] = last]
    /\ at' = [at EXCEPT ![p] = first]

\* next() is the case n = 1: one fetch-add claims the block.
NextBatch(p, n) ==
    /\ claimed + n <= MaxSequence
    /\ Goto(p, "idle", "capacity")
    /\ Claim(p, claimed + 1, claimed + n)
    /\ UNCHANGED <<consumed, generations, ring, cpc, consumerVars>>

\* Bug: off by one, the producer may enter the slot still being read.
WaitForCapacityEarly(p) ==
    /\ hi[p] - Capacity <= consumed + 1
    /\ Goto(p, "capacity", "destroy")
    /\ UNCHANGED <<claimed, consumed, generations, ring, lo, hi, at, cpc, consumerVars>>

\* The spin ends once the block's last slot has been consumed a lap ago.
WaitForCapacity(p) ==
    /\ hi[p] - Capacity <= consumed
    /\ Goto(p, "capacity", "destroy")
    /\ UNCHANGED <<claimed, consumed, generations, ring, lo, hi, at, cpc, consumerVars>>

TryNextLoad(p) ==
    /\ claimed < MaxSequence
    /\ Goto(p, "idle", "try_check")
    /\ at' = [at EXCEPT ![p] = claimed]
    /\ UNCHANGED <<claimed, consumed, generations, ring, lo, hi, cpc, consumerVars>>

TryNextCheck(p) ==
    /\ Goto(p, "try_check", IF at[p] + 1 - Capacity > consumed THEN "idle" ELSE "try_cas")
    /\ UNCHANGED <<claimed, consumed, generations, ring, lo, hi, at, cpc, consumerVars>>

TryNextCas(p) ==
    /\ \/ /\ claimed = at[p]
          /\ Goto(p, "try_cas", "destroy")
          /\ Claim(p, at[p] + 1, at[p] + 1)
       \/ /\ claimed # at[p]
          /\ Goto(p, "try_cas", "idle")
          /\ UNCHANGED <<claimed, lo, hi, at>>
    /\ UNCHANGED <<consumed, generations, ring, cpc, consumerVars>>

\* std::destroy_at(slot)
DestroySlot(p) ==
    /\ Goto(p, "destroy", "construct")
    /\ ring' = [ring EXCEPT ![SlotOf(at[p])] = Torn]
    /\ UNCHANGED <<claimed, consumed, generations, lo, hi, at, cpc, consumerVars>>

\* std::construct_at(slot, ...); a batch fills its slots one after the other.
ConstructSlot(p) ==
    /\ ring' = [ring EXCEPT ![SlotOf(at[p])] = at[p]]
    /\ \/ /\ at[p] < hi[p]
          /\ Goto(p, "construct", "destroy")
          /\ at' = [at EXCEPT ![p] = @ + 1]
       \/ /\ at[p] = hi[p]
          /\ Goto(p, "construct", "publish")
          /\ at' = [at EXCEPT ![p] = lo[p]]
    /\ UNCHANGED <<claimed, consumed, generations, lo, hi, cpc, consumerVars>>

\* publish() and publish_batch(): one release store per slot, in order.
PublishSlot(p) ==
    /\ generations' = [generations EXCEPT ![SlotOf(at[p])] = GenerationOf(at[p])]
    /\ \/ /\ at[p] < hi[p]
          /\ Goto(p, "publish", "publish")
          /\ at' = [at EXCEPT ![p] = @ + 1]
       \/ /\ at[p] = hi[p]
          /\ Goto(p, "publish", "signal")
          /\ UNCHANGED at
    /\ UNCHANGED <<claimed, consumed, ring, lo, hi, cpc, consumerVars>>

\* Bug: notify_one without the mutex.
SignalUnlocked(p) ==
    /\ Goto(p, "signal", "idle")
    /\ cpc' = IF cpc = "parked" THEN "lock" ELSE cpc
    /\ UNCHANGED <<claimed, consumed, generations, ring, lo, hi, at, consumerVars>>

\* signal(): lock, notify_one, unlock.
Signal(p) ==
    /\ wsMutex = "free"
    /\ Goto(p, "signal", "idle")
    /\ cpc' = IF cpc = "parked" THEN "lock" ELSE cpc
    /\ UNCHANGED <<claimed, consumed, generations, ring, lo, hi, at, consumerVars>>

-----------------------------------------------------------------------------
(* The consumer *)

CGoto(from, to) ==
    /\ cpc = from
    /\ cpc' = to

\* The wait strategy saw the claimed cursor reach the sequence.
StartScan(from) ==
    /\ claimed >= consumed + 1
    /\ CGoto(from, "scan")
    /\ limit' = claimed
    /\ scan' = consumed + 1

PullBegin ==
    /\ CGoto("idle", IF consumed + 1 > cached THEN "wait" ELSE "read")
    /\ UNCHANGED <<claimed, consumed, generations, ring, producerVars, consumerVars>>

WaitQuickCheck ==
    /\ \/ StartScan("wait")
       \/ /\ claimed < consumed + 1
          /\ CGoto("wait", "lock")
          /\ UNCHANGED <<limit, scan>>
    /\ UNCHANGED <<claimed, consumed, generations, ring, producerVars, cached, got, wsMutex>>

WaitLock ==
    /\ wsMutex = "free"
    /\ CGoto("lock", "check")
    /\ wsMutex' = "consumer"
    /\ UNCHANGED <<claimed, consumed, generations, ring, producerVars, cached, limit, scan, got>>

WaitCheck ==
    /\ \/ /\ StartScan("check")
          /\ wsMutex' = "free"
       \/ /\ claimed < consumed + 1
          /\ CGoto("check", "sleep")
          /\ UNCHANGED <<limit, scan, wsMutex>>
    /\ UNCHANGED <<claimed, consumed, generations, ring, producerVars, cached, got>>

\* cv_.wait(lock): unlocks and sleeps in one step.
WaitSleep ==
    /\ CGoto("sleep", "parked")
    /\ wsMutex' = "free"
    /\ UNCHANGED <<claimed, consumed, generations, ring, producerVars, cached, limit, scan, got>>

SpuriousWake ==
    /\ CGoto("parked", "lock")
    /\ UNCHANGED <<claimed, consumed, generations, ring, producerVars, consumerVars>>

\* Bug: the claimed position is taken for the published one.
ScanClaimed ==
    /\ CGoto("scan", "read")
    /\ cached' = limit
    /\ UNCHANGED <<claimed, consumed, generations, ring, producerVars, limit, scan, got, wsMutex>>

\* scan_published() stops at the first gap; pull() waits again if that is its
\* own sequence and otherwise caches the frontier.
ScanPublished ==
    \/ /\ scan <= limit
       /\ Available(scan)
       /\ CGoto("scan", "scan")
       /\ scan' = scan + 1
       /\ UNCHANGED <<claimed, consumed, generations, ring, producerVars, cached, limit, got, wsMutex>>
    \/ /\ scan > limit \/ ~Available(scan)
       /\ CGoto("scan", IF scan - 1 < consumed + 1 THEN "wait" ELSE "read")
       /\ cached' = IF scan - 1 < consumed + 1 THEN cached ELSE scan - 1
       /\ UNCHANGED <<claimed, consumed, generations, ring, producerVars, limit, scan, got, wsMutex>>

\* T value = std::move(ring_buffer_[sequence])
ReadSlot ==
    /\ CGoto("read", "consume")
    /\ got' = ring[SlotOf(consumed + 1)]
    /\ UNCHANGED <<claimed, consumed, generations, ring, producerVars, cached, limit, scan, wsMutex>>

Consume ==
    /\ CGoto("consume", "idle")
    /\ consumed' = consumed + 1
    /\ UNCHANGED <<claimed, generations, ring, producerVars, consumerVars>>

-----------------------------------------------------------------------------
\* The rest of an operation that a producer has begun.
ProducerStep(p) ==
    \/ WaitForCapacity(p)
    \/ TryNextCheck(p)
    \/ TryNextCas(p)
    \/ DestroySlot(p)
    \/ ConstructSlot(p)
    \/ PublishSlot(p)
    \/ Signal(p)

ConsumerStep ==
    \/ PullBegin
    \/ WaitQuickCheck
    \/ WaitLock
    \/ WaitCheck
    \/ WaitSleep
    \/ ScanPublished
    \/ ReadSlot
    \/ Consume

Next ==
    \/ \E p \in Producers : \E n \in 1 .. MaxBatch : NextBatch(p, n)
    \/ \E p \in Producers : TryNextLoad(p)
    \/ \E p \in Producers : ProducerStep(p)
    \/ ConsumerStep
    \/ SpuriousWake

Spec == Init /\ [][Next]_vars

\* Threads keep running: a producer finishes the operation it began, and the
\* consumer keeps pulling.  Nobody is obliged to begin an operation.
Fairness ==
    /\ \A p \in Producers : WF_vars(ProducerStep(p))
    /\ WF_vars(ConsumerStep)

FairSpec == Spec /\ Fairness
-----------------------------------------------------------------------------
(* Properties *)

PCs == {"idle", "capacity", "try_check", "try_cas", "destroy", "construct", "publish", "signal"}
CPCs == {"idle", "wait", "lock", "check", "sleep", "parked", "scan", "read", "consume"}

\* Every variable has its type: the sequences are integers, the generations fit
\* their width, and only the consumer's critical section holds the mutex.
TypeOK ==
    /\ claimed \in Int
    /\ consumed \in Int
    /\ generations \in [Slots -> 0 .. Generations - 1]
    /\ ring \in [Slots -> Int]
    /\ cached \in Int
    /\ pc \in [Producers -> PCs]
    /\ lo \in [Producers -> Int]
    /\ hi \in [Producers -> Int]
    /\ at \in [Producers -> Int]
    /\ cpc \in CPCs
    /\ limit \in Int
    /\ scan \in Int
    /\ got \in Int
    /\ wsMutex = IF cpc \in {"check", "sleep"} THEN "consumer" ELSE "free"

\* pull() moves out the payload of the sequence it acknowledges: never that of
\* another lap, never a slot a producer is refilling.
PulledPayload == cpc = "consume" => got = consumed + 1

Filling(p) == pc[p] \in {"destroy", "construct"}

\* A slot has one user: two producers never fill the same slot, and no producer
\* fills the slot pull() is moving from, although claims run laps ahead.
SlotExclusion ==
    \A p \in Producers : Filling(p) =>
        /\ \A q \in Producers \ {p} : Filling(q) => SlotOf(at[p]) # SlotOf(at[q])
        /\ cpc = "read" => SlotOf(at[p]) # SlotOf(consumed + 1)

\* Every sequence up to the consumer's cached frontier is readable, so pull()
\* may skip the sequencer until it has consumed the frontier: no publication
\* gap hides below it and no slot below it is refilled early.
FrontierReadable ==
    \A s \in (consumed + 1) .. cached : Available(s) /\ ring[SlotOf(s)] = s

\* Producers and consumer keep off each other's slots: a slot has one writer at a
\* time, and what pull() skips ahead to and moves out is what was published there.
PayloadsIntact == PulledPayload /\ SlotExclusion /\ FrontierReadable

\* The sequences the abstract queue regards as published.
Published ==
    {s \in 0 .. claimed : s <= consumed \/ (s <= consumed + Capacity /\ Available(s))}

Queue == INSTANCE ClaimOrderQueue WITH published <- Published

\* The sequencer, the generations and pull() implement the claim-ordered queue.
ImplementsQueue == Queue!Spec

\* The consumer that went to sleep because nothing was claimed wakes up, and a
\* producer that claimed beyond the ring gets its slot: what is claimed is
\* eventually consumed.
ClaimsConsumed ==
    \A s \in 0 .. MaxSequence : (claimed >= s) ~> (consumed >= s)
=============================================================================
