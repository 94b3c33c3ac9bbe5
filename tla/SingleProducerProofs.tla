------------------------ MODULE SingleProducerProofs ------------------------
(* Safety of SingleProducer for every ring size and batch size. *)
EXTENDS SingleProducer, Arithmetic

\* Two sequences less than a lap apart never share a slot.
LEMMA SlotsDistinct ==
    ASSUME NEW a \in Int, NEW b \in Int, a < b, b < a + Capacity
    PROVE  SlotOf(a) # SlotOf(b)
BY ZenonT(40), RemaindersDistinct, SingleProducerAssumption DEF SlotOf

\* SlotOf stays in range.
LEMMA SlotInRange ==
    ASSUME NEW s \in Int
    PROVE  SlotOf(s) \in Slots
BY SingleProducerAssumption DEF SlotOf, Slots

-----------------------------------------------------------------------------
(* The inductive invariant *)

\* Where the producer is in its operation fixes how its positions compare.
ProducerInv ==
    /\ claimed >= -1
    /\ pc \in {"idle", "capacity", "claim"} => published = claimed
    /\ pc \in {"capacity", "claim"} => hi > claimed
    /\ pc \in {"claim", "destroy", "construct", "publish", "signal"} => hi <= consumed + Capacity
    /\ pc \in {"destroy", "construct", "publish", "signal"} => claimed = hi
    /\ pc \in {"destroy", "construct"} => published < at /\ at <= hi
    /\ pc = "publish" => published < hi /\ at = hi + 1
    /\ pc = "signal" => published = hi

\* The consumer's position and its cached frontier never pass the published one.
ConsumerInv ==
    /\ -1 <= consumed
    /\ consumed <= cached
    /\ cached <= published
    /\ published <= claimed
    /\ cpc \in {"read", "consume"} => consumed + 1 <= cached

\* The last sequence whose payload is in the ring.
Filled == IF pc \in {"destroy", "construct", "publish"} THEN at - 1 ELSE published

\* Every payload between the consumer and the producer's pen is in its slot.
RingInv == \A s \in Int : consumed + 1 <= s /\ s <= Filled => ring[SlotOf(s)] = s

IInv == TypeOK /\ ProducerInv /\ ConsumerInv /\ LimitSafe /\ RingInv /\ PulledPayload

\* The invariant holds when the disruptor is constructed.
LEMMA InvInit == Init => IInv
BY SingleProducerAssumption
   DEF Init, IInv, TypeOK, ProducerInv, ConsumerInv, LimitSafe, RingInv, Filled, PulledPayload,
       PCs, CPCs, NeverWritten

\* The claiming steps (next_batch, wait_for_capacity, try_next) touch neither ring nor frontier.
LEMMA ClaimSteps ==
    ASSUME IInv,
           (\E n \in 1 .. MaxBatch : NextBatch(n)) \/ TryNext \/ WaitForCapacity \/ SetClaimed
    PROVE  IInv'
<1> USE SingleProducerAssumption
<1>1. ASSUME NEW n \in 1 .. MaxBatch, NextBatch(n) PROVE IInv'
  BY <1>1 DEF IInv, NextBatch, Goto, consumerVars, TypeOK, ProducerInv, ConsumerInv, LimitSafe,
              RingInv, Filled, PulledPayload, PCs, CPCs
<1>2. CASE TryNext
  BY <1>2 DEF IInv, TryNext, Goto, consumerVars, TypeOK, ProducerInv, ConsumerInv, LimitSafe,
              RingInv, Filled, PulledPayload, PCs, CPCs
<1>3. CASE WaitForCapacity
  BY <1>3 DEF IInv, WaitForCapacity, Goto, consumerVars, TypeOK, ProducerInv, ConsumerInv, LimitSafe,
              RingInv, Filled, PulledPayload, PCs, CPCs
<1>4. CASE SetClaimed
  BY <1>4 DEF IInv, SetClaimed, Claim, Goto, consumerVars, TypeOK, ProducerInv, ConsumerInv,
              LimitSafe, RingInv, Filled, PulledPayload, PCs, CPCs
<1> QED
  BY <1>1, <1>2, <1>3, <1>4

\* Filling a slot leaves every unread payload alone: the slot is less than a lap ahead.
LEMMA FillSteps ==
    ASSUME IInv, DestroySlot \/ ConstructSlot
    PROVE  IInv'
<1> USE SingleProducerAssumption
<1>1. /\ claimed \in Int /\ hi \in Int /\ at \in Int /\ consumed \in Int /\ published \in Int
      /\ published < at /\ at <= hi /\ hi <= consumed + Capacity /\ claimed = hi
      /\ pc \in {"destroy", "construct"}
      /\ consumed <= published
  BY DEF IInv, TypeOK, ProducerInv, ConsumerInv, DestroySlot, ConstructSlot, Goto
<1>2. SlotOf(at) \in Slots
  BY <1>1, SlotInRange
<1>3. ASSUME NEW s \in Int, consumed + 1 <= s, s <= at - 1 PROVE SlotOf(s) # SlotOf(at)
  BY <1>1, <1>3, SlotsDistinct
<1>4. UNCHANGED consumed /\ (pc' = "destroy" \/ pc' = "construct" \/ pc' = "publish")
  BY DEF DestroySlot, ConstructSlot, Goto, consumerVars
<1>5. CASE DestroySlot
  <2>1. RingInv'
    BY <1>1, <1>2, <1>3, <1>5 DEF IInv, RingInv, Filled, DestroySlot, Goto, consumerVars, TypeOK
  <2>2. (TypeOK /\ ProducerInv /\ ConsumerInv /\ LimitSafe /\ PulledPayload)'
    BY <1>1, <1>2, <1>5 DEF IInv, DestroySlot, Goto, consumerVars, TypeOK, ProducerInv, ConsumerInv,
              LimitSafe, PulledPayload, PCs, CPCs, Torn
  <2> QED BY <2>1, <2>2 DEF IInv
<1>6. CASE ConstructSlot
  <2>1. RingInv'
    BY <1>1, <1>2, <1>3, <1>6 DEF IInv, RingInv, Filled, ConstructSlot, Goto, consumerVars, TypeOK
  <2>2. (TypeOK /\ ProducerInv /\ ConsumerInv /\ LimitSafe /\ PulledPayload)'
    BY <1>1, <1>2, <1>6 DEF IInv, ConstructSlot, Goto, consumerVars, TypeOK, ProducerInv, ConsumerInv,
              LimitSafe, PulledPayload, PCs, CPCs
  <2> QED BY <2>1, <2>2 DEF IInv
<1> QED
  BY <1>5, <1>6

\* publish() moves the frontier over payloads that are in place; signal() wakes the consumer.
LEMMA PublishSteps ==
    ASSUME IInv, Publish \/ Signal
    PROVE  IInv'
<1>1. CASE Publish
  BY <1>1 DEF IInv, Publish, Goto, consumerVars, TypeOK, ProducerInv, ConsumerInv, LimitSafe,
              RingInv, Filled, PulledPayload, PCs, CPCs
<1>2. CASE Signal
  BY <1>2 DEF IInv, Signal, Goto, TypeOK, ProducerInv, ConsumerInv, LimitSafe,
              RingInv, Filled, PulledPayload, PCs, CPCs
<1> QED
  BY <1>1, <1>2

\* The consumer's waiting and reading steps leave the positions alone.
LEMMA WaitSteps ==
    ASSUME IInv, PullBegin \/ WaitQuickCheck \/ WaitLock \/ WaitCheck \/ Timeout
    PROVE  IInv'
<1> USE DEF IInv, CGoto, SeePublished, producerVars, TypeOK, ProducerInv, ConsumerInv, LimitSafe,
            RingInv, Filled, PulledPayload, PCs, CPCs
<1>1. CASE PullBegin
  BY <1>1 DEF PullBegin
<1>2. CASE WaitQuickCheck
  BY <1>2 DEF WaitQuickCheck
<1>3. CASE WaitLock
  BY <1>3 DEF WaitLock
<1>4. CASE WaitCheck
  BY <1>4 DEF WaitCheck
<1>5. CASE Timeout
  BY <1>5 DEF Timeout
<1> QED
  BY <1>1, <1>2, <1>3, <1>4, <1>5

\* pull() reads the payload of the next sequence and acknowledges it.
LEMMA ReadSteps ==
    ASSUME IInv, ReadSlot \/ Consume
    PROVE  IInv'
<1>1. CASE ReadSlot
  <2>1. consumed \in Int /\ consumed + 1 \in Int /\ consumed + 1 <= published /\ published <= Filled
    BY <1>1 DEF IInv, ReadSlot, CGoto, TypeOK, ConsumerInv, ProducerInv, Filled, PCs
  <2>2. ring[SlotOf(consumed + 1)] = consumed + 1
    <3> DEFINE s == consumed + 1
    <3>1. s \in Int /\ consumed + 1 <= s /\ s <= Filled
      BY <2>1 DEF IInv, TypeOK, Filled
    <3> QED BY <3>1 DEF IInv, RingInv
  <2> QED
    BY <1>1, <2>1, <2>2 DEF IInv, ReadSlot, CGoto, producerVars, TypeOK, ProducerInv, ConsumerInv,
              LimitSafe, RingInv, Filled, PulledPayload, PCs, CPCs
<1>2. CASE Consume
  BY <1>2, SingleProducerAssumption DEF IInv, Consume, CGoto, producerVars, TypeOK, ProducerInv, ConsumerInv,
            LimitSafe, RingInv, Filled, PulledPayload, PCs, CPCs
<1> QED
  BY <1>1, <1>2

\* Every step preserves the invariant.
LEMMA InvStep == IInv /\ [Next]_vars => IInv'
<1> SUFFICES ASSUME IInv, [Next]_vars PROVE IInv'
  OBVIOUS
<1>1. CASE UNCHANGED vars
  BY <1>1 DEF vars, producerVars, consumerVars, IInv, TypeOK, ProducerInv, ConsumerInv, LimitSafe,
              RingInv, Filled, PulledPayload
<1>2. CASE Next
  BY <1>2, ClaimSteps, FillSteps, PublishSteps, WaitSteps, ReadSteps DEF Next, ProducerStep, ConsumerStep
<1> QED
  BY <1>1, <1>2

\* The inductive invariant holds in every state.
LEMMA Invariance == Spec => []IInv
BY InvInit, InvStep, PTL DEF Spec

-----------------------------------------------------------------------------
(* Theorems *)

\* Types are invariant.
THEOREM TypeCorrect == Spec => []TypeOK
<1>1. IInv => TypeOK
  BY DEF IInv
<1> QED
  BY <1>1, Invariance, PTL

\* pull() returns the payload of the sequence it acknowledges.
THEOREM PullsRightPayload == Spec => []PulledPayload
<1>1. IInv => PulledPayload
  BY DEF IInv
<1> QED
  BY <1>1, Invariance, PTL

\* The producer's cached capacity limit is never too large.
THEOREM LimitIsSafe == Spec => []LimitSafe
<1>1. IInv => LimitSafe
  BY DEF IInv
<1> QED
  BY <1>1, Invariance, PTL

\* emplace() never destroys a payload that has not been pulled.
THEOREM NeverOverwrites == Spec => []NoOverwrite
<1>1. IInv => NoOverwrite
  <2> SUFFICES ASSUME IInv, pc \in {"destroy", "construct"}, NEW s \in (consumed + 1) .. published
               PROVE  SlotOf(at) # SlotOf(s)
    BY DEF NoOverwrite
  <2>1. s \in Int /\ at \in Int /\ s < at /\ at < s + Capacity
    BY SingleProducerAssumption DEF IInv, TypeOK, ProducerInv, ConsumerInv
  <2> QED BY <2>1, SlotsDistinct
<1> QED
  BY <1>1, Invariance, PTL

\* Payloads survive the ring intact, for any ring size and any batch up to it.
THEOREM PayloadsSafe == Spec => []PayloadsIntact
<1>1. PulledPayload /\ NoOverwrite => PayloadsIntact
  BY DEF PayloadsIntact
<1> QED
  BY <1>1, PullsRightPayload, NeverOverwrites, PTL

-----------------------------------------------------------------------------
(* Refinement *)

\* An empty disruptor is an empty queue.
LEMMA QueueInit == Init => Queue!Init
BY DEF Init, Queue!Init

\* Every step is a step of the claim-ordered queue or leaves it alone.
LEMMA QueueStep == IInv /\ [Next]_vars => [Queue!Next]_(Queue!vars)
<1> SUFFICES ASSUME IInv, [Next]_vars PROVE [Queue!Next]_(Queue!vars)
  OBVIOUS
<1> USE SingleProducerAssumption
<1>1. CASE SetClaimed
  <2> DEFINE n == hi - claimed
  <2>1. n \in 1 .. Capacity /\ claimed' = claimed + n /\ UNCHANGED <<published, consumed>>
    BY <1>1 DEF IInv, TypeOK, ProducerInv, ConsumerInv, SetClaimed, Claim, Goto, consumerVars
  <2> HIDE DEF n
  <2>2. Queue!Claim(n)
    BY <2>1 DEF Queue!Claim
  <2> QED BY <2>1, <2>2 DEF Queue!Next
<1>2. CASE Publish
  <2> DEFINE first == published + 1
  <2>1. /\ published' = hi /\ UNCHANGED <<claimed, consumed>>
        /\ published \in Int /\ hi \in Int /\ consumed \in Int /\ claimed = hi
        /\ -1 <= published /\ published < hi /\ consumed <= published /\ hi <= consumed + Capacity
    BY <1>2 DEF IInv, TypeOK, ProducerInv, ConsumerInv, Publish, Goto, consumerVars
  <2>2. first \in 0 .. claimed /\ hi \in 0 .. claimed /\ first <= hi /\ consumed < first
    BY <2>1
  <2>3. (0 .. published) \intersect (first .. hi) = {} /\ 0 .. hi = (0 .. published) \union (first .. hi)
    BY <2>1
  <2> HIDE DEF first
  <2>4. Queue!Publish(first, hi)
    BY <2>1, <2>2, <2>3 DEF Queue!Publish
  <2> QED BY <2>2, <2>4 DEF Queue!Next
<1>3. CASE Consume
  <2>1. consumed + 1 \in 0 .. published /\ consumed' = consumed + 1 /\ UNCHANGED <<claimed, published>>
    BY <1>3 DEF IInv, TypeOK, ConsumerInv, Consume, CGoto, producerVars
  <2>2. Queue!Deliver
    BY <2>1 DEF Queue!Deliver
  <2> QED BY <2>2 DEF Queue!Next
<1>4. ASSUME UNCHANGED <<claimed, published, consumed>> PROVE UNCHANGED Queue!vars
  BY <1>4 DEF Queue!vars
<1>5. ASSUME \/ \E n \in 1 .. MaxBatch : NextBatch(n)
             \/ TryNext \/ WaitForCapacity \/ DestroySlot \/ ConstructSlot \/ Signal
             \/ PullBegin \/ WaitQuickCheck \/ WaitLock \/ WaitCheck \/ Timeout \/ ReadSlot
             \/ UNCHANGED vars
      PROVE  UNCHANGED <<claimed, published, consumed>>
  BY <1>5 DEF NextBatch, TryNext, WaitForCapacity, DestroySlot, ConstructSlot, Signal, PullBegin,
              WaitQuickCheck, WaitLock, WaitCheck, Timeout, ReadSlot, vars, producerVars, consumerVars
<1> QED
  BY <1>1, <1>2, <1>3, <1>4, <1>5 DEF Next, ProducerStep, ConsumerStep

\* The single-producer disruptor implements the claim-ordered bounded queue.
THEOREM Refinement == Spec => ImplementsQueue
BY QueueInit, QueueStep, Invariance, PTL DEF Spec, Queue!Spec, ImplementsQueue
=============================================================================
