--------------------------- MODULE DisruptorProofs ---------------------------
(* Safety of Disruptor for every ring size, width and number of producers. *)
EXTENDS Disruptor, Arithmetic

-----------------------------------------------------------------------------
(* Arithmetic of the ring *)

\* SlotOf and GenerationOf stay in range.
LEMMA RingTypes ==
    ASSUME NEW s \in Int
    PROVE  SlotOf(s) \in Slots /\ GenerationOf(s) \in 0 .. Generations - 1
BY ConstantsAssumption DEF SlotOf, GenerationOf, Slots

\* Two sequences less than a lap apart never share a slot.
LEMMA SlotsDistinct ==
    ASSUME NEW a \in Int, NEW b \in Int, a < b, b < a + Capacity
    PROVE  SlotOf(a) # SlotOf(b)
BY ZenonT(40), RemaindersDistinct, ConstantsAssumption DEF SlotOf

\* One lap back is the same slot in the previous generation.
LEMMA PreviousLap ==
    ASSUME NEW s \in Int
    PROVE  SlotOf(s - Capacity) = SlotOf(s) /\ GenerationOf(s - Capacity) # GenerationOf(s)
<1> DEFINE g == s \div Capacity
<1> DEFINE r == s % Capacity
<1>1. g \in Int /\ r \in 0 .. Capacity - 1 /\ s = Capacity * g + r
  BY DivisionFacts, ConstantsAssumption
<1>2. (s - Capacity) \div Capacity = g - 1 /\ (s - Capacity) % Capacity = r
  <2> HIDE DEF g, r
  <2>1. s - Capacity = Capacity * (g - 1) + r
    BY <1>1, ConstantsAssumption
  <2> QED BY <1>1, <2>1, DivisionUnique, ConstantsAssumption
<1>3. (g - 1) % Generations # g % Generations
  BY ZenonT(40), <1>1, RemaindersDiffer, ConstantsAssumption
<1> QED
  BY <1>2, <1>3 DEF SlotOf, GenerationOf

\* What no slot was ever published with is the generation before the first.
LEMMA FirstLap ==
    ASSUME NEW s \in 0 .. Capacity - 1
    PROVE  GenerationOf(s - Capacity) = NoGeneration
<1>1. (s - Capacity) \div Capacity = -1
  BY ConstantsAssumption
<1>2. (-1) % Generations = Generations - 1
  BY ConstantsAssumption
<1> QED
  BY <1>1, <1>2 DEF GenerationOf, NoGeneration

-----------------------------------------------------------------------------
(* The inductive invariant *)

\* p has claimed sequences that it has not published yet: First(p) .. hi[p].
Active(p) == pc[p] \in {"capacity", "destroy", "construct", "publish"}
First(p) == IF pc[p] = "publish" THEN at[p] ELSE lo[p]

\* An unpublished claim lies between the consumer and the claimed cursor and,
\* once it passed the capacity wait, within one lap of the consumer.
ClaimInv ==
    \A p \in Producers : Active(p) =>
        /\ consumed < First(p)
        /\ lo[p] <= at[p]
        /\ at[p] <= hi[p]
        /\ hi[p] <= claimed
        /\ IF pc[p] = "capacity" THEN at[p] = lo[p] ELSE hi[p] <= consumed + Capacity

\* A try_next that passed its capacity check still fits the ring.
TryInv ==
    \A p \in Producers : pc[p] = "try_cas" => at[p] < consumed + Capacity

\* Unpublished claims do not overlap.
DisjointInv ==
    \A p, q \in Producers : p # q /\ Active(p) /\ Active(q) =>
        hi[p] < First(q) \/ hi[q] < First(p)

\* What a producer has constructed and not published is still in its slot.
WrittenInv ==
    \A p \in Producers : \A s \in Int :
        /\ Filling(p) /\ lo[p] <= s /\ s < at[p] => ring[SlotOf(s)] = s
        /\ pc[p] = "publish" /\ at[p] <= s /\ s <= hi[p] => ring[SlotOf(s)] = s

\* Within the lap ahead of the consumer a slot has the generation of its
\* sequence or of the sequence one lap earlier, and in the first case the
\* sequence is published: it is complete and nobody's unpublished claim.
LapInv ==
    \A s \in Int : consumed < s /\ s <= consumed + Capacity =>
        /\ Available(s) \/ generations[SlotOf(s)] = GenerationOf(s - Capacity)
        /\ Available(s) =>
            /\ s <= claimed
            /\ ring[SlotOf(s)] = s
            /\ \A p \in Producers : Active(p) => ~(First(p) <= s /\ s <= hi[p])

\* The consumer's frontier and its scan never pass a gap nor a whole lap.
FrontierInv ==
    /\ -1 <= consumed
    /\ consumed <= cached
    /\ cached <= consumed + Capacity
    /\ cached <= claimed
    /\ cpc \in {"read", "consume"} => consumed < cached
    /\ \A s \in Int : consumed < s /\ s <= cached => Available(s)
    /\ cpc = "scan" =>
        /\ consumed < scan
        /\ scan <= consumed + Capacity + 1
        /\ scan <= limit + 1
        /\ limit <= claimed
        /\ \A s \in Int : consumed < s /\ s < scan => Available(s)

IInv ==
    /\ TypeOK
    /\ ClaimInv
    /\ TryInv
    /\ DisjointInv
    /\ WrittenInv
    /\ LapInv
    /\ FrontierInv
    /\ PulledPayload

\* The sequencer's constructor establishes the invariant: every slot generation
\* is the sentinel, which is the generation one lap before the first.
LEMMA InitInv == Init => IInv
<1> SUFFICES ASSUME Init PROVE IInv
  OBVIOUS
<1> USE ConstantsAssumption DEF Init
<1>1. TypeOK
  BY DEF TypeOK, Slots, NoGeneration, NeverWritten, PCs, CPCs
<1>2. ClaimInv /\ TryInv /\ DisjointInv /\ WrittenInv
  BY DEF ClaimInv, TryInv, DisjointInv, WrittenInv, Active, Filling
<1>3. LapInv
  <2> SUFFICES ASSUME NEW s \in Int, consumed < s, s <= consumed + Capacity
               PROVE  generations[SlotOf(s)] = GenerationOf(s - Capacity) /\ ~Available(s)
    BY DEF LapInv
  <2>1. s \in 0 .. Capacity - 1
    OBVIOUS
  <2>2. generations[SlotOf(s)] = NoGeneration
    BY RingTypes
  <2> QED BY <2>1, <2>2, FirstLap, PreviousLap DEF Available
<1>4. FrontierInv /\ PulledPayload
  BY DEF FrontierInv, PulledPayload
<1> QED
  BY <1>1, <1>2, <1>3, <1>4 DEF IInv

\* Every atomic step of the producers and of pull() keeps the types.
LEMMA TypeStep == TypeOK /\ [Next]_vars => TypeOK'
<1> SUFFICES ASSUME TypeOK, [Next]_vars PROVE TypeOK'
  OBVIOUS
<1> USE ConstantsAssumption DEF TypeOK, PCs, CPCs, Goto, CGoto, Claim, StartScan, producerVars, consumerVars
<1>1. ASSUME NEW p \in Producers, NEW n \in 1 .. MaxBatch, NextBatch(p, n) PROVE TypeOK'
  BY <1>1 DEF NextBatch
<1>2. ASSUME NEW p \in Producers, TryNextLoad(p) PROVE TypeOK'
  BY <1>2 DEF TryNextLoad
<1>3. ASSUME NEW p \in Producers, WaitForCapacity(p) PROVE TypeOK'
  BY <1>3 DEF WaitForCapacity
<1>4. ASSUME NEW p \in Producers, TryNextCheck(p) PROVE TypeOK'
  BY <1>4 DEF TryNextCheck
<1>5. ASSUME NEW p \in Producers, TryNextCas(p) PROVE TypeOK'
  BY <1>5 DEF TryNextCas
<1>6. ASSUME NEW p \in Producers, DestroySlot(p) PROVE TypeOK'
  BY <1>6, RingTypes DEF DestroySlot, Torn
<1>7. ASSUME NEW p \in Producers, ConstructSlot(p) PROVE TypeOK'
  BY <1>7, RingTypes DEF ConstructSlot
<1>8. ASSUME NEW p \in Producers, PublishSlot(p) PROVE TypeOK'
  BY <1>8, RingTypes DEF PublishSlot
<1>9. ASSUME NEW p \in Producers, Signal(p) PROVE TypeOK'
  BY <1>9 DEF Signal
<1>10. CASE PullBegin
  BY <1>10 DEF PullBegin
<1>11. CASE WaitQuickCheck
  BY <1>11 DEF WaitQuickCheck
<1>12. CASE WaitLock \/ WaitSleep \/ SpuriousWake
  BY <1>12 DEF WaitLock, WaitSleep, SpuriousWake
<1>13. CASE WaitCheck
  BY <1>13 DEF WaitCheck
<1>14. CASE ScanPublished
  BY <1>14 DEF ScanPublished
<1>15. CASE ReadSlot
  BY <1>15, RingTypes DEF ReadSlot
<1>16. CASE Consume
  BY <1>16 DEF Consume
<1>17. CASE UNCHANGED vars
  BY <1>17 DEF vars
<1> QED
  BY <1>1, <1>2, <1>3, <1>4, <1>5, <1>6, <1>7, <1>8, <1>9, <1>10, <1>11, <1>12, <1>13, <1>14,
     <1>15, <1>16, <1>17 DEF Next, ProducerStep, ConsumerStep

\* Sequences in flight within one lap of the consumer have different slots.
LEMMA WindowSlots ==
    ASSUME TypeOK,
           NEW a \in Int, NEW b \in Int, a # b,
           consumed < a, a <= consumed + Capacity,
           consumed < b, b <= consumed + Capacity
    PROVE  SlotOf(a) # SlotOf(b)
<1>1. CASE a < b
  BY <1>1, SlotsDistinct, ConstantsAssumption DEF TypeOK
<1>2. CASE b < a
  BY <1>2, SlotsDistinct, ConstantsAssumption DEF TypeOK
<1> QED
  BY <1>1, <1>2

\* next() and next_batch(): the fetch-add hands out sequences nobody holds.
LEMMA ClaimStep ==
    ASSUME IInv, NEW p \in Producers, NEW n \in 1 .. MaxBatch, NextBatch(p, n)
    PROVE  IInv'
<1> USE ConstantsAssumption DEF Goto, Claim, producerVars, consumerVars
<1>1. TypeOK /\ TypeOK'
  BY TypeStep DEF IInv, Next
<1>2. ClaimInv' /\ TryInv' /\ DisjointInv'
  BY <1>1 DEF IInv, NextBatch, ClaimInv, TryInv, DisjointInv, FrontierInv, Active, First, TypeOK
<1>3. WrittenInv'
  BY <1>1 DEF IInv, NextBatch, WrittenInv, Filling, TypeOK
<1>4. LapInv'
  BY <1>1 DEF IInv, NextBatch, LapInv, Available, Active, First, TypeOK
<1>5. FrontierInv' /\ PulledPayload'
  BY <1>1 DEF IInv, NextBatch, FrontierInv, PulledPayload, Available, TypeOK
<1> QED
  BY <1>1, <1>2, <1>3, <1>4, <1>5 DEF IInv

\* wait_for_capacity(): past it, the whole claim fits the ring.
LEMMA CapacityStep ==
    ASSUME IInv, NEW p \in Producers, WaitForCapacity(p)
    PROVE  IInv'
<1> USE ConstantsAssumption DEF Goto, producerVars, consumerVars
<1>1. TypeOK /\ TypeOK'
  BY TypeStep DEF IInv, Next, ProducerStep
<1>2. ClaimInv' /\ TryInv' /\ DisjointInv'
  BY <1>1 DEF IInv, WaitForCapacity, ClaimInv, TryInv, DisjointInv, Active, First, TypeOK
<1>3. WrittenInv'
  BY <1>1 DEF IInv, WaitForCapacity, WrittenInv, ClaimInv, Active, Filling, TypeOK
<1>4. LapInv'
  BY <1>1 DEF IInv, WaitForCapacity, LapInv, Available, Active, First, TypeOK
<1>5. FrontierInv' /\ PulledPayload'
  BY <1>1 DEF IInv, WaitForCapacity, FrontierInv, PulledPayload, Available, TypeOK
<1> QED
  BY <1>1, <1>2, <1>3, <1>4, <1>5 DEF IInv

\* try_next(): loading the cursor changes nothing shared.
LEMMA TryLoadStep ==
    ASSUME IInv, NEW p \in Producers, TryNextLoad(p)
    PROVE  IInv'
<1> USE ConstantsAssumption DEF Goto, Claim, producerVars, consumerVars
<1>1. TypeOK /\ TypeOK'
  BY TypeStep DEF IInv, Next, ProducerStep
<1>2. ClaimInv' /\ TryInv' /\ DisjointInv'
  BY <1>1 DEF IInv, TryNextLoad, ClaimInv, TryInv, DisjointInv, FrontierInv, Active, First, TypeOK
<1>3. WrittenInv'
  BY <1>1 DEF IInv, TryNextLoad, WrittenInv, Filling, TypeOK
<1>4. LapInv'
  BY <1>1 DEF IInv, TryNextLoad, LapInv, Available, Active, First, TypeOK
<1>5. FrontierInv' /\ PulledPayload'
  BY <1>1 DEF IInv, TryNextLoad, FrontierInv, PulledPayload, Available, TypeOK
<1> QED
  BY <1>1, <1>2, <1>3, <1>4, <1>5 DEF IInv

\* try_next(): past the capacity check the next sequence fits the ring, and
\* stays fitting because the consumer only advances.
LEMMA TryCheckStep ==
    ASSUME IInv, NEW p \in Producers, TryNextCheck(p)
    PROVE  IInv'
<1> USE ConstantsAssumption DEF Goto, Claim, producerVars, consumerVars
<1>1. TypeOK /\ TypeOK'
  BY TypeStep DEF IInv, Next, ProducerStep
<1>2. ClaimInv' /\ TryInv' /\ DisjointInv'
  BY <1>1 DEF IInv, TryNextCheck, ClaimInv, TryInv, DisjointInv, FrontierInv, Active, First, TypeOK
<1>3. WrittenInv'
  BY <1>1 DEF IInv, TryNextCheck, WrittenInv, Filling, TypeOK
<1>4. LapInv'
  BY <1>1 DEF IInv, TryNextCheck, LapInv, Available, Active, First, TypeOK
<1>5. FrontierInv' /\ PulledPayload'
  BY <1>1 DEF IInv, TryNextCheck, FrontierInv, PulledPayload, Available, TypeOK
<1> QED
  BY <1>1, <1>2, <1>3, <1>4, <1>5 DEF IInv

\* try_next(): the compare-exchange claims exactly the sequence checked.
LEMMA TryCasStep ==
    ASSUME IInv, NEW p \in Producers, TryNextCas(p)
    PROVE  IInv'
<1> USE ConstantsAssumption DEF Goto, Claim, producerVars, consumerVars
<1>1. TypeOK /\ TypeOK'
  BY TypeStep DEF IInv, Next, ProducerStep
<1>2. ClaimInv' /\ TryInv' /\ DisjointInv'
  BY <1>1 DEF IInv, TryNextCas, ClaimInv, TryInv, DisjointInv, FrontierInv, Active, First, TypeOK
<1>3. WrittenInv'
  BY <1>1 DEF IInv, TryNextCas, WrittenInv, Filling, TypeOK
<1>4. LapInv'
  BY <1>1 DEF IInv, TryNextCas, LapInv, Available, Active, First, TypeOK
<1>5. FrontierInv' /\ PulledPayload'
  BY <1>1 DEF IInv, TryNextCas, FrontierInv, PulledPayload, Available, TypeOK
<1> QED
  BY <1>1, <1>2, <1>3, <1>4, <1>5 DEF IInv

\* signal(): waking the consumer disturbs no slot.
LEMMA SignalStep ==
    ASSUME IInv, NEW p \in Producers, Signal(p)
    PROVE  IInv'
<1> USE ConstantsAssumption DEF Goto, Claim, producerVars, consumerVars
<1>1. TypeOK /\ TypeOK'
  BY TypeStep DEF IInv, Next, ProducerStep
<1>2. ClaimInv' /\ TryInv' /\ DisjointInv'
  BY <1>1 DEF IInv, Signal, ClaimInv, TryInv, DisjointInv, FrontierInv, Active, First, TypeOK
<1>3. WrittenInv'
  BY <1>1 DEF IInv, Signal, WrittenInv, Filling, TypeOK
<1>4. LapInv'
  BY <1>1 DEF IInv, Signal, LapInv, Available, Active, First, TypeOK
<1>5. FrontierInv' /\ PulledPayload'
  BY <1>1 DEF IInv, Signal, FrontierInv, PulledPayload, Available, TypeOK
<1> QED
  BY <1>1, <1>2, <1>3, <1>4, <1>5 DEF IInv

\* emplace(): destroy_at tears only a slot that the consumer has released.
LEMMA DestroyStep ==
    ASSUME IInv, NEW p \in Producers, DestroySlot(p)
    PROVE  IInv'
<1> USE ConstantsAssumption DEF Goto, producerVars, consumerVars
<1>1. TypeOK /\ TypeOK'
  BY TypeStep DEF IInv, Next, ProducerStep
<1>2. /\ consumed < at[p] /\ at[p] <= consumed + Capacity
      /\ SlotOf(at[p]) \in Slots
  BY <1>1, RingTypes DEF IInv, DestroySlot, ClaimInv, Active, First, TypeOK
<1>3. ASSUME NEW s \in Int, consumed < s, s <= consumed + Capacity, s # at[p]
      PROVE  ring'[SlotOf(s)] = ring[SlotOf(s)]
  <2>1. SlotOf(s) # SlotOf(at[p])
    BY <1>1, <1>2, <1>3, WindowSlots DEF TypeOK
  <2> QED BY <1>1, <1>2, <2>1, RingTypes DEF DestroySlot, TypeOK
<1>4. ClaimInv' /\ TryInv' /\ DisjointInv'
  BY <1>1 DEF IInv, DestroySlot, ClaimInv, TryInv, DisjointInv, Active, First, TypeOK
<1>5. WrittenInv'
  <2> SUFFICES ASSUME NEW q \in Producers, NEW s \in Int,
                      \/ Filling(q)' /\ lo'[q] <= s /\ s < at'[q]
                      \/ pc'[q] = "publish" /\ at'[q] <= s /\ s <= hi'[q]
               PROVE  ring'[SlotOf(s)] = s
    BY DEF WrittenInv
  <2>1. CASE q = p
    <3>1. consumed < s /\ s <= consumed + Capacity
      BY <1>1, <1>2, <2>1 DEF IInv, DestroySlot, ClaimInv, Active, First, Filling, TypeOK
    <3>2. CASE s = at[p]
      BY <1>1, <1>2, <2>1, <3>2 DEF DestroySlot, Filling, TypeOK
    <3>3. CASE s # at[p]
      <4>1. ring[SlotOf(s)] = s
        BY <1>1, <2>1, <3>3 DEF IInv, DestroySlot, WrittenInv, ClaimInv, Active, Filling, TypeOK
      <4> QED BY <1>3, <3>1, <3>3, <4>1
    <3> QED BY <3>2, <3>3
  <2>2. CASE q # p
    <3>1. ring[SlotOf(s)] = s
      BY <1>1, <2>2 DEF IInv, DestroySlot, WrittenInv, Filling, TypeOK
    <3>2. consumed < s /\ s <= consumed + Capacity /\ s # at[p]
      BY <1>1, <2>2 DEF IInv, DestroySlot, ClaimInv, DisjointInv, Active, First, Filling, TypeOK
    <3> QED BY <1>3, <3>1, <3>2
  <2> QED BY <2>1, <2>2
<1>6. LapInv'
  <2> SUFFICES ASSUME NEW s \in Int, consumed < s, s <= consumed + Capacity
               PROVE  /\ Available(s)' \/ generations'[SlotOf(s)] = GenerationOf(s - Capacity)
                      /\ Available(s)' =>
                          /\ s <= claimed'
                          /\ ring'[SlotOf(s)] = s
                          /\ \A q \in Producers : Active(q)' => ~(First(q)' <= s /\ s <= hi'[q])
    BY DEF LapInv, DestroySlot
  <2>1. Available(s)' = Available(s) /\ claimed' = claimed /\ generations' = generations
    BY DEF DestroySlot, Available
  <2>2. ASSUME Available(s)
        PROVE  \A q \in Producers : Active(q)' => ~(First(q)' <= s /\ s <= hi'[q])
    BY <1>1, <2>2 DEF IInv, DestroySlot, LapInv, ClaimInv, Active, First, TypeOK
  <2>3. ASSUME Available(s)
        PROVE  ring'[SlotOf(s)] = s
    <3>1. s # at[p]
      BY <1>1, <2>3 DEF IInv, DestroySlot, LapInv, ClaimInv, Active, First, TypeOK
    <3>2. ring[SlotOf(s)] = s
      BY <2>3 DEF IInv, LapInv
    <3> QED BY <1>3, <3>1, <3>2
  <2> QED BY <2>1, <2>2, <2>3 DEF IInv, LapInv
<1>7. FrontierInv' /\ PulledPayload'
  BY <1>1 DEF IInv, DestroySlot, FrontierInv, PulledPayload, Available, TypeOK
<1> QED
  BY <1>1, <1>4, <1>5, <1>6, <1>7 DEF IInv

\* emplace(): construct_at completes the producer's own slot.
LEMMA ConstructStep ==
    ASSUME IInv, NEW p \in Producers, ConstructSlot(p)
    PROVE  IInv'
<1> USE ConstantsAssumption DEF Goto, producerVars, consumerVars
<1>1. TypeOK /\ TypeOK'
  BY TypeStep DEF IInv, Next, ProducerStep
<1>2. /\ consumed < at[p] /\ at[p] <= consumed + Capacity
      /\ SlotOf(at[p]) \in Slots
  BY <1>1, RingTypes DEF IInv, ConstructSlot, ClaimInv, Active, First, TypeOK
<1>3. ASSUME NEW s \in Int, consumed < s, s <= consumed + Capacity, s # at[p]
      PROVE  ring'[SlotOf(s)] = ring[SlotOf(s)]
  <2>1. SlotOf(s) # SlotOf(at[p])
    BY <1>1, <1>2, <1>3, WindowSlots DEF TypeOK
  <2> QED BY <1>1, <1>2, <2>1, RingTypes DEF ConstructSlot, TypeOK
<1>4. ClaimInv' /\ TryInv' /\ DisjointInv'
  BY <1>1 DEF IInv, ConstructSlot, ClaimInv, TryInv, DisjointInv, Active, First, TypeOK
<1>5. WrittenInv'
  <2> SUFFICES ASSUME NEW q \in Producers, NEW s \in Int,
                      \/ Filling(q)' /\ lo'[q] <= s /\ s < at'[q]
                      \/ pc'[q] = "publish" /\ at'[q] <= s /\ s <= hi'[q]
               PROVE  ring'[SlotOf(s)] = s
    BY DEF WrittenInv
  <2>1. CASE q = p
    <3>1. consumed < s /\ s <= consumed + Capacity
      BY <1>1, <1>2, <2>1 DEF IInv, ConstructSlot, ClaimInv, Active, First, Filling, TypeOK
    <3>2. CASE s = at[p]
      BY <1>1, <1>2, <2>1, <3>2 DEF ConstructSlot, Filling, TypeOK
    <3>3. CASE s # at[p]
      <4>1. ring[SlotOf(s)] = s
        BY <1>1, <2>1, <3>3 DEF IInv, ConstructSlot, WrittenInv, ClaimInv, Active, Filling, TypeOK
      <4> QED BY <1>3, <3>1, <3>3, <4>1
    <3> QED BY <3>2, <3>3
  <2>2. CASE q # p
    <3>1. ring[SlotOf(s)] = s
      BY <1>1, <2>2 DEF IInv, ConstructSlot, WrittenInv, Filling, TypeOK
    <3>2. consumed < s /\ s <= consumed + Capacity /\ s # at[p]
      BY <1>1, <2>2 DEF IInv, ConstructSlot, ClaimInv, DisjointInv, Active, First, Filling, TypeOK
    <3> QED BY <1>3, <3>1, <3>2
  <2> QED BY <2>1, <2>2
<1>6. LapInv'
  <2> SUFFICES ASSUME NEW s \in Int, consumed < s, s <= consumed + Capacity
               PROVE  /\ Available(s)' \/ generations'[SlotOf(s)] = GenerationOf(s - Capacity)
                      /\ Available(s)' =>
                          /\ s <= claimed'
                          /\ ring'[SlotOf(s)] = s
                          /\ \A q \in Producers : Active(q)' => ~(First(q)' <= s /\ s <= hi'[q])
    BY DEF LapInv, ConstructSlot
  <2>1. Available(s)' = Available(s) /\ claimed' = claimed /\ generations' = generations
    BY DEF ConstructSlot, Available
  <2>2. ASSUME Available(s)
        PROVE  \A q \in Producers : Active(q)' => ~(First(q)' <= s /\ s <= hi'[q])
    BY <1>1, <2>2 DEF IInv, ConstructSlot, LapInv, ClaimInv, Active, First, TypeOK
  <2>3. ASSUME Available(s)
        PROVE  ring'[SlotOf(s)] = s
    <3>1. s # at[p]
      BY <1>1, <2>3 DEF IInv, ConstructSlot, LapInv, ClaimInv, Active, First, TypeOK
    <3>2. ring[SlotOf(s)] = s
      BY <2>3 DEF IInv, LapInv
    <3> QED BY <1>3, <3>1, <3>2
  <2> QED BY <2>1, <2>2, <2>3 DEF IInv, LapInv
<1>7. FrontierInv' /\ PulledPayload'
  BY <1>1 DEF IInv, ConstructSlot, FrontierInv, PulledPayload, Available, TypeOK
<1> QED
  BY <1>1, <1>4, <1>5, <1>6, <1>7 DEF IInv

\* publish() and publish_batch(): the generation store makes one complete slot
\* visible.
LEMMA PublishStep ==
    ASSUME IInv, NEW p \in Producers, PublishSlot(p)
    PROVE  IInv'
<1> USE ConstantsAssumption DEF Goto, producerVars, consumerVars
<1>1. TypeOK /\ TypeOK'
  BY TypeStep DEF IInv, Next, ProducerStep
<1>2. /\ consumed < at[p] /\ at[p] <= consumed + Capacity
      /\ SlotOf(at[p]) \in Slots
      /\ generations'[SlotOf(at[p])] = GenerationOf(at[p])
  BY <1>1, RingTypes DEF IInv, PublishSlot, ClaimInv, Active, First, TypeOK
<1>3. ASSUME NEW s \in Int, consumed < s, s <= consumed + Capacity, s # at[p]
      PROVE  generations'[SlotOf(s)] = generations[SlotOf(s)]
  <2>1. SlotOf(s) # SlotOf(at[p])
    BY <1>1, <1>2, <1>3, WindowSlots DEF TypeOK
  <2> QED BY <1>1, <1>2, <2>1, RingTypes DEF PublishSlot, TypeOK
<1>4. \A s \in Int : consumed < s /\ s <= consumed + Capacity /\ Available(s) => Available(s)'
  BY <1>2, <1>3 DEF Available
<1>5. ClaimInv' /\ TryInv' /\ DisjointInv'
  BY <1>1 DEF IInv, PublishSlot, ClaimInv, TryInv, DisjointInv, Active, First, TypeOK
<1>6. WrittenInv'
  BY <1>1 DEF IInv, PublishSlot, WrittenInv, Filling, TypeOK
<1>7. LapInv'
  <2> SUFFICES ASSUME NEW s \in Int, consumed < s, s <= consumed + Capacity
               PROVE  /\ Available(s)' \/ generations'[SlotOf(s)] = GenerationOf(s - Capacity)
                      /\ Available(s)' =>
                          /\ s <= claimed
                          /\ ring[SlotOf(s)] = s
                          /\ \A q \in Producers : Active(q)' => ~(First(q)' <= s /\ s <= hi[q])
    BY DEF LapInv, PublishSlot
  <2>1. CASE s = at[p]
    <3>1. Available(s)' /\ s <= claimed /\ ring[SlotOf(s)] = s
      BY <1>1, <1>2, <2>1 DEF IInv, PublishSlot, ClaimInv, WrittenInv, Active, Available, TypeOK
    <3>2. \A q \in Producers : Active(q)' => ~(First(q)' <= s /\ s <= hi[q])
      BY <1>1, <2>1 DEF IInv, PublishSlot, ClaimInv, DisjointInv, Active, First, TypeOK
    <3> QED BY <3>1, <3>2
  <2>2. CASE s # at[p]
    <3>1. Available(s)' = Available(s) /\ generations'[SlotOf(s)] = generations[SlotOf(s)]
      BY <1>3, <2>2 DEF Available
    <3>2. ASSUME Available(s)
          PROVE  \A q \in Producers : Active(q)' => ~(First(q)' <= s /\ s <= hi[q])
      BY <1>1, <3>2 DEF IInv, PublishSlot, LapInv, Active, First, TypeOK
    <3> QED BY <3>1, <3>2 DEF IInv, LapInv
  <2> QED BY <2>1, <2>2
<1>8. FrontierInv' /\ PulledPayload'
  BY <1>1, <1>4 DEF IInv, PublishSlot, FrontierInv, PulledPayload, TypeOK
<1> QED
  BY <1>1, <1>5, <1>6, <1>7, <1>8 DEF IInv

\* The consumer's steps before it moves a payload leave the producers alone.
LEMMA WaitStep ==
    ASSUME IInv,
           PullBegin \/ WaitQuickCheck \/ WaitLock \/ WaitCheck \/ WaitSleep \/ SpuriousWake
    PROVE  IInv'
<1> USE ConstantsAssumption DEF CGoto, StartScan, producerVars, consumerVars, PullBegin, WaitQuickCheck,
        WaitLock, WaitCheck, WaitSleep, SpuriousWake
<1>1. TypeOK /\ TypeOK'
  BY TypeStep DEF IInv, Next, ConsumerStep
<1>2. UNCHANGED <<claimed, consumed, generations, ring, producerVars, cached, got>>
  OBVIOUS
<1>3. ClaimInv' /\ TryInv' /\ DisjointInv' /\ WrittenInv' /\ LapInv'
  BY <1>2 DEF IInv, ClaimInv, TryInv, DisjointInv, WrittenInv, LapInv, Active, First, Filling, Available
<1>4. FrontierInv'
  <2>1. \A s \in Int : Available(s)' <=> Available(s)
    BY <1>2 DEF Available
  <2>2. cpc' \in {"read", "consume"} => consumed < cached
    BY <1>1 DEF TypeOK
  <2>3. cpc' = "scan" => scan' = consumed + 1 /\ limit' = claimed /\ consumed + 1 <= claimed
    BY <1>1 DEF TypeOK
  <2>4. claimed' = claimed /\ consumed' = consumed /\ cached' = cached
    BY <1>2
  <2>5. consumed \in Int /\ claimed \in Int /\ cached \in Int /\ FrontierInv
    BY <1>1 DEF IInv, TypeOK
  <2> HIDE DEF CGoto, StartScan, PullBegin, WaitQuickCheck, WaitLock, WaitCheck, WaitSleep, SpuriousWake
  <2> QED BY <2>1, <2>2, <2>3, <2>4, <2>5 DEF FrontierInv
<1>5. PulledPayload'
  BY <1>1 DEF IInv, PulledPayload, TypeOK
<1> QED
  BY <1>1, <1>3, <1>4, <1>5 DEF IInv

\* scan_published(): the scan advances over available slots and stops at a gap.
LEMMA ScanStep ==
    ASSUME IInv, ScanPublished
    PROVE  IInv'
<1> USE ConstantsAssumption DEF CGoto, producerVars, consumerVars
<1>1. TypeOK /\ TypeOK'
  BY TypeStep DEF IInv, Next, ConsumerStep
<1>2. UNCHANGED <<claimed, consumed, generations, ring, producerVars, got>>
  BY DEF ScanPublished
<1>3. ClaimInv' /\ TryInv' /\ DisjointInv' /\ WrittenInv' /\ LapInv'
  BY <1>2 DEF IInv, ClaimInv, TryInv, DisjointInv, WrittenInv, LapInv, Active, First, Filling, Available
<1>4. ASSUME cpc = "scan", Available(scan)
      PROVE  scan <= consumed + Capacity
  <2> SUFFICES ASSUME scan = consumed + 1 + Capacity PROVE FALSE
    BY <1>1, <1>4 DEF IInv, FrontierInv, TypeOK
  <2>1. Available(consumed + 1)
    BY <1>1, <1>4 DEF IInv, FrontierInv, TypeOK
  <2>2. scan - Capacity = consumed + 1 /\ scan \in Int
    BY <1>1 DEF TypeOK
  <2>3. GenerationOf(consumed + 1) # GenerationOf(scan) /\ SlotOf(consumed + 1) = SlotOf(scan)
    BY <2>2, PreviousLap
  <2> QED BY <1>4, <2>1, <2>3 DEF Available
<1>5. FrontierInv'
  <2>1. CASE scan <= limit /\ Available(scan) /\ CGoto("scan", "scan") /\ scan' = scan + 1 /\ UNCHANGED <<cached, limit>>
    BY <1>1, <1>2, <1>4, <2>1 DEF IInv, FrontierInv, Available, TypeOK
  <2>2. CASE (scan > limit \/ ~Available(scan)) /\ ScanPublished
    <3>1. \A s \in Int : Available(s)' <=> Available(s)
      BY <1>2 DEF Available
    <3>2. CASE scan - 1 < consumed + 1
      <4>1. cpc' = "wait" /\ cached' = cached
        BY <1>1, <2>2, <3>2 DEF ScanPublished, TypeOK
      <4> QED BY <1>2, <3>1, <4>1 DEF IInv, FrontierInv
    <3>3. CASE ~(scan - 1 < consumed + 1)
      <4>1. cpc = "scan" /\ cpc' = "read" /\ cached' = scan - 1
        BY <1>1, <2>2, <3>3 DEF ScanPublished, TypeOK
      <4> QED BY <1>1, <1>2, <3>1, <3>3, <4>1 DEF IInv, FrontierInv, TypeOK
    <3> QED BY <3>2, <3>3
  <2> QED BY <2>1, <2>2 DEF ScanPublished
<1>6. PulledPayload'
  BY <1>1 DEF IInv, ScanPublished, PulledPayload, TypeOK
<1> QED
  BY <1>1, <1>3, <1>5, <1>6 DEF IInv

\* pull(): the payload moved out is that of the next sequence.
LEMMA ReadStep ==
    ASSUME IInv, ReadSlot
    PROVE  IInv'
<1> USE ConstantsAssumption DEF CGoto, producerVars, consumerVars
<1>1. TypeOK /\ TypeOK'
  BY TypeStep DEF IInv, Next, ConsumerStep
<1>2. UNCHANGED <<claimed, consumed, generations, ring, producerVars, cached>>
  BY DEF ReadSlot
<1>3. ClaimInv' /\ TryInv' /\ DisjointInv' /\ WrittenInv' /\ LapInv'
  BY <1>2 DEF IInv, ClaimInv, TryInv, DisjointInv, WrittenInv, LapInv, Active, First, Filling, Available
<1>4. FrontierInv'
  BY <1>1, <1>2 DEF IInv, ReadSlot, FrontierInv, Available, TypeOK
<1>5. PulledPayload'
  BY <1>1 DEF IInv, ReadSlot, PulledPayload, FrontierInv, LapInv, TypeOK
<1> QED
  BY <1>1, <1>3, <1>4, <1>5 DEF IInv

\* consume(): advancing the consumer turns one published slot into the free
\* slot one lap ahead.
LEMMA ConsumeStep ==
    ASSUME IInv, Consume
    PROVE  IInv'
<1> USE ConstantsAssumption DEF CGoto, producerVars, consumerVars
<1>1. TypeOK /\ TypeOK'
  BY TypeStep DEF IInv, Next, ConsumerStep
<1>2. /\ Available(consumed + 1)
      /\ \A p \in Producers : Active(p) => ~(First(p) <= consumed + 1 /\ consumed + 1 <= hi[p])
  BY <1>1 DEF IInv, Consume, FrontierInv, LapInv, TypeOK
<1>3. ClaimInv' /\ TryInv' /\ DisjointInv' /\ WrittenInv'
  BY <1>1, <1>2 DEF IInv, Consume, ClaimInv, TryInv, DisjointInv, WrittenInv, Active, First, Filling, TypeOK
<1>4. LapInv'
  <2> SUFFICES ASSUME NEW s \in Int, consumed + 1 < s, s <= consumed + 1 + Capacity
               PROVE  /\ Available(s) \/ generations[SlotOf(s)] = GenerationOf(s - Capacity)
                      /\ Available(s) =>
                          /\ s <= claimed
                          /\ ring[SlotOf(s)] = s
                          /\ \A p \in Producers : Active(p) => ~(First(p) <= s /\ s <= hi[p])
    BY <1>1 DEF LapInv, Consume, Available, Active, First
  <2>1. CASE s <= consumed + Capacity
    BY <1>1, <2>1 DEF IInv, LapInv, TypeOK
  <2>2. CASE s = consumed + 1 + Capacity
    <3>1. s - Capacity = consumed + 1
      BY <1>1, <2>2 DEF TypeOK
    <3>2. generations[SlotOf(s)] = GenerationOf(s - Capacity) /\ GenerationOf(s - Capacity) # GenerationOf(s)
      BY <1>2, <3>1, PreviousLap DEF Available
    <3> QED BY <3>2 DEF Available
  <2> QED BY SMTT(30), <1>1, <2>1, <2>2 DEF TypeOK
<1>5. FrontierInv' /\ PulledPayload'
  BY <1>1 DEF IInv, Consume, FrontierInv, PulledPayload, Available, TypeOK
<1> QED
  BY <1>1, <1>3, <1>4, <1>5 DEF IInv

\* Every step of the disruptor preserves the invariant.
LEMMA InvStep == IInv /\ [Next]_vars => IInv'
<1> SUFFICES ASSUME IInv, [Next]_vars PROVE IInv'
  OBVIOUS
<1>1. CASE UNCHANGED vars
  BY <1>1 DEF vars, producerVars, consumerVars, IInv, TypeOK, ClaimInv, TryInv, DisjointInv, WrittenInv, LapInv,
              FrontierInv, PulledPayload, Active, First, Filling, Available
<1>2. CASE Next
  BY <1>2, ClaimStep, CapacityStep, TryLoadStep, TryCheckStep, TryCasStep, DestroyStep, ConstructStep,
     PublishStep, SignalStep, WaitStep, ScanStep, ReadStep, ConsumeStep DEF Next, ProducerStep, ConsumerStep
<1> QED
  BY <1>1, <1>2

-----------------------------------------------------------------------------
(* Theorems *)

\* The invariant holds in every reachable state.
THEOREM Invariance == Spec => []IInv
  BY InitInv, InvStep, PTL DEF Spec

\* Every variable keeps its type, whatever the ring size and the width of a
\* generation.
THEOREM TypeCorrect == Spec => []TypeOK
<1>1. IInv => TypeOK
  BY DEF IInv
<1> QED
  BY <1>1, Invariance, PTL

\* pull() returns the payload of the sequence it acknowledges, for any number of
\* producers, any ring size, any batch size up to it, and although generations
\* wrap at their width.
THEOREM PullsRightPayload == Spec => []PulledPayload
<1>1. IInv => PulledPayload
  BY DEF IInv
<1> QED
  BY <1>1, Invariance, PTL

\* No two producers fill the same slot and none fills the slot pull() moves from.
THEOREM SlotsExclusive == Spec => []SlotExclusion
<1>1. IInv => SlotExclusion
  <2> SUFFICES ASSUME IInv, NEW p \in Producers, Filling(p)
               PROVE  /\ \A q \in Producers \ {p} : Filling(q) => SlotOf(at[p]) # SlotOf(at[q])
                      /\ cpc = "read" => SlotOf(at[p]) # SlotOf(consumed + 1)
    BY DEF SlotExclusion
  <2> USE ConstantsAssumption
  <2>1. TypeOK /\ \A q \in Producers : Filling(q) => at[q] \in Int /\ consumed < at[q] /\ at[q] <= consumed + Capacity
    BY DEF IInv, ClaimInv, Active, First, Filling, TypeOK
  <2>2. ASSUME NEW q \in Producers \ {p}, Filling(q)
        PROVE  SlotOf(at[p]) # SlotOf(at[q])
    <3>1. at[p] # at[q]
      BY <2>1, <2>2 DEF IInv, ClaimInv, DisjointInv, Active, First, Filling, TypeOK
    <3> QED BY <2>1, <2>2, <3>1, WindowSlots
  <2>3. ASSUME cpc = "read"
        PROVE  SlotOf(at[p]) # SlotOf(consumed + 1)
    <3>1. Available(consumed + 1)
      BY <2>1, <2>3 DEF IInv, FrontierInv, TypeOK
    <3>2. at[p] # consumed + 1
      BY <2>1, <3>1 DEF IInv, LapInv, ClaimInv, Active, First, Filling, TypeOK
    <3>3. consumed + 1 \in Int /\ consumed < consumed + 1 /\ consumed + 1 <= consumed + Capacity
      BY <2>1 DEF TypeOK
    <3> QED BY <2>1, <3>2, <3>3, WindowSlots
  <2> QED BY <2>2, <2>3
<1> QED
  BY <1>1, Invariance, PTL

\* Everything up to the consumer's cached frontier is published and intact.
THEOREM FrontierIsReadable == Spec => []FrontierReadable
<1>1. IInv => FrontierReadable
  BY ConstantsAssumption DEF IInv, FrontierReadable, FrontierInv, LapInv, TypeOK
<1> QED
  BY <1>1, Invariance, PTL

\* Payloads survive the ring intact, for any number of producers, any ring size and
\* any width of a generation.
THEOREM PayloadsSafe == Spec => []PayloadsIntact
<1>1. PulledPayload /\ SlotExclusion /\ FrontierReadable => PayloadsIntact
  BY DEF PayloadsIntact
<1> QED
  BY <1>1, PullsRightPayload, SlotsExclusive, FrontierIsReadable, PTL

-----------------------------------------------------------------------------
(* The sequencer and pull() implement ClaimOrderQueue *)

\* An empty disruptor is an empty queue.
LEMMA QueueInit == Init => Queue!Init
  BY ConstantsAssumption DEF Init, Queue!Init, Published

\* A claim leaves what is published alone: no claimed-to-be sequence looks
\* available before it is published.
LEMMA QueueClaim ==
    ASSUME IInv, NEW n \in 1 .. Capacity, claimed' = claimed + n, UNCHANGED <<consumed, generations>>
    PROVE  Queue!Next
<1>1. TypeOK
  BY DEF IInv
<1>2. \A s \in Int : claimed < s => ~(s <= consumed) /\ ~(s <= consumed + Capacity /\ Available(s))
  BY <1>1, ConstantsAssumption DEF IInv, LapInv, FrontierInv, TypeOK
<1>3. \A s : (s \in 0 .. claimed') <=> (s \in 0 .. claimed) \/ (s \in Int /\ 0 <= s /\ claimed < s /\ s <= claimed')
  BY <1>1, ConstantsAssumption DEF IInv, FrontierInv, TypeOK
<1>4. \A s : Available(s)' <=> Available(s)
  BY DEF Available
<1>5. Published' = Published
  BY <1>2, <1>3, <1>4 DEF Published
<1>6. Queue!Claim(n)
  BY <1>5 DEF Queue!Claim
<1> QED
  BY <1>6 DEF Queue!Next

\* Storing a slot's generation publishes exactly that sequence in the queue.
LEMMA QueuePublish ==
    ASSUME IInv, NEW p \in Producers, PublishSlot(p)
    PROVE  Queue!Next
<1> USE ConstantsAssumption
<1>1. TypeOK /\ UNCHANGED <<claimed, consumed>>
  BY DEF IInv, PublishSlot
<1>0. PICK s \in Int : s = at[p]
  BY <1>1 DEF TypeOK
<1>2. /\ s \in Int /\ consumed < s /\ s <= consumed + Capacity /\ s <= claimed
      /\ 0 <= s
  BY <1>0, <1>1 DEF IInv, PublishSlot, ClaimInv, FrontierInv, Active, First, Goto, TypeOK
<1>3. ~Available(s)
  BY <1>0, <1>1, <1>2 DEF IInv, PublishSlot, LapInv, ClaimInv, Active, First, Goto, TypeOK
<1>4. Available(s)'
  BY <1>0, <1>1, <1>2, RingTypes DEF PublishSlot, Available, TypeOK
<1>5. \A u \in Int : u # s /\ consumed < u /\ u <= consumed + Capacity => (Available(u)' <=> Available(u))
  <2> SUFFICES ASSUME NEW u \in Int, u # s, consumed < u, u <= consumed + Capacity
               PROVE  Available(u)' <=> Available(u)
    OBVIOUS
  <2>1. SlotOf(u) # SlotOf(s)
    BY <1>1, <1>2, WindowSlots
  <2> QED BY <1>0, <1>1, <2>1, RingTypes DEF PublishSlot, Available, TypeOK
<1>6. Published' = Published \union {s}
  BY <1>1, <1>2, <1>4, <1>5 DEF Published, TypeOK
<1>7. s \notin Published /\ s \in (consumed + 1) .. claimed /\ s \in 0 .. claimed
  BY <1>1, <1>2, <1>3 DEF Published, TypeOK
<1>8. Queue!Publish(s, s)
  <2>1. s .. s = {s} /\ Published \intersect {s} = {}
    BY <1>1, <1>7
  <2> QED BY <1>1, <1>2, <1>6, <1>7, <2>1 DEF Queue!Publish, TypeOK
<1> QED
  BY <1>7, <1>8 DEF Queue!Next

\* consume() delivers the next sequence: it was published, and moving the
\* window publishes nothing.
LEMMA QueueDeliver ==
    ASSUME IInv, IInv', Consume
    PROVE  Queue!Next
<1> USE ConstantsAssumption
<1>1. TypeOK /\ UNCHANGED <<claimed, generations>> /\ consumed' = consumed + 1
  BY DEF IInv, Consume
<1>2. Available(consumed + 1) /\ consumed + 1 \in Int /\ consumed + 1 <= claimed /\ 0 <= consumed + 1
  BY <1>1 DEF IInv, Consume, CGoto, FrontierInv, TypeOK
<1>3. \A s \in Int : Available(s)' <=> Available(s)
  BY <1>1 DEF Available
<1>4. ~Available(consumed + 1 + Capacity)
  <2> DEFINE s == consumed + 1 + Capacity
  <2>1. s \in Int /\ s - Capacity = consumed + 1
    BY <1>1 DEF TypeOK
  <2> HIDE DEF s
  <2>2. SlotOf(consumed + 1) = SlotOf(s) /\ GenerationOf(consumed + 1) # GenerationOf(s)
    BY <2>1, PreviousLap
  <2>3. ~Available(s)
    BY <1>2, <2>2 DEF Available
  <2> QED BY <2>3 DEF s
<1>5. \A s \in 0 .. claimed :
        (s <= consumed' \/ (s <= consumed' + Capacity /\ Available(s)'))
        <=> (s <= consumed \/ (s <= consumed + Capacity /\ Available(s)))
  <2> SUFFICES ASSUME NEW s \in 0 .. claimed
               PROVE  (s <= consumed + 1 \/ (s <= consumed + 1 + Capacity /\ Available(s)))
                      <=> (s <= consumed \/ (s <= consumed + Capacity /\ Available(s)))
    BY <1>1, <1>3
  <2>1. s = consumed + 1 => Available(s)
    BY <1>2
  <2>2. s = consumed + 1 + Capacity => ~Available(s)
    BY <1>4
  <2> QED BY <1>1, <2>1, <2>2 DEF TypeOK
<1>6. Published' = Published
  BY <1>1, <1>5 DEF Published
<1>7. consumed + 1 \in Published
  BY <1>1, <1>2 DEF Published, TypeOK
<1>8. Queue!Deliver
  BY <1>1, <1>6, <1>7 DEF Queue!Deliver
<1> QED
  BY <1>8 DEF Queue!Next

\* A step that leaves cursors and generations alone is invisible to the queue.
LEMMA QueueStutter ==
    ASSUME UNCHANGED <<claimed, consumed, generations>>
    PROVE  UNCHANGED Queue!vars
  BY DEF Queue!vars, Published, Available

\* Every step of the disruptor is a step of the queue or a stutter.
LEMMA QueueStep == IInv /\ IInv' /\ [Next]_vars => [Queue!Next]_(Queue!vars)
<1> SUFFICES ASSUME IInv, IInv', [Next]_vars PROVE [Queue!Next]_(Queue!vars)
  OBVIOUS
<1>1. ASSUME NEW p \in Producers, NEW n \in 1 .. MaxBatch, NextBatch(p, n) PROVE Queue!Next
  BY <1>1, QueueClaim, ConstantsAssumption DEF NextBatch, Claim
<1>2. ASSUME NEW p \in Producers, TryNextCas(p) PROVE [Queue!Next]_(Queue!vars)
  <2>1. CASE claimed' = claimed + 1 /\ UNCHANGED <<consumed, generations>>
    BY <2>1, QueueClaim, ConstantsAssumption
  <2> QED BY <1>2, <2>1, QueueStutter DEF TryNextCas, Claim
<1>3. ASSUME NEW p \in Producers, PublishSlot(p) PROVE Queue!Next
  BY <1>3, QueuePublish
<1>4. CASE Consume
  BY SMTT(30), <1>4, QueueDeliver
<1>5. ASSUME NEW p \in Producers,
             \/ TryNextLoad(p) \/ WaitForCapacity(p) \/ TryNextCheck(p)
             \/ DestroySlot(p) \/ ConstructSlot(p) \/ Signal(p)
      PROVE  UNCHANGED Queue!vars
  BY <1>5, QueueStutter
     DEF TryNextLoad, WaitForCapacity, TryNextCheck, DestroySlot, ConstructSlot, Signal
<1>6. CASE PullBegin \/ WaitQuickCheck \/ WaitLock \/ WaitCheck \/ WaitSleep \/ SpuriousWake \/ ScanPublished \/ ReadSlot
  BY <1>6, QueueStutter
     DEF PullBegin, WaitQuickCheck, WaitLock, WaitCheck, WaitSleep, SpuriousWake, ScanPublished, ReadSlot
<1>7. CASE UNCHANGED vars
  BY <1>7, QueueStutter DEF vars
<1> QED
  BY <1>1, <1>2, <1>3, <1>4, <1>5, <1>6, <1>7 DEF Next, ProducerStep, ConsumerStep

\* The fetch-add claims, the per-slot generations and pull() implement a bounded
\* queue that delivers every sequence once, in claim order, after publication.
THEOREM Refinement == Spec => ImplementsQueue
<1>1. Init => Queue!Init
  BY QueueInit
<1>2. IInv /\ IInv' /\ [Next]_vars => [Queue!Next]_(Queue!vars)
  BY QueueStep
<1> QED
  BY <1>1, <1>2, Invariance, PTL DEF Spec, ImplementsQueue, Queue!Spec
=============================================================================
