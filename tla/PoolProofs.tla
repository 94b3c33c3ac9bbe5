----------------------------- MODULE PoolProofs -----------------------------
(***************************************************************************)
(* Safety of Pool for every number of clients and slots and every word     *)
(* size: the inductive invariant, what a step must do to keep it, the      *)
(* steps that move only the program point of one client, the steps that    *)
(* move a slot or a waiter, and the theorems.                              *)
(***************************************************************************)
EXTENDS Pool, Arithmetic

-----------------------------------------------------------------------------
(* Preliminaries *)

\* waiters_.erase(node): the other nodes keep their order.
LEMMA EraseFacts ==
    ASSUME NEW S, NEW q \in Seq(S), NEW i \in 1 .. Len(q)
    PROVE  /\ Erase(q, i) \in Seq(S)
           /\ Len(Erase(q, i)) = Len(q) - 1
           /\ \A j \in 1 .. Len(q) - 1 : Erase(q, i)[j] = q[IF j < i THEN j ELSE j + 1]
<1> DEFINE a == SubSeq(q, 1, i - 1)
<1> DEFINE b == SubSeq(q, i + 1, Len(q))
<1>1. a \in Seq(S) /\ Len(a) = i - 1 /\ \A j \in 1 .. i - 1 : a[j] = q[j]
  OBVIOUS
<1>2. b \in Seq(S) /\ Len(b) = Len(q) - i /\ \A j \in 1 .. Len(q) - i : b[j] = q[i + j]
  OBVIOUS
<1>3. Erase(q, i) = a \o b
  BY Zenon DEF Erase
<1> HIDE DEF a, b
<1>4. Erase(q, i) \in Seq(S) /\ Len(Erase(q, i)) = Len(q) - 1
  BY <1>1, <1>2, <1>3
<1>5. ASSUME NEW j \in 1 .. Len(q) - 1
      PROVE  Erase(q, i)[j] = q[IF j < i THEN j ELSE j + 1]
  <2>1. CASE j < i
    BY <1>1, <1>2, <1>3, <2>1
  <2>2. CASE j >= i
    <3>1. j - (i - 1) \in 1 .. Len(q) - i
      BY <2>2
    <3>2. (a \o b)[j] = b[j - (i - 1)]
      BY <1>1, <1>2, <2>2
    <3>3. b[j - (i - 1)] = q[i + (j - (i - 1))]
      BY Zenon, <1>2, <3>1
    <3> QED BY <1>3, <2>2, <3>2, <3>3
  <2> QED BY <2>1, <2>2
<1> QED
  BY Zenon, <1>4, <1>5

\* Where claim_idle returns to.
LEMMA CallerTable ==
    /\ DOMAIN Claimed = {"try", "fast", "slow", "serve", "take"}
    /\ Claimed["try"] = "claimed" /\ Claimed["fast"] = "claimed" /\ Claimed["slow"] = "slow_claimed"
    /\ Claimed["serve"] = "handoff" /\ Claimed["take"] = "take_claimed"
    /\ Missed["try"] = "ready" /\ Missed["fast"] = "register" /\ Missed["slow"] = "park"
    /\ Missed["serve"] = "unlock" /\ Missed["take"] = "ready"
BY Zenon DEF Claimed, Missed

\* Every slot has a word and the words are numbered from 0.
LEMMA WordFacts == LastWord \in Nat /\ \A s \in Slots : WordOf(s) \in 0 .. LastWord
<1>1. LastWord \in Nat
  BY PoolAssumption DEF LastWord, WordOf
<1>2. ASSUME NEW s \in Slots PROVE WordOf(s) \in 0 .. LastWord
  BY PoolAssumption DEF LastWord, WordOf, Slots
<1> QED
  BY Zenon, <1>1, <1>2

\* The names that the steps use are labels, callers and states.
LEMMA Names ==
    /\ {"ready", "scan", "claimed", "quarantine", "register", "parked", "woken", "holding",
        "publish_check", "gate_check", "publish_bit", "recheck_closed", "recheck_gate",
        "handoff_lock", "serve_lock", "drain_lock", "notify", "take_gate", "take_claimed",
        "reserved", "constructed", "slow_claimed", "park", "handoff", "serve", "unlock",
        "sweep", "drain"} = Labels
    /\ {"none", "try", "fast", "slow", "serve", "take"} = Callers
BY Zenon, CallerTable DEF Labels, LockedLabels, Callers

-----------------------------------------------------------------------------
(* The inductive invariant *)

\* The labels at which t works on a slot.
SlotLabels ==
    {"claimed", "quarantine", "slow_claimed", "holding", "publish_check", "gate_check",
     "publish_bit", "recheck_closed", "handoff_lock", "handoff", "take_claimed",
     "reserved", "constructed"}

HasSlot(t) ==
    \/ pc[t] \in SlotLabels
    \/ pc[t] = "notify" /\ after[t] = "handoff_lock"
    \/ pc[t] \in {"parked", "woken"} /\ wstate[t] = "assigned"

\* What the label of t says about its other local variables and the mutex.
Coherent(t) ==
    /\ pc[t] = "scan" => call[t] \in {"try", "fast", "slow", "serve", "take"}
    /\ pc[t] = "notify" => after[t] \in {"handoff_lock", "serve_lock", "drain_lock", "ready"}
    /\ pc[t] = "scan" /\ call[t] = "fast" => wstate[t] = "queued"
    /\ pc[t] = "register" => wstate[t] \in {"queued", "cancelled"}
    /\ Registering(t) => wstate[t] = "queued"
    /\ pc[t] = "woken" => wstate[t] # "queued"
    /\ slot[t] # NoSlot <=> HasSlot(t)
    /\ HoldsLock(t) => mutex = t

\* The list links exactly the parked clients that nobody has completed, once.
QueueInv ==
    /\ \A i \in 1 .. Len(waiters) : Queued(waiters[i])
    /\ \A i, j \in 1 .. Len(waiters) : i # j => waiters[i] # waiters[j]
    /\ \A t \in Clients : Queued(t) => \E i \in 1 .. Len(waiters) : waiters[i] = t

\* TypeOK but for the two counters, which CountersExact identifies.
Types ==
    /\ states \in [Slots -> SlotStates]
    /\ bits \subseteq Slots
    /\ vacant \subseteq Slots
    /\ quarantined \subseteq Slots
    /\ phase \in {"open", "closed"}
    /\ mutex \in Clients \union {NoClient}
    /\ waiters \in Seq(Clients)
    /\ gate \in Int
    /\ wstate \in [Clients -> WaiterStates]
    /\ pinned \subseteq Clients
    /\ pc \in [Clients -> Labels]
    /\ call \in [Clients -> Callers]
    /\ slot \in [Clients -> Slots \union {NoSlot}]
    /\ word \in [Clients -> 0 .. LastWord]
    /\ target \in [Clients -> Clients \union {NoClient}]
    /\ after \in [Clients -> Labels]
    /\ expired \subseteq Clients

IInv ==
    /\ Types
    /\ \A t \in Clients : Coherent(t)
    /\ QueueInv
    /\ ExclusiveOwnership
    /\ SlotsAccounted
    /\ RegistriesAgree

\* A new pool is empty and nobody works on it.
LEMMA InitInv == Init => IInv
<1> SUFFICES ASSUME Init PROVE IInv
  OBVIOUS
<1> USE PoolAssumption, WordFacts, Names DEF Init
<1>1. Types
  BY DEF Types, SlotStates, WaiterStates
<1>2. ASSUME NEW t \in Clients PROVE Coherent(t)
  BY Zenon DEF Coherent, HoldsLock, LockedLabels, HasSlot, SlotLabels, Registering
<1>3. QueueInv
  BY DEF QueueInv, Queued
<1>4. ExclusiveOwnership /\ SlotsAccounted /\ RegistriesAgree
  BY Zenon DEF ExclusiveOwnership, SlotsAccounted, RegistriesAgree, Owns
<1> QED
  BY Zenon, <1>1, <1>2, <1>3, <1>4 DEF IInv

-----------------------------------------------------------------------------
(* Steps by what they change *)

\* The step leaves the other clients' local state alone, and the mutex unless it
\* is free or held by t.
OnlyMoves(t) ==
    /\ \A u \in Clients \ {t} :
        /\ pc'[u] = pc[u]
        /\ call'[u] = call[u]
        /\ slot'[u] = slot[u]
        /\ after'[u] = after[u]
        /\ wstate'[u] = wstate[u]
    /\ mutex' = mutex \/ mutex \in {NoClient, t}

Reserving(t) == pc[t] \in {"reserved", "constructed"}

\* Clients that do not move stay coherent.
LEMMA CoherentFrame ==
    ASSUME IInv, NEW t \in Clients, OnlyMoves(t), Coherent(t)'
    PROVE  \A u \in Clients : Coherent(u)'
<1> SUFFICES ASSUME NEW u \in Clients, u # t PROVE Coherent(u)'
  OBVIOUS
<1>1. Coherent(u)
  BY Zenon DEF IInv
<1>2. HoldsLock(u)' => mutex' = u
  BY Zenon, <1>1, PoolAssumption DEF OnlyMoves, Coherent, HoldsLock
<1>3. HasSlot(u)' <=> HasSlot(u)
  BY Zenon DEF OnlyMoves, HasSlot
<1>4. Registering(u)' <=> Registering(u)
  BY Zenon DEF OnlyMoves, Registering
<1> QED
  BY Zenon, <1>1, <1>2, <1>3, <1>4 DEF OnlyMoves, Coherent

\* The list is right as long as it does not change and t stays in or out of it.
LEMMA QueueFrame ==
    ASSUME IInv, NEW t \in Clients, OnlyMoves(t), waiters' = waiters, Queued(t)' <=> Queued(t)
    PROVE  QueueInv'
<1>1. \A u \in Clients : Queued(u)' <=> Queued(u)
  BY Zenon DEF OnlyMoves, Queued
<1>2. \A i \in 1 .. Len(waiters) : waiters[i] \in Clients
  BY DEF IInv, Types
<1> QED
  BY Zenon, <1>1, <1>2 DEF IInv, QueueInv

\* Nobody gains or loses a slot.
LEMMA KeepFrame ==
    ASSUME IInv, NEW t \in Clients, OnlyMoves(t),
           UNCHANGED <<states, bits, vacant, quarantined>>,
           Owns(t)' <=> Owns(t),
           Owns(t) => slot'[t] = slot[t] /\ (Reserving(t)' <=> Reserving(t))
    PROVE  ExclusiveOwnership' /\ SlotsAccounted' /\ RegistriesAgree'
<1>1. \A u \in Clients : Owns(u)' <=> Owns(u)
  BY Zenon DEF OnlyMoves, Owns
<1>2. \A u \in Clients : Owns(u) => slot'[u] = slot[u] /\ (Reserving(u)' <=> Reserving(u))
  BY Zenon DEF OnlyMoves, Reserving
<1> QED
  BY <1>1, <1>2 DEF IInv, ExclusiveOwnership, SlotsAccounted, RegistriesAgree, Reserving

\* t takes slot s from the idle bitmap or from a registry.
LEMMA TakeFrame ==
    ASSUME IInv, NEW t \in Clients, OnlyMoves(t), ~Owns(t), Owns(t)',
           NEW s \in Slots, slot'[t] = s, states[s] \in {"idle", "vacant", "quarantined"},
           states' = [states EXCEPT ![s] = IF Reserving(t)' THEN "reserved" ELSE "borrowed"],
           bits' = bits \ {s}, vacant' = vacant \ {s}, quarantined' = quarantined \ {s}
    PROVE  ExclusiveOwnership' /\ SlotsAccounted' /\ RegistriesAgree'
<1>1. \A u \in Clients \ {t} : (Owns(u)' <=> Owns(u)) /\ slot'[u] = slot[u] /\ (Reserving(u)' <=> Reserving(u))
  BY Zenon DEF OnlyMoves, Owns, Reserving
<1>2. \A u \in Clients : Owns(u) => slot[u] \in Slots /\ slot[u] # s
  BY ZenonT(40) DEF IInv, Types, ExclusiveOwnership, Owns
<1>3. \A u \in Slots : states'[u] = IF u = s THEN (IF Reserving(t)' THEN "reserved" ELSE "borrowed") ELSE states[u]
  BY Zenon DEF IInv, Types
<1>4. ExclusiveOwnership'
  BY <1>1, <1>2, <1>3 DEF IInv, ExclusiveOwnership, Reserving
<1>5. SlotsAccounted'
  BY <1>1, <1>2, <1>3 DEF IInv, SlotsAccounted
<1>6. RegistriesAgree'
  BY <1>3 DEF IInv, RegistriesAgree
<1> QED
  BY Zenon, <1>4, <1>5, <1>6

\* t puts its slot back: it becomes idle, vacant or quarantined.
LEMMA DropFrame ==
    ASSUME IInv, NEW t \in Clients, OnlyMoves(t), Owns(t), ~Owns(t)',
           NEW place \in {"idle", "vacant", "quarantined"},
           states' = [states EXCEPT ![slot[t]] = place],
           bits' = IF place = "idle" THEN bits \union {slot[t]} ELSE bits,
           vacant' = IF place = "vacant" THEN vacant \union {slot[t]} ELSE vacant,
           quarantined' = IF place = "quarantined" THEN quarantined \union {slot[t]} ELSE quarantined
    PROVE  ExclusiveOwnership' /\ SlotsAccounted' /\ RegistriesAgree'
<1>1. \A u \in Clients \ {t} : (Owns(u)' <=> Owns(u)) /\ slot'[u] = slot[u] /\ (Reserving(u)' <=> Reserving(u))
  BY Zenon DEF OnlyMoves, Owns, Reserving
<1>2. slot[t] \in Slots /\ states[slot[t]] \in {"borrowed", "reserved"}
  BY Zenon DEF IInv, Types, ExclusiveOwnership, Owns
<1>3. \A u \in Clients \ {t} : Owns(u) => slot[u] \in Slots /\ slot[u] # slot[t]
  BY Zenon DEF IInv, Types, ExclusiveOwnership, Owns
<1>4. \A u \in Slots : states'[u] = IF u = slot[t] THEN place ELSE states[u]
  BY Zenon, <1>2 DEF IInv, Types
<1>5. ExclusiveOwnership'
  BY <1>1, <1>3, <1>4 DEF IInv, ExclusiveOwnership, Reserving
<1>6. SlotsAccounted'
  BY <1>1, <1>2, <1>4 DEF IInv, SlotsAccounted
<1>7. RegistriesAgree'
  BY Zenon, <1>2, <1>4 DEF IInv, RegistriesAgree
<1> QED
  BY Zenon, <1>5, <1>6, <1>7

\* The types of what only its client writes.
OwnTypes ==
    /\ pc \in [Clients -> Labels]
    /\ call \in [Clients -> Callers]
    /\ slot \in [Clients -> Slots \union {NoSlot}]
    /\ word \in [Clients -> 0 .. LastWord]
    /\ target \in [Clients -> Clients \union {NoClient}]
    /\ after \in [Clients -> Labels]
    /\ expired \subseteq Clients

\* The ways in which most steps move a client keep the types.
LEMMA PieceTypes ==
    ASSUME Types, NEW t \in Clients
    PROVE  /\ Return(t) => OwnTypes'
           /\ \A l \in Labels : Goto(t, l) => OwnTypes'
           /\ \A l \in Labels : ReturnToken(t, l) => OwnTypes'
           /\ \A c \in Callers : StartScan(t, c) => OwnTypes'
<1>1. "ready" \in Labels /\ "scan" \in Labels /\ "none" \in Callers /\ 0 \in 0 .. LastWord
  BY Names, WordFacts
<1>2. ASSUME Return(t) PROVE OwnTypes'
  BY Zenon, <1>1, <1>2 DEF Return, Set, Types, OwnTypes
<1>3. ASSUME NEW l \in Labels, Goto(t, l) PROVE OwnTypes'
  BY Zenon, <1>3 DEF Goto, Set, locals, Types, OwnTypes
<1>4. ASSUME NEW l \in Labels, ReturnToken(t, l) PROVE OwnTypes'
  BY Zenon, <1>1, <1>4 DEF ReturnToken, Set, Types, OwnTypes
<1>5. ASSUME NEW c \in Callers, StartScan(t, c) PROVE OwnTypes'
  BY Zenon, <1>1, <1>5 DEF StartScan, Set, Types, OwnTypes
<1> QED
  BY Zenon, <1>2, <1>3, <1>4, <1>5

-----------------------------------------------------------------------------
(* Steps that move only the program point of one client *)

\* Beginning an acquisition, the recheck after a claim, registration and deadlines.
LEMMA AcquisitionStep ==
    ASSUME IInv, NEW t \in Clients,
           TryAcquire(t) \/ Acquire(t) \/ CheckClaim(t) \/ Register(t) \/ SlowClaimed(t) \/ Expire(t)
    PROVE  IInv'
<1>1. Types /\ Coherent(t)
  BY Zenon DEF IInv
<1>2. OwnTypes'
  <2>1. CASE TryAcquire(t) \/ Acquire(t) \/ CheckClaim(t)
    BY Zenon, <1>1, <2>1, Names, PieceTypes DEF TryAcquire, Acquire, CheckClaim
  <2>2. CASE Register(t) \/ Expire(t)
    BY Zenon, <1>1, <2>2, Names, PieceTypes DEF Register, Expire, Types, OwnTypes
  <2>3. CASE SlowClaimed(t)
    <3>1. {"handoff", "holding"} \subseteq Labels /\ {"none"} \subseteq Callers
      BY Zenon, Names
    <3> QED BY ZenonT(40), <1>1, <2>3, <3>1, PieceTypes DEF SlowClaimed, Set, Types, OwnTypes
  <2> QED BY Zenon, <2>1, <2>2, <2>3
<1>3. Types'
  <2>1. CASE TryAcquire(t) \/ CheckClaim(t) \/ Expire(t)
    BY Zenon, <1>1, <1>2, <2>1 DEF TryAcquire, CheckClaim, Expire, inventory, queue, Types, OwnTypes
  <2>2. CASE Register(t) \/ SlowClaimed(t)
    BY SMTT(30), <1>1, <1>2, <2>2 DEF Register, SlowClaimed, Lock, Unlock, Locked, inventory, Types, OwnTypes
  <2>3. CASE Acquire(t)
    BY Zenon, <1>1, <1>2, <2>3 DEF Acquire, Set, inventory, Types, OwnTypes, WaiterStates
  <2> QED BY Zenon, <2>1, <2>2, <2>3
<1> USE <1>1, CallerTable
    DEF TryAcquire, Acquire, CheckClaim, Register, SlowClaimed, Expire,
        Set, Return, ReturnToken, Goto, StartScan, Lock, Unlock, Locked, inventory, queue, locals
<1>4. OnlyMoves(t) /\ UNCHANGED <<states, bits, vacant, quarantined, waiters>>
  BY ZenonT(40) DEF OnlyMoves, Types, Coherent, HoldsLock, LockedLabels
<1>5. Coherent(t)'
  BY SMTT(30) DEF Coherent, HasSlot, SlotLabels, HoldsLock, LockedLabels, Registering, Types
<1>6. Queued(t)' <=> Queued(t)
  BY Zenon DEF Coherent, Queued, Registering, Types
<1>7. Owns(t)' <=> Owns(t)
  BY SMTT(30), <1>5 DEF Coherent, Owns, HasSlot, SlotLabels, Types
<1>8. Owns(t) => slot'[t] = slot[t] /\ (Reserving(t)' <=> Reserving(t))
  BY Zenon, <1>7 DEF Coherent, Owns, HasSlot, SlotLabels, Reserving, Types
<1> QED
  BY Zenon, <1>3, <1>4, <1>5, <1>6, <1>7, <1>8, CoherentFrame, QueueFrame, KeepFrame DEF IInv

\* A scan that finds a word empty, waking, delivery and the release of a token.
LEMMA WaitingStep ==
    ASSUME IInv, NEW t \in Clients,
           ClaimMiss(t) \/ Wake(t) \/ Deliver(t) \/ Release(t) \/ QuarantineToken(t) \/ PublishCheck(t)
    PROVE  IInv'
<1>1. Types /\ Coherent(t)
  BY Zenon DEF IInv
<1>2. OwnTypes'
  <2>1. CASE ClaimMiss(t)
    <3>1. call[t] \in {"try", "fast", "slow", "serve", "take"} /\ Missed[call[t]] \in Labels
      BY <1>1, <2>1, CallerTable, Names DEF ClaimMiss, Coherent
    <3>2. CASE Return(t)
      BY Zenon, <1>1, <3>2, PieceTypes
    <3>3. CASE word[t] < LastWord /\ word' = Set(word, t, word[t] + 1) /\ UNCHANGED <<pc, call, slot, target, after, expired>>
      BY <1>1, <3>3, WordFacts DEF Set, Types, OwnTypes
    <3>4. CASE pc' = Set(pc, t, Missed[call[t]]) /\ word' = Set(word, t, 0) /\ UNCHANGED <<call, slot, target, after, expired>>
      BY <1>1, <3>1, <3>4, WordFacts DEF Set, Types, OwnTypes
    <3> QED BY Zenon, <2>1, <3>2, <3>3, <3>4 DEF ClaimMiss
  <2>2. CASE Wake(t) \/ Deliver(t) \/ Release(t) \/ QuarantineToken(t) \/ PublishCheck(t)
    BY SMTT(30), <1>1, <2>2, Names, PieceTypes DEF Wake, Deliver, Release, QuarantineToken, PublishCheck
  <2> QED BY Zenon, <2>1, <2>2
<1>3. Types'
  BY Zenon, <1>1, <1>2
     DEF ClaimMiss, Wake, Deliver, Release, QuarantineToken, PublishCheck, Locked, Set, inventory, queue, locals, Types,
         OwnTypes, WaiterStates
<1> USE <1>1, CallerTable
    DEF ClaimMiss, Wake, Deliver, Release, QuarantineToken, PublishCheck,
        Set, Return, ReturnToken, Goto, StartScan, Locked, inventory, queue, locals
<1>4. OnlyMoves(t) /\ UNCHANGED <<states, bits, vacant, quarantined, waiters>>
  BY Zenon DEF OnlyMoves, Types, Coherent, HoldsLock, LockedLabels
<1>5. Coherent(t)'
  BY SMTT(30) DEF Coherent, HasSlot, SlotLabels, HoldsLock, LockedLabels, Registering, Types
<1>6. Queued(t)' <=> Queued(t)
  BY SMTT(30) DEF Coherent, Queued, Registering, Types
<1>7. Owns(t)' <=> Owns(t)
  BY SMTT(30), <1>5 DEF Coherent, Owns, HasSlot, SlotLabels, Types
<1>8. Owns(t) => slot'[t] = slot[t] /\ (Reserving(t)' <=> Reserving(t))
  BY SMTT(30), <1>7 DEF Coherent, Owns, HasSlot, SlotLabels, Reserving, Types
<1> QED
  BY Zenon, <1>3, <1>4, <1>5, <1>6, <1>7, <1>8, CoherentFrame, QueueFrame, KeepFrame DEF IInv

\* The gate recheck, the loops that lock again, notifications and the end of an operation.
LEMMA ServingStep ==
    ASSUME IInv, NEW t \in Clients,
           RecheckGate(t) \/ Relock(t) \/ Notify(t) \/ Serve(t) \/ UnlockAndReturn(t)
    PROVE  IInv'
<1>1. Types /\ Coherent(t)
  BY Zenon DEF IInv
<1>2. OwnTypes'
  <2>1. CASE RecheckGate(t) \/ Serve(t) \/ UnlockAndReturn(t)
    BY Zenon, <1>1, <2>1, Names, PieceTypes DEF RecheckGate, Serve, UnlockAndReturn
  <2>2. {"handoff", "serve", "drain", "ready"} \subseteq Labels /\ {"none"} \subseteq Callers
    BY Zenon, Names
  <2>3. CASE Relock(t)
    BY Zenon, <1>1, <2>2, <2>3 DEF Relock, Set, locals, Types, OwnTypes
  <2>4. CASE Notify(t)
    BY ZenonT(40), <1>1, <2>2, <2>4 DEF Notify, Set, locals, Types, OwnTypes
  <2> QED BY Zenon, <2>1, <2>3, <2>4
<1>3. Types'
  BY Zenon, <1>1, <1>2
     DEF RecheckGate, Relock, Notify, Serve, UnlockAndReturn, Lock, Unlock, Set, inventory, queue, locals, Types,
         OwnTypes, WaiterStates
<1> USE <1>1, CallerTable
    DEF RecheckGate, Relock, Notify, Serve, UnlockAndReturn,
        Set, Return, ReturnToken, Goto, StartScan, Lock, Unlock, inventory, queue, locals
<1>4. OnlyMoves(t) /\ UNCHANGED <<states, bits, vacant, quarantined, waiters>>
  BY Zenon DEF OnlyMoves, Types, Coherent, HoldsLock, LockedLabels
<1>5. Coherent(t)'
  BY SMTT(30) DEF Coherent, HasSlot, SlotLabels, HoldsLock, LockedLabels, Registering, Types
<1>6. Queued(t)' <=> Queued(t)
  BY Zenon DEF Coherent, Queued, Registering, Types
<1>7. Owns(t)' <=> Owns(t)
  BY SMTT(30), <1>5 DEF Coherent, Owns, HasSlot, SlotLabels, Types
<1>8. Owns(t) => slot'[t] = slot[t] /\ (Reserving(t)' <=> Reserving(t))
  BY Zenon, <1>7 DEF Coherent, Owns, HasSlot, SlotLabels, Reserving, Types
<1> QED
  BY Zenon, <1>3, <1>4, <1>5, <1>6, <1>7, <1>8, CoherentFrame, QueueFrame, KeepFrame DEF IInv

\* Maintenance that does not touch the inventory, and the start of a shutdown.
LEMMA ProvisionStep ==
    ASSUME IInv, NEW t \in Clients,
           TryTakeIdle(t) \/ Construct(t) \/ Destroy(t) \/ Shutdown(t)
    PROVE  IInv'
<1>1. Types /\ Coherent(t)
  BY Zenon DEF IInv
<1>2. OwnTypes'
  BY Zenon, <1>1, CallerTable, Names, PieceTypes, WordFacts
     DEF TryTakeIdle, Construct, Destroy, Shutdown, Set, locals, Coherent, Types, OwnTypes
<1>3. Types'
  BY Zenon, <1>1, <1>2
     DEF TryTakeIdle, Construct, Destroy, Shutdown, Lock, Set, inventory, queue, locals, Types,
         OwnTypes, WaiterStates
<1> USE <1>1, CallerTable
    DEF TryTakeIdle, Construct, Destroy, Shutdown,
        Set, Return, ReturnToken, Goto, StartScan, Lock, inventory, queue, locals
<1>4. OnlyMoves(t) /\ UNCHANGED <<states, bits, vacant, quarantined, waiters>>
  BY ZenonT(40) DEF OnlyMoves, Types, Coherent, HoldsLock, LockedLabels
<1>5. Coherent(t)'
  BY SMTT(30) DEF Coherent, HasSlot, SlotLabels, HoldsLock, LockedLabels, Registering, Types
<1>6. Queued(t)' <=> Queued(t)
  BY Zenon DEF Coherent, Queued, Registering, Types
<1>7. Owns(t)' <=> Owns(t)
  BY SMTT(30), <1>5 DEF Coherent, Owns, HasSlot, SlotLabels, Types
<1>8. Owns(t) => slot'[t] = slot[t] /\ (Reserving(t)' <=> Reserving(t))
  BY Zenon, <1>7 DEF Coherent, Owns, HasSlot, SlotLabels, Reserving, Types
<1> QED
  BY Zenon, <1>3, <1>4, <1>5, <1>6, <1>7, <1>8, CoherentFrame, QueueFrame, KeepFrame DEF IInv

-----------------------------------------------------------------------------
(* Steps that move a slot or a waiter *)

\* claim_idle(): the compare-exchange takes one idle slot.
LEMMA ClaimBitStep ==
    ASSUME IInv, NEW t \in Clients, ClaimBit(t)
    PROVE  IInv'
<1>1. Types /\ Coherent(t)
  BY Zenon DEF IInv
<1>2. PICK s \in bits : bits' = bits \ {s} /\ states' = Set(states, s, "borrowed") /\ slot' = Set(slot, t, s)
  BY Zenon DEF ClaimBit, Hits
<1>3. s \in Slots /\ states[s] = "idle" /\ s \notin vacant /\ s \notin quarantined
  BY Zenon, <1>1, <1>2 DEF IInv, Types, RegistriesAgree
<1>4. call[t] \in {"try", "fast", "slow", "serve", "take"}
  BY Zenon, <1>1 DEF ClaimBit, Coherent
<1>5. Types'
  <2>1. Claimed[call[t]] \in Labels
    BY Zenon, <1>4, CallerTable, Names
  <2> QED
    BY <1>1, <1>2, <1>3, <2>1, WordFacts DEF ClaimBit, Set, queue, Types, SlotStates
<1>6. OnlyMoves(t)
  BY Zenon, <1>1, <1>2 DEF ClaimBit, Set, queue, OnlyMoves, Types
<1>7. Coherent(t)'
  BY <1>1, <1>2, <1>3, <1>4, CallerTable
     DEF ClaimBit, Set, queue, Coherent, HasSlot, SlotLabels, HoldsLock, LockedLabels, Registering, Types, Slots, NoSlot
<1>8. Queued(t)' <=> Queued(t)
  BY Zenon, <1>1, <1>4, CallerTable DEF ClaimBit, Set, queue, Queued, Types
<1>9. ExclusiveOwnership' /\ SlotsAccounted' /\ RegistriesAgree'
  <2>1. ~Owns(t) /\ Owns(t)' /\ slot'[t] = s /\ ~Reserving(t)'
    BY <1>1, <1>2, <1>3, <1>4, CallerTable
       DEF ClaimBit, Set, Coherent, Owns, HasSlot, SlotLabels, Reserving, Types, Slots, NoSlot
  <2>2. states' = [states EXCEPT ![s] = IF Reserving(t)' THEN "reserved" ELSE "borrowed"]
    BY Zenon, <1>2, <2>1 DEF Set
  <2>3. vacant' = vacant \ {s} /\ quarantined' = quarantined \ {s}
    BY Zenon, <1>3 DEF ClaimBit
  <2> QED BY Zenon, <1>2, <1>3, <1>6, <2>1, <2>2, <2>3, TakeFrame
<1> QED
  BY Zenon, <1>5, <1>6, <1>7, <1>8, <1>9, CoherentFrame, QueueFrame DEF IInv, ClaimBit, queue

\* quarantine(): the withdrawn slot moves to quarantined_.
LEMMA QuarantineStep ==
    ASSUME IInv, NEW t \in Clients, Quarantine(t)
    PROVE  IInv'
<1>1. Types /\ Coherent(t) /\ slot[t] \in Slots
  BY Zenon DEF IInv, Quarantine, Coherent, HasSlot, SlotLabels, Types
<1>2. Types'
  <2>1. OwnTypes'
    BY Zenon, <1>1, PieceTypes DEF Quarantine
  <2> QED BY Zenon, <1>1, <2>1 DEF Quarantine, QuarantineBorrowed, Locked, Set, queue, Types, OwnTypes, SlotStates
<1>3. OnlyMoves(t) /\ UNCHANGED waiters
  BY Zenon, <1>1 DEF Quarantine, Locked, Return, Set, queue, OnlyMoves, Types
<1>4. Coherent(t)'
  BY Zenon, <1>1 DEF Quarantine, Return, Set, Coherent, HasSlot, SlotLabels, HoldsLock, LockedLabels, Registering, Types
<1>5. Queued(t)' <=> Queued(t)
  BY Zenon, <1>1 DEF Quarantine, Return, Set, Queued, Types
<1>6. Owns(t) /\ ~Owns(t)'
  BY <1>1 DEF Quarantine, Return, Set, Owns, Types, Slots, NoSlot
<1>7. ExclusiveOwnership' /\ SlotsAccounted' /\ RegistriesAgree'
  BY ZenonT(40), <1>3, <1>6, DropFrame DEF Quarantine, QuarantineBorrowed, Set
<1> QED
  BY Zenon, <1>2, <1>3, <1>4, <1>5, <1>7, CoherentFrame, QueueFrame DEF IInv

\* handoff_or_publish(): the fast path makes the slot idle.
LEMMA PublishBitStep ==
    ASSUME IInv, NEW t \in Clients, PublishBit(t)
    PROVE  IInv'
<1>1. Types /\ Coherent(t) /\ slot[t] \in Slots
  BY Zenon DEF IInv, PublishBit, Coherent, HasSlot, SlotLabels, Types
<1>2. Types'
  <2>1. "recheck_closed" \in Labels
    BY Zenon, Names
  <2>2. OwnTypes'
    BY Zenon, <1>1, <2>1, PieceTypes DEF PublishBit
  <2> QED BY Zenon, <1>1, <2>2 DEF PublishBit, MakeIdle, Set, queue, Types, OwnTypes, SlotStates
<1>3. OnlyMoves(t) /\ UNCHANGED waiters
  BY Zenon, <1>1 DEF PublishBit, Goto, Set, queue, locals, OnlyMoves, Types
<1>4. Coherent(t)'
  BY Zenon, <1>1 DEF PublishBit, Goto, Set, locals, Coherent, HasSlot, SlotLabels, HoldsLock, LockedLabels, Registering, Types
<1>5. Queued(t)' <=> Queued(t)
  BY Zenon, <1>1 DEF PublishBit, Goto, Set, Queued, Types
<1>6. Owns(t) /\ ~Owns(t)'
  BY <1>1 DEF PublishBit, Goto, Set, Owns, Types, Slots, NoSlot
<1>7. ExclusiveOwnership' /\ SlotsAccounted' /\ RegistriesAgree'
  BY ZenonT(40), <1>3, <1>6, DropFrame DEF PublishBit, MakeIdle, Set
<1> QED
  BY Zenon, <1>2, <1>3, <1>4, <1>5, <1>7, CoherentFrame, QueueFrame DEF IInv

\* handoff_or_publish(): after closure the publisher takes its bit back if it is
\* still set; otherwise its slot is somebody else's.
LEMMA RecheckClosedStep ==
    ASSUME IInv, NEW t \in Clients, RecheckClosed(t)
    PROVE  IInv'
<1>1. Types /\ Coherent(t) /\ slot[t] \in Slots
  BY Zenon DEF IInv, RecheckClosed, Coherent, HasSlot, SlotLabels, Types
<1>2. {"quarantine", "recheck_gate"} \subseteq Labels
  BY Zenon, Names
<1>3. UNCHANGED <<mutex, waiters, wstate>> /\ ~Owns(t) /\ ~Queued(t)
  BY Zenon, <1>1 DEF RecheckClosed, queue, Owns, Queued
<1>4. CASE /\ slot[t] \in bits
           /\ bits' = bits \ {slot[t]}
           /\ states' = Set(states, slot[t], "borrowed")
           /\ Goto(t, "quarantine")
  <2>1. Types'
    <3>1. OwnTypes'
      BY Zenon, <1>1, <1>2, <1>4, PieceTypes
    <3> QED BY Zenon, <1>1, <1>4, <3>1 DEF RecheckClosed, Set, queue, Types, OwnTypes, SlotStates
  <2>2. OnlyMoves(t)
    BY Zenon, <1>1, <1>3, <1>4 DEF Goto, Set, locals, OnlyMoves, Types
  <2>3. Coherent(t)'
    BY Zenon, <1>1, <1>4 DEF RecheckClosed, Goto, Set, locals, Coherent, HasSlot, SlotLabels, HoldsLock, LockedLabels, Registering, Types
  <2>4. ~Queued(t)' /\ Owns(t)' /\ slot'[t] = slot[t] /\ ~Reserving(t)'
    BY <1>1, <1>4 DEF Goto, Set, locals, Queued, Owns, Reserving, Types, Slots, NoSlot
  <2>5. states[slot[t]] = "idle" /\ vacant' = vacant \ {slot[t]} /\ quarantined' = quarantined \ {slot[t]}
    BY Zenon, <1>1, <1>4 DEF IInv, RegistriesAgree, RecheckClosed
  <2>6. states' = [states EXCEPT ![slot[t]] = IF Reserving(t)' THEN "reserved" ELSE "borrowed"]
    BY Zenon, <1>4, <2>4 DEF Set
  <2>7. ExclusiveOwnership' /\ SlotsAccounted' /\ RegistriesAgree'
    BY Zenon, <1>1, <1>3, <1>4, <2>2, <2>4, <2>5, <2>6, TakeFrame
  <2> QED BY Zenon, <1>3, <2>1, <2>2, <2>3, <2>4, <2>7, CoherentFrame, QueueFrame DEF IInv
<1>5. CASE \/ Return(t) /\ UNCHANGED <<states, bits>>
           \/ /\ pc' = Set(pc, t, "recheck_gate")
              /\ slot' = Set(slot, t, NoSlot)
              /\ UNCHANGED <<states, bits, call, word, target, after, expired>>
  <2>1. OwnTypes'
    BY ZenonT(40), <1>1, <1>2, <1>5, PieceTypes DEF Set, Types, OwnTypes
  <2>2. Types'
    BY Zenon, <1>1, <1>5, <2>1 DEF RecheckClosed, queue, Types, OwnTypes
  <2>3. OnlyMoves(t)
    BY Zenon, <1>1, <1>3, <1>5 DEF Return, Set, OnlyMoves, Types
  <2>4. Coherent(t)'
    BY Zenon, <1>1, <1>5 DEF RecheckClosed, Return, Set, Coherent, HasSlot, SlotLabels, HoldsLock, LockedLabels, Registering, Types
  <2>5. ~Queued(t)' /\ ~Owns(t)'
    BY Zenon, <1>1, <1>5 DEF Return, Set, Queued, Owns, Types
  <2>6. UNCHANGED <<states, bits, vacant, quarantined>>
    BY Zenon, <1>5 DEF RecheckClosed
  <2> QED BY Zenon, <1>3, <2>2, <2>3, <2>4, <2>5, <2>6, CoherentFrame, QueueFrame, KeepFrame DEF IInv
<1> QED
  BY Zenon, <1>4, <1>5 DEF RecheckClosed

\* A slot keeps its owner and changes between borrowed and reserved.
LEMMA ConvertFrame ==
    ASSUME IInv, NEW t \in Clients, OnlyMoves(t), Owns(t), Owns(t)', slot'[t] = slot[t],
           states' = [states EXCEPT ![slot[t]] = IF Reserving(t)' THEN "reserved" ELSE "borrowed"],
           UNCHANGED <<bits, vacant, quarantined>>
    PROVE  ExclusiveOwnership' /\ SlotsAccounted' /\ RegistriesAgree'
<1>1. \A u \in Clients \ {t} : (Owns(u)' <=> Owns(u)) /\ slot'[u] = slot[u] /\ (Reserving(u)' <=> Reserving(u))
  BY Zenon DEF OnlyMoves, Owns, Reserving
<1>2. slot[t] \in Slots /\ states[slot[t]] \in {"borrowed", "reserved"}
  BY Zenon DEF IInv, Types, ExclusiveOwnership, Owns
<1>3. \A u \in Clients \ {t} : Owns(u) => slot[u] \in Slots /\ slot[u] # slot[t]
  BY Zenon DEF IInv, Types, ExclusiveOwnership, Owns
<1>4. \A u \in Slots : states'[u] = IF u = slot[t] THEN (IF Reserving(t)' THEN "reserved" ELSE "borrowed") ELSE states[u]
  BY Zenon, <1>2 DEF IInv, Types
<1>5. ExclusiveOwnership'
  <2>1. \A u, v \in Clients : u # v /\ Owns(u)' /\ Owns(v)' => slot'[u] # slot'[v]
    BY Zenon, <1>1 DEF IInv, ExclusiveOwnership
  <2>2. \A u \in Clients : Owns(u)' => states'[slot'[u]] = IF Reserving(u)' THEN "reserved" ELSE "borrowed"
    <3>1. TAKE u \in Clients
    <3>2. CASE u = t
      BY Zenon, <1>2, <1>4, <3>2
    <3>3. CASE u # t
      BY <1>1, <1>3, <1>4, <3>3 DEF IInv, ExclusiveOwnership, Reserving
    <3> QED BY Zenon, <3>2, <3>3
  <2> QED BY Zenon, <2>1, <2>2 DEF ExclusiveOwnership, Reserving
<1>6. SlotsAccounted'
  BY Zenon, <1>1, <1>4 DEF IInv, SlotsAccounted
<1>7. RegistriesAgree'
  BY <1>2, <1>4 DEF IInv, RegistriesAgree
<1> QED
  BY Zenon, <1>5, <1>6, <1>7

\* try_reserve() takes a vacant slot.
LEMMA TryReserveStep ==
    ASSUME IInv, NEW t \in Clients, TryReserve(t)
    PROVE  IInv'
<1>1. Types /\ Coherent(t)
  BY Zenon DEF IInv
<1>2. PICK s \in vacant : vacant' = vacant \ {s} /\ states' = Set(states, s, "reserved") /\ slot' = Set(slot, t, s)
  BY Zenon DEF TryReserve
<1>3. s \in Slots /\ states[s] = "vacant" /\ s \notin bits /\ s \notin quarantined
  BY Zenon, <1>1, <1>2 DEF IInv, Types, RegistriesAgree
<1>4. Types'
  <2>1. "reserved" \in Labels
    BY Zenon, Names
  <2> QED BY Zenon, <1>1, <1>2, <1>3, <2>1 DEF TryReserve, Locked, Set, queue, Types, SlotStates
<1>5. OnlyMoves(t) /\ UNCHANGED waiters
  BY Zenon, <1>1, <1>2 DEF TryReserve, Locked, Set, queue, OnlyMoves, Types
<1>6. Coherent(t)'
  BY <1>1, <1>2, <1>3
     DEF TryReserve, Set, Coherent, HasSlot, SlotLabels, HoldsLock, LockedLabels, Registering, Types, Slots, NoSlot
<1>7. Queued(t)' <=> Queued(t)
  BY Zenon, <1>1 DEF TryReserve, Set, Queued, Types
<1>8. ~Owns(t) /\ Owns(t)' /\ slot'[t] = s /\ Reserving(t)'
  BY <1>1, <1>2, <1>3 DEF TryReserve, Set, Coherent, HasSlot, SlotLabels, Owns, Reserving, Types, Slots, NoSlot
<1>9. ExclusiveOwnership' /\ SlotsAccounted' /\ RegistriesAgree'
  <2>1. states' = [states EXCEPT ![s] = IF Reserving(t)' THEN "reserved" ELSE "borrowed"]
    BY Zenon, <1>2, <1>8 DEF Set
  <2>2. bits' = bits \ {s} /\ quarantined' = quarantined \ {s}
    BY Zenon, <1>3 DEF TryReserve
  <2> QED BY Zenon, <1>2, <1>3, <1>5, <1>8, <2>1, <2>2, TakeFrame
<1> QED
  BY Zenon, <1>4, <1>5, <1>6, <1>7, <1>9, CoherentFrame, QueueFrame DEF IInv

\* try_take_quarantined() takes a quarantined slot.
LEMMA TryTakeQuarantinedStep ==
    ASSUME IInv, NEW t \in Clients, TryTakeQuarantined(t)
    PROVE  IInv'
<1>1. Types /\ Coherent(t)
  BY Zenon DEF IInv
<1>2. PICK s \in quarantined : quarantined' = quarantined \ {s} /\ states' = Set(states, s, "reserved") /\ slot' = Set(slot, t, s)
  BY Zenon DEF TryTakeQuarantined
<1>3. s \in Slots /\ states[s] = "quarantined" /\ s \notin bits /\ s \notin vacant
  BY Zenon, <1>1, <1>2 DEF IInv, Types, RegistriesAgree
<1>4. Types'
  <2>1. "constructed" \in Labels
    BY Zenon, Names
  <2> QED BY Zenon, <1>1, <1>2, <1>3, <2>1 DEF TryTakeQuarantined, Locked, Set, queue, Types, SlotStates
<1>5. OnlyMoves(t) /\ UNCHANGED waiters
  BY Zenon, <1>1, <1>2 DEF TryTakeQuarantined, Locked, Set, queue, OnlyMoves, Types
<1>6. Coherent(t)'
  BY <1>1, <1>2, <1>3
     DEF TryTakeQuarantined, Set, Coherent, HasSlot, SlotLabels, HoldsLock, LockedLabels, Registering, Types, Slots, NoSlot
<1>7. Queued(t)' <=> Queued(t)
  BY Zenon, <1>1 DEF TryTakeQuarantined, Set, Queued, Types
<1>8. ~Owns(t) /\ Owns(t)' /\ slot'[t] = s /\ Reserving(t)'
  BY <1>1, <1>2, <1>3 DEF TryTakeQuarantined, Set, Coherent, HasSlot, SlotLabels, Owns, Reserving, Types, Slots, NoSlot
<1>9. ExclusiveOwnership' /\ SlotsAccounted' /\ RegistriesAgree'
  <2>1. states' = [states EXCEPT ![s] = IF Reserving(t)' THEN "reserved" ELSE "borrowed"]
    BY Zenon, <1>2, <1>8 DEF Set
  <2>2. bits' = bits \ {s} /\ vacant' = vacant \ {s}
    BY Zenon, <1>3 DEF TryTakeQuarantined
  <2> QED BY Zenon, <1>2, <1>3, <1>5, <1>8, <2>1, <2>2, TakeFrame
<1> QED
  BY Zenon, <1>4, <1>5, <1>6, <1>7, <1>9, CoherentFrame, QueueFrame DEF IInv

\* try_take_idle(): maintenance keeps its slot, gives it back or withdraws it.
LEMMA TakeClaimedStep ==
    ASSUME IInv, NEW t \in Clients, TakeClaimed(t)
    PROVE  IInv'
<1>1. Types /\ Coherent(t) /\ slot[t] \in Slots /\ Owns(t) /\ ~Queued(t)
  BY Zenon DEF IInv, TakeClaimed, Coherent, HasSlot, SlotLabels, Owns, Queued, Types
<1>2. {"serve", "constructed"} \subseteq Labels /\ UNCHANGED <<waiters, wstate>>
  BY Zenon, Names DEF TakeClaimed, queue
<1>3. CASE Locked /\ QuarantineBorrowed(slot[t]) /\ Return(t) /\ UNCHANGED bits
  <2>1. Types'
    <3>1. OwnTypes'
      BY Zenon, <1>1, <1>3, PieceTypes
    <3> QED BY Zenon, <1>1, <1>3, <3>1 DEF TakeClaimed, QuarantineBorrowed, Locked, Set, queue, Types, OwnTypes, SlotStates
  <2>2. OnlyMoves(t)
    BY Zenon, <1>1, <1>2, <1>3 DEF Locked, Return, Set, OnlyMoves, Types
  <2>3. Coherent(t)' /\ ~Queued(t)' /\ ~Owns(t)'
    BY Zenon, <1>1, <1>3 DEF Return, Set, Coherent, HasSlot, SlotLabels, HoldsLock, LockedLabels, Registering, Queued, Owns, Types
  <2>4. ExclusiveOwnership' /\ SlotsAccounted' /\ RegistriesAgree'
    BY ZenonT(40), <1>1, <1>3, <2>2, <2>3, DropFrame DEF QuarantineBorrowed, Set
  <2> QED BY Zenon, <1>1, <1>2, <2>1, <2>2, <2>3, <2>4, CoherentFrame, QueueFrame DEF IInv
<1>4. CASE /\ Lock(t)
           /\ MakeIdle(slot[t])
           /\ pc' = Set(pc, t, "serve")
           /\ slot' = Set(slot, t, NoSlot)
           /\ UNCHANGED <<call, word, target, after, expired>>
  <2>1. Types'
    BY Zenon, <1>1, <1>2, <1>4 DEF TakeClaimed, Lock, MakeIdle, Set, queue, Types, SlotStates
  <2>2. OnlyMoves(t)
    BY Zenon, <1>1, <1>2, <1>4 DEF Lock, Set, OnlyMoves, Types
  <2>3. Coherent(t)' /\ ~Queued(t)' /\ ~Owns(t)'
    BY Zenon, <1>1, <1>4 DEF Lock, Set, Coherent, HasSlot, SlotLabels, HoldsLock, LockedLabels, Registering, Queued, Owns, Types
  <2>4. ExclusiveOwnership' /\ SlotsAccounted' /\ RegistriesAgree'
    BY ZenonT(40), <1>1, <1>4, <2>2, <2>3, DropFrame DEF MakeIdle, Set
  <2> QED BY Zenon, <1>1, <1>2, <2>1, <2>2, <2>3, <2>4, CoherentFrame, QueueFrame DEF IInv
<1>5. CASE /\ Locked
           /\ states' = Set(states, slot[t], "reserved")
           /\ usable' = usable - 1
           /\ reserved' = reserved + 1
           /\ ReturnToken(t, "constructed")
           /\ UNCHANGED <<bits, vacant, quarantined>>
  <2>1. Types'
    <3>1. OwnTypes'
      BY Zenon, <1>1, <1>2, <1>5, PieceTypes
    <3> QED BY Zenon, <1>1, <1>5, <3>1 DEF TakeClaimed, Locked, Set, queue, Types, OwnTypes, SlotStates
  <2>2. OnlyMoves(t)
    BY Zenon, <1>1, <1>2, <1>5 DEF Locked, ReturnToken, Set, OnlyMoves, Types
  <2>3. Coherent(t)' /\ ~Queued(t)' /\ Owns(t)' /\ Reserving(t)' /\ slot'[t] = slot[t]
    BY Zenon, <1>1, <1>5
       DEF ReturnToken, Set, Coherent, HasSlot, SlotLabels, HoldsLock, LockedLabels, Registering, Queued, Owns, Reserving,
           Types, Slots, NoSlot
  <2>4. ExclusiveOwnership' /\ SlotsAccounted' /\ RegistriesAgree'
    BY ZenonT(40), <1>1, <1>5, <2>2, <2>3, ConvertFrame DEF Set
  <2> QED BY ZenonT(40), <1>1, <1>2, <2>1, <2>2, <2>3, <2>4, CoherentFrame, QueueFrame DEF IInv
<1> QED
  BY Zenon, <1>3, <1>4, <1>5 DEF TakeClaimed

\* publish() turns a reservation into a usable slot.
LEMMA PublishStep ==
    ASSUME IInv, NEW t \in Clients, Publish(t)
    PROVE  IInv'
<1>1. Types /\ Coherent(t) /\ slot[t] \in Slots
  BY Zenon DEF IInv, Publish, Coherent, HasSlot, SlotLabels, Types
<1>2. Types'
  <2>1. "handoff" \in Labels
    BY Zenon, Names
  <2>2. OwnTypes'
    BY Zenon, <1>1, <2>1, PieceTypes DEF Publish
  <2> QED BY Zenon, <1>1, <2>2 DEF Publish, Lock, Set, queue, Types, OwnTypes, SlotStates
<1>3. OnlyMoves(t) /\ UNCHANGED waiters
  BY Zenon, <1>1 DEF Publish, Lock, Goto, Set, queue, locals, OnlyMoves, Types
<1>4. Coherent(t)'
  BY Zenon, <1>1 DEF Publish, Lock, Goto, Set, locals, Coherent, HasSlot, SlotLabels, HoldsLock, LockedLabels, Registering, Types
<1>5. Queued(t)' <=> Queued(t)
  BY Zenon, <1>1 DEF Publish, Goto, Set, Queued, Types
<1>6. Owns(t) /\ Owns(t)' /\ slot'[t] = slot[t] /\ ~Reserving(t)'
  BY SMTT(30), <1>1 DEF Publish, Goto, Set, locals, Owns, Reserving, Types, Slots, NoSlot
<1>7. ExclusiveOwnership' /\ SlotsAccounted' /\ RegistriesAgree'
  BY ZenonT(40), <1>3, <1>6, ConvertFrame DEF Publish, Set
<1> QED
  BY Zenon, <1>2, <1>3, <1>4, <1>5, <1>7, CoherentFrame, QueueFrame DEF IInv

\* An abandoned reservation becomes vacant.
LEMMA RollbackStep ==
    ASSUME IInv, NEW t \in Clients, Rollback(t)
    PROVE  IInv'
<1>1. Types /\ Coherent(t) /\ slot[t] \in Slots
  BY Zenon DEF IInv, Rollback, Coherent, HasSlot, SlotLabels, Types
<1>2. Types'
  <2>1. OwnTypes'
    BY Zenon, <1>1, PieceTypes DEF Rollback
  <2> QED BY Zenon, <1>1, <2>1 DEF Rollback, Locked, Set, queue, Types, OwnTypes, SlotStates
<1>3. OnlyMoves(t) /\ UNCHANGED waiters
  BY Zenon, <1>1 DEF Rollback, Locked, Return, Set, queue, OnlyMoves, Types
<1>4. Coherent(t)'
  BY Zenon, <1>1 DEF Rollback, Return, Set, Coherent, HasSlot, SlotLabels, HoldsLock, LockedLabels, Registering, Types
<1>5. Queued(t)' <=> Queued(t)
  BY Zenon, <1>1 DEF Rollback, Return, Set, Queued, Types
<1>6. Owns(t) /\ ~Owns(t)'
  BY SMTT(30), <1>1 DEF Rollback, Return, Set, Owns, Types, Slots, NoSlot
<1>7. ExclusiveOwnership' /\ SlotsAccounted' /\ RegistriesAgree'
  BY ZenonT(40), <1>3, <1>6, DropFrame DEF Rollback, Set
<1> QED
  BY Zenon, <1>2, <1>3, <1>4, <1>5, <1>7, CoherentFrame, QueueFrame DEF IInv

\* shutdown() empties one word of the bitmap: idle slots have no owner.
LEMMA SweepStep ==
    ASSUME IInv, NEW t \in Clients, Sweep(t)
    PROVE  IInv'
<1>1. Types /\ Coherent(t) /\ Hits(t) \subseteq bits
  BY Zenon DEF IInv, Hits
<1>2. \A s \in Slots : states'[s] = IF s \in Hits(t) THEN "quarantined" ELSE states[s]
  BY Zenon DEF Sweep
<1>3. Types'
  <2>1. states' \in [Slots -> SlotStates]
    BY Zenon, <1>1 DEF Sweep, Types, SlotStates
  <2>2. OwnTypes'
    <3>1. "drain" \in Labels
      BY Zenon, Names
    <3>2. PICK n \in 0 .. LastWord : word' = [word EXCEPT ![t] = n]
      <4>1. word[t] \in 0 .. LastWord
        BY Zenon, <1>1 DEF Types
      <4>2. word[t] < LastWord => word[t] + 1 \in 0 .. LastWord
        BY <4>1, WordFacts
      <4>3. 0 \in 0 .. LastWord
        BY WordFacts
      <4> QED BY Zenon, <4>2, <4>3 DEF Sweep, Set
    <3>3. pc' \in [Clients -> Labels]
      BY ZenonT(40), <1>1, <3>1 DEF Sweep, Set, Types
    <3> QED BY ZenonT(40), <1>1, <3>2, <3>3 DEF Sweep, Types, OwnTypes
  <2>3. bits' \subseteq Slots /\ quarantined' \subseteq Slots
    BY Zenon, <1>1 DEF Sweep, Types
  <2> QED BY Zenon, <1>1, <2>1, <2>2, <2>3 DEF Sweep, queue, Types, OwnTypes
<1>4. OnlyMoves(t) /\ UNCHANGED waiters
  BY Zenon, <1>1 DEF Sweep, Set, queue, OnlyMoves, Types
<1>5. Coherent(t)'
  BY Zenon, <1>1 DEF Sweep, Set, queue, Coherent, HasSlot, SlotLabels, HoldsLock, LockedLabels, Registering, Types
<1>6. Queued(t)' <=> Queued(t)
  BY Zenon, <1>1 DEF Sweep, Set, Queued, Types
<1>7. ExclusiveOwnership' /\ SlotsAccounted' /\ RegistriesAgree'
  <2>1. \A u \in Clients : (Owns(u)' <=> Owns(u)) /\ slot'[u] = slot[u] /\ (Reserving(u)' <=> Reserving(u))
    BY Zenon, <1>1, <1>4 DEF Sweep, Set, OnlyMoves, Owns, Reserving, Types
  <2>2. \A u \in Clients : Owns(u) => slot[u] \in Slots /\ slot[u] \notin Hits(t)
    BY ZenonT(40), <1>1 DEF IInv, Types, ExclusiveOwnership, RegistriesAgree, Owns
  <2>3. ExclusiveOwnership'
    BY <1>2, <2>1, <2>2 DEF IInv, ExclusiveOwnership, Reserving
  <2>4. SlotsAccounted'
    BY Zenon, <1>2, <2>1 DEF IInv, SlotsAccounted
  <2>5. RegistriesAgree'
    BY Zenon, <1>1, <1>2 DEF IInv, RegistriesAgree, Sweep
  <2> QED BY Zenon, <2>3, <2>4, <2>5
<1> QED
  BY Zenon, <1>3, <1>4, <1>5, <1>6, <1>7, CoherentFrame, QueueFrame DEF IInv

\* The list stays right when its i-th client leaves it.
LEMMA UnlinkFrame ==
    ASSUME IInv, NEW i \in 1 .. Len(waiters), waiters' = Erase(waiters, i),
           \A u \in Clients : Queued(u)' <=> Queued(u) /\ u # waiters[i]
    PROVE  QueueInv' /\ waiters' \in Seq(Clients)
<1> DEFINE n == Len(waiters)
<1> DEFINE at(j) == IF j < i THEN j ELSE j + 1
<1>1. waiters \in Seq(Clients) /\ n \in Nat /\ QueueInv
  BY DEF IInv, Types
<1>2. waiters' \in Seq(Clients) /\ Len(waiters') = n - 1 /\ \A j \in 1 .. n - 1 : waiters'[j] = waiters[at(j)]
  BY Zenon, <1>1, EraseFacts
<1>3. \A j \in 1 .. n - 1 : at(j) \in 1 .. n /\ at(j) # i
  BY <1>1
<1>4. \A j, k \in 1 .. n - 1 : j # k => at(j) # at(k)
  BY <1>1
<1>5. \A k \in 1 .. n : k # i => \E j \in 1 .. n - 1 : at(j) = k
  <2>1. TAKE k \in 1 .. n
  <2>2. CASE k < i
    <3>1. k \in 1 .. n - 1 /\ at(k) = k
      BY <1>1, <2>2
    <3> QED BY Zenon, <3>1
  <2>3. CASE k > i
    <3>1. k - 1 \in 1 .. n - 1 /\ at(k - 1) = k
      BY <1>1, <2>3
    <3> QED BY Zenon, <3>1
  <2> QED BY <2>2, <2>3
<1> HIDE DEF at
<1>6. \A j \in 1 .. n : waiters[j] \in Clients
  BY <1>1
<1> HIDE DEF n
<1>7. \A j \in 1 .. n - 1 : Queued(waiters[j])'
  <2>1. TAKE j \in 1 .. n - 1
  <2>2. waiters[at(j)] \in Clients /\ Queued(waiters[at(j)]) /\ waiters[at(j)] # waiters[i]
    BY Zenon, <1>1, <1>3, <1>6 DEF QueueInv, n
  <2>3. \A u \in Clients : u = waiters'[j] => Queued(u)'
    BY Zenon, <1>2, <2>2
  <2>4. waiters'[j] \in Clients
    BY Zenon, <1>2, <2>2
  <2> QED BY Zenon, <2>3, <2>4 DEF Queued
<1>8. \A j, k \in 1 .. n - 1 : j # k => waiters'[j] # waiters'[k]
  BY SMTT(30), <1>1, <1>2, <1>3, <1>4 DEF QueueInv, n
<1>9. \A u \in Clients : Queued(u)' => \E j \in 1 .. n - 1 : waiters'[j] = u
  <2>1. TAKE u \in Clients
  <2>2. HAVE Queued(u)'
  <2>3. PICK k \in 1 .. n : waiters[k] = u
    BY Zenon, <1>1, <2>2 DEF QueueInv, n
  <2>4. k # i
    BY Zenon, <2>2, <2>3
  <2>5. PICK j \in 1 .. n - 1 : at(j) = k
    BY Zenon, <1>5, <2>4
  <2> QED BY Zenon, <1>2, <2>3, <2>5
<1> QED
  BY Zenon, <1>2, <1>7, <1>8, <1>9 DEF QueueInv

\* A waiter that ran out of time or was cancelled leaves the list with nothing.
LEMMA LeaveFrame ==
    ASSUME IInv, NEW t \in Clients, pc[t] = "parked", wstate[t] = "queued",
           NEW state \in WaiterStates \ {"queued"}, Locked, Return(t),
           \E i \in 1 .. Len(waiters) : waiters[i] = t /\ Unlink(i, state),
           UNCHANGED <<inventory, bits, phase, pinned>>
    PROVE  IInv'
<1>1. Types /\ Coherent(t)
  BY Zenon DEF IInv
<1>2. PICK i \in 1 .. Len(waiters) : waiters[i] = t /\ Unlink(i, state)
  OBVIOUS
<1>3. gate' \in Int /\ waiters' = Erase(waiters, i) /\ wstate' = [wstate EXCEPT ![t] = state]
  BY <1>1, <1>2 DEF Unlink, Set, Types
<1>4. OnlyMoves(t)
  BY Zenon, <1>1, <1>3 DEF Locked, Return, Set, OnlyMoves, Types
<1>5. Coherent(t)' /\ ~Queued(t)' /\ Queued(t)
  BY Zenon, <1>1, <1>3 DEF Return, Set, Coherent, HasSlot, SlotLabels, HoldsLock, LockedLabels, Registering, Queued, Types
<1>6. \A u \in Clients : Queued(u)' <=> Queued(u) /\ u # t
  BY ZenonT(40), <1>4, <1>5 DEF OnlyMoves, Queued
<1>7. QueueInv' /\ waiters' \in Seq(Clients)
  BY Zenon, <1>2, <1>3, <1>6, UnlinkFrame
<1>8. Types'
  <2>1. OwnTypes'
    BY ZenonT(40), <1>1, PieceTypes
  <2> QED BY ZenonT(40), <1>1, <1>3, <1>7, <2>1 DEF Locked, inventory, Types, OwnTypes
<1>9. Owns(t)' <=> Owns(t)
  BY Zenon, <1>1 DEF Return, Set, Coherent, HasSlot, SlotLabels, Owns, Types
<1>10. ~Owns(t)
  BY Zenon, <1>1 DEF Coherent, HasSlot, SlotLabels, Owns
<1>11. ExclusiveOwnership' /\ SlotsAccounted' /\ RegistriesAgree'
  BY Zenon, <1>4, <1>9, <1>10, KeepFrame DEF inventory
<1> QED
  BY Zenon, <1>4, <1>5, <1>7, <1>8, <1>11, CoherentFrame DEF IInv

\* A timed wait that finds its node still queued leaves the list.
LEMMA TimeOutStep ==
    ASSUME IInv, NEW t \in Clients, TimeOut(t)
    PROVE  IInv'
BY Zenon, LeaveFrame DEF TimeOut, WaiterStates

\* A cancellation before or after the node is linked.
LEMMA CancelStep ==
    ASSUME IInv, NEW t \in Clients, Cancel(t)
    PROVE  IInv'
<1>1. CASE pc[t] = "register" /\ wstate' = Set(wstate, t, "cancelled") /\ UNCHANGED <<waiters, gate, pc, locals>>
  <2>1. Types /\ Coherent(t)
    BY Zenon DEF IInv
  <2>2. Types'
    BY Zenon, <1>1, <2>1 DEF Cancel, Locked, Set, inventory, locals, Types, WaiterStates
  <2>3. OnlyMoves(t) /\ UNCHANGED waiters
    BY Zenon, <1>1, <2>1 DEF Cancel, Locked, Set, locals, OnlyMoves, Types
  <2>4. Coherent(t)'
    BY Zenon, <1>1, <2>1
       DEF Cancel, Locked, Set, locals, Coherent, HasSlot, SlotLabels, HoldsLock, LockedLabels, Registering, Types
  <2>5. (Queued(t)' <=> Queued(t)) /\ (Owns(t)' <=> Owns(t)) /\ slot'[t] = slot[t] /\ (Reserving(t)' <=> Reserving(t))
    BY Zenon, <1>1 DEF locals, Queued, Owns, Reserving
  <2>6. ExclusiveOwnership' /\ SlotsAccounted' /\ RegistriesAgree'
    BY Zenon, <2>3, <2>5, KeepFrame DEF Cancel, inventory
  <2> QED BY Zenon, <2>2, <2>3, <2>4, <2>5, <2>6, CoherentFrame, QueueFrame DEF IInv
<1>2. CASE /\ pc[t] = "parked"
           /\ \E i \in 1 .. Len(waiters) : waiters[i] = t /\ Unlink(i, "cancelled")
           /\ Return(t)
  BY Zenon, <1>2, LeaveFrame DEF Cancel, WaiterStates
<1> QED
  BY Zenon, <1>1, <1>2 DEF Cancel

\* A registering client links its node at the end of the list.
LEMMA ParkStep ==
    ASSUME IInv, NEW t \in Clients, Park(t)
    PROVE  IInv'
<1>1. Types /\ Coherent(t) /\ QueueInv /\ mutex = t /\ wstate[t] = "queued"
  BY Zenon DEF IInv, Park, Coherent, HoldsLock, LockedLabels, Registering
<1>2. Types'
  <2>1. "parked" \in Labels /\ "none" \in Callers
    BY Zenon, Names
  <2> QED BY <1>1, <2>1, PoolAssumption DEF Park, Unlock, Set, inventory, Types
<1>3. OnlyMoves(t)
  BY Zenon, <1>1 DEF Park, Unlock, Set, OnlyMoves, Types
<1>4. Coherent(t)'
  BY Zenon, <1>1 DEF Park, Set, Coherent, HasSlot, SlotLabels, HoldsLock, LockedLabels, Registering, Types
<1>5. ~Queued(t) /\ Queued(t)' /\ ~Owns(t) /\ ~Owns(t)'
  BY Zenon, <1>1 DEF Park, Set, Queued, Coherent, HasSlot, SlotLabels, Owns, Types
<1>6. \A u \in Clients : Queued(u)' <=> Queued(u) \/ u = t
  BY Zenon, <1>3, <1>5 DEF OnlyMoves, Queued
<1>7. QueueInv'
  <2> DEFINE n == Len(waiters)
  <2>1. /\ n \in Nat
        /\ Len(waiters') = n + 1
        /\ \A i \in 1 .. n : waiters'[i] = waiters[i]
        /\ waiters'[n + 1] = t
        /\ \A i \in 1 .. n : waiters[i] \in Clients /\ waiters[i] # t
    <3>1. waiters' = Append(waiters, t) /\ waiters \in Seq(Clients) /\ n \in Nat
      BY <1>1 DEF Park, Types
    <3>2. \A i \in 1 .. n : waiters[i] \in Clients
      BY <3>1
    <3>3. \A i \in 1 .. n : Queued(waiters[i])
      BY Zenon, <1>1 DEF QueueInv
    <3>4. \A u : Queued(u) => u # t
      BY Zenon, <1>5
    <3>5. \A i \in 1 .. n : waiters[i] # t
      BY Zenon, <3>3, <3>4
    <3> QED BY <3>1, <3>2, <3>5
  <2>2. \A i \in 1 .. n : Queued(waiters[i])
    BY Zenon, <1>1 DEF QueueInv
  <2>3. \A i, j \in 1 .. n : i # j => waiters[i] # waiters[j]
    BY Zenon, <1>1 DEF QueueInv
  <2>4. \A u \in Clients : Queued(u) => \E i \in 1 .. n : waiters[i] = u
    BY Zenon, <1>1 DEF QueueInv
  <2> HIDE DEF n
  <2>5. \A i \in 1 .. n + 1 : i \in 1 .. n \/ i = n + 1
    BY <2>1
  <2>6. \A i \in 1 .. n + 1 : Queued(waiters[i])'
    <3>1. TAKE i \in 1 .. n + 1
    <3>2. PICK u \in Clients : u = waiters'[i] /\ Queued(u)'
      BY Zenon, <1>6, <2>1, <2>2, <2>5
    <3> QED BY Zenon, <3>2 DEF Queued
  <2>7. \A i, j \in 1 .. n + 1 : i # j => waiters'[i] # waiters'[j]
    BY Zenon, <2>1, <2>3, <2>5
  <2>8. 1 .. n \subseteq 1 .. n + 1 /\ n + 1 \in 1 .. n + 1
    BY <2>1
  <2>9. \A u \in Clients : Queued(u)' => \E i \in 1 .. n + 1 : waiters'[i] = u
    <3>1. TAKE u \in Clients
    <3>2. CASE u = t
      BY Zenon, <2>1, <2>8, <3>2
    <3>3. CASE u # t
      <4>1. Queued(u)' => \E i \in 1 .. n : waiters'[i] = u
        BY Zenon, <1>6, <2>1, <2>4, <3>3
      <4> QED BY Zenon, <4>1, <2>8
    <3> QED BY Zenon, <3>2, <3>3
  <2> QED BY ZenonT(40), <2>1, <2>6, <2>7, <2>9 DEF QueueInv
<1>8. ExclusiveOwnership' /\ SlotsAccounted' /\ RegistriesAgree'
  BY Zenon, <1>3, <1>5, KeepFrame DEF Park, inventory
<1> QED
  BY Zenon, <1>2, <1>3, <1>4, <1>7, <1>8, CoherentFrame DEF IInv

\* What complete_waiter_locked does to the front waiter w and to its selector t.
SelectFacts(t, w, state, next) ==
    /\ w \in Clients /\ w # t /\ Queued(w)
    /\ mutex = t /\ mutex' = NoClient
    /\ pc'[t] = "notify" /\ after'[t] = next /\ wstate'[t] = wstate[t]
    /\ pc'[w] = "parked" /\ after'[w] = after[w] /\ wstate'[w] = state
    /\ \A u \in Clients \ {t, w} : pc'[u] = pc[u] /\ after'[u] = after[u] /\ wstate'[u] = wstate[u]

\* A selection: the list loses its front and the types are kept.
LEMMA SelectFrame ==
    ASSUME IInv, NEW t \in Clients, pc[t] \in {"handoff", "drain"}, waiters # <<>>,
           NEW state \in WaiterStates \ {"queued"},
           NEW next \in {"handoff_lock", "serve_lock", "drain_lock", "ready"},
           CompleteFront(t, state, next), UNCHANGED <<inventory, bits, phase, call>>
    PROVE  /\ SelectFacts(t, waiters[1], state, next)
           /\ QueueInv'
           /\ slot' \in [Clients -> Slots \union {NoSlot}] => Types'
<1>1. Types /\ Coherent(t) /\ mutex = t
  BY Zenon DEF IInv, Coherent, HoldsLock, LockedLabels
<1>2. 1 \in 1 .. Len(waiters) /\ waiters[1] \in Clients
  BY <1>1 DEF Types
<1>3. PICK w \in Clients : w = waiters[1]
  BY Zenon, <1>2
<1>4. Queued(w) /\ w # t
  BY Zenon, <1>2, <1>3 DEF IInv, QueueInv, Queued
<1>5. SelectFacts(t, w, state, next)
  BY Zenon, <1>1, <1>3, <1>4 DEF CompleteFront, Unlink, Unlock, Set, SelectFacts, Queued, Types
<1>6. \A u \in Clients : Queued(u)' <=> Queued(u) /\ u # w
  BY Zenon, <1>4, <1>5 DEF SelectFacts, Queued
<1>7. QueueInv' /\ waiters' \in Seq(Clients)
  BY Zenon, <1>2, <1>3, <1>6, UnlinkFrame DEF CompleteFront, Unlink
<1>8. ASSUME slot' \in [Clients -> Slots \union {NoSlot}] PROVE Types'
  <2>1. {"notify", "handoff_lock", "serve_lock", "drain_lock", "ready"} \subseteq Labels
    BY Zenon, Names
  <2>2. gate' \in Int /\ wstate' \in [Clients -> WaiterStates] /\ pinned' \subseteq Clients
    BY <1>1, <1>3 DEF CompleteFront, Unlink, Set, Types
  <2>3. pc' \in [Clients -> Labels] /\ after' \in [Clients -> Labels]
    BY Zenon, <1>1, <2>1 DEF CompleteFront, Set, Types
  <2>4. target' \in [Clients -> Clients \union {NoClient}] /\ mutex' \in Clients \union {NoClient}
    BY Zenon, <1>1, <1>3 DEF CompleteFront, Unlock, Set, Types
  <2> QED BY Zenon, <1>1, <1>7, <1>8, <2>2, <2>3, <2>4 DEF CompleteFront, inventory, Types
<1> QED
  BY Zenon, <1>3, <1>5, <1>7, <1>8

\* A client that is neither the selector nor its waiter stays coherent.
LEMMA BystanderFrame ==
    ASSUME IInv, NEW t \in Clients, NEW w, NEW state, NEW next, SelectFacts(t, w, state, next),
           NEW u \in Clients \ {t, w}, slot'[u] = slot[u], call'[u] = call[u]
    PROVE  Coherent(u)'
<1>1. Coherent(u)
  BY Zenon DEF IInv
<1>2. ~HoldsLock(u)'
  BY ZenonT(40), <1>1 DEF SelectFacts, Coherent, HoldsLock
<1>3. HasSlot(u)' <=> HasSlot(u)
  BY Zenon DEF SelectFacts, HasSlot
<1>4. Registering(u)' <=> Registering(u)
  BY Zenon DEF SelectFacts, Registering
<1> QED
  BY ZenonT(40), <1>1, <1>2, <1>3, <1>4 DEF SelectFacts, Coherent

\* The front waiter is rejected, by a handoff for its deadline or by shutdown.
LEMMA RejectStep ==
    ASSUME IInv, NEW t \in Clients, waiters # <<>>,
           NEW state \in {"timeout", "shutdown"}, NEW next,
           \/ pc[t] = "handoff" /\ next = "handoff_lock"
           \/ pc[t] = "drain" /\ next = "drain_lock",
           CompleteFront(t, state, next), UNCHANGED <<inventory, bits, phase, call, slot>>
    PROVE  IInv'
<1>1. Types /\ Coherent(t)
  BY Zenon DEF IInv
<1>2. SelectFacts(t, waiters[1], state, next) /\ QueueInv' /\ Types'
  BY SMTT(30), <1>1, SelectFrame DEF WaiterStates, Types
<1>3. PICK w \in Clients : w = waiters[1]
  BY ZenonT(40), <1>2 DEF SelectFacts
<1>4. Coherent(w)
  BY Zenon DEF IInv
<1>5. \A u \in Clients : Coherent(u)'
  <2>1. Coherent(t)'
    BY Zenon, <1>1, <1>2 DEF SelectFacts, Coherent, HasSlot, SlotLabels, HoldsLock, LockedLabels, Registering
  <2>2. Coherent(w)'
    BY Zenon, <1>2, <1>3, <1>4
       DEF SelectFacts, Queued, Coherent, HasSlot, SlotLabels, HoldsLock, LockedLabels, Registering
  <2>3. \A u \in Clients \ {t, w} : Coherent(u)'
    BY Zenon, <1>2, <1>3, BystanderFrame
  <2> QED BY Zenon, <2>1, <2>2, <2>3
<1>6. \A u \in Clients : (Owns(u)' <=> Owns(u)) /\ (Reserving(u)' <=> Reserving(u))
  BY Zenon, <1>2, <1>3 DEF SelectFacts, Queued, Owns, Reserving
<1>7. ExclusiveOwnership' /\ SlotsAccounted' /\ RegistriesAgree'
  BY <1>6 DEF IInv, ExclusiveOwnership, SlotsAccounted, RegistriesAgree, Reserving, inventory
<1> QED
  BY Zenon, <1>2, <1>5, <1>7 DEF IInv

\* The front waiter is given the slot of the client that serves it.
LEMMA AssignStep ==
    ASSUME IInv, NEW t \in Clients, waiters # <<>>, pc[t] = "handoff",
           NEW next \in {"serve_lock", "ready"}, CompleteFront(t, "assigned", next),
           slot' = [slot EXCEPT ![waiters[1]] = slot[t], ![t] = NoSlot],
           UNCHANGED <<inventory, bits, phase, call>>
    PROVE  IInv'
<1>1. Types /\ Coherent(t)
  BY Zenon DEF IInv
<1>2. SelectFacts(t, waiters[1], "assigned", next) /\ QueueInv'
  BY Zenon, <1>1, SelectFrame DEF WaiterStates
<1>3. PICK w \in Clients : w = waiters[1]
  BY Zenon, <1>2 DEF SelectFacts
<1>4. Coherent(w) /\ w # t /\ pc[w] = "parked" /\ wstate[w] = "queued"
  BY Zenon, <1>2, <1>3 DEF IInv, SelectFacts, Queued
<1>5. /\ slot'[w] = slot[t] /\ slot'[t] = NoSlot
      /\ \A u \in Clients \ {t, w} : slot'[u] = slot[u]
  BY Zenon, <1>1, <1>3, <1>4 DEF Types
<1>6. Types'
  <2>1. slot' \in [Clients -> Slots \union {NoSlot}]
    BY Zenon, <1>1, <1>3 DEF Types
  <2> QED BY ZenonT(40), <2>1, SelectFrame DEF WaiterStates
<1>7. slot[t] \in Slots /\ Owns(t) /\ ~Owns(w)
  BY Zenon, <1>1, <1>4 DEF Types, Coherent, HasSlot, SlotLabels, Owns
<1>8. \A u \in Clients : Coherent(u)'
  <2>1. Coherent(t)'
    BY Zenon, <1>1, <1>2, <1>5 DEF SelectFacts, Coherent, HasSlot, SlotLabels, HoldsLock, LockedLabels, Registering
  <2>2. Coherent(w)'
    BY <1>2, <1>3, <1>4, <1>5, <1>7
       DEF SelectFacts, Coherent, HasSlot, SlotLabels, HoldsLock, LockedLabels, Registering, Slots, NoSlot
  <2>3. \A u \in Clients \ {t, w} : Coherent(u)'
    BY ZenonT(40), <1>2, <1>3, <1>5, BystanderFrame
  <2> QED BY Zenon, <2>1, <2>2, <2>3
<1>9. /\ \A u \in Clients \ {t, w} : (Owns(u)' <=> Owns(u)) /\ (Reserving(u)' <=> Reserving(u))
      /\ ~Owns(t)' /\ Owns(w)' /\ ~Reserving(w)' /\ ~Reserving(t)
  BY ZenonT(40), <1>2, <1>3, <1>5, <1>7 DEF SelectFacts, Owns, Reserving, Slots, NoSlot
<1>10. ExclusiveOwnership'
  <2>1. \A u, v \in Clients : u # v /\ Owns(u)' /\ Owns(v)' => slot'[u] # slot'[v]
    <3>1. TAKE u, v \in Clients
    <3>2. \A x \in Clients \ {t, w} : Owns(x)' => slot'[x] = slot[x] /\ slot[x] # slot[t]
      BY ZenonT(40), <1>5, <1>7, <1>9 DEF IInv, ExclusiveOwnership
    <3>3. CASE u = w \/ v = w
      BY ZenonT(40), <1>5, <1>9, <3>2, <3>3
    <3>4. CASE u # w /\ v # w
      BY ZenonT(40), <1>5, <1>9, <3>4 DEF IInv, ExclusiveOwnership
    <3> QED BY Zenon, <3>3, <3>4
  <2>2. \A u \in Clients : Owns(u)' => states'[slot'[u]] = IF Reserving(u)' THEN "reserved" ELSE "borrowed"
    <3>1. TAKE u \in Clients
    <3>2. CASE u = w
      BY <1>5, <1>7, <1>9, <3>2 DEF IInv, ExclusiveOwnership, Reserving, inventory
    <3>3. CASE u # w
      BY ZenonT(40), <1>5, <1>9, <3>3 DEF IInv, ExclusiveOwnership, Reserving, inventory
    <3> QED BY Zenon, <3>2, <3>3
  <2> QED BY ZenonT(40), <2>1, <2>2 DEF ExclusiveOwnership, Reserving
<1>11. SlotsAccounted'
  <2>1. SUFFICES ASSUME NEW s \in Slots, states[s] \in {"borrowed", "reserved"}
                 PROVE  \E u \in Clients : Owns(u)' /\ slot'[u] = s
    BY ZenonT(40) DEF SlotsAccounted, inventory
  <2>2. PICK u \in Clients : Owns(u) /\ slot[u] = s
    BY Zenon, <2>1 DEF IInv, SlotsAccounted
  <2>3. CASE u = t
    BY Zenon, <1>5, <1>9, <2>2, <2>3
  <2>4. CASE u # t
    BY ZenonT(40), <1>5, <1>7, <1>9, <2>2, <2>4
  <2> QED BY ZenonT(40), <2>3, <2>4
<1>12. RegistriesAgree'
  BY Zenon DEF IInv, RegistriesAgree, inventory
<1> QED
  BY Zenon, <1>2, <1>6, <1>8, <1>10, <1>11, <1>12 DEF IInv

\* One round of handoff_or_publish_locked.
LEMMA HandoffStep ==
    ASSUME IInv, NEW t \in Clients, Handoff(t)
    PROVE  IInv'
<1>1. Types /\ Coherent(t) /\ slot[t] \in Slots /\ Owns(t) /\ ~Queued(t) /\ mutex = t
  BY Zenon DEF IInv, Handoff, Coherent, HasSlot, SlotLabels, HoldsLock, LockedLabels, Owns, Queued, Types
<1>2. ASSUME HandoffKeepsLock(t), UNCHANGED <<phase, queue>>,
             (QuarantineBorrowed(slot[t]) /\ UNCHANGED bits) \/ MakeIdle(slot[t])
      PROVE  IInv'
  <2>1. Types'
    <3>1. {"serve", "unlock"} \subseteq Labels
      BY Zenon, Names
    <3>2. pc' \in [Clients -> Labels] /\ slot' \in [Clients -> Slots \union {NoSlot}]
      BY Zenon, <1>1, <1>2, <3>1 DEF HandoffKeepsLock, Set, Types
    <3> DEFINE inventoryTypes ==
            /\ states \in [Slots -> SlotStates] /\ bits \subseteq Slots
            /\ quarantined \subseteq Slots /\ vacant \subseteq Slots
    <3>3. inventoryTypes'
      <4>1. CASE QuarantineBorrowed(slot[t]) /\ UNCHANGED bits
        BY Zenon, <1>1, <4>1 DEF QuarantineBorrowed, Set, Types, SlotStates
      <4>2. CASE MakeIdle(slot[t])
        BY Zenon, <1>1, <4>2 DEF MakeIdle, Set, Types, SlotStates
      <4> QED BY Zenon, <1>2, <4>1, <4>2
    <3> QED BY ZenonT(40), <1>1, <1>2, <3>2, <3>3 DEF HandoffKeepsLock, queue, Types
  <2>2. OnlyMoves(t) /\ UNCHANGED waiters
    BY Zenon, <1>1, <1>2 DEF HandoffKeepsLock, Set, queue, OnlyMoves, Types
  <2>3. Coherent(t)' /\ ~Queued(t)' /\ ~Owns(t)'
    BY Zenon, <1>1, <1>2
       DEF Handoff, HandoffKeepsLock, Set, queue, Coherent, HasSlot, SlotLabels, HoldsLock, LockedLabels, Registering,
           Queued, Owns, Types
  <2>4. ExclusiveOwnership' /\ SlotsAccounted' /\ RegistriesAgree'
    BY Zenon, <1>1, <1>2, <2>2, <2>3, DropFrame DEF QuarantineBorrowed, MakeIdle, Set
  <2> QED BY Zenon, <1>1, <2>1, <2>2, <2>3, <2>4, CoherentFrame, QueueFrame DEF IInv
<1>3. CASE waiters # <<>> /\ CompleteFront(t, "timeout", "handoff_lock") /\ UNCHANGED <<inventory, bits, call, slot>>
  BY Zenon, <1>3, RejectStep DEF Handoff
<1>4. CASE /\ waiters # <<>>
           /\ CompleteFront(t, "assigned", IF call[t] = "serve" THEN "serve_lock" ELSE "ready")
           /\ slot' = [slot EXCEPT ![waiters[1]] = slot[t], ![t] = NoSlot]
           /\ UNCHANGED <<inventory, bits, call>>
  <2>1. CASE call[t] = "serve"
    BY ZenonT(40), <1>4, <2>1, AssignStep DEF Handoff
  <2>2. CASE call[t] # "serve"
    BY ZenonT(40), <1>4, <2>2, AssignStep DEF Handoff
  <2> QED BY Zenon, <2>1, <2>2
<1> QED
  BY Zenon, <1>2, <1>3, <1>4 DEF Handoff

\* One round of the loop in which shutdown rejects the waiters.
LEMMA DrainStep ==
    ASSUME IInv, NEW t \in Clients, Drain(t)
    PROVE  IInv'
<1>1. CASE Goto(t, "unlock") /\ UNCHANGED <<mutex, queue>>
  <2>1. Types /\ Coherent(t)
    BY Zenon DEF IInv
  <2>2. Types'
    <3>1. "unlock" \in Labels
      BY Zenon, Names
    <3>2. OwnTypes'
      BY Zenon, <1>1, <2>1, <3>1, PieceTypes
    <3> QED BY Zenon, <1>1, <2>1, <3>2 DEF Drain, inventory, queue, Types, OwnTypes
  <2>3. OnlyMoves(t) /\ UNCHANGED waiters
    BY Zenon, <1>1, <2>1 DEF Goto, Set, queue, locals, OnlyMoves, Types
  <2>4. Coherent(t)'
    BY Zenon, <1>1, <2>1
       DEF Drain, Goto, Set, queue, locals, Coherent, HasSlot, SlotLabels, HoldsLock, LockedLabels, Registering, Types
  <2>5. (Queued(t)' <=> Queued(t)) /\ (Owns(t)' <=> Owns(t)) /\ slot'[t] = slot[t] /\ (Reserving(t)' <=> Reserving(t))
    BY Zenon, <1>1, <2>1 DEF Drain, Goto, Set, locals, Queued, Owns, Reserving, Types
  <2>6. ExclusiveOwnership' /\ SlotsAccounted' /\ RegistriesAgree'
    BY ZenonT(40), <2>3, <2>5, KeepFrame DEF Drain, inventory
  <2> QED BY Zenon, <2>2, <2>3, <2>4, <2>5, <2>6, CoherentFrame, QueueFrame DEF IInv
<1>2. CASE /\ waiters # <<>>
           /\ CompleteFront(t, IF waiters[1] \in expired THEN "timeout" ELSE "shutdown", "drain_lock")
           /\ UNCHANGED <<call, slot>>
  <2>1. CASE waiters[1] \in expired
    BY Zenon, <1>2, <2>1, RejectStep DEF Drain
  <2>2. CASE waiters[1] \notin expired
    BY Zenon, <1>2, <2>2, RejectStep DEF Drain
  <2> QED BY Zenon, <2>1, <2>2
<1> QED
  BY Zenon, <1>1, <1>2 DEF Drain

\* Every step of every client keeps the invariant.
LEMMA InvStep == IInv /\ [Next]_vars => IInv'
<1> SUFFICES ASSUME IInv, [Next]_vars PROVE IInv'
  OBVIOUS
<1>1. CASE UNCHANGED vars
  <2>1. Types'
    BY Zenon, <1>1 DEF IInv, Types, vars, inventory, queue, locals
  <2>2. \A t \in Clients : Coherent(t)'
    BY Zenon, <1>1 DEF IInv, Coherent, HasSlot, HoldsLock, Registering, vars, queue, locals
  <2>3. QueueInv'
    BY Zenon, <1>1 DEF IInv, QueueInv, Queued, vars, queue
  <2>4. ExclusiveOwnership' /\ SlotsAccounted' /\ RegistriesAgree'
    BY Zenon, <1>1 DEF IInv, ExclusiveOwnership, SlotsAccounted, RegistriesAgree, Owns, vars, inventory, locals
  <2> QED BY Zenon, <2>1, <2>2, <2>3, <2>4 DEF IInv
<1>2. ASSUME NEW t \in Clients, Begin(t) PROVE IInv'
  BY Zenon, <1>2, AcquisitionStep, WaitingStep, ProvisionStep, TryReserveStep, TryTakeQuarantinedStep,
     RollbackStep, CancelStep DEF Begin
<1>3. ASSUME NEW t \in Clients, Step(t) PROVE IInv'
  BY Zenon, <1>3, AcquisitionStep, WaitingStep, ServingStep, ProvisionStep, ClaimBitStep, QuarantineStep,
     ParkStep, TimeOutStep, PublishBitStep, RecheckClosedStep, HandoffStep, TakeClaimedStep, SweepStep,
     DrainStep DEF Step
<1>4. ASSUME NEW t \in Clients, Use(t) PROVE IInv'
  BY Zenon, <1>4, WaitingStep, ProvisionStep, PublishStep DEF Use
<1> QED
  BY Zenon, <1>1, <1>2, <1>3, <1>4 DEF Next

\* The inductive invariant: the types, what a client's program point says about
\* its slot, its waiter node and the mutex, the waiter list, and the three
\* properties below, which need one another.
THEOREM Invariance == Spec => []IInv
<1>1. Init => IInv
  BY Zenon, InitInv
<1>2. IInv /\ [Next]_vars => IInv'
  BY Zenon, InvStep
<1> QED
  BY <1>1, <1>2, PTL DEF Spec

\* Whatever the interleaving of lock-free claims, handoffs, timeouts,
\* cancellations, maintenance and shutdown, a slot has at most one owner, and an
\* owned slot is neither idle, vacant nor quarantined.
THEOREM OwnershipExclusive == Spec => []ExclusiveOwnership
<1>1. IInv => ExclusiveOwnership
  BY Zenon DEF IInv
<1> QED
  BY <1>1, Invariance, PTL

\* No path through the pool drops a slot: a slot that is borrowed or reserved
\* always has an owner that can return it.
THEOREM NoSlotLost == Spec => []SlotsAccounted
<1>1. IInv => SlotsAccounted
  BY Zenon DEF IInv
<1> QED
  BY <1>1, Invariance, PTL

\* The asserts on states_ in claim_idle, shutdown, try_reserve and
\* try_take_quarantined hold: bitmap and registries agree with the slot states.
THEOREM RegistriesConsistent == Spec => []RegistriesAgree
<1>1. IInv => RegistriesAgree
  BY Zenon DEF IInv
<1> QED
  BY <1>1, Invariance, PTL

\* The slots of a pool of any capacity stay accounted for, for any number of
\* clients: one owner or one registry each.
THEOREM SlotsSafe == Spec => []OwnershipAccounted
<1>1. ExclusiveOwnership /\ SlotsAccounted /\ RegistriesAgree => OwnershipAccounted
  BY Zenon DEF OwnershipAccounted
<1> QED
  BY <1>1, OwnershipExclusive, NoSlotLost, RegistriesConsistent, PTL

-----------------------------------------------------------------------------
(* The invariants *)

\* The counters count slots by their state.
Count(f, places) == Cardinality({s \in Slots : f[s] \in places})

CountersExact ==
    /\ reserved = Count(states, {"reserved"})
    /\ usable = Count(states, {"idle", "borrowed"})

\* The gate counts the linked waiters and the registration in progress.
Registrants == {t \in Clients : Registering(t)}
GateExact == gate = Len(waiters) + Cardinality(Registrants)

\* A selected node is pinned, by one selector, until it has been notified.
NodesPinned ==
    \A t \in Clients : pc[t] = "notify" =>
        /\ target[t] \in pinned
        /\ pc[target[t]] \in {"parked", "woken"}
        /\ wstate[target[t]] # "queued"
        /\ \A u \in Clients \ {t} : pc[u] = "notify" => target[u] # target[t]

\* Scans start at the first word.
ScansStart == \A t \in Clients : pc[t] \notin {"scan", "sweep"} => word[t] = 0

\* t will yet look at the gate, or serve the queue from the first word.
WillServe(t) ==
    \/ pc[t] \in {"recheck_closed", "recheck_gate", "serve_lock", "serve"}
    \/ pc[t] \in {"handoff_lock", "handoff"} /\ call[t] = "serve"
    \/ pc[t] = "notify" /\ after[t] = "serve_lock"
    \/ pc[t] = "notify" /\ after[t] = "handoff_lock" /\ call[t] = "serve"

\* t will find the idle bit of slot s for the queue.
Covers(t, s) ==
    \/ WillServe(t)
    \/ pc[t] = "scan" /\ call[t] = "serve" /\ word[t] <= WordOf(s)

\* The second scan of the registration of t has passed the word of slot s.
Passed(t, s) ==
    \/ pc[t] = "park"
    \/ pc[t] = "scan" /\ call[t] = "slow" /\ word[t] > WordOf(s)

\* Somebody is queued, or will queue without having seen the idle bit of s.
Wanted(s) == waiters # <<>> \/ \E t \in Clients : Passed(t, s)

\* On an open pool somebody will find every idle bit that is wanted.
BitsCovered == ~Closed => \A s \in bits : Wanted(s) => \E t \in Clients : Covers(t, s)

\* The sweep of t, or its recheck as a publisher, will withdraw the bit of s.
Withdraws(t, s) ==
    \/ pc[t] = "sweep" /\ word[t] <= WordOf(s)
    \/ pc[t] = "recheck_closed" /\ slot[t] = s

\* t will reject the waiters that are still queued.
Rejects(t) ==
    \/ pc[t] \in {"sweep", "drain", "drain_lock"}
    \/ pc[t] = "notify" /\ after[t] = "drain_lock"

\* On a closed pool nobody registers, and every idle bit and every queued waiter
\* will be withdrawn or rejected.
ClosureCovered ==
    Closed =>
        /\ Registrants = {}
        /\ \A s \in bits : \E t \in Clients : Withdraws(t, s)
        /\ waiters # <<>> => \E t \in Clients : Rejects(t)

WInv == CountersExact /\ GateExact /\ NodesPinned /\ ScansStart /\ BitsCovered /\ ClosureCovered

-----------------------------------------------------------------------------
(* Steps by whose state they change *)

Acts(t) == Begin(t) \/ Step(t) \/ Use(t)

\* A step of t leaves the program points of the other clients alone.
Alone(t) ==
    \A u \in Clients \ {t} :
        /\ pc'[u] = pc[u]
        /\ call'[u] = call[u]
        /\ word'[u] = word[u]
        /\ after'[u] = after[u]
        /\ target'[u] = target[u]
        /\ pc[u] = "recheck_closed" => slot'[u] = slot[u]

LEMMA ActsAlone ==
    ASSUME IInv, NEW t \in Clients, Acts(t)
    PROVE  Alone(t)
<1> USE DEF IInv, Types, Alone, locals, Set, Return, ReturnToken, Goto, StartScan
<1>1. CASE Begin(t)
  BY Zenon, <1>1 DEF Begin, TryAcquire, Acquire, QuarantineToken, TryReserve, TryTakeQuarantined,
     TryTakeIdle, Destroy, Rollback, Shutdown, Expire, Cancel, Wake
<1>2. CASE Use(t)
  BY Zenon, <1>2 DEF Use, Release, Construct, Publish
<1>3. CASE Handoff(t)
  <2>1. waiters # <<>> => Queued(waiters[1])
    BY DEF QueueInv
  <2> QED BY Zenon, <1>3, <2>1 DEF Handoff, HandoffKeepsLock, CompleteFront, Queued
<1>4. CASE ClaimBit(t) \/ ClaimMiss(t) \/ CheckClaim(t) \/ Quarantine(t) \/ Register(t) \/ SlowClaimed(t) \/ Park(t)
  BY Zenon, <1>4 DEF ClaimBit, ClaimMiss, CheckClaim, Quarantine, Register, SlowClaimed, Park
<1>5. CASE TimeOut(t) \/ Wake(t) \/ Deliver(t) \/ PublishCheck(t) \/ PublishBit(t) \/ RecheckClosed(t)
  BY ZenonT(40), <1>5 DEF TimeOut, Wake, Deliver, PublishCheck, PublishBit, RecheckClosed
<1>6. CASE RecheckGate(t) \/ Relock(t) \/ Notify(t) \/ Serve(t) \/ UnlockAndReturn(t)
  BY SMTT(30), <1>6 DEF RecheckGate, Relock, Notify, Serve, UnlockAndReturn
<1>7. CASE TryTakeIdle(t) \/ TakeClaimed(t) \/ Sweep(t) \/ Drain(t)
  BY SMTT(30), <1>7 DEF TryTakeIdle, TakeClaimed, Sweep, Drain, CompleteFront
<1> QED
  BY Zenon, <1>1, <1>2, <1>3, <1>4, <1>5, <1>6, <1>7 DEF Acts, Step

\* Every operation leaves the word of its scan at zero.
LEMMA ScansStep ==
    ASSUME IInv, IInv', ScansStart, NEW t \in Clients, Acts(t)
    PROVE  ScansStart'
<1>1. Alone(t)
  BY Zenon, ActsAlone
<1>2. word \in [Clients -> 0 .. LastWord] /\ pc \in [Clients -> Labels]
  BY Zenon DEF IInv, Types
<1> SUFFICES pc'[t] \notin {"scan", "sweep"} => word'[t] = 0
  BY Zenon, <1>1 DEF ScansStart, Alone
<1>3. pc[t] \notin {"scan", "sweep"} => word[t] = 0
  BY Zenon DEF ScansStart
<1> USE <1>2, <1>3 DEF locals, Set, Return, ReturnToken, Goto, StartScan
<1>4. CASE Begin(t)
  BY Zenon, <1>4 DEF Begin, TryAcquire, Acquire, QuarantineToken, TryReserve, TryTakeQuarantined,
     TryTakeIdle, Destroy, Rollback, Shutdown, Expire, Cancel, Wake
<1>5. CASE Use(t)
  BY Zenon, <1>5 DEF Use, Release, Construct, Publish
<1>6. CASE ClaimBit(t) \/ ClaimMiss(t) \/ CheckClaim(t) \/ Quarantine(t) \/ Register(t) \/ SlowClaimed(t) \/ Park(t)
  BY Zenon, <1>6 DEF ClaimBit, ClaimMiss, CheckClaim, Quarantine, Register, SlowClaimed, Park
<1>7. CASE TimeOut(t) \/ Wake(t) \/ Deliver(t) \/ PublishCheck(t) \/ PublishBit(t) \/ RecheckClosed(t)
  BY Zenon, <1>7 DEF TimeOut, Wake, Deliver, PublishCheck, PublishBit, RecheckClosed
<1>8. CASE RecheckGate(t) \/ Relock(t) \/ Handoff(t) \/ Notify(t) \/ Serve(t) \/ UnlockAndReturn(t)
  BY Zenon, <1>8 DEF RecheckGate, Relock, Handoff, HandoffKeepsLock, CompleteFront, Notify, Serve, UnlockAndReturn
<1>9. CASE TryTakeIdle(t) \/ TakeClaimed(t) \/ Sweep(t) \/ Drain(t)
  BY Zenon, <1>9 DEF TryTakeIdle, TakeClaimed, Sweep, Drain, CompleteFront
<1> QED
  BY Zenon, <1>4, <1>5, <1>6, <1>7, <1>8, <1>9 DEF Acts, Step

-----------------------------------------------------------------------------
(* The counters *)

\* A count of slots is a number.
LEMMA CountType == ASSUME NEW f, NEW places PROVE Count(f, places) \in Nat
<1> DEFINE A == {s \in Slots : f[s] \in places}
<1>1. IsFiniteSet(Slots) /\ A \subseteq Slots
  BY FS_Interval, PoolAssumption DEF Slots
<1> HIDE DEF A
<1>2. Cardinality(A) \in Nat
  BY Zenon, <1>1, FS_Subset, FS_CardinalityType
<1> QED
  BY Zenon, <1>2 DEF A, Count

\* One slot changes its state.
LEMMA MoveCount ==
    ASSUME NEW f \in [Slots -> SlotStates], NEW s \in Slots, NEW to \in SlotStates, NEW places
    PROVE  Count(Set(f, s, to), places)
             = Count(f, places) + (IF to \in places THEN 1 ELSE 0) - (IF f[s] \in places THEN 1 ELSE 0)
<1> DEFINE A == {x \in Slots : f[x] \in places}
<1> DEFINE B == {x \in Slots : Set(f, s, to)[x] \in places}
<1>1. Count(f, places) = Cardinality(A) /\ Count(Set(f, s, to), places) = Cardinality(B)
  BY Zenon DEF Count
<1>2. IsFiniteSet(A) /\ Cardinality(A) \in Nat
  <2>1. IsFiniteSet(Slots) /\ A \subseteq Slots
    BY FS_Interval, PoolAssumption DEF Slots
  <2> HIDE DEF A
  <2> QED BY Zenon, <2>1, FS_Subset, FS_CardinalityType
<1>3. CASE to \in places /\ f[s] \notin places
  <2>1. B = A \union {s} /\ s \notin A
    BY Zenon, <1>3 DEF Set
  <2> HIDE DEF A, B
  <2>2. Cardinality(B) = Cardinality(A) + 1
    BY Zenon, <1>2, <2>1, OneMore
  <2> QED BY <1>1, <1>2, <1>3, <2>2
<1>4. CASE to \notin places /\ f[s] \in places
  <2>1. B = A \ {s} /\ s \in A
    BY Zenon, <1>4 DEF Set
  <2> HIDE DEF A, B
  <2>2. Cardinality(B) = Cardinality(A) - 1
    BY Zenon, <1>2, <2>1, OneLess
  <2> QED BY <1>1, <1>2, <1>4, <2>2
<1>5. CASE to \in places <=> f[s] \in places
  <2>1. B = A
    BY Zenon, <1>5 DEF Set
  <2> HIDE DEF A, B
  <2> QED BY <1>1, <1>2, <1>5, <2>1
<1> QED
  BY Zenon, <1>3, <1>4, <1>5

\* A slot changes its state and the counters follow.
LEMMA CountersMove ==
    ASSUME IInv, CountersExact, NEW s \in Slots, NEW to \in SlotStates, states' = Set(states, s, to),
           reserved' = reserved + (IF to = "reserved" THEN 1 ELSE 0) - (IF states[s] = "reserved" THEN 1 ELSE 0),
           usable' = usable + (IF to \in {"idle", "borrowed"} THEN 1 ELSE 0)
                            - (IF states[s] \in {"idle", "borrowed"} THEN 1 ELSE 0)
    PROVE  CountersExact'
<1>1. states \in [Slots -> SlotStates]
  BY Zenon DEF IInv, Types
<1>2. Count(states', {"reserved"}) = Count(states, {"reserved"})
        + (IF to \in {"reserved"} THEN 1 ELSE 0) - (IF states[s] \in {"reserved"} THEN 1 ELSE 0)
  BY <1>1, MoveCount
<1>3. Count(states', {"idle", "borrowed"}) = Count(states, {"idle", "borrowed"})
        + (IF to \in {"idle", "borrowed"} THEN 1 ELSE 0) - (IF states[s] \in {"idle", "borrowed"} THEN 1 ELSE 0)
  BY <1>1, MoveCount
<1> QED
  BY Zenon, <1>2, <1>3 DEF CountersExact

\* Sweeping a word takes its idle slots out of the usable ones.
LEMMA CountersSweep ==
    ASSUME IInv, CountersExact, NEW t \in Clients, Sweep(t)
    PROVE  CountersExact'
<1> DEFINE A == {x \in Slots : states[x] \in {"idle", "borrowed"}}
<1> DEFINE B == {x \in Slots : states'[x] \in {"idle", "borrowed"}}
<1> DEFINE H == Hits(t)
<1>1. H \subseteq A /\ B = A \ H
  BY Zenon DEF IInv, Types, RegistriesAgree, Sweep, Hits
<1>2. {x \in Slots : states'[x] \in {"reserved"}} = {x \in Slots : states[x] \in {"reserved"}}
  BY Zenon DEF IInv, Types, RegistriesAgree, Sweep, Hits
<1>3. reserved' = Count(states', {"reserved"})
  BY Zenon, <1>2 DEF Count, CountersExact, Sweep
<1>4. usable = Cardinality(A) /\ usable' = usable - Cardinality(H)
  BY Zenon DEF Count, CountersExact, Sweep
<1>5. IsFiniteSet(Slots) /\ A \subseteq Slots
  BY FS_Interval, PoolAssumption DEF Slots
<1> HIDE DEF A, B, H
<1>6. Cardinality(B) = Cardinality(A) - Cardinality(H)
  <2>1. A \intersect H = H
    BY Zenon, <1>1
  <2>2. IsFiniteSet(A)
    BY Zenon, <1>5, FS_Subset
  <2>3. Cardinality(A \ H) = Cardinality(A) - Cardinality(A \intersect H)
    BY Zenon, <2>2, FS_Difference
  <2> QED BY Zenon, <1>1, <2>1, <2>3
<1>7. usable' = Count(states', {"idle", "borrowed"})
  BY Zenon, <1>4, <1>6 DEF B, Count
<1> QED
  BY Zenon, <1>3, <1>7 DEF CountersExact

\* The owner of a slot changes its state.
LEMMA CountersOwned ==
    ASSUME IInv, CountersExact, NEW t \in Clients, NEW to \in SlotStates,
           pc[t] \in SlotLabels \ {"recheck_closed"}, states' = Set(states, slot[t], to),
           reserved' = reserved + (IF to = "reserved" THEN 1 ELSE 0) - (IF Reserving(t) THEN 1 ELSE 0),
           usable' = usable + (IF to \in {"idle", "borrowed"} THEN 1 ELSE 0) - (IF Reserving(t) THEN 0 ELSE 1)
    PROVE  CountersExact'
<1>1. slot[t] \in Slots /\ Owns(t)
  BY Zenon DEF IInv, Types, Coherent, HasSlot, Owns
<1>2. states[slot[t]] = IF Reserving(t) THEN "reserved" ELSE "borrowed"
  BY Zenon, <1>1 DEF IInv, ExclusiveOwnership, Reserving
<1> QED
  BY Zenon, <1>1, <1>2, CountersMove

\* Every step that moves a slot between states updates the counters in the same
\* critical section.
LEMMA CountersStep ==
    ASSUME IInv, CountersExact, NEW t \in Clients, Acts(t)
    PROVE  CountersExact'
<1>1. {"vacant", "reserved", "idle", "borrowed", "quarantined"} = SlotStates
  BY Zenon DEF SlotStates
<1>2. usable \in Int /\ reserved \in Int
  BY CountType DEF CountersExact
<1>3. CASE UNCHANGED inventory
  BY Zenon, <1>3 DEF CountersExact, inventory
<1>4. CASE ClaimBit(t) \/ TryReserve(t) \/ TryTakeQuarantined(t)
  <2>1. PICK s \in Slots, to \in {"borrowed", "reserved"} :
          /\ states' = Set(states, s, to)
          /\ IF to = "borrowed" THEN s \in bits /\ UNCHANGED <<usable, reserved>>
             ELSE s \in vacant \union quarantined /\ usable' = usable /\ reserved' = reserved + 1
    BY Zenon, <1>4 DEF ClaimBit, TryReserve, TryTakeQuarantined, Hits, IInv, Types
  <2>2. states[s] = "idle" \/ (to = "reserved" /\ states[s] \in {"vacant", "quarantined"})
    BY Zenon, <2>1 DEF IInv, RegistriesAgree
  <2>3. to = "reserved" => states[s] # "idle"
    BY Zenon, <2>1 DEF IInv, RegistriesAgree
  <2> QED BY <1>1, <1>2, <2>1, <2>2, <2>3, CountersMove
<1>5. CASE RecheckClosed(t) /\ ~UNCHANGED inventory
  <2>1. slot[t] \in bits /\ states' = Set(states, slot[t], "borrowed") /\ UNCHANGED <<usable, reserved>>
    BY Zenon, <1>5 DEF RecheckClosed, inventory
  <2>2. slot[t] \in Slots /\ states[slot[t]] = "idle"
    BY Zenon, <2>1 DEF IInv, Types, RegistriesAgree
  <2> QED BY <1>1, <1>2, <2>1, <2>2, CountersMove
<1>6. CASE Quarantine(t) \/ PublishBit(t) \/ Publish(t) \/ Rollback(t)
  BY <1>1, <1>2, <1>6, CountersOwned DEF Quarantine, QuarantineBorrowed, PublishBit, MakeIdle, Publish,
     Rollback, SlotLabels, Reserving
<1>7. CASE (Handoff(t) \/ TakeClaimed(t)) /\ ~UNCHANGED inventory
  <2>1. PICK to \in {"quarantined", "idle", "reserved"} :
          /\ states' = Set(states, slot[t], to)
          /\ usable' = usable - (IF to = "idle" THEN 0 ELSE 1)
          /\ reserved' = reserved + (IF to = "reserved" THEN 1 ELSE 0)
    BY <1>2, <1>7 DEF Handoff, TakeClaimed, QuarantineBorrowed, MakeIdle, inventory
  <2>2. pc[t] \in SlotLabels \ {"recheck_closed"} /\ ~Reserving(t)
    BY Zenon, <1>7 DEF Handoff, TakeClaimed, SlotLabels, Reserving
  <2> QED BY <1>1, <1>2, <2>1, <2>2, CountersOwned
<1>8. CASE Sweep(t)
  BY Zenon, <1>8, CountersSweep
<1>9. Begin(t) => UNCHANGED inventory \/ TryReserve(t) \/ TryTakeQuarantined(t) \/ Rollback(t)
  BY Zenon DEF Begin, TryAcquire, Acquire, QuarantineToken, TryTakeIdle, Destroy, Shutdown, Expire, Cancel, Wake
<1>10. Use(t) => UNCHANGED inventory \/ Publish(t)
  BY Zenon DEF Use, Release, Construct
<1>11. Step(t) => \/ UNCHANGED inventory \/ ClaimBit(t) \/ Quarantine(t) \/ PublishBit(t) \/ RecheckClosed(t)
                  \/ Handoff(t) \/ TakeClaimed(t) \/ Sweep(t)
  BY Zenon DEF Step, ClaimMiss, CheckClaim, Register, SlowClaimed, Park, TimeOut, Wake, Deliver, PublishCheck,
     RecheckGate, Relock, Notify, Serve, UnlockAndReturn, TryTakeIdle, Drain
<1> QED
  BY Zenon, <1>3, <1>4, <1>5, <1>6, <1>7, <1>8, <1>9, <1>10, <1>11 DEF Acts

-----------------------------------------------------------------------------
(* The gate *)

\* Only the holder of the mutex registers.
LEMMA OneRegistrant ==
    ASSUME IInv, NEW t \in Clients
    PROVE  /\ Registering(t) => Registrants = {t} /\ mutex = t
           /\ mutex = NoClient \/ (mutex = t /\ ~Registering(t)) => Registrants = {}
           /\ Cardinality(Registrants) \in {0, 1}
<1>1. \A u \in Clients : Registering(u) => mutex = u
  BY Zenon DEF IInv, Coherent, HoldsLock, LockedLabels, Registering
<1>2. Registrants = {} \/ Registrants = {mutex}
  BY Zenon, <1>1 DEF Registrants
<1>3. Cardinality(Registrants) \in {0, 1}
  BY Zenon, <1>2, FS_EmptySet, FS_Singleton
<1> QED
  BY Zenon, <1>1, <1>3, PoolAssumption DEF Registrants

\* A node leaves the list and the gate together.
LEMMA UnlinkCounts ==
    ASSUME IInv, NEW i \in 1 .. Len(waiters), NEW state, Unlink(i, state)
    PROVE  Len(waiters') = Len(waiters) - 1 /\ gate' = gate - 1
BY Zenon, EraseFacts DEF IInv, Types, Unlink

\* The gate rises before the second scan and falls with the node, or when the
\* second scan was lucky.
LEMMA GateStep ==
    ASSUME IInv, IInv', GateExact, NEW t \in Clients, Acts(t)
    PROVE  GateExact'
<1>1. Alone(t)
  BY Zenon, ActsAlone
<1>2. gate \in Int /\ waiters \in Seq(Clients) /\ Len(waiters) \in Nat
  BY DEF IInv, Types
<1>3. Cardinality({}) = 0 /\ Cardinality({t}) = 1
  BY Zenon, FS_EmptySet, FS_Singleton
<1>4. pc \in [Clients -> Labels] /\ call \in [Clients -> Callers]
  BY Zenon DEF IInv, Types
<1>5. CASE /\ Registering(t)' <=> Registering(t)
           /\ \/ UNCHANGED <<gate, waiters>>
              \/ \E i \in 1 .. Len(waiters), state \in WaiterStates : Unlink(i, state)
  <2>1. Registrants' = Registrants
    BY Zenon, <1>1, <1>5 DEF Registrants, Registering, Alone
  <2>2. Cardinality(Registrants) \in {0, 1}
    BY Zenon, OneRegistrant
  <2> QED BY <1>2, <1>5, <2>1, <2>2, UnlinkCounts DEF GateExact
<1>6. CASE Register(t) /\ gate' # gate
  <2>1. mutex = NoClient /\ Registering(t)' /\ gate' = gate + 1 /\ waiters' = waiters
    BY Zenon, <1>4, <1>6 DEF Register, Lock, StartScan, Set, Registering
  <2>2. Registrants = {}
    BY Zenon, <2>1, OneRegistrant
  <2>3. Registrants' = {t}
    BY Zenon, <1>1, <2>1, <2>2 DEF Registrants, Registering, Alone
  <2> QED BY <1>2, <1>3, <2>1, <2>2, <2>3 DEF GateExact
<1>7. CASE SlowClaimed(t) \/ Park(t)
  <2>1. Registering(t) /\ ~Registering(t)'
    BY Zenon, <1>4, <1>7 DEF SlowClaimed, Park, ReturnToken, Set, Registering
  <2>2. Registrants = {t}
    BY Zenon, <2>1, OneRegistrant
  <2>3. Registrants' = {}
    <3>1. \A u \in Clients \ {t} : ~Registering(u)
      BY Zenon, <2>2 DEF Registrants
    <3> QED BY Zenon, <1>1, <2>1, <3>1 DEF Registrants, Registering, Alone
  <2>4. \/ gate' = gate - 1 /\ waiters' = waiters
        \/ gate' = gate /\ Len(waiters') = Len(waiters) + 1
    BY <1>2, <1>7 DEF SlowClaimed, Park
  <2> QED BY <1>2, <1>3, <2>2, <2>3, <2>4 DEF GateExact
<1> USE <1>4, CallerTable DEF queue, locals, Registering, Set, Return, ReturnToken, Goto, StartScan
<1>8. CASE Begin(t)
  <2>1. CASE Cancel(t)
    <3>1. "cancelled" \in WaiterStates
      BY Zenon DEF WaiterStates
    <3> QED BY Zenon, <1>5, <2>1, <3>1 DEF Cancel
  <2>2. CASE Expire(t)
    BY Zenon, <1>5, <2>2 DEF Expire
  <2> QED
    BY Zenon, <1>5, <1>8, <2>1, <2>2 DEF Begin, TryAcquire, Acquire, QuarantineToken, TryReserve,
       TryTakeQuarantined, TryTakeIdle, Destroy, Rollback, Shutdown, Wake
<1>9. CASE Use(t)
  BY Zenon, <1>5, <1>9 DEF Use, Release, Construct, Publish
<1>10. CASE TimeOut(t) \/ Handoff(t) \/ Drain(t)
  <2>1. \/ UNCHANGED <<gate, waiters>>
        \/ \E i \in 1 .. Len(waiters), state \in WaiterStates : Unlink(i, state)
    <3>1. waiters # <<>> => 1 \in 1 .. Len(waiters)
      BY <1>2
    <3>2. {"timeout", "assigned", "shutdown"} \subseteq WaiterStates
      BY Zenon DEF WaiterStates
    <3> QED BY Zenon, <1>10, <3>1, <3>2 DEF TimeOut, Handoff, Drain, CompleteFront, HandoffKeepsLock
  <2>2. ~Registering(t) /\ ~Registering(t)'
    BY Zenon, <1>10 DEF TimeOut, Handoff, Drain, CompleteFront, HandoffKeepsLock
  <2> QED BY Zenon, <1>5, <2>1, <2>2
<1>11. CASE ClaimBit(t) \/ ClaimMiss(t)
  <2>1. pc[t] = "scan" /\ call[t] \in {"try", "fast", "slow", "serve", "take"}
    BY Zenon, <1>11 DEF ClaimBit, ClaimMiss, IInv, Coherent
  <2> QED BY SMTT(30), <1>5, <1>11, <2>1 DEF ClaimBit, ClaimMiss
<1>12. CASE CheckClaim(t) \/ Quarantine(t) \/ (Register(t) /\ gate' = gate) \/ Wake(t) \/ Deliver(t) \/ PublishCheck(t)
  BY SMTT(30), <1>2, <1>5, <1>12 DEF CheckClaim, Quarantine, Register, Wake, Deliver, PublishCheck
<1>13. CASE PublishBit(t) \/ RecheckClosed(t) \/ RecheckGate(t) \/ Relock(t) \/ Serve(t) \/ UnlockAndReturn(t)
  BY Zenon, <1>5, <1>13 DEF PublishBit, RecheckClosed, RecheckGate, Relock, Serve, UnlockAndReturn
<1>14. CASE Notify(t)
  <2>1. after[t] \in {"handoff_lock", "serve_lock", "drain_lock", "ready"}
    BY Zenon, <1>14 DEF Notify, IInv, Coherent
  <2> QED BY Zenon, <1>5, <1>14, <2>1 DEF Notify
<1>15. CASE TryTakeIdle(t) \/ TakeClaimed(t) \/ Sweep(t)
  BY Zenon, <1>5, <1>15 DEF TryTakeIdle, TakeClaimed, Sweep
<1> QED
  <2> HIDE <1>4 DEF queue, locals, Registering, Set, Return, ReturnToken, Goto, StartScan
  <2> QED BY ZenonT(40), <1>6, <1>7, <1>8, <1>9, <1>10, <1>11, <1>12, <1>13, <1>14, <1>15 DEF Acts, Step

-----------------------------------------------------------------------------
(* Notifications *)

\* A step that neither selects nor notifies keeps the selections, provided it
\* leaves the selected nodes where they are.
LEMMA PinFrame ==
    ASSUME IInv, NodesPinned, NEW t \in Clients, Alone(t), pinned' = pinned,
           pc[t] # "notify", pc'[t] # "notify",
           \A u \in Clients \ {t} : wstate'[u] = wstate[u],
           t \in pinned /\ pc[t] \in {"parked", "woken"} /\ wstate[t] # "queued" =>
               pc'[t] \in {"parked", "woken"} /\ wstate'[t] # "queued"
    PROVE  NodesPinned'
<1> SUFFICES ASSUME NEW u \in Clients, pc'[u] = "notify"
             PROVE  /\ target'[u] \in pinned'
                    /\ pc'[target'[u]] \in {"parked", "woken"}
                    /\ wstate'[target'[u]] # "queued"
                    /\ \A v \in Clients \ {u} : pc'[v] = "notify" => target'[v] # target'[u]
  BY Zenon DEF NodesPinned
<1>1. u # t /\ pc[u] = "notify" /\ target'[u] = target[u]
  BY Zenon DEF Alone
<1>2. target[u] \in pinned /\ target[u] \in Clients
  BY Zenon, <1>1 DEF NodesPinned, IInv, Types
<1>3. pc'[target[u]] \in {"parked", "woken"} /\ wstate'[target[u]] # "queued"
  BY Zenon, <1>1, <1>2 DEF NodesPinned, Alone
<1>4. ASSUME NEW v \in Clients \ {u}, pc'[v] = "notify" PROVE target'[v] # target'[u]
  BY <1>1, <1>4 DEF NodesPinned, Alone
<1> QED
  BY Zenon, <1>1, <1>2, <1>3, <1>4

\* A selection takes a queued node, so it is nobody else's.
LEMMA PinSelect ==
    ASSUME IInv, NodesPinned, NEW t \in Clients, Alone(t), waiters # <<>>, pc[t] \in {"handoff", "drain"},
           NEW state \in WaiterStates \ {"queued"}, NEW next, CompleteFront(t, state, next)
    PROVE  NodesPinned'
<1> DEFINE w == waiters[1]
<1>1. w \in Clients /\ Queued(w)
  BY DEF IInv, Types, QueueInv
<1>2. w # t /\ pc[w] = "parked" /\ wstate[w] = "queued"
  BY Zenon, <1>1 DEF Queued
<1>3. target'[t] = w /\ pinned' = pinned \union {w} /\ pc'[w] = "parked"
  BY Zenon, <1>1, <1>2 DEF CompleteFront, Set, Alone, IInv, Types
<1>4. wstate' = [wstate EXCEPT ![w] = state]
  BY Zenon DEF CompleteFront, Unlink, Set
<1> HIDE DEF w
<1>5. ASSUME NEW u \in Clients \ {t}, pc'[u] = "notify"
      PROVE  /\ pc[u] = "notify" /\ target'[u] = target[u] /\ target[u] \in Clients /\ target[u] # w
             /\ target[u] \in pinned /\ target[u] # t
             /\ pc'[target[u]] \in {"parked", "woken"} /\ wstate'[target[u]] # "queued"
  <2>1. pc[u] = "notify" /\ target'[u] = target[u]
    BY Zenon, <1>5 DEF Alone
  <2>2. target[u] \in pinned /\ pc[target[u]] \in {"parked", "woken"} /\ wstate[target[u]] # "queued"
    BY Zenon, <2>1 DEF NodesPinned
  <2>3. target[u] \in Clients /\ target[u] # w /\ target[u] # t
    BY Zenon, <1>2, <2>2 DEF IInv, Types
  <2> QED BY Zenon, <1>4, <2>1, <2>2, <2>3 DEF Alone, IInv, Types
<1>6. wstate'[w] # "queued"
  BY Zenon, <1>1, <1>4 DEF IInv, Types
<1>7. \A u, v \in Clients \ {t} : u # v /\ pc'[u] = "notify" /\ pc'[v] = "notify" => target'[u] # target'[v]
  BY <1>5 DEF NodesPinned
<1> QED
  BY <1>3, <1>5, <1>6, <1>7 DEF NodesPinned

\* notify_one() lets go of the node.
LEMMA PinNotify ==
    ASSUME IInv, NodesPinned, NEW t \in Clients, Alone(t), Notify(t)
    PROVE  NodesPinned'
<1>1. pc'[t] # "notify"
  BY Zenon DEF Notify, Set, IInv, Types, Coherent
<1>2. pc[t] = "notify" /\ pinned' = pinned \ {target[t]} /\ wstate' = wstate
  BY Zenon DEF Notify
<1>3. ASSUME NEW u \in Clients, pc'[u] = "notify"
      PROVE  /\ u # t /\ pc[u] = "notify" /\ target'[u] = target[u] /\ target[u] \in Clients
             /\ target[u] \in pinned' /\ target[u] # t
             /\ pc'[target[u]] \in {"parked", "woken"} /\ wstate'[target[u]] # "queued"
  <2>1. u # t /\ pc[u] = "notify" /\ target'[u] = target[u]
    BY Zenon, <1>1, <1>3 DEF Alone
  <2>2. target[u] \in pinned' /\ pc[target[u]] \in {"parked", "woken"} /\ wstate[target[u]] # "queued"
    BY Zenon, <1>2, <2>1 DEF NodesPinned
  <2>3. target[u] \in Clients /\ target[u] # t
    BY Zenon, <1>2, <2>2 DEF IInv, Types
  <2> QED BY Zenon, <1>2, <2>1, <2>2, <2>3 DEF Alone
<1>4. \A u, v \in Clients : u # v /\ pc'[u] = "notify" /\ pc'[v] = "notify" => target'[u] # target'[v]
  BY <1>3 DEF NodesPinned
<1> QED
  BY Zenon, <1>3, <1>4 DEF NodesPinned

\* A selected waiter does not leave before it has been notified.
LEMMA PinStep ==
    ASSUME IInv, NodesPinned, NEW t \in Clients, Acts(t)
    PROVE  NodesPinned'
<1>1. Alone(t)
  BY Zenon, ActsAlone
<1>2. /\ pc \in [Clients -> Labels] /\ wstate \in [Clients -> WaiterStates]
      /\ pc[t] = "scan" => call[t] \in {"try", "fast", "slow", "serve", "take"}
  BY Zenon DEF IInv, Types, Coherent
<1>3. CASE /\ pinned' = pinned /\ pc[t] # "notify" /\ pc'[t] # "notify"
           /\ \A u \in Clients \ {t} : wstate'[u] = wstate[u]
           /\ \/ t \notin pinned \/ pc[t] \notin {"parked", "woken"} \/ wstate[t] = "queued"
              \/ pc'[t] \in {"parked", "woken"} /\ wstate'[t] # "queued"
  BY Zenon, <1>1, <1>3, PinFrame
<1>4. {"timeout", "assigned", "shutdown"} \subseteq WaiterStates \ {"queued"}
  BY Zenon DEF WaiterStates
<1>5. CASE \E state \in {"timeout", "assigned", "shutdown"}, next \in Labels :
             waiters # <<>> /\ pc[t] \in {"handoff", "drain"} /\ CompleteFront(t, state, next)
  BY Zenon, <1>1, <1>4, <1>5, PinSelect
<1> USE CallerTable, Names DEF queue, locals, Set, Return, ReturnToken, Goto, StartScan
<1>6. CASE Handoff(t)
  BY Zenon, <1>2, <1>3, <1>5, <1>6 DEF Handoff, HandoffKeepsLock
<1>7. CASE Drain(t)
  BY Zenon, <1>2, <1>3, <1>5, <1>7 DEF Drain
<1>8. CASE Notify(t)
  BY Zenon, <1>1, <1>8, PinNotify
<1>9. CASE TimeOut(t) \/ Cancel(t) \/ Wake(t) \/ Deliver(t)
  BY SMTT(30), <1>2, <1>3, <1>9 DEF TimeOut, Cancel, Wake, Deliver, Unlink
<1>10. CASE Begin(t)
  BY Zenon, <1>2, <1>3, <1>9, <1>10 DEF Begin, TryAcquire, Acquire, QuarantineToken, TryReserve,
     TryTakeQuarantined, TryTakeIdle, Destroy, Rollback, Shutdown, Expire
<1>11. CASE Use(t)
  BY Zenon, <1>2, <1>3, <1>11 DEF Use, Release, Construct, Publish
<1>12. CASE ClaimBit(t) \/ ClaimMiss(t) \/ CheckClaim(t) \/ Quarantine(t) \/ Register(t) \/ SlowClaimed(t) \/ Park(t)
  BY SMTT(30), <1>2, <1>3, <1>12 DEF ClaimBit, ClaimMiss, CheckClaim, Quarantine, Register, SlowClaimed, Park
<1>13. CASE PublishCheck(t) \/ PublishBit(t) \/ RecheckClosed(t) \/ RecheckGate(t) \/ Relock(t) \/ Serve(t)
  BY Zenon, <1>2, <1>3, <1>13 DEF PublishCheck, PublishBit, RecheckClosed, RecheckGate, Relock, Serve
<1>14. CASE UnlockAndReturn(t) \/ TryTakeIdle(t) \/ TakeClaimed(t) \/ Sweep(t)
  BY Zenon, <1>2, <1>3, <1>14 DEF UnlockAndReturn, TryTakeIdle, TakeClaimed, Sweep
<1> QED
  <2> HIDE DEF queue, locals, Set, Return, ReturnToken, Goto, StartScan
  <2> QED
    BY ZenonT(40), <1>6, <1>7, <1>8, <1>9, <1>10, <1>11, <1>12, <1>13, <1>14 DEF Acts, Step

-----------------------------------------------------------------------------
(* Wake-ups *)

\* What a step of t must do about the idle bit of s while the pool is open: it
\* covers the bit, or nobody wants it, or the bit was there, t did not cover it
\* and the step brings nobody new who wants it.
Attends(t, s) ==
    \/ Covers(t, s)'
    \/ ~Wanted(s)'
    \/ /\ s \in bits
       /\ ~Covers(t, s)
       /\ waiters' # <<>> => waiters # <<>> \/ Passed(t, s)
       /\ Passed(t, s)' => Passed(t, s)

LEMMA CoverFrame ==
    ASSUME IInv, BitsCovered, NEW t \in Clients, Alone(t), ~Closed, \A s \in bits' : Attends(t, s)
    PROVE  BitsCovered'
<1> SUFFICES ASSUME NEW s \in bits', Wanted(s)', ~Covers(t, s)'
             PROVE  \E u \in Clients : Covers(u, s)'
  BY Zenon DEF BitsCovered
<1>1. /\ s \in bits
      /\ ~Covers(t, s)
      /\ waiters' # <<>> => waiters # <<>> \/ Passed(t, s)
      /\ Passed(t, s)' => Passed(t, s)
  BY Zenon DEF Attends
<1>2. \A u \in Clients \ {t} : Passed(u, s)' <=> Passed(u, s)
  BY Zenon DEF Alone, Passed
<1>3. Wanted(s)
  BY Zenon, <1>1, <1>2 DEF Wanted
<1>4. PICK u \in Clients : Covers(u, s)
  BY Zenon, <1>1, <1>3 DEF BitsCovered
<1>5. u # t
  BY Zenon, <1>1, <1>4
<1> QED
  BY Zenon, <1>4, <1>5 DEF Alone, Covers, WillServe

\* A scan that sees a word empty has missed no bit of it.
LEMMA AttendsMiss ==
    ASSUME IInv, NEW t \in Clients, ClaimMiss(t), NEW s \in bits'
    PROVE  Attends(t, s)
<1>1. /\ word \in [Clients -> 0 .. LastWord] /\ pc \in [Clients -> Labels] /\ call \in [Clients -> Callers]
      /\ call[t] \in {"try", "fast", "slow", "serve", "take"} /\ pc[t] = "scan"
  BY Zenon DEF IInv, Types, Coherent, ClaimMiss
<1>2. s \in bits /\ s \in Slots /\ WordOf(s) # word[t] /\ waiters' = waiters
  BY Zenon DEF ClaimMiss, Hits, IInv, Types, queue
<1>3. WordOf(s) \in 0 .. LastWord /\ LastWord \in Nat /\ word[t] \in 0 .. LastWord
  BY Zenon, <1>1, <1>2, WordFacts
<1> USE <1>1, <1>2, <1>3 DEF Attends, Covers, WillServe, Passed, Set
<1>4. CASE pc' = pc
  BY <1>4 DEF ClaimMiss, Return
<1>5. CASE word[t] = LastWord /\ pc'[t] = Missed[call[t]]
  BY <1>5, CallerTable
<1> QED
  BY Zenon, <1>4, <1>5 DEF ClaimMiss, Return

\* A handoff leaves a slot idle only when nobody is queued or registering.
LEMMA AttendsHandoff ==
    ASSUME IInv, NEW t \in Clients, Alone(t), Handoff(t), ~Closed, NEW s \in bits'
    PROVE  Attends(t, s)
<1>1. /\ pc \in [Clients -> Labels] /\ call \in [Clients -> Callers] /\ after \in [Clients -> Labels]
      /\ pc[t] = "handoff" /\ mutex = t /\ ~Registering(t)
  BY Zenon DEF IInv, Types, Coherent, HoldsLock, LockedLabels, Handoff, Registering
<1>2. CASE waiters = <<>>
  <2>1. pc'[t] \in {"serve", "unlock"} /\ waiters' = <<>>
    BY Zenon, <1>1, <1>2 DEF Handoff, HandoffKeepsLock, queue, Set
  <2>2. Registrants' = {}
    <3>1. \A u \in Clients : ~Registering(u)
      BY Zenon, <1>1, OneRegistrant DEF Registrants
    <3> QED BY Zenon, <2>1, <3>1 DEF Registrants, Registering, Alone
  <2>3. ~Wanted(s)'
    BY Zenon, <2>1, <2>2 DEF Wanted, Passed, Registrants, Registering
  <2> QED BY Zenon, <2>3 DEF Attends
<1>3. CASE waiters # <<>>
  <2>1. /\ pc'[t] = "notify" /\ s \in bits /\ call' = call
        /\ call[t] = "serve" => after'[t] \in {"handoff_lock", "serve_lock"}
    BY Zenon, <1>1, <1>3 DEF Handoff, CompleteFront, Set
  <2> QED BY Zenon, <1>1, <1>3, <2>1 DEF Attends, Covers, WillServe, Passed
<1> QED
  BY Zenon, <1>2, <1>3

\* Every step attends to every idle bit: a publisher looks at the gate after it
\* has set its bit, a registration raises the gate before it scans, and whoever
\* serves the queue scans all words or leaves the rest to a later publisher.
LEMMA AttendsStep ==
    ASSUME IInv, GateExact, ScansStart, NEW t \in Clients, Acts(t), ~Closed, phase' = phase, NEW s \in bits'
    PROVE  Attends(t, s)
<1>1. Alone(t)
  BY Zenon, ActsAlone
<1>2. /\ pc \in [Clients -> Labels] /\ call \in [Clients -> Callers] /\ after \in [Clients -> Labels]
      /\ word \in [Clients -> 0 .. LastWord] /\ waiters \in Seq(Clients) /\ bits \subseteq Slots
      /\ pc[t] = "scan" => call[t] \in {"try", "fast", "slow", "serve", "take"}
      /\ pc[t] = "notify" => after[t] \in {"handoff_lock", "serve_lock", "drain_lock", "ready"}
  BY Zenon DEF IInv, Types, Coherent
<1> DEFINE Quiet == /\ s \in bits /\ ~Covers(t, s) /\ (Passed(t, s)' => Passed(t, s))
                    /\ waiters' # <<>> => waiters # <<>> \/ Passed(t, s)
<1>3. CASE Quiet
  BY Zenon, <1>3 DEF Attends
<1>4. CASE WillServe(t)'
  BY Zenon, <1>4 DEF Attends, Covers
<1>5. CASE ClaimMiss(t)
  BY Zenon, <1>5, AttendsMiss
<1>6. CASE Handoff(t)
  BY Zenon, <1>1, <1>6, AttendsHandoff
<1>7. CASE RecheckGate(t) /\ gate = 0
  <2>1. waiters = <<>> /\ Registrants = {}
    <3>1. Len(waiters) \in Nat /\ Cardinality(Registrants) \in {0, 1}
      BY <1>2, OneRegistrant
    <3>2. Len(waiters) = 0 /\ Cardinality(Registrants) = 0
      BY <1>7, <3>1 DEF GateExact
    <3>3. IsFiniteSet(Registrants)
      <4>1. Registrants \subseteq {mutex}
        BY Zenon DEF Registrants, IInv, Coherent, HoldsLock, LockedLabels, Registering
      <4> QED BY Zenon, <4>1, FS_Singleton, FS_Subset
    <3> QED BY <1>2, <3>2, <3>3, FS_EmptySet
  <2>2. waiters' = <<>> /\ ~Registering(t)'
    BY Zenon, <1>2, <1>7, <2>1 DEF RecheckGate, Return, queue, Set, Registering
  <2>3. Registrants' = {}
    BY Zenon, <1>1, <2>1, <2>2 DEF Registrants, Registering, Alone
  <2>4. ~Wanted(s)'
    BY Zenon, <2>2, <2>3 DEF Wanted, Passed, Registrants, Registering
  <2> QED BY Zenon, <2>4 DEF Attends
<1>8. CASE Serve(t)
  <2>1. CASE waiters = <<>>
    <3>1. waiters' = <<>> /\ ~Registering(t) /\ ~Registering(t)' /\ mutex = t
      BY Zenon, <1>2, <1>8, <2>1 DEF Serve, Goto, queue, Set, Registering, IInv, Coherent, HoldsLock, LockedLabels
    <3>2. Registrants = {}
      BY Zenon, <3>1, OneRegistrant
    <3>3. Registrants' = {}
      BY Zenon, <1>1, <3>1, <3>2 DEF Registrants, Registering, Alone
    <3>4. ~Wanted(s)'
      BY Zenon, <3>1, <3>3 DEF Wanted, Passed, Registrants, Registering
    <3> QED BY Zenon, <3>4 DEF Attends
  <2>2. CASE waiters # <<>>
    <3>1. s \in Slots
      BY Zenon, <1>2, <1>8 DEF Serve
    <3>2. pc'[t] = "scan" /\ call'[t] = "serve" /\ word'[t] = 0 /\ 0 <= WordOf(s)
      BY <1>2, <1>8, <2>2, <3>1, WordFacts DEF Serve, StartScan, Set
    <3> QED BY Zenon, <3>2 DEF Attends, Covers
  <2> QED BY Zenon, <2>1, <2>2
<1>9. CASE PublishBit(t) \/ TakeClaimed(t) \/ RecheckClosed(t) \/ (RecheckGate(t) /\ gate # 0)
  BY Zenon, <1>2, <1>3, <1>4, <1>9 DEF PublishBit, TakeClaimed, RecheckClosed, RecheckGate, Goto, Set,
     ReturnToken, WillServe, Covers, Passed, queue
<1>10. CASE Relock(t) \/ Notify(t)
  BY Zenon, <1>2, <1>3, <1>4, <1>10 DEF Relock, Notify, Set, WillServe, Covers, Passed, queue, locals
<1>11. CASE ClaimBit(t)
  BY Zenon, <1>2, <1>3, <1>4, <1>11, CallerTable DEF ClaimBit, Set, WillServe, Covers, Passed, queue
<1>12. CASE Park(t)
  BY Zenon, <1>2, <1>3, <1>12 DEF Park, Set, WillServe, Covers, Passed
<1> USE <1>2, <1>3, <1>4 DEF queue, locals, Covers, WillServe, Passed, Set, Return, ReturnToken, Goto, StartScan
<1>13. CASE Register(t)
  <2>1. s \in Slots /\ WordOf(s) \in Nat
    BY <1>13, WordFacts DEF Register
  <2> QED BY SMTT(30), <1>13, <2>1 DEF Register
<1>14. CASE TimeOut(t) \/ Cancel(t) \/ Drain(t)
  <2>1. waiters' # <<>> => waiters # <<>>
    BY <1>14 DEF TimeOut, Cancel, Drain
  <2> QED BY Zenon, <1>14, <2>1 DEF TimeOut, Cancel, Drain, CompleteFront
<1>15. CASE Begin(t)
  BY Zenon, <1>14, <1>15 DEF Begin, TryAcquire, Acquire, QuarantineToken, TryReserve, TryTakeQuarantined,
     TryTakeIdle, Destroy, Rollback, Shutdown, Expire, Wake
<1>16. CASE Use(t)
  BY Zenon, <1>16 DEF Use, Release, Construct, Publish
<1>17. CASE CheckClaim(t) \/ Quarantine(t) \/ SlowClaimed(t) \/ Wake(t) \/ Deliver(t) \/ PublishCheck(t)
  BY Zenon, <1>17 DEF CheckClaim, Quarantine, SlowClaimed, Wake, Deliver, PublishCheck
<1>18. CASE UnlockAndReturn(t) \/ TryTakeIdle(t) \/ Sweep(t)
  BY Zenon, <1>18 DEF UnlockAndReturn, TryTakeIdle, Sweep
<1> QED
  <2> HIDE <1>2, <1>3, <1>4 DEF queue, locals, Covers, WillServe, Passed, Set, Return, ReturnToken, Goto, StartScan
  <2> QED BY ZenonT(60), <1>5, <1>6, <1>7, <1>8, <1>9, <1>10, <1>11, <1>12, <1>13, <1>14, <1>15, <1>16, <1>17,
             <1>18 DEF Acts, Step

\* What a step of t must do on a closed pool: it does not register, an idle bit
\* or a queued waiter that it was to deal with is gone or still its concern, and
\* it brings no other.
Finishes(t) ==
    /\ ~Registering(t)'
    /\ \A s \in bits' : Withdraws(t, s)' \/ (s \in bits /\ ~Withdraws(t, s))
    /\ waiters' # <<>> => Rejects(t)' \/ (waiters # <<>> /\ ~Rejects(t))

LEMMA ClosureFrame ==
    ASSUME ClosureCovered, NEW t \in Clients, Alone(t), Closed, Finishes(t)
    PROVE  ClosureCovered'
<1>1. Registrants' = {}
  BY Zenon DEF ClosureCovered, Registrants, Registering, Alone, Finishes
<1>2. ASSUME NEW s \in bits' PROVE \E u \in Clients : Withdraws(u, s)'
  <2>1. CASE Withdraws(t, s)'
    BY Zenon, <2>1
  <2>2. CASE s \in bits /\ ~Withdraws(t, s)
    BY Zenon, <2>2 DEF ClosureCovered, Withdraws, Alone
  <2> QED BY Zenon, <2>1, <2>2 DEF Finishes
<1>3. waiters' # <<>> => \E u \in Clients : Rejects(u)'
  <2>1. CASE Rejects(t)'
    BY Zenon, <2>1
  <2>2. CASE waiters # <<>> /\ ~Rejects(t)
    BY Zenon, <2>2 DEF ClosureCovered, Rejects, Alone
  <2> QED BY Zenon, <2>1, <2>2 DEF Finishes
<1> QED
  BY Zenon, <1>1, <1>2, <1>3 DEF ClosureCovered

\* The sweep goes through all the words and the drain through the whole queue;
\* publishers that missed the closure take their bits back.
LEMMA FinishesStep ==
    ASSUME IInv, ClosureCovered, NEW t \in Clients, Acts(t), Closed
    PROVE  Finishes(t)
<1>1. /\ pc \in [Clients -> Labels] /\ call \in [Clients -> Callers] /\ after \in [Clients -> Labels]
      /\ slot \in [Clients -> Slots \union {NoSlot}] /\ word \in [Clients -> 0 .. LastWord]
      /\ waiters \in Seq(Clients) /\ bits \subseteq Slots
      /\ pc[t] = "scan" => call[t] \in {"try", "fast", "slow", "serve", "take"}
      /\ pc[t] = "notify" => after[t] \in {"handoff_lock", "serve_lock", "drain_lock", "ready"}
      /\ ~Registering(t)
  BY Zenon DEF IInv, Types, Coherent, ClosureCovered, Registrants
<1>2. CASE Sweep(t)
  <2>1. pc[t] = "sweep" /\ word[t] \in 0 .. LastWord /\ LastWord \in Nat /\ waiters' = waiters
    BY Zenon, <1>1, <1>2, WordFacts DEF Sweep, queue
  <2>2. Rejects(t)' /\ ~Registering(t)'
    BY Zenon, <1>1, <1>2 DEF Sweep, Set, Rejects, Registering
  <2>3. ASSUME NEW s \in bits' PROVE Withdraws(t, s)' \/ (s \in bits /\ ~Withdraws(t, s))
    <3>1. s \in bits /\ WordOf(s) # word[t]
      BY Zenon, <1>2 DEF Sweep, Hits
    <3>2. WordOf(s) \in 0 .. LastWord
      BY Zenon, <1>1, <3>1, WordFacts
    <3> QED BY <1>1, <1>2, <2>1, <3>1, <3>2 DEF Sweep, Set, Withdraws
  <2> QED BY Zenon, <2>2, <2>3 DEF Finishes
<1>3. CASE Drain(t)
  BY Zenon, <1>1, <1>3 DEF Drain, CompleteFront, Goto, Set, Finishes, Withdraws, Rejects, Registering, locals, queue
<1>4. CASE TimeOut(t) \/ Cancel(t)
  <2>1. waiters' # <<>> => waiters # <<>>
    BY <1>1, <1>4 DEF TimeOut, Cancel
  <2> QED BY Zenon, <1>1, <1>4, <2>1 DEF TimeOut, Cancel, Return, Set, Finishes, Withdraws, Rejects, Registering, locals, queue
<1> USE <1>1, CallerTable
    DEF queue, locals, Finishes, Withdraws, Rejects, Registering, Set, Return, ReturnToken, Goto, StartScan
<1>5. CASE Begin(t)
  BY Zenon, <1>4, <1>5 DEF Begin, TryAcquire, Acquire, QuarantineToken, TryReserve, TryTakeQuarantined,
     TryTakeIdle, Destroy, Rollback, Shutdown, Expire, Wake
<1>6. CASE Use(t)
  BY ZenonT(40), <1>6 DEF Use, Release, Construct, Publish
<1>7. CASE ClaimBit(t) \/ ClaimMiss(t) \/ CheckClaim(t) \/ Quarantine(t)
  <2>1. CASE ClaimBit(t) \/ Quarantine(t)
    BY SMTT(30), <2>1 DEF ClaimBit, Quarantine
  <2>2. CASE ClaimMiss(t)
    BY SMTT(30), <2>2 DEF ClaimMiss
  <2>3. CASE CheckClaim(t)
    BY SMTT(30), <2>3 DEF CheckClaim
  <2> QED BY Zenon, <1>7, <2>1, <2>2, <2>3
<1>8. CASE Register(t) \/ SlowClaimed(t) \/ Park(t) \/ Wake(t) \/ Deliver(t) \/ PublishCheck(t)
  BY SMTT(30), <1>8 DEF Register, SlowClaimed, Park, Wake, Deliver, PublishCheck
<1>9. CASE PublishBit(t) \/ RecheckClosed(t) \/ RecheckGate(t) \/ Relock(t)
  BY SMTT(30), <1>9 DEF PublishBit, MakeIdle, RecheckClosed, RecheckGate, Relock
<1>10. CASE Handoff(t) \/ Notify(t) \/ Serve(t) \/ UnlockAndReturn(t)
  BY SMTT(30), <1>10 DEF Handoff, HandoffKeepsLock, Notify, Serve, UnlockAndReturn
<1>11. CASE TryTakeIdle(t) \/ TakeClaimed(t)
  BY SMTT(30), <1>11 DEF TryTakeIdle, TakeClaimed
<1> QED
  <2> HIDE <1>1 DEF queue, locals, Finishes, Withdraws, Rejects, Registering, Set, Return, ReturnToken, Goto, StartScan
  <2> QED BY ZenonT(60), <1>2, <1>3, <1>4, <1>5, <1>6, <1>7, <1>8, <1>9, <1>10, <1>11 DEF Acts, Step

\* Closing takes the mutex, so no registration is in progress; the sweep starts
\* at the first word.
LEMMA ClosureStarts ==
    ASSUME IInv, IInv', ScansStart, NEW t \in Clients, Shutdown(t)
    PROVE  ClosureCovered'
<1>1. pc'[t] = "sweep" /\ word'[t] = 0 /\ mutex' = t
  BY Zenon DEF Shutdown, Lock, Goto, Set, locals, IInv, Types, ScansStart
<1>2. ASSUME NEW u \in Clients PROVE ~Registering(u)'
  <2>1. Registering(u)' => mutex' = u
    BY Zenon DEF IInv, Coherent, HoldsLock, LockedLabels, Registering
  <2> QED BY Zenon, <1>1, <2>1 DEF Registering
<1>3. ASSUME NEW s \in bits' PROVE Withdraws(t, s)'
  <2>1. s \in Slots
    BY Zenon DEF IInv, Types
  <2>2. 0 <= WordOf(s)
    BY <2>1, WordFacts
  <2> QED BY Zenon, <1>1, <2>2 DEF Withdraws
<1>4. Rejects(t)'
  BY Zenon, <1>1 DEF Rejects
<1> QED
  BY Zenon, <1>2, <1>3, <1>4 DEF ClosureCovered, Registrants

-----------------------------------------------------------------------------
(* Theorems *)

LEMMA InitWInv == Init => WInv
<1> SUFFICES ASSUME Init PROVE WInv
  OBVIOUS
<1> USE DEF Init
<1>1. CountersExact
  <2>1. {s \in Slots : states[s] \in {"reserved"}} = {} /\ {s \in Slots : states[s] \in {"idle", "borrowed"}} = {}
    OBVIOUS
  <2> QED BY Zenon, <2>1, FS_EmptySet DEF CountersExact, Count
<1>2. GateExact
  <2>1. Registrants = {}
    BY Zenon DEF Registrants, Registering
  <2> QED BY <2>1, FS_EmptySet DEF GateExact
<1>3. NodesPinned /\ ScansStart /\ BitsCovered /\ ClosureCovered
  BY Zenon DEF NodesPinned, ScansStart, BitsCovered, ClosureCovered, Closed
<1> QED
  BY Zenon, <1>1, <1>2, <1>3 DEF WInv

\* Only shutdown closes the pool, once.
LEMMA PhaseStep ==
    ASSUME NEW t \in Clients, Acts(t)
    PROVE  phase' = phase \/ Shutdown(t)
<1>1. CASE Begin(t)
  BY Zenon, <1>1 DEF Begin, TryAcquire, Acquire, QuarantineToken, TryReserve, TryTakeQuarantined, TryTakeIdle, Destroy,
     Rollback, Expire, Cancel, Wake
<1>2. CASE Use(t)
  BY Zenon, <1>2 DEF Use, Release, Construct, Publish
<1>3. CASE Step(t)
  BY Zenon, <1>3 DEF Step, ClaimBit, ClaimMiss, CheckClaim, Quarantine, Register, SlowClaimed, Park, TimeOut, Wake,
     Deliver, PublishCheck, PublishBit, RecheckClosed, RecheckGate, Relock, Handoff, Notify, Serve,
     UnlockAndReturn, TryTakeIdle, TakeClaimed, Sweep, Drain
<1> QED
  BY Zenon, <1>1, <1>2, <1>3 DEF Acts

LEMMA WInvStep == IInv /\ IInv' /\ WInv /\ [Next]_vars => WInv'
<1> SUFFICES ASSUME IInv, IInv', WInv, [Next]_vars PROVE WInv'
  OBVIOUS
<1>1. CASE UNCHANGED vars
  <2>1. UNCHANGED <<states, reserved, usable, gate, waiters, pinned, wstate, bits, phase, pc, call, slot, word,
                    target, after>>
    BY Zenon, <1>1 DEF vars, inventory, queue, locals
  <2>2. CountersExact' /\ GateExact' /\ NodesPinned' /\ ScansStart'
    BY Zenon, <2>1 DEF WInv, CountersExact, GateExact, NodesPinned, ScansStart, Registrants, Registering
  <2>3. BitsCovered'
    BY Zenon, <2>1 DEF WInv, BitsCovered, Closed, Wanted, Passed, Covers, WillServe
  <2>4. ClosureCovered'
    BY Zenon, <2>1 DEF WInv, ClosureCovered, Closed, Registrants, Registering, Withdraws, Rejects
  <2> QED BY Zenon, <2>2, <2>3, <2>4 DEF WInv
<1>2. ASSUME NEW t \in Clients, Acts(t) PROVE WInv'
  <2>1. CountersExact' /\ GateExact' /\ NodesPinned' /\ ScansStart' /\ Alone(t)
    BY Zenon, <1>2, CountersStep, GateStep, PinStep, ScansStep, ActsAlone DEF WInv
  <2>2. CASE phase' = phase /\ Closed
    <3>1. BitsCovered'
      BY Zenon, <2>2 DEF BitsCovered, Closed
    <3>2. ClosureCovered'
      BY Zenon, <1>2, <2>1, <2>2, FinishesStep, ClosureFrame DEF WInv
    <3> QED BY Zenon, <2>1, <3>1, <3>2 DEF WInv
  <2>3. CASE phase' = phase /\ ~Closed
    <3>1. BitsCovered'
      BY Zenon, <1>2, <2>1, <2>3, AttendsStep, CoverFrame DEF WInv
    <3>2. ClosureCovered'
      BY Zenon, <2>3 DEF ClosureCovered, Closed
    <3> QED BY Zenon, <2>1, <3>1, <3>2 DEF WInv
  <2>4. CASE Shutdown(t)
    <3>1. BitsCovered'
      BY Zenon, <2>4 DEF BitsCovered, Closed, Shutdown
    <3>2. ClosureCovered'
      BY Zenon, <2>4, ClosureStarts DEF WInv
    <3> QED BY Zenon, <2>1, <3>1, <3>2 DEF WInv
  <2> QED BY Zenon, <1>2, <2>2, <2>3, <2>4, PhaseStep
<1> QED
  BY Zenon, <1>1, <1>2 DEF Next, Acts

\* The second invariant of the pool: exact counters and gate, pinned nodes, and
\* somebody on the way to every idle bit that a waiter needs.
THEOREM WakeupInvariance == Spec => [](IInv /\ WInv)
<1>1. Init => WInv
  BY Zenon, InitWInv
<1>2. IInv /\ IInv' /\ WInv /\ [Next]_vars => WInv'
  BY Zenon, WInvStep
<1> QED
  BY <1>1, <1>2, Invariance, PTL DEF Spec

\* Every variable of the pool keeps its type, for any number of clients, slots
\* and bits per word.
THEOREM TypeCorrect == Spec => []TypeOK
<1>1. IInv /\ WInv => TypeOK
  <2> SUFFICES ASSUME IInv, WInv PROVE TypeOK
    OBVIOUS
  <2>1. usable \in Int /\ reserved \in Int
    BY CountType DEF WInv, CountersExact
  <2> QED BY Zenon, <2>1 DEF IInv, Types, TypeOK
<1> QED
  BY <1>1, WakeupInvariance, PTL

\* The slots are partitioned by their states.
LEMMA Partition == IInv /\ CountersExact => Conservation
<1> SUFFICES ASSUME IInv, CountersExact PROVE Conservation
  OBVIOUS
<1> DEFINE R == {s \in Slots : states[s] \in {"reserved"}}
<1> DEFINE U == {s \in Slots : states[s] \in {"idle", "borrowed"}}
<1>1. reserved = Cardinality(R) /\ usable = Cardinality(U)
  BY Zenon DEF CountersExact, Count
<1>2. IsFiniteSet(Slots) /\ Cardinality(Slots) = Capacity
  BY FS_Interval, PoolAssumption DEF Slots
<1>3. /\ R \subseteq Slots /\ U \subseteq Slots /\ vacant \subseteq Slots /\ quarantined \subseteq Slots
      /\ Slots = (vacant \union R) \union (quarantined \union U) /\ bits \subseteq U
      /\ vacant \intersect R = {} /\ quarantined \intersect U = {}
      /\ (vacant \union R) \intersect (quarantined \union U) = {}
  BY Zenon DEF IInv, Types, SlotStates, RegistriesAgree
<1> HIDE DEF R, U
<1>4. IsFiniteSet(R) /\ IsFiniteSet(U) /\ IsFiniteSet(vacant) /\ IsFiniteSet(quarantined)
  BY Zenon, <1>2, <1>3, FS_Subset
<1>5. /\ Cardinality(R) \in Nat /\ Cardinality(U) \in Nat
      /\ Cardinality(vacant) \in Nat /\ Cardinality(quarantined) \in Nat
  BY Zenon, <1>4, FS_CardinalityType
<1>6. IsFiniteSet(vacant \union R) /\ Cardinality(vacant \union R) = Cardinality(vacant) + Cardinality(R)
  BY Zenon, <1>3, <1>4, DisjointUnion
<1>7. IsFiniteSet(quarantined \union U) /\ Cardinality(quarantined \union U) = Cardinality(quarantined) + Cardinality(U)
  BY Zenon, <1>3, <1>4, DisjointUnion
<1>8. Cardinality(Slots) = Cardinality(vacant \union R) + Cardinality(quarantined \union U)
  BY Zenon, <1>3, <1>6, <1>7, DisjointUnion
<1>9. Cardinality(bits) <= Cardinality(U)
  BY Zenon, <1>3, <1>4, FS_Subset
<1> QED
  BY SMTT(30), <1>1, <1>2, <1>5, <1>6, <1>7, <1>8, <1>9 DEF Conservation

\* The equations of assert_invariants_locked hold at every step, not only under
\* the mutex: the counters conserve the slots, the gate counts the waiters and
\* the registration in progress, and a selected node outlives its notification.
THEOREM CountersTrue == Spec => []WaitersCounted
<1>1. IInv /\ WInv => GateCountsWaiters
  <2> SUFFICES ASSUME IInv, WInv PROVE GateCountsWaiters
    OBVIOUS
  <2>1. gate = Len(waiters) + Cardinality({t \in Clients : Registering(t)})
    BY Zenon DEF WInv, GateExact, Registrants
  <2>2. waiters \in Seq(Clients)
    BY Zenon DEF IInv, Types
  <2>3. {waiters[i] : i \in DOMAIN waiters} = {t \in Clients : pc[t] = "parked" /\ wstate[t] = "queued"}
    BY <2>2 DEF IInv, QueueInv, Queued
  <2> QED BY Zenon, <2>1, <2>3 DEF GateCountsWaiters
<1>2. IInv /\ WInv => NotifiedNodeAlive
  BY Zenon DEF WInv, NodesPinned, NotifiedNodeAlive
<1>3. IInv /\ WInv => WaitersCounted
  BY Zenon, <1>1, <1>2, Partition DEF WInv, WaitersCounted
<1> QED
  BY <1>3, WakeupInvariance, PTL

\* No interleaving of publication, registration, handoff, maintenance and
\* shutdown loses a wake-up: when every operation is over nobody is queued next
\* to an idle slot, and after shutdown nobody is queued and no slot is idle.
THEOREM NobodyMissed == Spec => []NobodyForgotten
<1>1. IInv /\ WInv => NobodyForgotten
  <2> SUFFICES ASSUME WInv, \A t \in Clients : AtRest(t)
               PROVE  (waiters = <<>> \/ bits = {}) /\ (Closed => waiters = <<>> /\ bits = {})
    BY Zenon DEF NobodyForgotten, NoLostWakeup, ShutdownComplete
  <2>1. \A t \in Clients : ~Rejects(t)
    BY Zenon DEF AtRest, Rejects
  <2>2. \A t \in Clients, s \in bits : ~Withdraws(t, s)
    BY Zenon DEF AtRest, Withdraws
  <2>3. \A t \in Clients, s \in bits : ~Covers(t, s)
    BY Zenon DEF AtRest, Covers, WillServe
  <2>4. CASE Closed
    BY Zenon, <2>1, <2>2, <2>4 DEF WInv, ClosureCovered
  <2>5. CASE ~Closed
    BY Zenon, <2>3, <2>5 DEF WInv, BitsCovered, Wanted
  <2> QED BY Zenon, <2>4, <2>5
<1> QED
  BY <1>1, WakeupInvariance, PTL
=============================================================================
