------------------------ MODULE ConnectionPoolProofs ------------------------
(***************************************************************************)
(* Safety of ConnectionPool for every number of threads, coroutines and    *)
(* connections.                                                            *)
(***************************************************************************)
EXTENDS ConnectionPool, Arithmetic

In(q, x) == \E i \in DOMAIN q : q[i] = x
Distinct(q) == \A i, j \in DOMAIN q : i # j => q[i] # q[j]

\* TypeOK without the mode and the threads woken, which no other variable of the
\* invariant depends on.
Types ==
    /\ phase \in {"open", "closing", "closed"}
    /\ holders \subseteq Holders
    /\ free \in Seq(Holders)
    /\ waiters \in Seq(Clients)
    /\ created \in Nat
    /\ pc \in [Clients -> Labels]
    /\ slot \in [Clients -> Holders \union {NoHolder}]
    /\ ready \subseteq Threads
    /\ claimed \subseteq Coroutines
    /\ target \in [Clients -> Clients \union {NoClient}]
    /\ leaked \subseteq Holders

\* One owner for each holder, counting the free list as one.
Exclusive ==
    /\ \A t, u \in Clients : t # u /\ Owner(t) /\ Owner(u) => slot[t] # slot[u]
    /\ \A t \in Clients : Owner(t) => ~In(free, slot[t])
    /\ Distinct(free)

\* Every holder has one, and every owner a holder of holders_, until shutdown.
Accounted ==
    /\ \A h \in Holders : In(free, h) => h \in holders
    /\ ~ShutDown => \A t \in Clients : Owner(t) => slot[t] \in holders
    /\ ~ShutDown => created = Cardinality(holders)
    /\ ~ShutDown => \A h \in holders :
        In(free, h) \/ h \in leaked \/ \E t \in Clients : Owner(t) /\ slot[t] = h

\* The queue holds the clients that wait and have no answer.
Queued ==
    /\ Distinct(waiters)
    /\ \A t \in Clients : In(waiters, t) => pc[t] = "waiting" /\ t \notin ready \union claimed
    /\ \A t \in Clients : pc[t] = "waiting" => In(waiters, t) \/ t \in ready \/ (t \in Threads /\ ShutDown)

\* A client has a holder exactly where the code has one, and a waiting thread
\* when it has been assigned one.
SlotsFit ==
    /\ \A t \in Clients : pc[t] \in {"ready", "creating", "draining"} => slot[t] = NoHolder
    /\ \A t \in Clients : pc[t] \in {"holding", "resetting"} => slot[t] # NoHolder
    /\ \A t \in Clients : pc[t] = "waiting" => (slot[t] # NoHolder <=> t \in ready)
    /\ \A t \in ready : pc[t] = "waiting"

Core == Types /\ Exclusive /\ Accounted /\ Queued /\ SlotsFit

IInv == TypeOK /\ Core

-----------------------------------------------------------------------------
(* Sequences without repetitions *)

\* The first element is taken.
LEMMA TailFacts ==
    ASSUME NEW S, NEW q \in Seq(S), q # <<>>
    PROVE  /\ Tail(q) \in Seq(S) /\ Head(q) \in S /\ In(q, Head(q))
           /\ Distinct(q) => Distinct(Tail(q)) /\ \A x : In(Tail(q), x) <=> In(q, x) /\ x # Head(q)
<1>1. /\ Tail(q) \in Seq(S) /\ Len(q) >= 1 /\ Len(Tail(q)) = Len(q) - 1 /\ Head(q) = q[1] /\ q[1] \in S
      /\ \A i \in 1 .. Len(q) - 1 : Tail(q)[i] = q[i + 1]
  OBVIOUS
<1>2. DOMAIN q = 1 .. Len(q) /\ DOMAIN Tail(q) = 1 .. Len(q) - 1 /\ Len(q) \in Nat
  BY <1>1
<1>3. \A i \in 1 .. Len(q) : i = 1 \/ (i - 1 \in 1 .. Len(q) - 1 /\ Tail(q)[i - 1] = q[i])
  BY <1>1, <1>2
<1>4. ASSUME Distinct(q) PROVE Distinct(Tail(q))
  BY <1>1, <1>2, <1>4 DEF Distinct
<1>5. ASSUME Distinct(q), NEW x PROVE In(Tail(q), x) <=> In(q, x) /\ x # Head(q)
  <2>1. In(Tail(q), x) => In(q, x) /\ x # Head(q)
    <3> SUFFICES ASSUME NEW i \in 1 .. Len(q) - 1, Tail(q)[i] = x PROVE In(q, x) /\ x # q[1]
      BY Zenon, <1>1, <1>2 DEF In
    <3>1. i + 1 \in 1 .. Len(q) /\ i + 1 # 1 /\ q[i + 1] = x
      BY <1>1, <1>2
    <3> QED BY <1>1, <1>2, <1>5, <3>1 DEF Distinct, In
  <2>2. In(q, x) /\ x # Head(q) => In(Tail(q), x)
    BY Zenon, <1>1, <1>2, <1>3 DEF In
  <2> QED BY Zenon, <2>1, <2>2
<1>6. In(q, Head(q))
  BY <1>1, <1>2 DEF In
<1> QED
  BY Zenon, <1>1, <1>4, <1>5, <1>6

\* An element is added at the end.
LEMMA AppendFacts ==
    ASSUME NEW S, NEW q \in Seq(S), NEW e \in S
    PROVE  /\ Append(q, e) \in Seq(S)
           /\ \A x : In(Append(q, e), x) <=> In(q, x) \/ x = e
           /\ Distinct(q) /\ ~In(q, e) => Distinct(Append(q, e))
<1>1. /\ Append(q, e) \in Seq(S) /\ Len(Append(q, e)) = Len(q) + 1 /\ Append(q, e)[Len(q) + 1] = e
      /\ \A i \in 1 .. Len(q) : Append(q, e)[i] = q[i]
  OBVIOUS
<1>2. DOMAIN q = 1 .. Len(q) /\ DOMAIN Append(q, e) = 1 .. Len(q) + 1 /\ Len(q) \in Nat
  BY <1>1
<1>3. ASSUME NEW x PROVE In(Append(q, e), x) <=> In(q, x) \/ x = e
  BY <1>1, <1>2 DEF In
<1>4. ASSUME Distinct(q), ~In(q, e) PROVE Distinct(Append(q, e))
  BY <1>1, <1>2, <1>4 DEF In, Distinct
<1> QED
  BY Zenon, <1>1, <1>3, <1>4

\* An element is erased.
LEMMA EraseFacts ==
    ASSUME NEW S, NEW q \in Seq(S), NEW i \in 1 .. Len(q), NEW p,
           p = [k \in 1 .. Len(q) - 1 |-> q[IF k < i THEN k ELSE k + 1]]
    PROVE  /\ p \in Seq(S)
           /\ Distinct(q) => Distinct(p) /\ \A x : In(p, x) <=> In(q, x) /\ x # q[i]
<1>1. DOMAIN q = 1 .. Len(q) /\ DOMAIN p = 1 .. Len(q) - 1 /\ Len(q) \in Nat /\ Len(q) - 1 \in Nat
      /\ \A k \in 1 .. Len(q) : q[k] \in S
  OBVIOUS
<1>2. \A k \in 1 .. Len(q) - 1 : p[k] = q[IF k < i THEN k ELSE k + 1] /\ (IF k < i THEN k ELSE k + 1) \in 1 .. Len(q)
  BY <1>1
<1>3. p \in Seq(S)
  <2>1. p \in [1 .. Len(q) - 1 -> S]
    BY Zenon, <1>1, <1>2
  <2> QED BY <1>1, <2>1
<1>4. \A k \in 1 .. Len(q) : k = i \/ \E j \in 1 .. Len(q) - 1 : p[j] = q[k]
  <2> SUFFICES ASSUME NEW k \in 1 .. Len(q), k # i PROVE \E j \in 1 .. Len(q) - 1 : p[j] = q[k]
    OBVIOUS
  <2>1. CASE k < i
    <3>1. k \in 1 .. Len(q) - 1 /\ p[k] = q[k]
      BY <1>1, <1>2, <2>1
    <3> QED BY Zenon, <3>1
  <2>2. CASE k > i
    <3>1. k - 1 \in 1 .. Len(q) - 1 /\ p[k - 1] = q[k]
      BY <1>1, <1>2, <2>2
    <3> QED BY Zenon, <3>1
  <2> QED BY <1>1, <2>1, <2>2
<1>5. ASSUME Distinct(q) PROVE Distinct(p)
  <2> SUFFICES ASSUME NEW j \in DOMAIN p, NEW k \in DOMAIN p, j # k PROVE p[j] # p[k]
    BY Zenon DEF Distinct
  <2>1. PICK a \in DOMAIN q : a = (IF j < i THEN j ELSE j + 1) /\ p[j] = q[a]
    BY <1>1, <1>2
  <2>2. PICK b \in DOMAIN q : b = (IF k < i THEN k ELSE k + 1) /\ p[k] = q[b]
    BY <1>1, <1>2
  <2>3. a # b
    BY <1>1, <2>1, <2>2
  <2> QED BY Zenon, <1>5, <2>1, <2>2, <2>3 DEF Distinct
<1>6. ASSUME Distinct(q), NEW x PROVE In(p, x) <=> In(q, x) /\ x # q[i]
  <2>1. In(p, x) => In(q, x) /\ x # q[i]
    BY <1>1, <1>2, <1>6 DEF Distinct, In
  <2>2. In(q, x) /\ x # q[i] => In(p, x)
    BY Zenon, <1>1, <1>4 DEF In
  <2> QED BY Zenon, <2>1, <2>2
<1> QED
  BY Zenon, <1>3, <1>5, <1>6

\* Nothing is in an empty sequence.
LEMMA EmptyFacts == Distinct(<<>>) /\ \A x : ~In(<<>>, x)
BY DEF Distinct, In

-----------------------------------------------------------------------------
(* The initial states *)

\* The constructor can open any number of connections up to MinConnections.
LEMMA FirstHolders ==
    ASSUME Sizes, NEW n \in 0 .. MinConnections
    PROVE  \E q \in [1 .. n -> Holders] : \A i, j \in 1 .. n : i # j => q[i] # q[j]
<1>1. PICK f : f \in Bijection(1 .. Cardinality(Holders), Holders)
  BY Zenon, FS_CardinalityType DEF Sizes, ExistsBijection
<1>2. f \in [1 .. Cardinality(Holders) -> Holders]
      /\ \A i, j \in 1 .. Cardinality(Holders) : f[i] = f[j] => i = j
  BY Zenon, <1>1 DEF Bijection, Injection, IsInjective
<1>3. n \in Nat /\ 1 .. n \subseteq 1 .. Cardinality(Holders)
  BY FS_CardinalityType DEF Sizes
<1> DEFINE q == [i \in 1 .. n |-> f[i]]
<1>4. q \in [1 .. n -> Holders] /\ \A i, j \in 1 .. n : i # j => q[i] # q[j]
  BY Zenon, <1>2, <1>3
<1> QED
  BY Zenon, <1>4

LEMMA InitCore ==
    ASSUME Sizes, Init
    PROVE  Core
<1>1. PICK n \in 0 .. MinConnections :
        /\ free = CHOOSE q \in [1 .. n -> Holders] : \A i, j \in 1 .. n : i # j => q[i] # q[j]
        /\ holders = {free[i] : i \in 1 .. n}
        /\ created = n
  BY Zenon DEF Init
<1>2. n \in Nat
  BY FS_CardinalityType DEF Sizes
<1>3. free \in [1 .. n -> Holders] /\ \A i, j \in 1 .. n : i # j => free[i] # free[j]
  BY Zenon, <1>1, FirstHolders
<1>4. free \in Seq(Holders) /\ DOMAIN free = 1 .. n /\ holders \subseteq Holders
  BY <1>1, <1>2, <1>3
<1>5. created = Cardinality(holders)
  <2>1. free \in Bijection(1 .. n, holders)
    <3>1. free \in [1 .. n -> holders] /\ \A h \in holders : \E i \in 1 .. n : free[i] = h
      BY Zenon, <1>1, <1>3
    <3>2. IsInjective(free)
      BY Zenon, <1>3, <1>4 DEF IsInjective
    <3> QED BY Zenon, <3>1, <3>2 DEF Bijection, Injection, Surjection
  <2>2. Cardinality(holders) = n
    BY Zenon, <1>2, <2>1, FS_CountingElements DEF ExistsBijection
  <2> QED BY Zenon, <1>1, <2>2
<1>6. Types
  BY <1>1, <1>2, <1>4 DEF Types, Init, Labels
<1>7. Exclusive
  BY Zenon, <1>3, <1>4 DEF Exclusive, Distinct, Init, Owner
<1>8. Accounted
  BY Zenon, <1>1, <1>4, <1>5 DEF Accounted, In, Init, Owner
<1>9. Queued /\ SlotsFit
  BY Zenon, EmptyFacts DEF Init, Queued, SlotsFit
<1> QED
  BY Zenon, <1>6, <1>7, <1>8, <1>9 DEF Core

-----------------------------------------------------------------------------
(* What a step must do to keep the invariant *)

OnlyMoves(t) == \A u \in Clients \ {t} : pc'[u] = pc[u] /\ slot'[u] = slot[u]

\* t goes on with what it has.
LEMMA MoveFrame ==
    ASSUME Core, NEW t \in Clients, OnlyMoves(t),
           Owner(t)' <=> Owner(t), Owner(t) => slot'[t] = slot[t],
           UNCHANGED <<holders, free, created>>, leaked \subseteq leaked', ShutDown => ShutDown'
    PROVE  Exclusive' /\ Accounted'
<1>1. \A u \in Clients : (Owner(u)' <=> Owner(u)) /\ (Owner(u) => slot'[u] = slot[u])
  BY Zenon DEF OnlyMoves, Owner
<1>2. Exclusive'
  BY Zenon, <1>1 DEF Core, Exclusive
<1>3. Accounted'
  BY Zenon, <1>1 DEF Core, Accounted
<1> QED
  BY Zenon, <1>2, <1>3

\* t takes a holder that nobody else uses.
LEMMA TakeFrame ==
    ASSUME Core, NEW t \in Clients, NEW h, OnlyMoves(t), ~Owner(t), Owner(t)', slot'[t] = h,
           \A u \in Clients : Owner(u) => slot[u] # h,
           Distinct(free'), \A x : In(free, x) => In(free', x) \/ x = h,
           \A x : In(free', x) => In(free, x) /\ x # h,
           holders' = holders \union {h}, ShutDown' <=> ShutDown, UNCHANGED leaked,
           ~ShutDown => created' = Cardinality(holders')
    PROVE  Exclusive' /\ Accounted'
<1>1. \A u \in Clients \ {t} : (Owner(u)' <=> Owner(u)) /\ slot'[u] = slot[u]
  BY Zenon DEF OnlyMoves, Owner
<1>2. Exclusive'
  BY Zenon, <1>1 DEF Core, Exclusive
<1>3. Accounted'
  BY Zenon, <1>1 DEF Core, Accounted
<1> QED
  BY Zenon, <1>2, <1>3

\* t gives its holder up.
LEMMA DropFrame ==
    ASSUME Core, NEW t \in Clients, OnlyMoves(t), Owner(t), ~Owner(t)', slot[t] \in Holders,
           Distinct(free'), \A x : In(free, x) => In(free', x),
           \A x : In(free', x) => In(free, x) \/ (x = slot[t] /\ x \in holders),
           holders' = holders \/ (holders' = holders \ {slot[t]} /\ ~In(free', slot[t])),
           ShutDown => ShutDown', leaked \subseteq leaked',
           \/ ShutDown'
           \/ slot[t] \notin holders'
           \/ slot[t] \in leaked'
           \/ In(free', slot[t]),
           ~ShutDown => created' = Cardinality(holders')
    PROVE  Exclusive' /\ Accounted'
<1>1. \A u \in Clients \ {t} : (Owner(u)' <=> Owner(u)) /\ slot'[u] = slot[u]
  BY Zenon DEF OnlyMoves, Owner
<1>2. Exclusive'
  BY Zenon, <1>1 DEF Core, Exclusive
<1>3. Accounted'
  <2>1. \A u \in Clients \ {t} : Owner(u)' => slot'[u] # slot[t]
    BY Zenon, <1>1 DEF Core, Exclusive
  <2>2. (\A h \in Holders : In(free', h) => h \in holders')
        /\ (~ShutDown' => \A u \in Clients : Owner(u)' => slot'[u] \in holders')
    BY Zenon, <1>1, <2>1 DEF Core, Accounted
  <2>3. ~ShutDown' => \A h \in holders' :
          In(free', h) \/ h \in leaked' \/ \E u \in Clients : Owner(u)' /\ slot'[u] = h
    BY Zenon, <1>1 DEF Core, Accounted
  <2> QED BY Zenon, <2>2, <2>3 DEF Accounted
<1> QED
  BY Zenon, <1>2, <1>3

\* t neither waits nor begins to.
LEMMA QueueFrame ==
    ASSUME Core, NEW t \in Clients, OnlyMoves(t), pc[t] # "waiting", pc'[t] # "waiting",
           UNCHANGED waiters, ready' \ {t} = ready \ {t}, claimed' \ {t} = claimed \ {t}, ShutDown => ShutDown'
    PROVE  Queued'
<1>1. \A u \in Clients \ {t} : pc'[u] = pc[u] /\ (u \in ready' <=> u \in ready) /\ (u \in claimed' <=> u \in claimed)
  BY Zenon DEF OnlyMoves
<1> QED
  BY Zenon, <1>1 DEF Core, Queued

\* t joins the queue.
LEMMA EnqueueFrame ==
    ASSUME Core, NEW t \in Clients, pc[t] # "waiting", Enqueue(t), ShutDown => ShutDown'
    PROVE  Queued'
<1>1. waiters \in Seq(Clients) /\ Distinct(waiters) /\ ~In(waiters, t)
  BY Zenon DEF Core, Types, Queued
<1>2. Distinct(waiters') /\ \A x : In(waiters', x) <=> In(waiters, x) \/ x = t
  BY Zenon, <1>1, AppendFacts DEF Enqueue
<1>3. pc' = [pc EXCEPT ![t] = "waiting"] /\ ready' = ready \ {t} /\ claimed' = claimed \ {t}
  BY Zenon DEF Enqueue, Set
<1> QED
  BY Zenon, <1>2, <1>3 DEF Core, Types, Queued

\* t leaves the queue.
LEMMA EraseFrame ==
    ASSUME Core, NEW t \in Clients, EraseWaiter(t), OnlyMoves(t), pc'[t] # "waiting",
           UNCHANGED ready, claimed' \ {t} = claimed \ {t}, ShutDown => ShutDown'
    PROVE  waiters' \in Seq(Clients) /\ Queued'
<1>1. waiters \in Seq(Clients) /\ Distinct(waiters) /\ DOMAIN waiters = 1 .. Len(waiters)
  BY DEF Core, Types, Queued
<1>2. waiters' \in Seq(Clients) /\ Distinct(waiters') /\ \A x : In(waiters', x) <=> In(waiters, x) /\ x # t
  <2>1. CASE \E i \in DOMAIN waiters : waiters[i] = t
    BY Zenon, <1>1, <2>1, EraseFacts DEF EraseWaiter
  <2>2. CASE \A i \in DOMAIN waiters : waiters[i] # t
    BY Zenon, <1>1, <2>2 DEF EraseWaiter, In
  <2> QED BY Zenon, <2>1, <2>2
<1>3. \A u \in Clients \ {t} : pc'[u] = pc[u] /\ (u \in ready' <=> u \in ready) /\ (u \in claimed' <=> u \in claimed)
  BY Zenon DEF OnlyMoves
<1> QED
  BY Zenon, <1>2, <1>3 DEF Core, Queued

-----------------------------------------------------------------------------
(* The steps *)

LEMMA AcquireStep ==
    ASSUME Sizes, Core, NEW t \in Clients, NEW how, Acquire(t, how)
    PROVE  Core'
<1> USE DEF Core
<1>1. pc[t] = "ready" /\ slot[t] = NoHolder /\ ~Owner(t) /\ UNCHANGED <<phase, holders, created, target, leaked>>
  BY Zenon DEF Acquire, SlotsFit, Owner
<1>2. CASE free # <<>> /\ free' = Tail(free) /\ Lend(t, Head(free)) /\ UNCHANGED <<waiters, ready, claimed>>
  <2>1. /\ Tail(free) \in Seq(Holders) /\ Head(free) \in Holders /\ In(free, Head(free))
        /\ Distinct(Tail(free)) /\ \A x : In(Tail(free), x) <=> In(free, x) /\ x # Head(free)
    BY Zenon, <1>2, TailFacts DEF Types, Exclusive
  <2>2. PICK to \in {"holding", "posted"} : pc' = [pc EXCEPT ![t] = to]
    BY Zenon, <1>2 DEF Lend, Set
  <2>3. slot' = [slot EXCEPT ![t] = Head(free)]
    BY Zenon, <1>2 DEF Lend, Set
  <2>4. Types'
    BY Zenon, <1>1, <1>2, <2>1, <2>2, <2>3 DEF Types, Labels
  <2>5. OnlyMoves(t) /\ Owner(t)' /\ pc'[t] # "waiting"
    BY Zenon, <2>1, <2>2, <2>3 DEF OnlyMoves, Owner, Types, Sizes
  <2>6. Head(free) \in holders /\ \A u \in Clients : Owner(u) => slot[u] # Head(free)
    BY Zenon, <2>1 DEF Accounted, Exclusive
  <2>7. Exclusive' /\ Accounted'
    BY ZenonT(40), <1>1, <1>2, <2>1, <2>3, <2>5, <2>6, TakeFrame DEF Types, ShutDown, Accounted
  <2>8. Queued'
    BY Zenon, <1>1, <1>2, <2>5, QueueFrame DEF ShutDown
  <2>9. SlotsFit'
    BY <1>1, <1>2, <2>1, <2>2, <2>3 DEF SlotsFit, Types, Sizes
  <2> QED BY Zenon, <2>4, <2>7, <2>8, <2>9
<1>3. CASE pc' = Set(pc, t, "creating") /\ UNCHANGED <<free, waiters, slot, ready, claimed>>
  <2>1. Types' /\ OnlyMoves(t) /\ SlotsFit'
    BY <1>1, <1>3 DEF Types, Labels, Set, OnlyMoves, SlotsFit
  <2>2. pc'[t] # "waiting" /\ (Owner(t)' <=> Owner(t))
    BY Zenon, <1>1, <1>3 DEF Types, Set, Owner
  <2> QED BY Zenon, <1>1, <1>3, <2>1, <2>2, MoveFrame, QueueFrame DEF ShutDown
<1>4. CASE Enqueue(t) /\ UNCHANGED free
  <2>1. Types'
    BY Zenon, <1>1, <1>4, AppendFacts DEF Types, Labels, Enqueue, Set
  <2>2. OnlyMoves(t) /\ (Owner(t)' <=> Owner(t))
    BY Zenon, <1>1, <1>4 DEF Types, Enqueue, Set, OnlyMoves, Owner
  <2>3. SlotsFit'
    BY <1>1, <1>4 DEF Types, SlotsFit, Enqueue, Set
  <2> QED BY Zenon, <1>1, <1>4, <2>1, <2>2, <2>3, MoveFrame, EnqueueFrame DEF ShutDown
<1> QED
  BY Zenon, <1>2, <1>3, <1>4 DEF Acquire

LEMMA CreatedStep ==
    ASSUME Sizes, Core, NEW t \in Clients, Created(t)
    PROVE  Core'
<1> USE DEF Core
<1>1. pc[t] = "creating" /\ slot[t] = NoHolder /\ ~Owner(t)
      /\ UNCHANGED <<phase, free, waiters, ready, claimed, target, leaked>>
  BY Zenon DEF Created, SlotsFit, Owner
<1>2. PICK h \in Unused : holders' = holders \union {h} /\ Lend(t, h) /\ created' = created + 1
  BY Zenon DEF Created
<1>3. h \in Holders /\ h \notin holders /\ \A u \in Clients : slot[u] # h
  BY Zenon DEF Unused
<1>4. PICK to \in {"holding", "posted"} : pc' = [pc EXCEPT ![t] = to]
  BY Zenon, <1>2 DEF Lend, Set
<1>5. slot' = [slot EXCEPT ![t] = h]
  BY Zenon, <1>2 DEF Lend, Set
<1>6. Types'
  BY <1>1, <1>2, <1>3, <1>4, <1>5 DEF Types, Labels
<1>7. OnlyMoves(t) /\ Owner(t)' /\ pc'[t] # "waiting"
  BY Zenon, <1>3, <1>4, <1>5 DEF OnlyMoves, Owner, Types, Sizes
<1>8. ~ShutDown => created' = Cardinality(holders')
  <2>1. IsFiniteSet(holders)
    BY Zenon, FS_Subset DEF Types, Sizes
  <2> QED BY Zenon, <1>2, <1>3, <2>1, OneMore DEF Accounted
<1>9. ~In(free, h)
  BY Zenon, <1>3 DEF Accounted
<1>10. slot'[t] = h
  BY Zenon, <1>5 DEF Types
<1>11. Exclusive' /\ Accounted'
  BY Zenon, <1>1, <1>2, <1>3, <1>7, <1>8, <1>9, <1>10, TakeFrame DEF ShutDown, Exclusive
<1>12. Queued'
  BY Zenon, <1>1, <1>7, QueueFrame DEF ShutDown
<1>13. SlotsFit'
  BY <1>1, <1>3, <1>4, <1>5 DEF SlotsFit, Types, Sizes
<1> QED
  BY Zenon, <1>6, <1>11, <1>12, <1>13

LEMMA CreateFailedStep ==
    ASSUME Sizes, Core, NEW t \in Clients, CreateFailed(t)
    PROVE  Core'
<1> USE DEF Core
<1>1. pc[t] = "creating" /\ slot[t] = NoHolder /\ ~Owner(t) /\ UNCHANGED <<phase, resources, target, leaked>>
  BY Zenon DEF CreateFailed, SlotsFit, Owner
<1>2. CASE Return(t) /\ UNCHANGED <<waiters, ready, claimed>>
  <2>1. Types' /\ OnlyMoves(t) /\ SlotsFit'
    BY <1>1, <1>2 DEF Types, Labels, Return, Set, OnlyMoves, SlotsFit, resources
  <2>2. pc'[t] # "waiting" /\ (Owner(t)' <=> Owner(t))
    BY Zenon, <1>1, <1>2 DEF Types, Return, Set, Owner
  <2> QED BY Zenon, <1>1, <1>2, <2>1, <2>2, MoveFrame, QueueFrame DEF ShutDown, resources
<1>3. CASE Enqueue(t)
  <2>1. Types'
    BY Zenon, <1>1, <1>3, AppendFacts DEF Types, Labels, Enqueue, Set, resources
  <2>2. OnlyMoves(t) /\ (Owner(t)' <=> Owner(t))
    BY Zenon, <1>1, <1>3 DEF Types, Enqueue, Set, OnlyMoves, Owner
  <2>3. SlotsFit'
    BY <1>1, <1>3 DEF Types, SlotsFit, Enqueue, Set
  <2> QED BY Zenon, <1>1, <1>3, <2>1, <2>2, <2>3, MoveFrame, EnqueueFrame DEF ShutDown, resources
<1> QED
  BY Zenon, <1>2, <1>3 DEF CreateFailed

\* t returns without its holder, which nobody needs any more.
LEMMA LoseFrame ==
    ASSUME Core, NEW t \in Clients, Return(t), slot[t] # NoHolder, pc[t] # "notify",
           UNCHANGED <<holders, free, created>>, ShutDown => ShutDown', leaked \subseteq leaked',
           ShutDown' \/ slot[t] \notin holders \/ slot[t] \in leaked'
    PROVE  Exclusive' /\ Accounted'
<1>1. OnlyMoves(t) /\ Owner(t) /\ ~Owner(t)' /\ slot[t] \in Holders
  BY Zenon DEF Core, Types, Return, Set, OnlyMoves, Owner
<1>2. Distinct(free') /\ (~ShutDown => created' = Cardinality(holders'))
  BY Zenon DEF Core, Exclusive, Accounted
<1> QED
  BY Zenon, <1>1, <1>2, DropFrame

LEMMA WakeAssignedStep ==
    ASSUME Sizes, Core, NEW t \in Clients, WakeAssigned(t)
    PROVE  Core'
<1> USE DEF Core
<1>1. /\ pc[t] = "waiting" /\ t \in ready /\ ready' = ready \ {t} /\ slot[t] # NoHolder /\ ~In(waiters, t)
      /\ UNCHANGED <<phase, resources, waiters, claimed, target, leaked>>
  BY Zenon DEF WakeAssigned, SlotsFit, Queued
<1>2. PICK to \in {"holding", "undefined", "ready"} : pc' = [pc EXCEPT ![t] = to]
  BY Zenon DEF WakeAssigned, Return, Set
<1>3. OnlyMoves(t) /\ Types'
  BY Zenon, <1>1, <1>2 DEF WakeAssigned, Return, Set, Types, Labels, OnlyMoves, resources
<1>4. SlotsFit'
  BY <1>1, <1>2 DEF WakeAssigned, Return, Set, Types, SlotsFit
<1>5. Queued'
  BY Zenon, <1>1, <1>2 DEF Queued, Types, ShutDown
<1>6. Exclusive' /\ Accounted'
  <2>1. CASE UNCHANGED slot
    <3>1. (Owner(t)' <=> Owner(t)) /\ slot'[t] = slot[t]
      BY Zenon, <1>1, <1>2, <2>1 DEF Owner, Types
    <3> QED BY Zenon, <1>1, <1>3, <3>1, MoveFrame DEF resources, ShutDown
  <2>2. CASE ~Alive(slot[t]) /\ Return(t)
    BY Zenon, <1>1, <2>2, LoseFrame DEF resources, ShutDown, Alive
  <2> QED BY Zenon, <2>1, <2>2 DEF WakeAssigned
<1> QED
  BY Zenon, <1>3, <1>4, <1>5, <1>6

LEMMA GiveUpStep ==
    ASSUME Sizes, Core, NEW t \in Clients, GiveUp(t)
    PROVE  Core'
<1> USE DEF Core
<1>1. pc[t] = "waiting" /\ t \notin ready /\ slot[t] = NoHolder
      /\ UNCHANGED <<phase, resources, ready, claimed, target, leaked>>
  BY Zenon DEF GiveUp, SlotsFit
<1>2. pc' = [pc EXCEPT ![t] = "ready"] /\ slot' = [slot EXCEPT ![t] = NoHolder]
  BY Zenon DEF GiveUp, Return, Set
<1>3. OnlyMoves(t) /\ ~Owner(t) /\ ~Owner(t)' /\ pc'[t] # "waiting"
  BY Zenon, <1>1, <1>2 DEF OnlyMoves, Owner, Types
<1>4. waiters' \in Seq(Clients) /\ Queued'
  BY Zenon, <1>1, <1>3, EraseFrame DEF GiveUp, ShutDown
<1>5. Types' /\ SlotsFit'
  BY <1>1, <1>2, <1>4 DEF Types, Labels, SlotsFit, resources
<1>6. Exclusive' /\ Accounted'
  BY Zenon, <1>1, <1>3, MoveFrame DEF resources, ShutDown
<1> QED
  BY Zenon, <1>4, <1>5, <1>6

LEMMA TimerFiresStep ==
    ASSUME Sizes, Core, NEW t \in Clients, TimerFires(t)
    PROVE  Core'
<1> USE DEF Core
<1>1. pc[t] = "waiting" /\ t \in Coroutines /\ claimed' = claimed \union {t} /\ slot[t] = NoHolder
      /\ UNCHANGED <<phase, resources, slot, ready, target, leaked>>
  BY Zenon DEF TimerFires, SlotsFit, Types, Sizes
<1>2. pc' = [pc EXCEPT ![t] = "posted"]
  BY Zenon DEF TimerFires, Set
<1>3. OnlyMoves(t) /\ ~Owner(t) /\ ~Owner(t)' /\ pc'[t] # "waiting"
  BY Zenon, <1>1, <1>2 DEF OnlyMoves, Owner, Types
<1>4. waiters' \in Seq(Clients) /\ Queued'
  BY Zenon, <1>1, <1>3, EraseFrame DEF TimerFires, ShutDown
<1>5. Types' /\ SlotsFit'
  BY <1>1, <1>2, <1>4 DEF Types, Labels, SlotsFit, resources, Sizes
<1>6. Exclusive' /\ Accounted'
  BY Zenon, <1>1, <1>3, MoveFrame DEF resources, ShutDown
<1> QED
  BY Zenon, <1>4, <1>5, <1>6

LEMMA CompleteStep ==
    ASSUME Sizes, Core, NEW t \in Clients, Complete(t)
    PROVE  Core'
<1> USE DEF Core
<1>1. pc[t] = "posted" /\ claimed' = claimed \ {t} /\ t \notin ready
      /\ UNCHANGED <<phase, resources, waiters, ready, target>>
  BY Zenon DEF Complete, SlotsFit
<1>2. PICK to \in {"holding", "ready"} : pc' = [pc EXCEPT ![t] = to]
  BY Zenon DEF Complete, Return, Set
<1>3. OnlyMoves(t) /\ pc'[t] # "waiting"
  BY Zenon, <1>2 DEF Complete, Return, Set, OnlyMoves, Types
<1>4. Types'
  BY ZenonT(40), <1>1, <1>2 DEF Complete, Return, Set, Types, Labels, resources
<1>5. SlotsFit'
  BY <1>1, <1>2 DEF Complete, Return, Set, Types, SlotsFit
<1>6. Queued'
  BY Zenon, <1>1, <1>3, QueueFrame DEF ShutDown
<1>7. Exclusive' /\ Accounted'
  <2>1. CASE slot[t] = NoHolder /\ Return(t)
    <3>1. ~Owner(t) /\ ~Owner(t)' /\ leaked \subseteq leaked'
      BY Zenon, <2>1 DEF Complete, Owner, Return, Set, Types
    <3> QED BY Zenon, <1>1, <1>3, <3>1, MoveFrame DEF resources, ShutDown
  <2>2. CASE slot[t] # NoHolder /\ pc' = Set(pc, t, "holding") /\ UNCHANGED slot
    <3>1. (Owner(t)' <=> Owner(t)) /\ slot'[t] = slot[t] /\ leaked \subseteq leaked'
      BY Zenon, <1>1, <2>2 DEF Complete, Owner, Set, Types
    <3> QED BY Zenon, <1>1, <1>3, <3>1, MoveFrame DEF resources, ShutDown
  <2>3. CASE slot[t] # NoHolder /\ Return(t)
    <3>1. leaked' = leaked \union {slot[t]}
      BY Zenon, <2>3 DEF Complete, Return, Set, Types
    <3> QED BY Zenon, <1>1, <2>3, <3>1, LoseFrame DEF resources, ShutDown
  <2> QED BY Zenon, <2>1, <2>2, <2>3 DEF Complete
<1> QED
  BY Zenon, <1>4, <1>5, <1>6, <1>7

LEMMA ReleaseStep ==
    ASSUME Sizes, Core, NEW t \in Clients, Release(t)
    PROVE  Core'
<1> USE DEF Core
<1>1. pc[t] = "holding" /\ slot[t] # NoHolder /\ t \notin ready
      /\ UNCHANGED <<phase, resources, waiters, ready, claimed, target, leaked>>
  BY Zenon DEF Release, SlotsFit
<1>2. PICK to \in {"resetting", "ready"} : pc' = [pc EXCEPT ![t] = to]
  BY Zenon DEF Release, Return, Set
<1>3. OnlyMoves(t) /\ pc'[t] # "waiting"
  BY Zenon, <1>2 DEF Release, Return, Set, OnlyMoves, Types
<1>4. Types' /\ SlotsFit'
  <2>1. Types'
    BY Zenon, <1>1, <1>2 DEF Release, Return, Set, Types, Labels, resources
  <2>2. SlotsFit'
    BY <1>1, <1>2 DEF Release, Return, Set, Types, SlotsFit
  <2> QED BY Zenon, <2>1, <2>2
<1>5. Queued'
  BY Zenon, <1>1, <1>3, QueueFrame DEF ShutDown
<1>6. Exclusive' /\ Accounted'
  <2>1. CASE Alive(slot[t])
    <3>1. (Owner(t)' <=> Owner(t)) /\ slot'[t] = slot[t]
      BY Zenon, <1>1, <2>1 DEF Release, Owner, Set, Types
    <3> QED BY Zenon, <1>1, <1>3, <3>1, MoveFrame DEF resources, ShutDown
  <2>2. CASE ~Alive(slot[t])
    BY Zenon, <1>1, <2>2, LoseFrame DEF Release, resources, ShutDown, Alive
  <2> QED BY Zenon, <2>1, <2>2
<1> QED
  BY Zenon, <1>4, <1>5, <1>6

\* The entry at the front goes.
LEMMA FirstServed ==
    ASSUME NEW S, NEW q \in Seq(S), NEW i \in 1 .. Len(q), i = 1
    PROVE  q # <<>> /\ SubSeq(q, i + 1, Len(q)) = Tail(q) /\ q[i] = Head(q)
OBVIOUS

\* The holder of t goes to w.
LEMMA HandFrame ==
    ASSUME Core, NEW t \in Clients, NEW w \in Clients, t # w, Owner(t), ~Owner(w), ~Owner(t)', Owner(w)',
           slot'[w] = slot[t], \A u \in Clients \ {t, w} : pc'[u] = pc[u] /\ slot'[u] = slot[u],
           UNCHANGED <<phase, holders, free, created, leaked>>
    PROVE  Exclusive' /\ Accounted'
<1>1. \A u \in Clients \ {t, w} : (Owner(u)' <=> Owner(u)) /\ slot'[u] = slot[u]
  BY Zenon DEF Owner
<1>2. Exclusive'
  BY Zenon, <1>1 DEF Core, Exclusive
<1>3. Accounted'
  BY Zenon, <1>1 DEF Core, Accounted, ShutDown
<1> QED
  BY Zenon, <1>2, <1>3

LEMMA HandOverStep ==
    ASSUME Sizes, Core, NEW t \in Clients, pc[t] = "resetting", waiters # <<>>,
           waiters' = Tail(waiters), HandOver(t, Head(waiters)), UNCHANGED <<phase, free, holders, created, leaked>>
    PROVE  Core'
<1> USE DEF Core
<1>1. /\ waiters' \in Seq(Clients) /\ Head(waiters) \in Clients /\ In(waiters, Head(waiters))
      /\ Distinct(waiters') /\ \A x : In(waiters', x) <=> In(waiters, x) /\ x # Head(waiters)
  BY Zenon, TailFacts DEF Types, Queued
<1>2. PICK w \in Clients : w = Head(waiters)
  BY Zenon, <1>1
<1>3. pc[w] = "waiting" /\ w \notin ready /\ w \notin claimed /\ slot[w] = NoHolder /\ w # t
  BY Zenon, <1>1, <1>2 DEF Queued, SlotsFit
<1>4. slot[t] \in Holders /\ slot[t] # NoHolder /\ t \notin ready
  BY Zenon DEF SlotsFit, Types
<1>5. CASE w \in Threads
  <2>1. /\ slot' = [slot EXCEPT ![w] = slot[t]] /\ ready' = ready \union {w}
        /\ pc' = [pc EXCEPT ![t] = "notify"] /\ target' = [target EXCEPT ![t] = w] /\ UNCHANGED claimed
    BY Zenon, <1>2, <1>5 DEF HandOver, Set
  <2>2. Types'
    BY Zenon, <1>1, <1>4, <1>5, <2>1 DEF Types, Labels
  <2>3. Exclusive' /\ Accounted'
    <3>1. Owner(t) /\ ~Owner(w) /\ ~Owner(t)' /\ Owner(w)' /\ slot'[w] = slot[t]
      BY Zenon, <1>3, <1>4, <2>1 DEF Owner, Types
    <3>2. \A u \in Clients \ {t, w} : pc'[u] = pc[u] /\ slot'[u] = slot[u]
      BY Zenon, <2>1 DEF Types
    <3> QED BY Zenon, <1>3, <3>1, <3>2, HandFrame
  <2>4. Queued'
    BY Zenon, <1>1, <1>2, <1>3, <2>1 DEF Queued, Types, ShutDown
  <2>5. SlotsFit'
    BY <1>3, <1>4, <2>1 DEF SlotsFit, Types
  <2> QED BY Zenon, <2>2, <2>3, <2>4, <2>5
<1>6. CASE w \notin Threads
  <2>1. /\ claimed' = claimed \union {w} /\ slot' = [slot EXCEPT ![w] = slot[t], ![t] = NoHolder]
        /\ pc' = [pc EXCEPT ![w] = "posted", ![t] = "ready"] /\ UNCHANGED <<ready, target>>
    BY Zenon, <1>2, <1>6 DEF HandOver
  <2>2. /\ pc'[t] = "ready" /\ slot'[t] = NoHolder /\ pc'[w] = "posted" /\ slot'[w] = slot[t]
        /\ \A u \in Clients \ {t, w} : pc'[u] = pc[u] /\ slot'[u] = slot[u]
    BY Zenon, <1>3, <2>1 DEF Types
  <2>3. Types'
    BY Zenon, <1>1, <1>4, <1>6, <2>1 DEF Types, Labels, Clients
  <2>4. Exclusive' /\ Accounted'
    <3>1. Owner(t) /\ ~Owner(w) /\ ~Owner(t)' /\ Owner(w)'
      BY Zenon, <1>3, <1>4, <2>2 DEF Owner
    <3> QED BY Zenon, <1>3, <2>2, <3>1, HandFrame
  <2>5. Queued'
    BY Zenon, <1>1, <1>2, <1>3, <2>1, <2>2 DEF Queued, Types, ShutDown
  <2>6. SlotsFit'
    BY Zenon, <1>3, <1>4, <2>1, <2>2 DEF SlotsFit, Types, Clients
  <2> QED BY Zenon, <2>3, <2>4, <2>5, <2>6
<1> QED
  BY Zenon, <1>5, <1>6

LEMMA ReturnHolderStep ==
    ASSUME Sizes, Core, NEW t \in Clients, ReturnHolder(t)
    PROVE  Core'
<1> USE DEF Core
<1>1. pc[t] = "resetting" /\ slot[t] \in Holders /\ slot[t] # NoHolder /\ Owner(t) /\ t \notin ready
      /\ UNCHANGED <<phase, holders, created, leaked>>
  BY Zenon DEF ReturnHolder, SlotsFit, Types, Owner
<1>2. waiters \in Seq(Clients) /\ DOMAIN waiters = 1 .. Len(waiters) /\ Len(waiters) \in Nat
      /\ \A i \in DOMAIN waiters : waiters[i] \notin claimed
  BY DEF Types, Queued, In
<1>3. CASE ShutDown /\ Return(t) /\ UNCHANGED <<free, waiters, ready, claimed, target>>
  <2>1. Types' /\ OnlyMoves(t) /\ pc'[t] # "waiting"
    BY Zenon, <1>1, <1>3 DEF Types, Labels, Return, Set, OnlyMoves
  <2>2. SlotsFit'
    BY <1>1, <1>3 DEF Types, Return, Set, SlotsFit
  <2>3. Exclusive' /\ Accounted'
    BY Zenon, <1>1, <1>3, LoseFrame DEF ShutDown
  <2> QED BY Zenon, <1>1, <1>3, <2>1, <2>2, <2>3, QueueFrame DEF ShutDown
<1>4. CASE \E i \in DOMAIN waiters :
              /\ \A j \in 1 .. i - 1 : waiters[j] \in claimed
              /\ waiters' = SubSeq(waiters, i + 1, Len(waiters))
              /\ HandOver(t, waiters[i])
              /\ UNCHANGED free
  <2>1. PICK i \in 1 .. Len(waiters) :
              /\ \A j \in 1 .. i - 1 : waiters[j] \in claimed
              /\ waiters' = SubSeq(waiters, i + 1, Len(waiters))
              /\ HandOver(t, waiters[i])
              /\ UNCHANGED free
    BY Zenon, <1>2, <1>4
  <2>2. i = 1
    <3>1. 1 \in DOMAIN waiters /\ (i # 1 => 1 \in 1 .. i - 1)
      BY <1>2
    <3> QED BY Zenon, <1>2, <2>1, <3>1
  <2>3. waiters # <<>> /\ waiters' = Tail(waiters) /\ waiters[i] = Head(waiters)
    BY Zenon, <1>2, <2>1, <2>2, FirstServed
  <2> QED BY Zenon, <1>1, <2>1, <2>3, HandOverStep
<1>5. CASE /\ ~ShutDown
           /\ \A i \in DOMAIN waiters : waiters[i] \in claimed
           /\ waiters' = <<>>
           /\ free' = Append(free, slot[t])
           /\ Return(t)
           /\ UNCHANGED <<ready, claimed, target>>
  <2>1. waiters = <<>>
    <3>1. Len(waiters) = 0
      BY <1>2, <1>5
    <3> QED BY <1>2, <3>1
  <2>2. /\ free' \in Seq(Holders) /\ Distinct(free') /\ \A x : In(free', x) <=> In(free, x) \/ x = slot[t]
    BY <1>1, <1>5, AppendFacts DEF Types, Exclusive
  <2>3. Types'
    BY <1>1, <1>5, <2>2 DEF Types, Labels, Return, Set
  <2>4. OnlyMoves(t) /\ pc'[t] # "waiting" /\ ~Owner(t)'
    BY Zenon, <1>1, <1>5 DEF Types, Return, Set, OnlyMoves, Owner
  <2>5. SlotsFit'
    BY <1>1, <1>5 DEF Types, Return, Set, SlotsFit
  <2>6. Queued'
    BY Zenon, <1>1, <1>5, <2>1, <2>4, QueueFrame DEF ShutDown
  <2>7. slot[t] \in holders
    BY Zenon, <1>1, <1>5 DEF Accounted
  <2>8. Exclusive' /\ Accounted'
    BY Zenon, <1>1, <2>2, <2>4, <2>7, DropFrame DEF ShutDown, Accounted
  <2> QED BY Zenon, <2>3, <2>5, <2>6, <2>8
<1> QED
  BY Zenon, <1>1, <1>3, <1>4, <1>5 DEF ReturnHolder

LEMMA NotifyStep ==
    ASSUME Sizes, Core, NEW t \in Clients, Notify(t)
    PROVE  Core'
<1> USE DEF Core
<1>1. pc[t] = "notify" /\ t \notin ready /\ UNCHANGED <<phase, resources, waiters, ready, claimed, leaked>>
      /\ target' = [target EXCEPT ![t] = NoClient] /\ slot' = [slot EXCEPT ![t] = NoHolder]
  BY Zenon DEF Notify, SlotsFit, Return, Set
<1>2. PICK to \in {"ready", "undefined"} : pc' = [pc EXCEPT ![t] = to]
  BY Zenon DEF Notify, Return, Set
<1>3. OnlyMoves(t) /\ ~Owner(t) /\ ~Owner(t)' /\ pc'[t] # "waiting"
  BY Zenon, <1>1, <1>2 DEF OnlyMoves, Owner, Types
<1>4. Types'
  BY Zenon, <1>1, <1>2 DEF Types, Labels, resources
<1>5. SlotsFit'
  BY <1>1, <1>2 DEF Types, SlotsFit
<1> QED
  BY Zenon, <1>1, <1>3, <1>4, <1>5, MoveFrame, QueueFrame DEF ShutDown, resources

LEMMA DropDeadStep ==
    ASSUME Sizes, Core, NEW t \in Clients, DropDead(t)
    PROVE  Core'
<1> USE DEF Core
<1>1. /\ pc[t] = "resetting" /\ t \notin ready /\ slot[t] \in Holders /\ slot[t] # NoHolder /\ Owner(t)
      /\ UNCHANGED <<phase, free, waiters, ready, claimed, target, leaked>> /\ Return(t)
  BY Zenon DEF DropDead, SlotsFit, Types, Owner
<1>2. OnlyMoves(t) /\ pc'[t] # "waiting" /\ ~Owner(t)'
  BY Zenon, <1>1 DEF Types, Return, Set, OnlyMoves, Owner
<1>3. CASE ShutDown
  <2>1. UNCHANGED <<holders, created>>
    BY Zenon, <1>3 DEF DropDead
  <2>2. Types' /\ SlotsFit'
    BY <1>1, <2>1 DEF Types, Labels, Return, Set, SlotsFit
  <2>3. Exclusive' /\ Accounted'
    BY Zenon, <1>1, <1>3, <2>1, LoseFrame DEF ShutDown
  <2> QED BY Zenon, <1>1, <1>2, <2>2, <2>3, QueueFrame DEF ShutDown
<1>4. CASE ~ShutDown
  <2>1. slot[t] \in holders /\ created = Cardinality(holders)
    BY Zenon, <1>1, <1>4 DEF Accounted
  <2>2. holders' = holders \ {slot[t]} /\ created' = created - 1
    BY Zenon, <1>4, <2>1 DEF DropDead
  <2>3. IsFiniteSet(holders)
    BY Zenon, FS_Subset DEF Types, Sizes
  <2>4. created' \in Nat /\ created' = Cardinality(holders')
    BY <2>1, <2>2, <2>3, OneLess
  <2>5. Types'
    BY Zenon, <1>1, <2>2, <2>4 DEF Types, Labels, Return, Set
  <2>6. SlotsFit'
    BY <1>1 DEF Types, Return, Set, SlotsFit
  <2>7. Exclusive' /\ Accounted'
    BY Zenon, <1>1, <1>2, <2>2, <2>4, DropFrame DEF ShutDown, Exclusive
  <2> QED BY Zenon, <1>1, <1>2, <2>5, <2>6, <2>7, QueueFrame DEF ShutDown
<1> QED
  BY Zenon, <1>3, <1>4

LEMMA ShutdownStep ==
    ASSUME Sizes, Core, NEW t \in Clients, Shutdown(t)
    PROVE  Core'
<1> USE DEF Core
<1>1. /\ pc[t] = "ready" /\ slot[t] = NoHolder /\ t \notin ready /\ phase' = "closing"
      /\ pc' = [pc EXCEPT ![t] = "draining"]
      /\ UNCHANGED <<resources, waiters, slot, ready, claimed, target, leaked>>
  BY Zenon DEF Shutdown, SlotsFit, Set
<1>2. OnlyMoves(t) /\ ~Owner(t) /\ ~Owner(t)' /\ pc'[t] # "waiting" /\ ShutDown'
  BY Zenon, <1>1 DEF OnlyMoves, Owner, Types, ShutDown
<1>3. Types' /\ SlotsFit'
  BY <1>1 DEF Types, Labels, SlotsFit, resources
<1> QED
  BY Zenon, <1>1, <1>2, <1>3, MoveFrame, QueueFrame DEF resources

LEMMA DrainStep ==
    ASSUME Sizes, Core, NEW t \in Clients, Drain(t)
    PROVE  Core'
<1> USE DEF Core
<1> DEFINE aborted == {waiters[i] : i \in DOMAIN waiters} \intersect (Coroutines \ claimed)
<1>1. /\ pc[t] = "draining" /\ slot[t] = NoHolder /\ phase' = "closed" /\ waiters' = <<>> /\ free' = <<>>
      /\ holders' = {} /\ claimed' = claimed \union aborted /\ UNCHANGED <<created, slot, ready, target, leaked>>
      /\ pc' = [u \in Clients |-> IF u = t THEN "ready" ELSE IF u \in aborted THEN "posted" ELSE pc[u]]
  BY Zenon DEF Drain, QueuedIn, SlotsFit
<1>2. aborted \subseteq Coroutines /\ \A u \in Clients : u \in aborted <=> In(waiters, u) /\ u \in Coroutines
  <2>1. \A u \in Clients : In(waiters, u) => u \notin claimed
    BY Zenon DEF Queued
  <2> QED BY Zenon, <2>1 DEF In
<1> HIDE DEF aborted
<1>3. ShutDown'
  BY Zenon, <1>1 DEF ShutDown
<1>4. Types'
  BY <1>1, <1>2 DEF Types, Labels
<1>5. \A u \in Clients : pc'[u] # "notify" => pc[u] # "notify" /\ slot'[u] = slot[u]
  BY Zenon, <1>1, <1>2 DEF Types, Queued
<1>6. Exclusive'
  BY Zenon, <1>1, <1>5, EmptyFacts DEF Exclusive, Owner
<1>7. Accounted'
  BY Zenon, <1>1, <1>3, EmptyFacts DEF Accounted
<1>8. Queued'
  <2>1. \A u \in Clients : pc'[u] = "waiting" => pc[u] = "waiting" /\ u \notin aborted
    BY Zenon, <1>1 DEF Types
  <2> QED BY Zenon, <1>1, <1>2, <1>3, <2>1, EmptyFacts DEF Queued, Clients
<1>9. SlotsFit'
  <2>1. \A u \in Clients : pc'[u] = pc[u] \/ pc'[u] = "posted" \/ (pc'[u] = "ready" /\ u = t)
    BY Zenon, <1>1 DEF Types
  <2>2. \A u \in ready : pc'[u] = "waiting"
    BY Zenon, <1>1, <1>2 DEF SlotsFit, Queued, Types, Sizes, Clients
  <2> QED BY Zenon, <1>1, <2>1, <2>2 DEF SlotsFit
<1> QED
  BY Zenon, <1>4, <1>6, <1>7, <1>8, <1>9

\* A wake-up for no reason changes nothing the invariant is about.
LEMMA WakeSpuriouslyStep ==
    ASSUME Core, NEW t \in Clients, WakeSpuriously(t)
    PROVE  Core'
<1>1. UNCHANGED <<phase, holders, free, created, waiters, pc, slot, ready, claimed, target, leaked>>
  BY Zenon DEF WakeSpuriously, resources
<1>2. /\ ShutDown' <=> ShutDown
      /\ \A u \in Clients : Owner(u)' <=> Owner(u)
  BY Zenon, <1>1 DEF ShutDown, Owner
<1> QED
  BY Zenon, <1>1, <1>2 DEF Core, Types, Exclusive, Accounted, Queued, SlotsFit

-----------------------------------------------------------------------------
(* The theorems *)

\* The first critical section of a call, a shutdown or a timer keeps the invariant.
LEMMA BeginStep ==
    ASSUME Sizes, IInv, NEW t \in Clients, Begin(t)
    PROVE  IInv'
<1>1. Core'
  BY Zenon, AcquireStep, ShutdownStep, TimerFiresStep, WakeSpuriouslyStep DEF Begin, IInv
<1>2. mode' \in [Clients -> {"try", "wait"} \union Timeouts] /\ woken' \subseteq Threads
  BY Zenon DEF Begin, Acquire, Shutdown, TimerFires, WakeSpuriously, Set, IInv, TypeOK
<1> QED
  BY Zenon, <1>1, <1>2 DEF IInv, TypeOK, Core, Types

\* So does every later step.
LEMMA StepStep ==
    ASSUME Sizes, IInv, NEW t \in Clients, Step(t)
    PROVE  IInv'
<1>1. Core'
  BY Zenon, CreatedStep, CreateFailedStep, WakeAssignedStep, GiveUpStep, CompleteStep, ReleaseStep, ReturnHolderStep,
     DropDeadStep, NotifyStep, DrainStep DEF Step, StepOf, IInv
<1>2. mode' \in [Clients -> {"try", "wait"} \union Timeouts]
  BY Zenon DEF Step, IInv, TypeOK
<1>3. woken' \subseteq Threads
  BY Zenon DEF Step, StepOf, Created, CreateFailed, WakeAssigned, GiveUp, Complete, Release, ReturnHolder, DropDead,
               Notify, Drain, QueuedIn, IInv, TypeOK
<1> QED
  BY Zenon, <1>1, <1>2, <1>3 DEF IInv, TypeOK, Core, Types

LEMMA InvInit == Sizes /\ Init => IInv
<1> SUFFICES ASSUME Sizes, Init PROVE IInv
  OBVIOUS
<1>1. Core
  BY Zenon, InitCore
<1>2. mode \in [Clients -> {"try", "wait"} \union Timeouts] /\ woken \subseteq Threads
  BY Zenon DEF Init
<1> QED
  BY Zenon, <1>1, <1>2 DEF IInv, TypeOK, Core, Types

LEMMA InvStep == Sizes /\ IInv /\ [Next]_vars => IInv'
<1> SUFFICES ASSUME Sizes, IInv, [Next]_vars PROVE IInv'
  OBVIOUS
<1>1. CASE UNCHANGED vars
  <2> USE <1>1 DEF vars, resources
  <2>1. \A t \in Clients : Owner(t)' <=> Owner(t)
    BY Zenon DEF Owner
  <2>2. ShutDown' <=> ShutDown
    BY Zenon DEF ShutDown
  <2>3. TypeOK' /\ Types' /\ SlotsFit'
    BY Zenon DEF IInv, TypeOK, Core, Types, SlotsFit
  <2>4. Exclusive' /\ Accounted' /\ Queued'
    BY Zenon, <2>1, <2>2 DEF IInv, Core, Exclusive, Accounted, Queued
  <2> QED BY Zenon, <2>3, <2>4 DEF IInv, Core
<1> QED
  BY Zenon, <1>1, BeginStep, StepStep DEF Next

\* The inductive invariant of the connection pool.
THEOREM Invariance == Sizes /\ Spec => []IInv
<1>1. Sizes /\ Init => IInv
  BY Zenon, InvInit
<1>2. Sizes /\ IInv /\ [Next]_vars => IInv'
  BY Zenon, InvStep
<1>3. Sizes => []Sizes
  <2>1. Sizes => Sizes'
    BY DEF Sizes
  <2> QED BY <2>1, PTL
<1> QED
  BY <1>1, <1>2, <1>3, PTL DEF Spec

\* No connection is used by two clients or lost, and the queue holds exactly the
\* clients that still need an answer, whatever timeouts, hand-overs, failures
\* and shutdown race.
THEOREM PoolAccounts == Sizes /\ Spec => []ConnectionsAccounted
<1>1. IInv => ConnectionsAccounted
  <2> SUFFICES ASSUME IInv PROVE ConnectionsAccounted
    OBVIOUS
  <2>1. ExclusiveUse
    BY Zenon DEF IInv, Core, Exclusive, ExclusiveUse, Distinct, In, InFree
  <2>2. \A i \in DOMAIN free : free[i] \in Holders
    BY DEF IInv, TypeOK
  <2>3. HoldersAccounted
    BY Zenon, <2>2 DEF IInv, Core, Accounted, HoldersAccounted, In, InFree
  <2>4. \A i \in DOMAIN waiters : waiters[i] \in Clients
    BY DEF IInv, TypeOK
  <2>5. QueueExact
    BY Zenon, <2>4 DEF IInv, Core, Queued, QueueExact, Distinct, In
  <2> QED BY Zenon, <2>1, <2>3, <2>5 DEF IInv, ConnectionsAccounted
<1> QED
  BY <1>1, Invariance, PTL

\* Only a hand-over gives a queued client a connection, and only to the first of
\* the queue.
LEMMA FirstOnly ==
    ASSUME Sizes, IInv, Next, NEW w \in Clients, In(waiters, w), slot[w] = NoHolder, slot'[w] # NoHolder
    PROVE  waiters # <<>> /\ w = waiters[1]
<1> USE DEF IInv, Core
<1>1. pc[w] = "waiting" /\ waiters \in Seq(Clients) /\ \A i \in DOMAIN waiters : waiters[i] \notin claimed
  BY DEF Queued, Types, In
<1>2. PICK t \in Clients : Begin(t) \/ Step(t)
  BY Zenon DEF Next
<1>3. CASE ~ReturnHolder(t)
  <2>1. UNCHANGED slot \/ (slot' = [slot EXCEPT ![t] = slot'[t]] /\ pc[t] # "waiting") \/ Return(t)
    BY Zenon, <1>2, <1>3 DEF Begin, Step, StepOf, Acquire, Shutdown, TimerFires, WakeSpuriously, Created, CreateFailed, WakeAssigned, GiveUp,
                      Complete, Release, DropDead, Notify, Drain, Enqueue, Lend, Return, Set, Types
  <2> QED BY Zenon, <1>1, <2>1 DEF Return, Set, Types
<1>4. CASE ReturnHolder(t)
  <2>1. pc[t] = "resetting" /\ t # w
    BY Zenon, <1>1, <1>4 DEF ReturnHolder
  <2>2. ~Return(t)
    BY Zenon, <2>1 DEF Return, Set, Types
  <2>3. PICK i \in DOMAIN waiters : (\A j \in 1 .. i - 1 : waiters[j] \in claimed) /\ HandOver(t, waiters[i])
    BY Zenon, <1>4, <2>2 DEF ReturnHolder
  <2>4. w = waiters[i]
    BY Zenon, <2>1, <2>3 DEF HandOver, Set, Types
  <2>5. DOMAIN waiters = 1 .. Len(waiters) /\ Len(waiters) \in Nat
    BY <1>1
  <2>6. i = 1
    <3>1. 1 \in DOMAIN waiters /\ (i # 1 => 1 \in 1 .. i - 1)
      BY <2>5
    <3> QED BY Zenon, <1>1, <2>3, <3>1
  <2> QED BY <2>4, <2>5, <2>6
<1> QED
  BY Zenon, <1>3, <1>4

\* Waiters are served in arrival order, and a posted completion is never changed
\* by a timer, a hand-over or the shutdown.
THEOREM PoolInOrder == Sizes /\ Spec => ServedInOrder
<1>1. Sizes /\ IInv /\ [Next]_vars => [InOrder /\ CompletionStands]_vars
  <2> SUFFICES ASSUME Sizes, IInv, Next PROVE InOrder /\ CompletionStands
    OBVIOUS
  <2>1. InOrder
    <3> SUFFICES ASSUME NEW i \in DOMAIN waiters, NEW j \in DOMAIN waiters, i < j,
                        slot[waiters[j]] = NoHolder, slot'[waiters[j]] # NoHolder
                 PROVE  FALSE
      BY Zenon DEF InOrder
    <3>1. DOMAIN waiters = 1 .. Len(waiters) /\ waiters[j] \in Clients /\ In(waiters, waiters[j])
      BY DEF IInv, TypeOK, In
    <3>2. waiters[j] = waiters[1] /\ 1 \in DOMAIN waiters /\ j # 1
      BY <3>1, FirstOnly
    <3> QED BY Zenon, <3>2 DEF IInv, Core, Queued, Distinct
  <2>2. CompletionStands
    <3> SUFFICES ASSUME NEW u \in Clients, pc[u] = "posted", pc'[u] = "posted" PROVE slot'[u] = slot[u]
      BY Zenon DEF CompletionStands
    <3> USE DEF IInv, Core
    <3>1. PICK t \in Clients : Begin(t) \/ Step(t)
      BY Zenon DEF Next
    <3>2. CASE ~ReturnHolder(t)
      <4>1. UNCHANGED slot \/ (slot' = [slot EXCEPT ![t] = slot'[t]] /\ pc'[t] # "posted")
            \/ (slot' = [slot EXCEPT ![t] = slot'[t]] /\ pc[t] # "posted")
        BY Zenon, <3>1, <3>2 DEF Begin, Step, StepOf, Acquire, Shutdown, TimerFires, WakeSpuriously, Created, CreateFailed, WakeAssigned,
                          GiveUp, Complete, Release, DropDead, Notify, Drain, Enqueue, Lend, Return, Set, Types
      <4> QED BY Zenon, <4>1 DEF Types
    <3>3. CASE ReturnHolder(t)
      <4>1. \A i \in DOMAIN waiters : waiters[i] # u
        BY Zenon DEF Queued, In
      <4> QED BY Zenon, <3>3, <4>1 DEF ReturnHolder, HandOver, Return, Set, Types
    <3> QED BY Zenon, <3>2, <3>3
  <2> QED BY Zenon, <2>1, <2>2
<1>2. Sizes => Sizes'
  BY Zenon DEF Sizes
<1> QED
  BY <1>1, <1>2, Invariance, PTL DEF Spec, ServedInOrder
=============================================================================
