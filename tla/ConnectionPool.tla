--------------------------- MODULE ConnectionPool ---------------------------
(***************************************************************************)
(* elephant::ConnectionPool: PostgreSQL connections in holders, a free     *)
(* list, and one FIFO of waiting threads and coroutines, all under one     *)
(* mutex, which is released while a connection is opened and before a      *)
(* waiter is notified.  shutdown_ is an atomic set outside the mutex.      *)
(*                                                                         *)
(* A step is one critical section or the work between two of them.         *)
(* holders_ owns the holders; a client has a weak_ptr to the one it        *)
(* borrowed, a coroutine's posted completion and a client inside reset()   *)
(* have a shared_ptr.  A holder is alive while somebody owns it.  Names of *)
(* holders are reused only when nobody refers to them any more.            *)
(*                                                                         *)
(* Using a destroyed object has an undefined outcome: the client goes on   *)
(* or never returns (the label "undefined").                               *)
(***************************************************************************)
EXTENDS Integers, FiniteSets, Sequences

CONSTANTS
    Threads,        \* clients that call try_acquire() and acquire()
    Coroutines,     \* clients that co_await async_acquire()
    Closers,        \* the clients that call shutdown()
    Capacity,       \* PoolConfig::capacity
    MinConnections, \* PoolConfig::min_connections
    Holders,        \* names for QueuedHolder objects
    Timeouts,       \* what callers pass as a timeout: "positive" or "zero"
    NoHolder,
    NoClient

Clients == Threads \union Coroutines

\* What a configuration must satisfy; there are names enough for the first holders.
Sizes ==
    /\ Threads \intersect Coroutines = {}
    /\ NoHolder \notin Holders
    /\ IsFiniteSet(Holders)
    /\ MinConnections \in 0 .. Cardinality(Holders)

VARIABLES
    phase,    \* "open", "closing" (shutdown_ set), "closed" (everything cleared)
    holders,  \* holders_
    free,     \* free_
    waiters,  \* waiters_
    created,  \* created_
    pc,       \* client -> where it is
    mode,     \* client -> "try", the timeout, or "wait"
    slot,     \* client -> the holder it borrowed, was assigned or is returning
    ready,    \* the threads whose Waiter::ready is set
    woken,    \* the waiting threads whose Waiter::cv woke them: notified, or for no reason
    claimed,  \* the coroutines whose AsyncWaiter::claimed is set
    target,   \* client -> the waiting thread it is about to notify
    leaked    \* holders that a failed AsyncExecutor constructor never returned

resources == <<holders, free, created>>
vars == <<phase, resources, waiters, pc, mode, slot, ready, woken, claimed, target, leaked>>

\* The constructor opens min_connections connections; some attempts may fail.
Init ==
    /\ phase = "open"
    /\ \E n \in 0 .. MinConnections :
        /\ free = CHOOSE q \in [1 .. n -> Holders] : \A i, j \in 1 .. n : i # j => q[i] # q[j]
        /\ holders = {free[i] : i \in 1 .. n}
        /\ created = n
    /\ waiters = <<>>
    /\ pc = [t \in Clients |-> "ready"]
    /\ mode = [t \in Clients |-> "try"]
    /\ slot = [t \in Clients |-> NoHolder]
    /\ ready = {}
    /\ woken = {}
    /\ claimed = {}
    /\ target = [t \in Clients |-> NoClient]
    /\ leaked = {}

-----------------------------------------------------------------------------
Set(f, t, v) == [f EXCEPT ![t] = v]

ShutDown == phase # "open"

\* The wait has a deadline; async_acquire() takes a zero timeout for none.
Bounded(t) == mode[t] = "positive" \/ (mode[t] = "zero" /\ t \in Threads)

\* The clients with a shared_ptr to the holder they work on.
OwnsHolder(t) == pc[t] \in {"posted", "resetting", "notify"}

Alive(h) == h \in holders \/ \E t \in Clients : OwnsHolder(t) /\ slot[t] = h

\* Holders is large enough for the objects alive at one time; which name a new
\* one gets does not matter.
Unused == Holders \ (holders \union {slot[t] : t \in Clients})

Return(t) ==
    /\ pc' = Set(pc, t, "ready")
    /\ slot' = Set(slot, t, NoHolder)

\* A thread gets a weak_ptr; the completion of a coroutine is posted.
Lend(t, h) ==
    /\ pc' = Set(pc, t, IF t \in Threads THEN "holding" ELSE "posted")
    /\ slot' = Set(slot, t, h)

\* A Waiter or an AsyncWaiter is queued.
Enqueue(t) ==
    /\ waiters' = Append(waiters, t)
    /\ pc' = Set(pc, t, "waiting")
    /\ ready' = ready \ {t}
    /\ claimed' = claimed \ {t}
    /\ UNCHANGED slot

\* std::erase_if(waiters_, ...); a client is queued at most once.
EraseWaiter(t) ==
    \/ \E i \in DOMAIN waiters :
        /\ waiters[i] = t
        /\ waiters' = [k \in 1 .. Len(waiters) - 1 |-> waiters[IF k < i THEN k ELSE k + 1]]
    \/ /\ \A i \in DOMAIN waiters : waiters[i] # t
       /\ UNCHANGED waiters

-----------------------------------------------------------------------------
(* try_acquire, acquire, async_acquire *)

\* The first critical section; a call on a pool that is shut down returns at
\* once and is no step, as does try_acquire on an exhausted one.
Acquire(t, how) ==
    /\ pc[t] = "ready"
    /\ how = "try" => t \in Threads
    /\ ~ShutDown
    /\ mode' = IF free = <<>> THEN Set(mode, t, how) ELSE mode
    /\ \/ /\ free # <<>>
          /\ free' = Tail(free)
          /\ Lend(t, Head(free))
          /\ UNCHANGED <<waiters, ready, claimed>>
       \/ /\ free = <<>>
          /\ created < Capacity
          /\ pc' = Set(pc, t, "creating")
          /\ UNCHANGED <<free, waiters, slot, ready, claimed>>
       \/ /\ free = <<>>
          /\ created >= Capacity
          /\ how # "try"
          /\ Enqueue(t)
          /\ UNCHANGED free
    /\ UNCHANGED <<phase, holders, created, woken, target, leaked>>

\* The connection is open and the mutex taken again: only the asynchronous
\* path looks at shutdown_ once more, and none looks at created_.
Created(t) ==
    /\ pc[t] = "creating"
    /\ t \in Threads \/ ~ShutDown
    /\ Unused # {}
    /\ LET h == CHOOSE h \in Unused : TRUE IN
        /\ holders' = holders \union {h}
        /\ Lend(t, h)
    /\ created' = created + 1
    /\ UNCHANGED <<phase, free, waiters, ready, woken, claimed, target, leaked>>

\* The connection could not be opened, or a coroutine finds the pool shut down.
\* A thread on a pool that is shut down queues and leaves in one step.
CreateFailed(t) ==
    /\ pc[t] = "creating"
    /\ IF ShutDown \/ mode[t] = "try"
       THEN Return(t) /\ UNCHANGED <<waiters, ready, claimed>>
       ELSE Enqueue(t)
    /\ UNCHANGED <<phase, resources, woken, target, leaked>>

\* A thread sleeps in cv.wait() until it is notified or, with a timeout, until its
\* deadline, which may be at any moment.
Awake(t) == t \in woken \/ Bounded(t)

\* A condition variable may also wake for no reason; the predicate sends a thread
\* that finds neither a holder nor the shutdown back to sleep, which is no step.
WakeSpuriously(t) ==
    /\ pc[t] = "waiting"
    /\ t \in Threads
    /\ ~Awake(t)
    /\ t \in ready \/ ShutDown
    /\ woken' = woken \union {t}
    /\ UNCHANGED <<phase, resources, waiters, pc, mode, slot, ready, claimed, target, leaked>>

\* A waiting thread wakes with a holder.  It reads it through a raw pointer.
WakeAssigned(t) ==
    /\ pc[t] = "waiting"
    /\ t \in ready
    /\ Awake(t)
    /\ \/ Alive(slot[t]) /\ pc' = Set(pc, t, "holding") /\ UNCHANGED slot
       \/ ~Alive(slot[t]) /\ pc' = Set(pc, t, "undefined") /\ UNCHANGED slot
       \/ ~Alive(slot[t]) /\ Return(t)
    /\ ready' = ready \ {t}
    /\ woken' = woken \ {t}
    /\ UNCHANGED <<phase, resources, waiters, claimed, target, leaked>>

\* A waiting thread times out or wakes and finds the pool shut down.
GiveUp(t) ==
    /\ pc[t] = "waiting"
    /\ t \in Threads
    /\ t \notin ready
    /\ Awake(t)
    /\ ShutDown \/ Bounded(t)
    /\ EraseWaiter(t)
    /\ Return(t)
    /\ woken' = woken \ {t}
    /\ UNCHANGED <<phase, resources, ready, claimed, target, leaked>>

\* on_async_waiter_timeout: a callback that finds the waiter claimed is no step.
TimerFires(t) ==
    /\ pc[t] = "waiting"
    /\ t \in Coroutines
    /\ Bounded(t)
    /\ t \notin claimed
    /\ claimed' = claimed \union {t}
    /\ EraseWaiter(t)
    /\ pc' = Set(pc, t, "posted")
    /\ UNCHANGED <<phase, resources, mode, slot, ready, woken, target, leaked>>

\* The executor runs the completion.  with_async() makes an AsyncExecutor with
\* a weak_ptr, whose constructor may throw; the shared_ptr is gone then.
Complete(t) ==
    /\ pc[t] = "posted"
    /\ \/ slot[t] = NoHolder /\ Return(t)
       \/ slot[t] # NoHolder /\ pc' = Set(pc, t, "holding") /\ UNCHANGED slot
       \/ slot[t] # NoHolder /\ Return(t)
    /\ leaked' = IF slot[t] # NoHolder /\ pc'[t] = "ready" THEN leaked \union {slot[t]} ELSE leaked
    /\ claimed' = claimed \ {t}
    /\ UNCHANGED <<phase, resources, waiters, ready, woken, target>>

-----------------------------------------------------------------------------
(* QueuedHolder::reset, return_holder, drop_dead *)

\* The executor or transaction is destroyed: it locks its weak_ptr and runs
\* the cleanup statement, unless shutdown destroyed the holder.
Release(t) ==
    /\ pc[t] = "holding"
    /\ IF Alive(slot[t])
       THEN pc' = Set(pc, t, "resetting") /\ UNCHANGED slot
       ELSE Return(t)
    /\ UNCHANGED <<phase, resources, waiters, ready, woken, claimed, target, leaked>>

\* The head waiter gets the holder of t.
HandOver(t, w) ==
    IF w \in Threads
    THEN /\ slot' = Set(slot, w, slot[t])
         /\ ready' = ready \union {w}
         /\ pc' = Set(pc, t, "notify")
         /\ target' = Set(target, t, w)
         /\ UNCHANGED claimed
    ELSE /\ claimed' = claimed \union {w}
         /\ slot' = [slot EXCEPT ![w] = slot[t], ![t] = NoHolder]
         /\ pc' = [pc EXCEPT ![w] = "posted", ![t] = "ready"]
         /\ UNCHANGED <<ready, target>>

\* Bug: with a waiter in the queue the holder goes to the free list as well.
ReturnHolderTwice(t) ==
    /\ pc[t] = "resetting"
    /\ ~ShutDown
    /\ free' = Append(free, slot[t])
    /\ waiters # <<>>
    /\ waiters' = Tail(waiters)
    /\ HandOver(t, Head(waiters))
    /\ UNCHANGED <<phase, holders, created, woken, leaked>>

\* Bug: the youngest waiter is served.
ReturnHolderNewest(t) ==
    /\ pc[t] = "resetting"
    /\ ~ShutDown
    /\ waiters # <<>>
    /\ waiters' = SubSeq(waiters, 1, Len(waiters) - 1)
    /\ HandOver(t, waiters[Len(waiters)])
    /\ UNCHANGED <<phase, resources, woken, leaked>>

\* return_holder: a claimed entry is skipped.
ReturnHolder(t) ==
    /\ pc[t] = "resetting"
    /\ \/ /\ ShutDown
          /\ Return(t)
          /\ UNCHANGED <<free, waiters, ready, claimed, target>>
       \/ /\ ~ShutDown
          /\ \E i \in DOMAIN waiters :
              /\ waiters[i] \notin claimed
              /\ \A j \in 1 .. i - 1 : waiters[j] \in claimed
              /\ waiters' = SubSeq(waiters, i + 1, Len(waiters))
              /\ HandOver(t, waiters[i])
          /\ UNCHANGED free
       \/ /\ ~ShutDown
          /\ \A i \in DOMAIN waiters : waiters[i] \in claimed
          /\ waiters' = <<>>
          /\ free' = Append(free, slot[t])
          /\ Return(t)
          /\ UNCHANGED <<ready, claimed, target>>
    /\ UNCHANGED <<phase, holders, created, woken, leaked>>

\* cv.notify_one() on the Waiter of a thread that may have returned: it wakes the
\* thread that still sleeps.
Notify(t) ==
    /\ pc[t] = "notify"
    /\ target' = Set(target, t, NoClient)
    /\ woken' = woken \union ({target[t]} \intersect ready)
    /\ \/ Return(t)
       \/ /\ pc[target[t]] # "waiting"
          /\ pc' = Set(pc, t, "undefined")
          /\ slot' = Set(slot, t, NoHolder)
    /\ UNCHANGED <<phase, resources, waiters, ready, claimed, leaked>>

\* drop_dead: the cleanup failed.  Nobody is told that there is room again.
DropDead(t) ==
    /\ pc[t] = "resetting"
    /\ IF ShutDown
       THEN UNCHANGED <<holders, created>>
       ELSE /\ holders' = holders \ {slot[t]}
            /\ created' = IF slot[t] \in holders THEN created - 1 ELSE created
    /\ Return(t)
    /\ UNCHANGED <<phase, free, waiters, ready, woken, claimed, target, leaked>>

-----------------------------------------------------------------------------
(* shutdown *)

Shutdown(t) ==
    /\ pc[t] = "ready"
    /\ phase = "open"
    /\ phase' = "closing"
    /\ pc' = Set(pc, t, "draining")
    /\ UNCHANGED <<resources, waiters, mode, slot, ready, woken, claimed, target, leaked>>

QueuedIn(clients) == {waiters[i] : i \in DOMAIN waiters} \intersect clients

\* Bug: shutdown() clears the queue without a notification of the threads in it.
DrainSilently(t) ==
    /\ pc[t] = "draining"
    /\ phase' = "closed"
    /\ LET aborted == QueuedIn(Coroutines \ claimed)
       IN  /\ claimed' = claimed \union aborted
           /\ pc' = [u \in Clients |-> IF u = t THEN "ready"
                                       ELSE IF u \in aborted THEN "posted" ELSE pc[u]]
    /\ waiters' = <<>>
    /\ free' = <<>>
    /\ holders' = {}
    /\ UNCHANGED <<created, slot, ready, woken, target, leaked>>

\* The queued threads are notified; the aborted completions of coroutines are posted.
Drain(t) ==
    /\ pc[t] = "draining"
    /\ phase' = "closed"
    /\ woken' = woken \union QueuedIn(Threads)
    /\ LET aborted == QueuedIn(Coroutines \ claimed)
       IN  /\ claimed' = claimed \union aborted
           /\ pc' = [u \in Clients |-> IF u = t THEN "ready"
                                       ELSE IF u \in aborted THEN "posted" ELSE pc[u]]
    /\ waiters' = <<>>
    /\ free' = <<>>
    /\ holders' = {}
    /\ UNCHANGED <<created, slot, ready, target, leaked>>

-----------------------------------------------------------------------------
Begin(t) ==
    \/ \E how \in {"try", "wait"} \union Timeouts : Acquire(t, how)
    \/ t \in Closers /\ Shutdown(t)
    \/ TimerFires(t)
    \/ WakeSpuriously(t)

StepOf(t) ==
    \/ Created(t)
    \/ CreateFailed(t)
    \/ WakeAssigned(t)
    \/ GiveUp(t)
    \/ Complete(t)
    \/ Release(t)
    \/ ReturnHolder(t)
    \/ DropDead(t)
    \/ Notify(t)
    \/ Drain(t)

\* The mode of a call matters until it is answered.
Step(t) ==
    /\ StepOf(t)
    /\ mode' = [u \in Clients |-> IF pc'[u] \in {"creating", "waiting"} THEN mode[u] ELSE "try"]

Next == \E t \in Clients : Begin(t) \/ Step(t)

Spec == Init /\ [][Next]_vars

\* Threads that are awake, executors and timers run, and borrowers return what they
\* borrowed; nothing is assumed of spurious wake-ups.
Fairness == \A t \in Clients : WF_vars(Step(t)) /\ WF_vars(TimerFires(t))

FairSpec == Spec /\ Fairness
-----------------------------------------------------------------------------
(* Properties *)

Labels == {"ready", "creating", "waiting", "posted", "holding", "resetting", "notify",
           "draining", "undefined"}

\* Every variable has its type.
TypeOK ==
    /\ phase \in {"open", "closing", "closed"}
    /\ holders \subseteq Holders
    /\ free \in Seq(Holders)
    /\ waiters \in Seq(Clients)
    /\ created \in Nat
    /\ pc \in [Clients -> Labels]
    /\ mode \in [Clients -> {"try", "wait"} \union Timeouts]
    /\ slot \in [Clients -> Holders \union {NoHolder}]
    /\ ready \subseteq Threads
    /\ woken \subseteq Threads
    /\ claimed \subseteq Coroutines
    /\ target \in [Clients -> Clients \union {NoClient}]
    /\ leaked \subseteq Holders

\* The client that may use the connection in slot[t]; a notifier has passed it on.
Owner(t) == slot[t] # NoHolder /\ pc[t] # "notify"

InFree(h) == \E i \in DOMAIN free : free[i] = h

\* A connection is never used by two clients and never lies in the free list
\* while somebody uses it, whatever timeouts, hand-overs and drops race.
ExclusiveUse ==
    /\ \A t, u \in Clients : t # u /\ Owner(t) /\ Owner(u) => slot[t] # slot[u]
    /\ \A t \in Clients : Owner(t) => ~InFree(slot[t])
    /\ \A i, j \in DOMAIN free : i # j => free[i] # free[j]

\* No connection is lost but by a constructor that throws: until shutdown every
\* holder of holders_ is in the free list, with a client that will return it, or
\* in leaked, and created_ counts them.
HoldersAccounted ==
    ~ShutDown =>
        /\ \A h \in holders :
            InFree(h) \/ h \in leaked \/ \E t \in Clients : Owner(t) /\ slot[t] = h
        /\ \A i \in DOMAIN free : free[i] \in holders
        /\ created = Cardinality(holders)

\* Every queued entry belongs to a client that waits and has not been answered,
\* so the claimed entries that return_holder and shutdown skip do not exist; and
\* a client waits only while it is queued, answered or shut out.
QueueExact ==
    /\ \A i, j \in DOMAIN waiters : i # j => waiters[i] # waiters[j]
    /\ \A i \in DOMAIN waiters :
        pc[waiters[i]] = "waiting" /\ waiters[i] \notin ready \union claimed
    /\ \A t \in Clients : pc[t] = "waiting" =>
        (\E i \in DOMAIN waiters : waiters[i] = t) \/ t \in ready \/ (t \in Threads /\ ShutDown)

\* No connection is used twice or lost, and the queue holds exactly the clients
\* that still need an answer.
ConnectionsAccounted == TypeOK /\ ExclusiveUse /\ HoldersAccounted /\ QueueExact

\* A waiter leaves the queue with a connection only when nobody who queued before
\* it is left behind.
InOrder ==
    \A i, j \in DOMAIN waiters :
         /\ i < j
         /\ slot[waiters[j]] = NoHolder
         /\ slot'[waiters[j]] # NoHolder
         => \A k \in DOMAIN waiters' : waiters'[k] # waiters[i]

\* A posted completion stands until it runs.
CompletionStands ==
    \A t \in Clients : pc[t] = "posted" /\ pc'[t] = "posted" => slot'[t] = slot[t]

\* Waiters of both kinds are served in arrival order, and timer, hand-over and
\* shutdown never complete the same AsyncWaiter twice.
ServedInOrder == [][InOrder /\ CompletionStands]_vars

\* Nobody waits for ever who need not: the notification of return_holder() reaches
\* the thread that was assigned a connection, the one of shutdown() everybody who
\* waits, and the deadline of a thread or the timer of a coroutine answers a bounded
\* wait if no connection does.
WaitsEnd ==
    \A t \in Clients :
        (pc[t] = "waiting" /\ (ShutDown \/ Bounded(t) \/ t \in ready)) ~> (pc[t] # "waiting")

-----------------------------------------------------------------------------
(* What the documentation promises and the code does not keep *)

\* PoolConfig::capacity() is the maximum number of pooled connections.
CapacityRespected == created <= Capacity
=============================================================================
