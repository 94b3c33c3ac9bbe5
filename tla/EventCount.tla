----------------------------- MODULE EventCount -----------------------------
(***************************************************************************)
(* starling::EventCount: one 64-bit word packs an epoch (high half) and    *)
(* the number of registered waiters (low half).  A waiter registers, looks *)
(* at its condition again, and parks until the epoch leaves its key; a     *)
(* releaser advances the epoch and makes a system call only when somebody  *)
(* is registered.  Both builds are modelled: the Linux futex and the       *)
(* mutex with a condition variable.                                        *)
(*                                                                         *)
(* The condition is the caller's: a number of tokens.  A waiter takes one, *)
(* a releaser adds one before it notifies.  Every read-modify-write of the *)
(* word is one step; futex(WAIT) compares and queues in one step.          *)
(***************************************************************************)
EXTENDS Integers, FiniteSets

CONSTANTS
    Waiters,      \* threads that wait for a token
    TimedWaiters, \* those of them whose deadline can pass
    Releasers,    \* threads that each add a token and notify, Rounds times
    Rounds,
    Wakes,        \* subset of {"one", "all"}: notify_one(), notify_all()
    Backends,     \* subset of {"futex", "cv"}: the two builds
    HalfWord,     \* 2^32: the number of values of each half of the word
    NoThread

Threads == Waiters \union Releasers

\* Fewer waiters than the low half counts, and fewer notifications than the
\* high half: the epoch does not come back to a key.
Sizes ==
    /\ IsFiniteSet(Waiters) /\ IsFiniteSet(Releasers) /\ Waiters \intersect Releasers = {}
    /\ NoThread \notin Threads
    /\ Rounds \in Nat /\ HalfWord \in Nat \ {0}
    /\ Cardinality(Waiters) < HalfWord
    /\ Cardinality(Releasers) * Rounds < HalfWord
    /\ Backends \subseteq {"futex", "cv"} /\ Wakes \subseteq {"one", "all"}

VARIABLES
    backend, \* the build; never changes
    wake,    \* how the releasers notify; never changes
    state,   \* state_
    mutex,   \* mutex_ (fallback only)
    parked,  \* the waiters in the futex queue or asleep on cv_
    pc,      \* thread -> where it is
    key,     \* waiter -> the epoch prepare_wait() returned
    tokens,  \* the condition the waiters wait for
    rounds   \* releaser -> notifications still to come

vars == <<backend, wake, state, mutex, parked, pc, key, tokens, rounds>>

Init ==
    /\ backend \in Backends /\ wake \in Wakes
    /\ state = 0
    /\ mutex = NoThread
    /\ parked = {}
    /\ pc = [t \in Threads |-> "idle"]
    /\ key = [w \in Waiters |-> 0]
    /\ tokens = 0
    /\ rounds = [r \in Releasers |-> Rounds]

-----------------------------------------------------------------------------
Goto(t, label) == pc' = [pc EXCEPT ![t] = label]

epoch_increment == HalfWord

get_epoch == state \div HalfWord
get_waiter_count == state % HalfWord

\* Arithmetic on the word wraps around; a borrow or carry would reach the epoch.
Add(n) == state' = (state + n) % (HalfWord * HalfWord)

\* The caller sees the condition before it waits.
TakeToken(w) ==
    /\ pc[w] = "idle"
    /\ tokens > 0
    /\ tokens' = tokens - 1
    /\ Goto(w, "done")
    /\ UNCHANGED <<state, mutex, parked, key, rounds>>

\* fetch_add(1); the key is the epoch.
PrepareWait(w) ==
    /\ pc[w] = "idle"
    /\ Add(1)
    /\ key' = [key EXCEPT ![w] = get_epoch]
    /\ Goto(w, "recheck")
    /\ UNCHANGED <<mutex, parked, tokens, rounds>>

\* The caller looks at its condition again, as the contract demands.
Recheck(w) ==
    /\ pc[w] = "recheck"
    /\ IF tokens > 0
       THEN tokens' = tokens - 1 /\ Goto(w, "cancel")
       ELSE Goto(w, "wait") /\ UNCHANGED tokens
    /\ UNCHANGED <<state, mutex, parked, key, rounds>>

CancelWait(w) ==
    /\ pc[w] = "cancel"
    /\ Add(-1)
    /\ Goto(w, "done")
    /\ UNCHANGED <<mutex, parked, key, tokens, rounds>>

-----------------------------------------------------------------------------
(* wait_until *)

\* Bug: the wait trusts its first look at the epoch and queues unconditionally.
FutexWaitUnchecked(w) ==
    /\ pc[w] = "park"
    /\ backend = "futex"
    /\ parked' = parked \union {w}
    /\ Goto(w, "parked")
    /\ UNCHANGED <<state, mutex, key, tokens, rounds>>

\* The look at deadline and epoch before the system call.
WaitCheck(w) ==
    /\ pc[w] = "wait"
    /\ backend = "futex"
    /\ \/ get_epoch = key[w] /\ Goto(w, "park")
       \/ get_epoch # key[w] /\ Goto(w, "consume")
       \/ w \in TimedWaiters /\ Goto(w, "expired")
    /\ UNCHANGED <<state, mutex, parked, key, tokens, rounds>>

\* futex(FUTEX_WAIT): queue, or EAGAIN.
FutexWait(w) ==
    /\ pc[w] = "park"
    /\ backend = "futex"
    /\ IF get_epoch = key[w]
       THEN parked' = parked \union {w} /\ Goto(w, "parked")
       ELSE Goto(w, "consume") /\ UNCHANGED parked
    /\ UNCHANGED <<state, mutex, key, tokens, rounds>>

\* The fallback: lock, then the predicate loop of cv_.wait_until.
LockForWait(w) ==
    /\ pc[w] \in {"wait", "woken"}
    /\ backend = "cv"
    /\ mutex = NoThread
    /\ mutex' = w
    /\ Goto(w, "predicate")
    /\ UNCHANGED <<state, parked, key, tokens, rounds>>

EvaluatePredicate(w) ==
    /\ pc[w] = "predicate"
    /\ IF get_epoch # key[w]
       THEN mutex' = NoThread /\ Goto(w, "consume")
       ELSE Goto(w, "sleep") /\ UNCHANGED mutex
    /\ UNCHANGED <<state, parked, key, tokens, rounds>>

\* The condition variable releases the mutex and blocks in one step.
Sleep(w) ==
    /\ pc[w] = "sleep"
    /\ parked' = parked \union {w}
    /\ mutex' = NoThread
    /\ Goto(w, "parked")
    /\ UNCHANGED <<state, key, tokens, rounds>>

Woken == IF backend = "futex" THEN "consume" ELSE "woken"

\* FUTEX_WAKE or a notification took the waiter out of the queue.
WakeUp(w) ==
    /\ pc[w] = "parked"
    /\ w \notin parked
    /\ Goto(w, Woken)
    /\ UNCHANGED <<state, mutex, parked, key, tokens, rounds>>

\* EINTR, or a spurious return of the condition variable.
Interrupted(w) ==
    /\ pc[w] = "parked"
    /\ w \in parked
    /\ parked' = parked \ {w}
    /\ Goto(w, Woken)
    /\ UNCHANGED <<state, mutex, key, tokens, rounds>>

\* ETIMEDOUT, or cv_.wait_until at its deadline.
TimeOut(w) ==
    /\ pc[w] = "parked"
    /\ w \in TimedWaiters
    /\ w \in parked
    /\ parked' = parked \ {w}
    /\ Goto(w, "expired")
    /\ UNCHANGED <<state, mutex, key, tokens, rounds>>

\* The trailing fetch_sub(1); the fallback takes the mutex again before it leaves
\* at its deadline.
Consume(w) ==
    /\ pc[w] \in {"consume", "expired"}
    /\ backend = "cv" /\ pc[w] = "expired" => mutex = NoThread
    /\ Add(-1)
    /\ Goto(w, IF pc[w] = "expired" THEN "last_look" ELSE "idle")
    /\ UNCHANGED <<mutex, parked, key, tokens, rounds>>

\* After its deadline the caller looks once more and returns in either case.
LastLook(w) ==
    /\ pc[w] = "last_look"
    /\ tokens' = IF tokens > 0 THEN tokens - 1 ELSE tokens
    /\ Goto(w, "done")
    /\ UNCHANGED <<state, mutex, parked, key, rounds>>

-----------------------------------------------------------------------------
(* notify_one, notify_all *)

\* The caller makes its condition true.
AddToken(r) ==
    /\ pc[r] = "idle"
    /\ rounds[r] > 0
    /\ rounds' = [rounds EXCEPT ![r] = @ - 1]
    /\ tokens' = tokens + 1
    /\ Goto(r, "notify")
    /\ UNCHANGED <<state, mutex, parked, key>>

\* fetch_add(epoch_increment); with nobody registered that is all.
Advance(r) ==
    /\ pc[r] = "notify"
    /\ Add(epoch_increment)
    /\ Goto(r, IF get_waiter_count = 0 THEN "idle" ELSE "wake")
    /\ UNCHANGED <<mutex, parked, key, tokens, rounds>>

\* One of the parked waiters, or all of them.
WakeParked(r) ==
    /\ \/ parked = {} /\ UNCHANGED parked
       \/ wake = "one" /\ \E w \in parked : parked' = parked \ {w}
       \/ wake = "all" /\ parked # {} /\ parked' = {}
    /\ Goto(r, "idle")

\* Bug: the fallback notifies without the mutex.
NotifyUnlocked(r) ==
    /\ pc[r] = "wake"
    /\ WakeParked(r)
    /\ UNCHANGED <<state, mutex, key, tokens, rounds>>

\* FUTEX_WAKE, or a notification under the mutex.
Notify(r) ==
    /\ pc[r] = "wake"
    /\ backend = "cv" => mutex = NoThread
    /\ WakeParked(r)
    /\ UNCHANGED <<state, mutex, key, tokens, rounds>>

-----------------------------------------------------------------------------
WaiterStep(w) ==
    \/ TakeToken(w)
    \/ PrepareWait(w)
    \/ Recheck(w)
    \/ CancelWait(w)
    \/ WaitCheck(w)
    \/ FutexWait(w)
    \/ LockForWait(w)
    \/ EvaluatePredicate(w)
    \/ Sleep(w)
    \/ WakeUp(w)
    \/ Consume(w)
    \/ LastLook(w)

ReleaserStep(r) == AddToken(r) \/ Advance(r) \/ Notify(r)

Next ==
    /\ \/ \E w \in Waiters : WaiterStep(w) \/ TimeOut(w) \/ Interrupted(w)
       \/ \E r \in Releasers : ReleaserStep(r)
    /\ UNCHANGED <<backend, wake>>

Spec == Init /\ [][Next]_vars

\* Every thread runs, and the mutex is granted to a thread that keeps asking;
\* deadlines need not pass and nothing need interrupt a sleeper.
Fairness ==
    /\ \A w \in Waiters : SF_vars(WaiterStep(w) /\ UNCHANGED <<backend, wake>>)
    /\ \A r \in Releasers : SF_vars(ReleaserStep(r) /\ UNCHANGED <<backend, wake>>)

FairSpec == Spec /\ Fairness
-----------------------------------------------------------------------------
Labels == {"idle", "recheck", "cancel", "wait", "park", "predicate", "sleep", "parked", "woken",
           "consume", "expired", "last_look", "done", "notify", "wake"}

\* Every variable has its type.
TypeOK ==
    /\ backend \in Backends /\ wake \in Wakes
    /\ state \in 0 .. HalfWord * HalfWord - 1
    /\ mutex \in Threads \union {NoThread}
    /\ parked \subseteq Waiters
    /\ pc \in [Threads -> Labels]
    /\ key \in [Waiters -> 0 .. HalfWord - 1]
    /\ tokens \in Nat
    /\ rounds \in [Releasers -> 0 .. Rounds]

Registered(w) == pc[w] \notin {"idle", "last_look", "done"}

\* The low half counts exactly the waiters between prepare_wait() and the end of
\* cancel_wait() or wait_until(), and no registration ever leaks into the epoch,
\* which counts the notifications.
RegistrationExact ==
    /\ get_waiter_count = Cardinality({w \in Waiters : Registered(w)})
    /\ \E n \in 0 .. Rounds * Cardinality(Releasers) : get_epoch = n % HalfWord

\* With every releaser idle and a token left, not every thread that is still
\* waiting sleeps.
SleeperWoken ==
    /\ tokens > 0
    /\ \A r \in Releasers : pc[r] = "idle"
    /\ \E w \in Waiters : pc[w] # "done"
    => \E w \in Waiters : pc[w] # "done" /\ ~(pc[w] = "parked" /\ w \in parked)

\* No lost wake-up: the registrations a releaser looks at are exact, and no
\* release that skips or issues its system call leaves a sleeper behind.
NoLostWakeup == TypeOK /\ RegistrationExact /\ SleeperWoken

\* With a token for every waiter all of them get one, however the wake-ups fall.
AllServed == <>(\A w \in Waiters : pc[w] = "done")
=============================================================================
