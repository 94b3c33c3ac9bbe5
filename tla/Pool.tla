-------------------------------- MODULE Pool --------------------------------
(***************************************************************************)
(* starling::Pool<T>: a fixed arena of slots handed out by exclusive       *)
(* tokens.  Idle slots are bits of an atomic bitmap that any thread may    *)
(* claim without the mutex; callers that find no bit queue in a FIFO under *)
(* the mutex, synchronous and asynchronous ones in the same list.          *)
(*                                                                         *)
(* A client is a thread, or the coroutine of an async_acquire together     *)
(* with the executor that runs it.  It has at most one operation in        *)
(* progress and at most one token.  A step is one access to an atomic      *)
(* (closed_, waiter_gate_, a bitmap word) or one critical section; a       *)
(* critical section that touches an atomic which lock-free code reads or   *)
(* writes meanwhile is split at that access.  Which vacant or quarantined  *)
(* slot is taken is left open: the two registries are sets.  A client's    *)
(* deadline is the flag expired, which may rise at any moment of a bounded *)
(* acquisition; an unbounded one is one whose flag never rises.            *)
(***************************************************************************)
EXTENDS Integers, FiniteSets, Sequences

CONSTANTS
    Clients,
    Borrowers,     \* the clients that acquire slots
    Async,         \* the borrowers that do so with async_acquire
    Provisioners,  \* the clients that reserve, take and publish slots
    Closers,       \* the clients that call shutdown
    Capacity,
    BitsPerWord,   \* bits_per_word: 64 in the code
    NoClient

ASSUME PoolAssumption ==
    /\ Capacity \in Nat \ {0}
    /\ BitsPerWord \in Nat \ {0}
    /\ NoClient \notin Clients
    /\ Borrowers \subseteq Clients
    /\ Async \subseteq Borrowers
    /\ Provisioners \subseteq Clients
    /\ Closers \subseteq Clients

Slots == 0 .. Capacity - 1
NoSlot == -1
WordOf(s) == s \div BitsPerWord
LastWord == WordOf(Capacity - 1)

VARIABLES
    states,       \* states_
    bits,         \* words_: the slots whose idle bit is set
    vacant,       \* vacant_
    quarantined,  \* quarantined_
    usable,       \* usable_size_
    reserved,     \* reserved_count_
    phase,        \* closed_: "open" or "closed"
    mutex,        \* the holder of mutex_
    waiters,      \* waiters_, the FIFO of linked waiter nodes
    gate,         \* waiter_gate_
    wstate,       \* client -> state of its waiter node
    pinned,       \* the clients whose waiter node a selector still uses
    pc,           \* client -> where its operation is
    call,         \* client -> the caller of claim_idle / the handoff
    slot,         \* client -> the slot it works on
    word,         \* client -> the bitmap word its scan is at
    target,       \* client -> the waiter it selected
    after,        \* client -> where it goes after notifying the target
    expired       \* the clients whose acquisition has passed its deadline

inventory == <<states, vacant, quarantined, usable, reserved>>
queue == <<waiters, gate, wstate, pinned>>
locals == <<call, slot, word, target, after, expired>>
vars == <<inventory, bits, phase, mutex, queue, pc, locals>>

Init ==
    /\ states = [s \in Slots |-> "vacant"]
    /\ bits = {}
    /\ vacant = Slots
    /\ quarantined = {}
    /\ usable = 0
    /\ reserved = 0
    /\ phase = "open"
    /\ mutex = NoClient
    /\ waiters = <<>>
    /\ gate = 0
    /\ wstate = [t \in Clients |-> "queued"]
    /\ pinned = {}
    /\ pc = [t \in Clients |-> "ready"]
    /\ call = [t \in Clients |-> "none"]
    /\ slot = [t \in Clients |-> NoSlot]
    /\ word = [t \in Clients |-> 0]
    /\ target = [t \in Clients |-> NoClient]
    /\ after = [t \in Clients |-> "ready"]
    /\ expired = {}

-----------------------------------------------------------------------------
(* Pieces of steps *)

Set(f, t, v) == [f EXCEPT ![t] = v]

Closed == phase = "closed"

\* The operation of t ends and leaves nothing behind.
Return(t) ==
    /\ pc' = Set(pc, t, "ready")
    /\ call' = Set(call, t, "none")
    /\ slot' = Set(slot, t, NoSlot)
    /\ word' = Set(word, t, 0)
    /\ expired' = expired \ {t}
    /\ UNCHANGED <<target, after>>

\* The operation of t ends and its caller holds a token for slot[t].
ReturnToken(t, token) ==
    /\ pc' = Set(pc, t, token)
    /\ call' = Set(call, t, "none")
    /\ word' = Set(word, t, 0)
    /\ expired' = expired \ {t}
    /\ UNCHANGED <<slot, target, after>>

Goto(t, label) ==
    /\ pc' = Set(pc, t, label)
    /\ UNCHANGED locals

\* claim_idle() begins; caller tells where its result is used.
StartScan(t, caller) ==
    /\ pc' = Set(pc, t, "scan")
    /\ call' = Set(call, t, caller)
    /\ word' = Set(word, t, 0)
    /\ UNCHANGED <<slot, target, after, expired>>

Lock(t) ==
    /\ mutex = NoClient
    /\ mutex' = t

\* A critical section that is one step.
Locked == mutex = NoClient /\ UNCHANGED mutex

Unlock == mutex' = NoClient

QuarantineBorrowed(s) ==
    /\ states' = Set(states, s, "quarantined")
    /\ quarantined' = quarantined \union {s}
    /\ usable' = usable - 1
    /\ UNCHANGED <<vacant, reserved>>

\* states_[s] = idle; publish_bit(s)
MakeIdle(s) ==
    /\ states' = Set(states, s, "idle")
    /\ bits' = bits \union {s}
    /\ UNCHANGED <<vacant, quarantined, usable, reserved>>

\* waiters_.erase(iterator to the i-th node)
Erase(q, i) == SubSeq(q, 1, i - 1) \o SubSeq(q, i + 1, Len(q))

\* unlink_waiter: the node at position i of the FIFO leaves with this state.
Unlink(i, state) ==
    /\ waiters' = Erase(waiters, i)
    /\ gate' = gate - 1
    /\ wstate' = Set(wstate, waiters[i], state)

\* complete_waiter_locked(front, state): t unlinks the front waiter, pins its
\* node and unlocks; notify_one or the posting of the completion comes next.
CompleteFront(t, state, next) ==
    /\ Unlink(1, state)
    /\ pinned' = pinned \union {waiters[1]}
    /\ pc' = Set(pc, t, "notify")
    /\ target' = Set(target, t, waiters[1])
    /\ after' = Set(after, t, next)
    /\ Unlock
    /\ UNCHANGED <<word, expired>>

-----------------------------------------------------------------------------
(* claim_idle: one word of the bitmap per step *)

\* The set bits of the word that the scan of t is at.
Hits(t) == {s \in bits : WordOf(s) = word[t]}

\* Where the caller of claim_idle continues with a claimed slot.
Claimed == [try |-> "claimed", fast |-> "claimed", slow |-> "slow_claimed",
            serve |-> "handoff", take |-> "take_claimed"]

\* Where it continues when the last word had no bit set either.
Missed == [try |-> "ready", fast |-> "register", slow |-> "park",
           serve |-> "unlock", take |-> "ready"]

\* The compare-exchange that clears the lowest set bit of the word succeeds.
ClaimBit(t) ==
    /\ pc[t] = "scan"
    /\ \E s \in Hits(t) :
        /\ \A u \in Hits(t) : s <= u
        /\ bits' = bits \ {s}
        /\ states' = Set(states, s, "borrowed")
        /\ slot' = Set(slot, t, s)
    /\ pc' = Set(pc, t, Claimed[call[t]])
    /\ word' = Set(word, t, 0)
    /\ UNCHANGED <<vacant, quarantined, usable, reserved, phase, mutex, queue,
                   call, target, after, expired>>

\* The word is seen empty.
ClaimMiss(t) ==
    /\ pc[t] = "scan"
    /\ Hits(t) = {}
    /\ \/ /\ word[t] < LastWord
          /\ word' = Set(word, t, word[t] + 1)
          /\ UNCHANGED <<pc, call, slot, target, after, expired>>
       \/ /\ word[t] = LastWord
          /\ Missed[call[t]] = "ready"
          /\ Return(t)
       \/ /\ word[t] = LastWord
          /\ Missed[call[t]] # "ready"
          /\ pc' = Set(pc, t, Missed[call[t]])
          /\ word' = Set(word, t, 0)
          /\ UNCHANGED <<call, slot, target, after, expired>>
    /\ UNCHANGED <<inventory, bits, phase, mutex, queue>>

-----------------------------------------------------------------------------
(* try_acquire, acquire, acquire_for, async_acquire, async_acquire_for *)

\* An operation on a closed pool returns at once and is no step.
TryAcquire(t) ==
    /\ pc[t] = "ready"
    /\ ~Closed
    /\ StartScan(t, "try")
    /\ UNCHANGED <<inventory, bits, phase, mutex, queue>>

Acquire(t) ==
    /\ pc[t] = "ready"
    /\ ~Closed
    /\ StartScan(t, "fast")
    /\ wstate' = Set(wstate, t, "queued")
    /\ UNCHANGED <<inventory, bits, phase, mutex, waiters, gate, pinned>>

\* The recheck after a lock-free claim: closure, then the deadline.
CheckClaim(t) ==
    /\ pc[t] = "claimed"
    /\ \/ Closed /\ Goto(t, "quarantine")
       \/ ~Closed /\ t \in expired /\ Goto(t, "publish_check")
       \/ ~Closed /\ t \notin expired /\ ReturnToken(t, "holding")
    /\ UNCHANGED <<inventory, bits, phase, mutex, queue>>

\* A slot that its owner must not offer again is withdrawn.
Quarantine(t) ==
    /\ pc[t] = "quarantine"
    /\ Locked
    /\ QuarantineBorrowed(slot[t])
    /\ Return(t)
    /\ UNCHANGED <<bits, phase, queue>>

\* The slow path enters the critical section, announces itself at the gate and
\* scans again; a cancellation may have been recorded before.
Register(t) ==
    /\ pc[t] = "register"
    /\ \/ /\ wstate[t] = "cancelled" \/ Closed \/ t \in expired
          /\ Locked
          /\ Return(t)
          /\ UNCHANGED gate
       \/ /\ wstate[t] # "cancelled"
          /\ ~Closed
          /\ t \notin expired
          /\ Lock(t)
          /\ gate' = gate + 1
          /\ StartScan(t, "slow")
    /\ UNCHANGED <<inventory, bits, phase, waiters, wstate, pinned>>

SlowClaimed(t) ==
    /\ pc[t] = "slow_claimed"
    /\ gate' = gate - 1
    /\ \/ /\ t \in expired
          /\ pc' = Set(pc, t, "handoff")
          /\ call' = Set(call, t, "none")
          /\ UNCHANGED <<mutex, slot, word, target, after, expired>>
       \/ /\ t \notin expired
          /\ Unlock
          /\ ReturnToken(t, "holding")
    /\ UNCHANGED <<inventory, bits, phase, waiters, wstate, pinned>>

\* push_back, then the wait releases the mutex.
Park(t) ==
    /\ pc[t] = "park"
    /\ waiters' = Append(waiters, t)
    /\ Unlock
    /\ pc' = Set(pc, t, "parked")
    /\ call' = Set(call, t, "none")
    /\ UNCHANGED <<inventory, bits, phase, gate, wstate, pinned,
                   slot, word, target, after, expired>>

\* The deadline passes.
Expire(t) ==
    /\ \/ pc[t] \in {"claimed", "scan"} /\ call[t] \in {"fast", "slow"}
       \/ pc[t] \in {"register", "slow_claimed", "park", "parked"}
    /\ t \notin expired
    /\ expired' = expired \union {t}
    /\ UNCHANGED <<inventory, bits, phase, mutex, queue, pc, call, slot, word, target, after>>

\* A linked waiter ends its own wait: the timed wait of a thread or the timer
\* of a coroutine finds the node still queued.
TimeOut(t) ==
    /\ pc[t] = "parked"
    /\ wstate[t] = "queued"
    /\ t \in expired
    /\ Locked
    /\ \E i \in 1 .. Len(waiters) : waiters[i] = t /\ Unlink(i, "timeout")
    /\ Return(t)
    /\ UNCHANGED <<inventory, bits, phase, pinned>>

\* A terminal cancellation signal reaches the coroutine: before its node is
\* linked it only records the rejection, afterwards it completes the node.
Cancel(t) ==
    /\ t \in Async
    /\ wstate[t] = "queued"
    /\ Locked
    /\ \/ /\ pc[t] = "register"
          /\ wstate' = Set(wstate, t, "cancelled")
          /\ UNCHANGED <<waiters, gate, pc, locals>>
       \/ /\ pc[t] = "parked"
          /\ \E i \in 1 .. Len(waiters) : waiters[i] = t /\ Unlink(i, "cancelled")
          /\ Return(t)
    /\ UNCHANGED <<inventory, bits, phase, pinned>>

\* A parked thread wakes, notified or not, and sees its node completed.
Wake(t) ==
    /\ t \notin Async
    /\ pc[t] = "parked"
    /\ wstate[t] # "queued"
    /\ Locked
    /\ Goto(t, "woken")
    /\ UNCHANGED <<inventory, bits, phase, queue>>

\* Bug: the waiter leaves without passing its notification mutex.
DeliverUnpinned(t) ==
    /\ pc[t] = IF t \in Async THEN "parked" ELSE "woken"
    /\ wstate[t] # "queued"
    /\ IF wstate[t] = "assigned" THEN ReturnToken(t, "holding") ELSE Return(t)
    /\ UNCHANGED <<inventory, bits, phase, mutex, queue>>

\* A thread passes its notification mutex, or the executor runs the posted
\* completion of a coroutine; either returns what the selector decided.
Deliver(t) ==
    /\ pc[t] = IF t \in Async THEN "parked" ELSE "woken"
    /\ wstate[t] # "queued"
    /\ t \notin pinned
    /\ IF wstate[t] = "assigned" THEN ReturnToken(t, "holding") ELSE Return(t)
    /\ UNCHANGED <<inventory, bits, phase, mutex, queue>>
-----------------------------------------------------------------------------
(* handoff_or_publish, handoff_or_publish_locked, serve_waiters_locked *)

\* The destruction of a Borrowed.
Release(t) ==
    /\ pc[t] = "holding"
    /\ Goto(t, "publish_check")
    /\ UNCHANGED <<inventory, bits, phase, mutex, queue>>

\* Borrowed::quarantine
QuarantineToken(t) ==
    /\ pc[t] = "holding"
    /\ Goto(t, "quarantine")
    /\ UNCHANGED <<inventory, bits, phase, mutex, queue>>

PublishCheck(t) ==
    /\ \/ pc[t] = "publish_check" /\ Goto(t, IF Closed THEN "handoff_lock" ELSE "gate_check")
       \/ pc[t] = "gate_check" /\ Goto(t, IF gate # 0 THEN "handoff_lock" ELSE "publish_bit")
    /\ UNCHANGED <<inventory, bits, phase, mutex, queue>>

\* From here the bit is anyone's; slot[t] is only remembered.
PublishBit(t) ==
    /\ pc[t] = "publish_bit"
    /\ MakeIdle(slot[t])
    /\ Goto(t, "recheck_closed")
    /\ UNCHANGED <<phase, mutex, queue>>

\* Bug: the publisher takes its bit back without looking whether it is set.
ReclaimUnchecked(t) ==
    /\ pc[t] = "recheck_closed"
    /\ IF Closed
       THEN /\ bits' = bits \ {slot[t]}
            /\ states' = Set(states, slot[t], "borrowed")
            /\ Goto(t, "quarantine")
       ELSE Return(t) /\ UNCHANGED <<states, bits>>
    /\ UNCHANGED <<vacant, quarantined, usable, reserved, phase, mutex, queue>>

\* After closure the publisher takes its bit back unless the sweep, or a
\* claimer, was faster.
RecheckClosed(t) ==
    /\ pc[t] = "recheck_closed"
    /\ \/ /\ Closed
          /\ slot[t] \in bits
          /\ bits' = bits \ {slot[t]}
          /\ states' = Set(states, slot[t], "borrowed")
          /\ Goto(t, "quarantine")
       \/ /\ Closed
          /\ slot[t] \notin bits
          /\ Return(t)
          /\ UNCHANGED <<states, bits>>
       \/ /\ ~Closed
          /\ pc' = Set(pc, t, "recheck_gate")
          /\ slot' = Set(slot, t, NoSlot)
          /\ UNCHANGED <<states, bits, call, word, target, after, expired>>
    /\ UNCHANGED <<vacant, quarantined, usable, reserved, phase, mutex, queue>>

\* Bug: the gate is not rechecked after the publication.
RecheckGateSkipped(t) ==
    /\ pc[t] = "recheck_gate"
    /\ Return(t)
    /\ UNCHANGED <<inventory, bits, phase, mutex, queue>>

RecheckGate(t) ==
    /\ pc[t] = "recheck_gate"
    /\ IF gate # 0 THEN Goto(t, "serve_lock") ELSE Return(t)
    /\ UNCHANGED <<inventory, bits, phase, mutex, queue>>

\* Where the three loops that unlock while they notify lock again.
Relock(t) ==
    /\ pc[t] \in {"handoff_lock", "serve_lock", "drain_lock"}
    /\ Lock(t)
    /\ pc' = Set(pc, t, CASE pc[t] = "handoff_lock" -> "handoff"
                          [] pc[t] = "serve_lock"   -> "serve"
                          [] OTHER                  -> "drain")
    /\ UNCHANGED <<inventory, bits, phase, queue, locals>>

\* The handoff kept the lock: its caller goes on serving or unlocks.
HandoffKeepsLock(t) ==
    /\ pc' = Set(pc, t, IF call[t] = "serve" THEN "serve" ELSE "unlock")
    /\ slot' = Set(slot, t, NoSlot)
    /\ UNCHANGED <<mutex, call, word, target, after, expired>>

\* One round of the loop of handoff_or_publish_locked.
Handoff(t) ==
    /\ pc[t] = "handoff"
    /\ \/ /\ Closed
          /\ QuarantineBorrowed(slot[t])
          /\ HandoffKeepsLock(t)
          /\ UNCHANGED <<bits, queue>>
       \/ /\ ~Closed
          /\ waiters = <<>>
          /\ MakeIdle(slot[t])
          /\ HandoffKeepsLock(t)
          /\ UNCHANGED queue
       \/ /\ ~Closed
          /\ waiters # <<>>
          /\ waiters[1] \in expired
          /\ CompleteFront(t, "timeout", "handoff_lock")
          /\ UNCHANGED <<inventory, bits, call, slot>>
       \/ /\ ~Closed
          /\ waiters # <<>>
          /\ waiters[1] \notin expired
          /\ CompleteFront(t, "assigned", IF call[t] = "serve" THEN "serve_lock" ELSE "ready")
          /\ slot' = [slot EXCEPT ![waiters[1]] = slot[t], ![t] = NoSlot]
          /\ UNCHANGED <<inventory, bits, call>>
    /\ UNCHANGED phase

\* notify_one and the release of the pin, or the posting of the completion.
Notify(t) ==
    /\ pc[t] = "notify"
    /\ pinned' = pinned \ {target[t]}
    /\ target' = Set(target, t, NoClient)
    /\ after' = Set(after, t, "ready")
    /\ pc' = Set(pc, t, after[t])
    /\ IF after[t] = "ready"
       THEN /\ call' = Set(call, t, "none")
            /\ expired' = expired \ {t}
       ELSE UNCHANGED <<call, expired>>
    /\ UNCHANGED <<inventory, bits, phase, mutex, waiters, gate, wstate, slot, word>>

\* One round of the loop of serve_waiters_locked.
Serve(t) ==
    /\ pc[t] = "serve"
    /\ IF Closed \/ waiters = <<>> THEN Goto(t, "unlock") ELSE StartScan(t, "serve")
    /\ UNCHANGED <<inventory, bits, phase, mutex, queue>>

\* The end of an operation that still holds the lock.
UnlockAndReturn(t) ==
    /\ pc[t] = "unlock"
    /\ Unlock
    /\ Return(t)
    /\ UNCHANGED <<inventory, bits, phase, queue>>

-----------------------------------------------------------------------------
(* ReservedSlot, try_reserve, try_take_quarantined, try_take_idle *)

TryReserve(t) ==
    /\ pc[t] = "ready"
    /\ Locked
    /\ ~Closed
    /\ \E s \in vacant :
        /\ vacant' = vacant \ {s}
        /\ states' = Set(states, s, "reserved")
        /\ slot' = Set(slot, t, s)
    /\ reserved' = reserved + 1
    /\ pc' = Set(pc, t, "reserved")
    /\ UNCHANGED <<bits, quarantined, usable, phase, queue, call, word, target, after, expired>>

TryTakeQuarantined(t) ==
    /\ pc[t] = "ready"
    /\ Locked
    /\ ~Closed
    /\ \E s \in quarantined :
        /\ quarantined' = quarantined \ {s}
        /\ states' = Set(states, s, "reserved")
        /\ slot' = Set(slot, t, s)
    /\ reserved' = reserved + 1
    /\ pc' = Set(pc, t, "constructed")
    /\ UNCHANGED <<bits, vacant, usable, phase, queue, call, word, target, after, expired>>

TryTakeIdle(t) ==
    /\ \/ /\ pc[t] = "ready"
          /\ ~Closed
          /\ Goto(t, "take_gate")
       \/ /\ pc[t] = "take_gate"
          /\ IF gate # 0 THEN Return(t) ELSE StartScan(t, "take")
    /\ UNCHANGED <<inventory, bits, phase, mutex, queue>>

\* Maintenance owns a bit: it gives the slot back if anyone registered since.
TakeClaimed(t) ==
    /\ pc[t] = "take_claimed"
    /\ \/ /\ Closed
          /\ Locked
          /\ QuarantineBorrowed(slot[t])
          /\ Return(t)
          /\ UNCHANGED bits
       \/ /\ ~Closed
          /\ gate # 0
          /\ Lock(t)
          /\ MakeIdle(slot[t])
          /\ pc' = Set(pc, t, "serve")
          /\ slot' = Set(slot, t, NoSlot)
          /\ UNCHANGED <<call, word, target, after, expired>>
       \/ /\ ~Closed
          /\ gate = 0
          /\ Locked
          /\ states' = Set(states, slot[t], "reserved")
          /\ usable' = usable - 1
          /\ reserved' = reserved + 1
          /\ ReturnToken(t, "constructed")
          /\ UNCHANGED <<bits, vacant, quarantined>>
    /\ UNCHANGED <<phase, queue>>

\* emplace() or construct(), and destroy()
Construct(t) ==
    /\ pc[t] = "reserved"
    /\ Goto(t, "constructed")
    /\ UNCHANGED <<inventory, bits, phase, mutex, queue>>

Destroy(t) ==
    /\ pc[t] = "constructed"
    /\ Goto(t, "reserved")
    /\ UNCHANGED <<inventory, bits, phase, mutex, queue>>

\* publish(); on a closed pool it returns false and the token remains.
Publish(t) ==
    /\ pc[t] = "constructed"
    /\ ~Closed
    /\ Lock(t)
    /\ states' = Set(states, slot[t], "borrowed")
    /\ reserved' = reserved - 1
    /\ usable' = usable + 1
    /\ Goto(t, "handoff")
    /\ UNCHANGED <<bits, vacant, quarantined, phase, queue>>

\* The destruction of an unpublished ReservedSlot.
Rollback(t) ==
    /\ pc[t] \in {"reserved", "constructed"}
    /\ Locked
    /\ states' = Set(states, slot[t], "vacant")
    /\ vacant' = vacant \union {slot[t]}
    /\ reserved' = reserved - 1
    /\ Return(t)
    /\ UNCHANGED <<bits, quarantined, usable, phase, queue>>

-----------------------------------------------------------------------------
(* shutdown *)

Shutdown(t) ==
    /\ pc[t] = "ready"
    /\ ~Closed
    /\ Lock(t)
    /\ phase' = "closed"
    /\ Goto(t, "sweep")
    /\ UNCHANGED <<inventory, bits, queue>>

\* exchange(0) on one word; its slots are quarantined.
Sweep(t) ==
    /\ pc[t] = "sweep"
    /\ bits' = bits \ Hits(t)
    /\ states' = [s \in Slots |-> IF s \in Hits(t) THEN "quarantined" ELSE states[s]]
    /\ quarantined' = quarantined \union Hits(t)
    /\ usable' = usable - Cardinality(Hits(t))
    /\ \/ /\ word[t] < LastWord
          /\ word' = Set(word, t, word[t] + 1)
          /\ UNCHANGED pc
       \/ /\ word[t] = LastWord
          /\ word' = Set(word, t, 0)
          /\ pc' = Set(pc, t, "drain")
    /\ UNCHANGED <<vacant, reserved, phase, mutex, queue, call, slot, target, after, expired>>

\* Bug: shutdown leaves the waiters queued.
DrainSkipped(t) ==
    /\ pc[t] = "drain"
    /\ Goto(t, "unlock")
    /\ UNCHANGED <<inventory, bits, phase, mutex, queue>>

\* One round of the loop that rejects the queued waiters.
Drain(t) ==
    /\ pc[t] = "drain"
    /\ \/ /\ waiters = <<>>
          /\ Goto(t, "unlock")
          /\ UNCHANGED <<mutex, queue>>
       \/ /\ waiters # <<>>
          /\ CompleteFront(t, IF waiters[1] \in expired THEN "timeout" ELSE "shutdown", "drain_lock")
          /\ UNCHANGED <<call, slot>>
    /\ UNCHANGED <<inventory, bits, phase>>

-----------------------------------------------------------------------------
\* The operations a client may begin, and the deadlines, signals and spurious
\* wake-ups that may reach it: nothing obliges them to happen.
Begin(t) ==
    \/ t \in Borrowers /\ TryAcquire(t)
    \/ t \in Borrowers /\ Acquire(t)
    \/ QuarantineToken(t)
    \/ t \in Provisioners /\ TryReserve(t)
    \/ t \in Provisioners /\ TryTakeQuarantined(t)
    \/ t \in Provisioners /\ pc[t] = "ready" /\ TryTakeIdle(t)
    \/ Destroy(t)
    \/ Rollback(t)
    \/ t \in Closers /\ Shutdown(t)
    \/ Expire(t)
    \/ Cancel(t)
    \/ Wake(t)

\* The steps of an operation in progress.
Step(t) ==
    \/ ClaimBit(t)
    \/ ClaimMiss(t)
    \/ CheckClaim(t)
    \/ Quarantine(t)
    \/ Register(t)
    \/ SlowClaimed(t)
    \/ Park(t)
    \/ TimeOut(t)
    \/ t \notin pinned /\ Wake(t)
    \/ Deliver(t)
    \/ PublishCheck(t)
    \/ PublishBit(t)
    \/ RecheckClosed(t)
    \/ RecheckGate(t)
    \/ Relock(t)
    \/ Handoff(t)
    \/ Notify(t)
    \/ Serve(t)
    \/ UnlockAndReturn(t)
    \/ pc[t] = "take_gate" /\ TryTakeIdle(t)
    \/ TakeClaimed(t)
    \/ Sweep(t)
    \/ Drain(t)

\* What a caller does with its token.
Use(t) ==
    \/ Release(t)
    \/ Construct(t)
    \/ Publish(t)

Next == \E t \in Clients : Begin(t) \/ Step(t) \/ Use(t)

Spec == Init /\ [][Next]_vars
\* Threads and executors run, a caller that keeps asking for the mutex gets it
\* in the end (hence strong fairness), and a token is put to use.
Fairness == \A t \in Clients : SF_vars(Step(t)) /\ SF_vars(Use(t))

FairSpec == Spec /\ Fairness

-----------------------------------------------------------------------------
(* Properties *)

SlotStates == {"vacant", "reserved", "idle", "borrowed", "quarantined"}
WaiterStates == {"queued", "assigned", "timeout", "cancelled", "shutdown"}
LockedLabels == {"slow_claimed", "park", "handoff", "serve", "unlock", "sweep", "drain"}
Labels == LockedLabels \union
    {"ready", "scan", "claimed", "quarantine", "register", "parked", "woken", "holding",
     "publish_check", "gate_check", "publish_bit", "recheck_closed", "recheck_gate",
     "handoff_lock", "serve_lock", "drain_lock", "notify", "take_gate", "take_claimed",
     "reserved", "constructed"}
Callers == {"none"} \union DOMAIN Claimed

\* Every variable has its type.
TypeOK ==
    /\ states \in [Slots -> SlotStates]
    /\ bits \subseteq Slots
    /\ vacant \subseteq Slots
    /\ quarantined \subseteq Slots
    /\ usable \in Int
    /\ reserved \in Int
    /\ phase \in {"open", "closed"}
    /\ mutex \in Clients \union {NoClient}
    /\ waiters \in Seq(Clients)
    /\ gate \in Int
    /\ wstate \in [Clients -> WaiterStates]
    /\ pinned \subseteq Clients
    /\ pc \in [Clients -> Labels]
    /\ call \in [Clients -> Callers]
    /\ slot \in [Clients -> Slots \union {NoSlot}]
    /\ word \in [Clients -> 0 .. LastWord]
    /\ target \in [Clients -> Clients \union {NoClient}]
    /\ after \in [Clients -> Labels]
    /\ expired \subseteq Clients

\* The labels at which t is between Pool::mutex_.lock and unlock.
HoldsLock(t) == pc[t] \in LockedLabels \/ (pc[t] = "scan" /\ call[t] \in {"slow", "serve"})

\* The slot of t is t's alone: its bit is clear and no registry lists it.
Owns(t) == slot[t] # NoSlot /\ pc[t] # "recheck_closed"

\* A slot has at most one owner and an owned slot is in no other place: it is
\* never idle, vacant or quarantined while somebody uses it.
ExclusiveOwnership ==
    /\ \A t, u \in Clients : t # u /\ Owns(t) /\ Owns(u) => slot[t] # slot[u]
    /\ \A t \in Clients : Owns(t) =>
        states[slot[t]] = IF pc[t] \in {"reserved", "constructed"} THEN "reserved" ELSE "borrowed"

\* No slot is lost: one that is neither idle, vacant nor quarantined has an owner
\* that will give it back, on every path through timeouts, handoffs, rejections
\* and shutdown.
SlotsAccounted ==
    \A s \in Slots : states[s] \in {"borrowed", "reserved"} =>
        \E t \in Clients : Owns(t) /\ slot[t] = s

\* The asserts on states_: what the bitmap, vacant_ and quarantined_ list is in
\* that state, so whoever takes a slot from there finds it as it expects.
RegistriesAgree ==
    \A s \in Slots :
        /\ s \in bits <=> states[s] = "idle"
        /\ s \in vacant <=> states[s] = "vacant"
        /\ s \in quarantined <=> states[s] = "quarantined"

\* assert_invariants_locked: no slot is lost or counted twice.
Conservation ==
    /\ Capacity = Cardinality(vacant) + reserved + Cardinality(quarantined) + usable
    /\ Cardinality(bits) <= usable

\* Whatever the interleaving, every slot is in one place: with a single owner that
\* will give it back, or in the one registry that matches its state.
OwnershipAccounted == ExclusiveOwnership /\ SlotsAccounted /\ RegistriesAgree

\* t has raised the gate and is not linked yet.
Registering(t) == pc[t] \in {"slow_claimed", "park"} \/ (pc[t] = "scan" /\ call[t] = "slow")

\* assert_invariants_locked: outside the critical section of a registration the
\* gate counts the linked waiters, which are the parked and still queued ones.
GateCountsWaiters ==
    /\ gate = Len(waiters) + Cardinality({t \in Clients : Registering(t)})
    /\ {waiters[i] : i \in DOMAIN waiters} = {t \in Clients : pc[t] = "parked" /\ wstate[t] = "queued"}

\* A client that is not in the middle of an operation.
AtRest(t) ==
    \/ pc[t] \in {"ready", "holding", "reserved", "constructed"}
    \/ pc[t] = "parked" /\ wstate[t] = "queued"

\* No lost wake-up: once every operation in progress is over, nobody is queued
\* while a slot is idle.  The publisher's gate recheck, the registration's
\* second scan and the maintenance path must not miss one another.
NoLostWakeup ==
    (\A t \in Clients : AtRest(t)) => waiters = <<>> \/ bits = {}

\* Once shutdown and the operations that raced it are over, no slot is offered
\* any more and no waiter is left behind.
ShutdownComplete ==
    Closed /\ (\A t \in Clients : AtRest(t)) => waiters = <<>> /\ bits = {}

\* notify_one runs on a live condition variable: a thread whose node was
\* selected does not leave acquire(), where the node lives, before its selector
\* has let go of it, and no other selection of the node is in progress.
NotifiedNodeAlive ==
    \A t \in Clients : pc[t] = "notify" =>
        /\ pc[target[t]] \in {"parked", "woken"}
        /\ \A u \in Clients \ {t} : pc[u] = "notify" => target[u] # target[t]

\* Waiters and counters agree with what they count at every step of every
\* operation, and no node is notified after its death.
WaitersCounted == Conservation /\ GateCountsWaiters /\ NotifiedNodeAlive

\* No idle slot and no shutdown is missed by a waiter.
NobodyForgotten == NoLostWakeup /\ ShutdownComplete

Queued(t) == pc[t] = "parked" /\ wstate[t] = "queued"

\* A queued waiter gets a slot, or an answer, as long as a usable slot exists
\* and borrowers return what they hold: fast-path claims barge ahead of the
\* queue, but not for ever.
WaiterServed ==
    \A t \in Clients : (Queued(t) /\ usable > 0) ~> (~Queued(t) \/ usable = 0)

\* shutdown() answers every waiter and every operation in progress ends.
ShutdownAnswers ==
    \A t \in Clients : (Closed /\ Queued(t)) ~> (pc[t] = "ready")

\* A wait ends with a slot or with the shutdown.
QueuedWaitsEnd == WaiterServed /\ ShutdownAnswers
=============================================================================
