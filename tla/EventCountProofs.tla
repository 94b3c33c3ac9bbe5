-------------------------- MODULE EventCountProofs --------------------------
(***************************************************************************)
(* No lost wake-up in EventCount, for every number of waiters, releasers   *)
(* and notifications, on both backends.                                    *)
(***************************************************************************)
EXTENDS EventCount, Arithmetic, FiniteSetTheorems

\* The waiters the low half counts.
Reg == {w \in Waiters : Registered(w)}

\* The notifications to come, those that have not advanced the epoch yet, and
\* those under way.
Left == {p \in Releasers \X (1 .. Rounds) : p[2] <= rounds[p[1]]}
Notifying == {r \in Releasers : pc[r] = "notify"}
Pending == {r \in Releasers : pc[r] # "idle"}

\* The waiters that will look at the condition again before they sleep or end.
Awake == {w \in Waiters : w \notin parked /\ pc[w] \notin {"cancel", "done"}}

\* Where a waiter is that found no token and has not been told of a new one.
Looked == {"wait", "park", "predicate", "sleep", "parked", "woken"}

\* Threads are where threads of their kind can be, and the mutex is held from
\* the predicate to the sleep.
Places ==
    /\ TypeOK
    /\ \A r \in Releasers : pc[r] \in {"idle", "notify", "wake"}
    /\ \A w \in Waiters :
        /\ pc[w] \notin {"notify", "wake"}
        /\ w \in parked => pc[w] = "parked"
        /\ pc[w] \in {"predicate", "sleep"} => mutex = w /\ backend = "cv"

\* The word counts the registrations, and its epoch the notifications so far:
\* no key is ahead of it.
WordExact ==
    /\ get_waiter_count = Cardinality(Reg)
    /\ get_epoch + Cardinality(Left) + Cardinality(Notifying) = Cardinality(Releasers) * Rounds
    /\ \A w \in Reg : key[w] <= get_epoch

\* Every token that a sleeper may miss has somebody awake, or a notification
\* under way, for it.
TokensCovered ==
    /\ \A w \in Waiters : pc[w] \in Looked /\ key[w] = get_epoch => tokens <= Cardinality(Notifying)
    /\ \A w \in Waiters : pc[w] = "sleep" => tokens <= Cardinality(Pending)
    /\ parked # {} => tokens <= Cardinality(Awake) + Cardinality(Pending)

IInv == Places /\ WordExact /\ TokensCovered

-----------------------------------------------------------------------------
(* The word *)

\* An addition that stays within the word changes its halves as written.
LEMMA WordStep ==
    ASSUME NEW h \in Nat \ {0}, NEW s \in Int, NEW d \in Int,
           NEW e \in 0 .. h - 1, NEW n \in 0 .. h - 1, s + d = h * e + n
    PROVE  LET t == (s + d) % (h * h) IN t \in 0 .. h * h - 1 /\ t \div h = e /\ t % h = n
<1> DEFINE x == s + d
<1> DEFINE m == h * h
<1>1. h * e >= 0 /\ h * (h - 1 - e) >= 0
  OBVIOUS
<1>2. h * (h - 1 - e) = h * h - h - h * e
  OBVIOUS
<1>3. x \in 0 .. m - 1 /\ m \in Nat \ {0} /\ x = h * e + n
  BY <1>1, <1>2
<1> HIDE DEF m
<1>4. x = m * 0 + x
  BY <1>3
<1> HIDE DEF x
<1>5. x % m = x
  BY <1>3, <1>4, DivisionUnique
<1>6. x \div h = e /\ x % h = n
  BY <1>3, DivisionUnique
<1> QED
  BY <1>3, <1>5, <1>6 DEF x, m

\* The halves of the word are numbers of half its width.
LEMMA HalvesType ==
    ASSUME Sizes, TypeOK
    PROVE  /\ get_epoch \in 0 .. HalfWord - 1
           /\ get_waiter_count \in 0 .. HalfWord - 1
           /\ state = HalfWord * get_epoch + get_waiter_count
<1> DEFINE q == state \div HalfWord
<1> DEFINE r == state % HalfWord
<1>1. HalfWord \in Nat \ {0} /\ state \in 0 .. HalfWord * HalfWord - 1
  BY DEF Sizes, TypeOK
<1>2. q \in Int /\ r \in 0 .. HalfWord - 1 /\ state = HalfWord * q + r
  BY <1>1, DivisionFacts
<1> HIDE DEF q, r
<1>3. q >= 0
  <2> SUFFICES ASSUME q < 0 PROVE FALSE
    BY <1>2
  <2>1. 0 - q \in Int /\ 0 - q >= 1
    BY <1>2
  <2>2. HalfWord * (0 - q) >= HalfWord
    BY <1>1, <2>1, MultipleAtLeast
  <2>3. HalfWord * (0 - q) = 0 - HalfWord * q
    BY <1>1, <1>2
  <2> QED BY <1>1, <1>2, <2>2, <2>3
<1>4. q < HalfWord
  <2> SUFFICES ASSUME q >= HalfWord PROVE FALSE
    BY <1>1, <1>2
  <2>1. HalfWord * (q - HalfWord) >= 0
    BY <1>1, <1>2
  <2>2. HalfWord * (q - HalfWord) = HalfWord * q - HalfWord * HalfWord
    BY <1>1, <1>2
  <2> QED BY <1>1, <1>2, <2>1, <2>2
<1> QED
  BY <1>1, <1>2, <1>3, <1>4 DEF q, r, get_epoch, get_waiter_count

\* What the three additions do to the halves.
LEMMA Additions ==
    ASSUME Sizes, TypeOK
    PROVE  /\ Add(1) /\ get_waiter_count + 1 < HalfWord =>
                state' \in 0 .. HalfWord * HalfWord - 1 /\ get_epoch' = get_epoch
                /\ get_waiter_count' = get_waiter_count + 1
           /\ Add(-1) /\ get_waiter_count > 0 =>
                state' \in 0 .. HalfWord * HalfWord - 1 /\ get_epoch' = get_epoch
                /\ get_waiter_count' = get_waiter_count - 1
           /\ Add(epoch_increment) /\ get_epoch + 1 < HalfWord =>
                state' \in 0 .. HalfWord * HalfWord - 1 /\ get_epoch' = get_epoch + 1
                /\ get_waiter_count' = get_waiter_count
<1>1. HalfWord \in Nat \ {0} /\ state \in Int
  BY DEF Sizes, TypeOK
<1>2. /\ get_epoch \in 0 .. HalfWord - 1 /\ get_waiter_count \in 0 .. HalfWord - 1
      /\ state = HalfWord * get_epoch + get_waiter_count
  BY HalvesType
<1>3. ASSUME NEW d \in Int, NEW e \in 0 .. HalfWord - 1, NEW n \in 0 .. HalfWord - 1,
             state + d = HalfWord * e + n, Add(d)
      PROVE  state' \in 0 .. HalfWord * HalfWord - 1 /\ get_epoch' = e /\ get_waiter_count' = n
  <2> DEFINE t == (state + d) % (HalfWord * HalfWord)
  <2>1. t \in 0 .. HalfWord * HalfWord - 1 /\ t \div HalfWord = e /\ t % HalfWord = n
    BY <1>1, <1>3, WordStep, SMTT(30)
  <2>2. state' = t
    BY <1>3, ZenonT(40) DEF Add
  <2> HIDE DEF t
  <2> QED
    BY <2>1, <2>2, ZenonT(40) DEF get_epoch, get_waiter_count
<1>4. ASSUME Add(1), get_waiter_count + 1 < HalfWord
      PROVE  /\ state' \in 0 .. HalfWord * HalfWord - 1 /\ get_epoch' = get_epoch
             /\ get_waiter_count' = get_waiter_count + 1
  <2>1. state + 1 = HalfWord * get_epoch + (get_waiter_count + 1)
        /\ get_waiter_count + 1 \in 0 .. HalfWord - 1
    BY <1>1, <1>2, <1>4
  <2> QED BY <1>2, <1>3, <1>4, <2>1
<1>5. ASSUME Add(-1), get_waiter_count > 0
      PROVE  /\ state' \in 0 .. HalfWord * HalfWord - 1 /\ get_epoch' = get_epoch
             /\ get_waiter_count' = get_waiter_count - 1
  <2>1. state + (-1) = HalfWord * get_epoch + (get_waiter_count - 1)
        /\ get_waiter_count - 1 \in 0 .. HalfWord - 1
    BY <1>1, <1>2, <1>5
  <2> QED BY <1>2, <1>3, <1>5, <2>1
<1>6. ASSUME Add(epoch_increment), get_epoch + 1 < HalfWord
      PROVE  /\ state' \in 0 .. HalfWord * HalfWord - 1 /\ get_epoch' = get_epoch + 1
             /\ get_waiter_count' = get_waiter_count
  <2>1. state + HalfWord = HalfWord * (get_epoch + 1) + get_waiter_count
        /\ get_epoch + 1 \in 0 .. HalfWord - 1
    BY <1>1, <1>2, <1>6
  <2> QED BY <1>1, <1>2, <1>3, <1>6, <2>1 DEF epoch_increment
<1> QED
  BY <1>4, <1>5, <1>6

-----------------------------------------------------------------------------
(* The sets that are counted *)

Finite ==
    /\ get_epoch \in Nat /\ get_waiter_count \in Nat /\ tokens \in Nat
    /\ IsFiniteSet(Reg) /\ Cardinality(Reg) \in Nat /\ Cardinality(Reg) < HalfWord
    /\ IsFiniteSet(Left) /\ Cardinality(Left) \in Nat
    /\ IsFiniteSet(Notifying) /\ Cardinality(Notifying) \in Nat
    /\ IsFiniteSet(Pending) /\ Cardinality(Pending) \in Nat
    /\ IsFiniteSet(Awake) /\ Cardinality(Awake) \in Nat
    /\ Cardinality(Notifying) <= Cardinality(Pending)
    /\ Cardinality(Releasers) * Rounds \in Nat

\* They are finite.
LEMMA Counts == Sizes /\ Places => Finite
<1> SUFFICES ASSUME Sizes, Places PROVE Finite
  OBVIOUS
<1>1. IsFiniteSet(Waiters) /\ IsFiniteSet(Releasers) /\ Cardinality(Waiters) \in Nat
      /\ Cardinality(Releasers) \in Nat
  BY FS_CardinalityType DEF Sizes
<1>2. IsFiniteSet(1 .. Rounds)
  BY FS_Interval DEF Sizes
<1>3. IsFiniteSet(Releasers \X (1 .. Rounds))
  BY <1>1, <1>2, FS_Product
<1>4. Reg \in SUBSET Waiters /\ Awake \in SUBSET Waiters
  BY DEF Reg, Awake
<1>5. Pending \in SUBSET Releasers /\ Notifying \in SUBSET Pending
  BY DEF Pending, Notifying
<1>6. Left \in SUBSET (Releasers \X (1 .. Rounds))
  BY DEF Left
<1>7. IsFiniteSet(Reg) /\ Cardinality(Reg) <= Cardinality(Waiters) /\ IsFiniteSet(Awake)
  BY <1>1, <1>4, FS_Subset
<1>8. IsFiniteSet(Pending) /\ IsFiniteSet(Left)
  BY <1>1, <1>3, <1>5, <1>6, FS_Subset
<1>9. IsFiniteSet(Notifying) /\ Cardinality(Notifying) <= Cardinality(Pending)
  BY <1>5, <1>8, FS_Subset
<1>10. /\ Cardinality(Reg) \in Nat /\ Cardinality(Awake) \in Nat /\ Cardinality(Pending) \in Nat
       /\ Cardinality(Left) \in Nat /\ Cardinality(Notifying) \in Nat
  BY <1>7, <1>8, <1>9, FS_CardinalityType
<1>11. Cardinality(Reg) < HalfWord
  BY <1>1, <1>7, <1>10 DEF Sizes
<1>12. Cardinality(Releasers) * Rounds \in Nat
  BY <1>1 DEF Sizes
<1>13. get_epoch \in Nat /\ get_waiter_count \in Nat /\ tokens \in Nat
  BY HalvesType DEF Places, TypeOK
<1> QED
  BY <1>7, <1>8, <1>9, <1>10, <1>11, <1>12, <1>13 DEF Finite

LEMMA CountsNext == Sizes /\ Places' => Finite'
<1>1. Sizes => Sizes'
  BY DEF Sizes, Threads
<1> QED
  BY <1>1, Counts, PTL

\* A step of a waiter moves that waiter and no notification.
LEMMA WaiterMoves ==
    ASSUME Sizes, Places, NEW w \in Waiters, WaiterStep(w) \/ TimeOut(w) \/ Interrupted(w)
    PROVE  /\ pc' = [pc EXCEPT ![w] = pc'[w]]
           /\ Left' = Left /\ Notifying' = Notifying /\ Pending' = Pending
<1>1. pc' = [pc EXCEPT ![w] = pc'[w]] /\ rounds' = rounds
  BY DEF Places, TypeOK, Threads, WaiterStep, TakeToken, PrepareWait, Recheck, CancelWait, WaitCheck, FutexWait,
         LockForWait, EvaluatePredicate, Sleep, WakeUp, Consume, LastLook, TimeOut, Interrupted, Goto
<1>2. \A r \in Releasers : pc'[r] = pc[r]
  BY <1>1 DEF Sizes, Places, TypeOK, Threads
<1> QED
  BY <1>1, <1>2 DEF Left, Notifying, Pending

\* A step of a releaser moves that releaser and no waiter.
LEMMA ReleaserMoves ==
    ASSUME Sizes, Places, NEW r \in Releasers, ReleaserStep(r)
    PROVE  pc' = [pc EXCEPT ![r] = pc'[r]] /\ Reg' = Reg /\ (\A w \in Waiters : pc'[w] = pc[w])
<1>1. pc' = [pc EXCEPT ![r] = pc'[r]]
  BY DEF Places, TypeOK, Threads, ReleaserStep, AddToken, Advance, Notify, WakeParked, Goto
<1>2. \A w \in Waiters : pc'[w] = pc[w]
  BY <1>1 DEF Sizes, Places, TypeOK, Threads
<1> QED
  BY <1>1, <1>2 DEF Reg, Registered

-----------------------------------------------------------------------------
(* The three parts of the invariant *)

LEMMA PlacesInit == ASSUME Sizes, Init PROVE Places
<1>1. HalfWord * HalfWord >= 1
  BY DEF Sizes
<1> QED
  BY <1>1 DEF Sizes, Init, Places, TypeOK, Labels, Threads

\* Types, places and the mutex.
LEMMA PlacesStep ==
    ASSUME Sizes, Places, Next
    PROVE  Places'
<1>1. /\ HalfWord * HalfWord \in Nat \ {0} /\ state \in Int /\ Rounds \in Nat
      /\ get_epoch \in 0 .. HalfWord - 1
  <2>1. HalfWord \in Nat \ {0}
    BY DEF Sizes
  <2> QED BY <2>1, HalvesType DEF Places, TypeOK, Sizes
<1>2. ASSUME NEW d \in Int, Add(d) PROVE state' \in 0 .. HalfWord * HalfWord - 1
  BY <1>1, <1>2, DivisionFacts DEF Add
<1>3. epoch_increment \in Int /\ -1 \in Int /\ 1 \in Int
  BY DEF epoch_increment, Sizes
<1>4. state' \in 0 .. HalfWord * HalfWord - 1
  <2>1. UNCHANGED state \/ (\E d \in Int : Add(d))
    BY <1>3
       DEF Next, WaiterStep, ReleaserStep, TakeToken, PrepareWait, Recheck, CancelWait, WaitCheck, FutexWait,
           LockForWait, EvaluatePredicate, Sleep, WakeUp, Consume, LastLook, TimeOut, Interrupted,
           AddToken, Advance, Notify
  <2> QED BY <1>2, <2>1 DEF Places, TypeOK
<1> USE <1>1, <1>4 DEF Sizes, Places, TypeOK, Threads, Labels, Goto, Next
<1>5. UNCHANGED <<backend, wake>>
  OBVIOUS
<1>6. ASSUME NEW w \in Waiters, TakeToken(w) PROVE Places'
  BY <1>5, <1>6 DEF TakeToken
<1>7. ASSUME NEW w \in Waiters, PrepareWait(w) PROVE Places'
  BY <1>5, <1>7 DEF PrepareWait
<1>8. ASSUME NEW w \in Waiters, Recheck(w) PROVE Places'
  BY <1>5, <1>8 DEF Recheck
<1>9. ASSUME NEW w \in Waiters, CancelWait(w) PROVE Places'
  BY <1>5, <1>9 DEF CancelWait
<1>10. ASSUME NEW w \in Waiters, WaitCheck(w) PROVE Places'
  BY <1>5, <1>10 DEF WaitCheck
<1>11. ASSUME NEW w \in Waiters, FutexWait(w) PROVE Places'
  BY <1>5, <1>11 DEF FutexWait
<1>12. ASSUME NEW w \in Waiters, LockForWait(w) PROVE Places'
  BY <1>5, <1>12 DEF LockForWait
<1>13. ASSUME NEW w \in Waiters, EvaluatePredicate(w) PROVE Places'
  BY <1>5, <1>13 DEF EvaluatePredicate
<1>14. ASSUME NEW w \in Waiters, Sleep(w) PROVE Places'
  BY <1>5, <1>14 DEF Sleep
<1>15. ASSUME NEW w \in Waiters, WakeUp(w) PROVE Places'
  BY <1>5, <1>15 DEF WakeUp, Woken
<1>16. ASSUME NEW w \in Waiters, Consume(w) PROVE Places'
  BY <1>5, <1>16 DEF Consume
<1>17. ASSUME NEW w \in Waiters, LastLook(w) PROVE Places'
  BY <1>5, <1>17 DEF LastLook
<1>18. ASSUME NEW w \in Waiters, TimeOut(w) PROVE Places'
  BY <1>5, <1>18 DEF TimeOut
<1>19. ASSUME NEW w \in Waiters, Interrupted(w) PROVE Places'
  BY <1>5, <1>19 DEF Interrupted, Woken
<1>20. ASSUME NEW r \in Releasers, AddToken(r) PROVE Places'
  BY <1>5, <1>20 DEF AddToken
<1>21. ASSUME NEW r \in Releasers, Advance(r) PROVE Places'
  BY <1>5, <1>21 DEF Advance
<1>22. ASSUME NEW r \in Releasers, Notify(r) PROVE Places'
  BY <1>5, <1>22 DEF Notify, WakeParked
<1> QED
  BY <1>6, <1>7, <1>8, <1>9, <1>10, <1>11, <1>12, <1>13, <1>14, <1>15, <1>16, <1>17, <1>18, <1>19, <1>20, <1>21, <1>22 DEF Next, WaiterStep, ReleaserStep

LEMMA WordInit == ASSUME Sizes, Init PROVE WordExact
<1>1. HalfWord \in Nat \ {0} /\ state = HalfWord * 0 + 0
  BY DEF Sizes, Init
<1>2. get_epoch = 0 /\ get_waiter_count = 0
  BY <1>1, DivisionUnique DEF get_epoch, get_waiter_count
<1>3. Reg = {} /\ Notifying = {} /\ Left = Releasers \X (1 .. Rounds)
  BY DEF Sizes, Init, Reg, Registered, Notifying, Left, Threads
<1>4. IsFiniteSet(1 .. Rounds) /\ Cardinality(1 .. Rounds) = Rounds
  BY FS_Interval DEF Sizes
<1>5. Cardinality(Left) = Cardinality(Releasers) * Rounds /\ Cardinality(Left) \in Nat
  BY <1>3, <1>4, FS_Product, FS_CardinalityType DEF Sizes
<1> QED
  BY <1>2, <1>3, <1>5, FS_EmptySet DEF WordExact

\* The registrations and notifications that the word counts.
LEMMA WordStepExact ==
    ASSUME Sizes, Places, WordExact, Next
    PROVE  WordExact'
<1> USE DEF Places
<1>1. /\ get_epoch \in Nat /\ get_waiter_count \in Nat
      /\ IsFiniteSet(Reg) /\ Cardinality(Reg) \in Nat /\ Cardinality(Reg) < HalfWord
      /\ IsFiniteSet(Left) /\ Cardinality(Left) \in Nat
      /\ IsFiniteSet(Notifying) /\ Cardinality(Notifying) \in Nat
      /\ HalfWord \in Nat /\ Cardinality(Releasers) * Rounds \in Nat
      /\ Cardinality(Releasers) * Rounds < HalfWord
  BY Counts DEF Finite, Sizes
<1>2. ASSUME UNCHANGED <<state, key>>, Reg' = Reg, Left' = Left, Notifying' = Notifying
      PROVE  WordExact'
  BY <1>2 DEF WordExact, get_epoch, get_waiter_count
<1>3. ASSUME NEW w \in Waiters, PrepareWait(w) PROVE WordExact'
  <2>1. w \notin Reg /\ Reg' = Reg \union {w}
    BY <1>3 DEF PrepareWait, Goto, Reg, Registered, TypeOK, Threads
  <2>2. Cardinality(Reg') = Cardinality(Reg) + 1
    BY <1>1, <2>1, OneMore
  <2>3. Cardinality(Reg') < HalfWord
    BY CountsNext, PlacesStep DEF Finite
  <2>4. get_epoch' = get_epoch /\ get_waiter_count' = get_waiter_count + 1
    BY <1>1, <1>3, <2>2, <2>3, Additions DEF PrepareWait, WordExact
  <2>5. Left' = Left /\ Notifying' = Notifying
    BY <1>3, WaiterMoves DEF WaiterStep
  <2>6. \A v \in Reg' : key'[v] <= get_epoch'
    BY <1>1, <1>3, <2>1, <2>4 DEF PrepareWait, WordExact, TypeOK, Reg
  <2> QED
    BY <1>1, <2>2, <2>4, <2>5, <2>6 DEF WordExact
<1>4. ASSUME NEW w \in Waiters, CancelWait(w) \/ Consume(w) PROVE WordExact'
  <2>1. w \in Reg /\ Reg' = Reg \ {w}
    BY <1>4 DEF CancelWait, Consume, Goto, Reg, Registered, TypeOK, Threads
  <2>2. Cardinality(Reg') = Cardinality(Reg) - 1 /\ Cardinality(Reg) > 0
    BY <1>1, <2>1, OneLess
  <2>3. get_epoch' = get_epoch /\ get_waiter_count' = get_waiter_count - 1
    BY <1>1, <1>4, <2>2, Additions DEF CancelWait, Consume, WordExact
  <2>4. Left' = Left /\ Notifying' = Notifying
    BY <1>4, WaiterMoves DEF WaiterStep
  <2> QED
    BY <1>4, <2>1, <2>2, <2>3, <2>4 DEF WordExact, CancelWait, Consume
<1>5. ASSUME NEW w \in Waiters,
             \/ TakeToken(w) \/ Recheck(w) \/ WaitCheck(w) \/ FutexWait(w) \/ LockForWait(w)
             \/ EvaluatePredicate(w) \/ Sleep(w) \/ WakeUp(w) \/ LastLook(w) \/ TimeOut(w) \/ Interrupted(w)
      PROVE  WordExact'
  <2>1. Reg' = Reg
    BY <1>5
       DEF TakeToken, Recheck, WaitCheck, FutexWait, LockForWait, EvaluatePredicate, Sleep, WakeUp, LastLook,
           TimeOut, Interrupted, Woken, Goto, Reg, Registered, TypeOK, Threads
  <2>2. Left' = Left /\ Notifying' = Notifying
    BY <1>5, WaiterMoves DEF WaiterStep
  <2>3. UNCHANGED <<state, key>>
    BY <1>5
       DEF TakeToken, Recheck, WaitCheck, FutexWait, LockForWait, EvaluatePredicate, Sleep, WakeUp, LastLook,
           TimeOut, Interrupted
  <2> QED BY <1>2, <2>1, <2>2, <2>3
<1>6. ASSUME NEW r \in Releasers, AddToken(r) PROVE WordExact'
  <2> DEFINE p == <<r, rounds[r]>>
  <2>1. p \in Left /\ Left' = Left \ {p}
    BY <1>6 DEF AddToken, Left, TypeOK, Sizes
  <2>2. r \notin Notifying /\ Notifying' = Notifying \union {r}
    BY <1>6 DEF AddToken, Goto, Notifying, TypeOK, Threads
  <2> HIDE DEF p
  <2>3. Cardinality(Left') = Cardinality(Left) - 1
    BY <1>1, <2>1, OneLess
  <2>4. Cardinality(Notifying') = Cardinality(Notifying) + 1
    BY <1>1, <2>2, OneMore
  <2>5. Reg' = Reg
    BY <1>6, ReleaserMoves DEF ReleaserStep
  <2> QED
    BY <1>1, <1>6, <2>3, <2>4, <2>5 DEF AddToken, WordExact, get_epoch, get_waiter_count
<1>7. ASSUME NEW r \in Releasers, Advance(r) PROVE WordExact'
  <2>1. r \in Notifying /\ Notifying' = Notifying \ {r} /\ Left' = Left
    BY <1>7 DEF Advance, Goto, Notifying, Left, TypeOK, Threads
  <2>2. Cardinality(Notifying') = Cardinality(Notifying) - 1 /\ Cardinality(Notifying) > 0
    BY <1>1, <2>1, OneLess
  <2>3. get_epoch + 1 < HalfWord
    <3>1. get_epoch + Cardinality(Left) + Cardinality(Notifying) = Cardinality(Releasers) * Rounds
      BY DEF WordExact
    <3>2. CASE Cardinality(Left) + Cardinality(Notifying) > 1
      BY <1>1, <3>1, <3>2
    <3>3. CASE Cardinality(Left) + Cardinality(Notifying) = 1
      BY <1>1, <3>1, <3>3
    <3> QED BY <1>1, <2>2, <3>2, <3>3
  <2>4. get_epoch' = get_epoch + 1 /\ get_waiter_count' = get_waiter_count
    BY <1>7, <2>3, Additions DEF Advance
  <2>5. Reg' = Reg
    BY <1>7, ReleaserMoves DEF ReleaserStep
  <2>6. \A v \in Reg : key[v] \in Nat
    BY DEF Reg, TypeOK
  <2> QED
    BY <1>1, <1>7, <2>1, <2>2, <2>4, <2>5, <2>6 DEF Advance, WordExact
<1>8. ASSUME NEW r \in Releasers, Notify(r) PROVE WordExact'
  <2>1. Notifying' = Notifying /\ Left' = Left
    BY <1>8 DEF Notify, WakeParked, Goto, Notifying, Left, TypeOK, Threads
  <2>2. Reg' = Reg
    BY <1>8, ReleaserMoves DEF ReleaserStep
  <2> QED
    BY <1>2, <1>8, <2>1, <2>2 DEF Notify
<1> QED
  BY <1>3, <1>4, <1>5, <1>6, <1>7, <1>8 DEF Next, WaiterStep, ReleaserStep

LEMMA TokensInit == ASSUME Sizes, Init PROVE TokensCovered
<1>1. tokens = 0 /\ parked = {}
  BY DEF Init
<1>2. Finite
  BY PlacesInit, Counts
<1> QED
  BY <1>1, <1>2 DEF TokensCovered, Finite

\* The tokens, against the waiters awake and the notifications under way.
LEMMA TokensStep ==
    ASSUME Sizes, Places, WordExact, TokensCovered, Next
    PROVE  TokensCovered'
<1> USE DEF Places
<1> DEFINE A == Cardinality(Awake)
           N == Cardinality(Notifying)
           P == Cardinality(Pending)
<1>1. /\ get_epoch \in Nat /\ IsFiniteSet(Awake) /\ IsFiniteSet(Notifying) /\ IsFiniteSet(Pending)
      /\ A \in Nat /\ N \in Nat /\ P \in Nat /\ N <= P /\ tokens \in Nat
  BY Counts DEF Finite
<1>2. A' \in Nat /\ N' \in Nat /\ P' \in Nat /\ N' <= P' /\ tokens' \in Nat
  BY PlacesStep, CountsNext DEF Finite
<1>3. ASSUME NEW w \in Waiters, WaiterStep(w) \/ TimeOut(w) \/ Interrupted(w)
      PROVE  N' = N /\ P' = P /\ get_epoch' = get_epoch /\ (\A v \in Waiters \ {w} : pc'[v] = pc[v])
  <2>1. /\ N' = N /\ P' = P /\ Cardinality(Left') = Cardinality(Left)
        /\ \A v \in Waiters \ {w} : pc'[v] = pc[v]
    BY <1>3, WaiterMoves DEF TypeOK, Threads
  <2>2. /\ get_epoch + Cardinality(Left) + N = Cardinality(Releasers) * Rounds
        /\ get_epoch' + Cardinality(Left') + N' = Cardinality(Releasers) * Rounds
    BY WordStepExact DEF WordExact
  <2>3. get_epoch' \in Nat /\ Cardinality(Left) \in Nat
    BY PlacesStep, Counts, CountsNext DEF Finite
  <2> HIDE DEF N
  <2> QED BY <1>1, <2>1, <2>2, <2>3
<1> HIDE DEF A, N, P
\* The waiter that moves and those that do not, for a step that adds no token.
<1>4. ASSUME NEW w \in Waiters, WaiterStep(w) \/ TimeOut(w) \/ Interrupted(w),
             tokens' <= tokens, \A v \in Waiters \ {w} : key'[v] = key[v],
             pc'[w] \in Looked /\ key'[w] = get_epoch => tokens' <= N,
             pc'[w] = "sleep" => tokens' <= P,
             parked' # {} => tokens' <= A' + P
      PROVE  TokensCovered'
  <2>1. \A v \in Waiters : pc'[v] \in Looked /\ key'[v] = get_epoch' => tokens' <= N'
    BY <1>1, <1>2, <1>3, <1>4 DEF TokensCovered, N
  <2>2. \A v \in Waiters : pc'[v] = "sleep" => tokens' <= P'
    BY <1>1, <1>2, <1>3, <1>4 DEF TokensCovered, P
  <2> QED
    BY <1>3, <1>4, <2>1, <2>2 DEF TokensCovered, A, N, P
\* A waiter that takes a token, or finds none and ends, is no longer awake.
<1>5. ASSUME NEW w \in Waiters, TakeToken(w) \/ LastLook(w) \/ (Recheck(w) /\ tokens > 0)
      PROVE  TokensCovered'
  <2>1. w \in Awake /\ Awake' = Awake \ {w}
    BY <1>5 DEF TakeToken, LastLook, Recheck, Goto, Awake, TypeOK, Threads
  <2>2. A' = A - 1
    BY <1>1, <2>1, OneLess DEF A
  <2>3. /\ tokens' = tokens - 1 \/ (tokens = 0 /\ tokens' = 0)
        /\ UNCHANGED <<key, parked>> /\ pc'[w] \notin Looked /\ pc'[w] # "sleep"
    BY <1>1, <1>5 DEF TakeToken, LastLook, Recheck, Goto, TypeOK, Threads, Looked
  <2>4. parked # {} => tokens <= A + P
    BY DEF TokensCovered, A, P
  <2>5. tokens' <= tokens /\ (parked' # {} => tokens' <= A' + P)
    BY <1>1, <1>2, <2>2, <2>3, <2>4
  <2> QED
    BY <1>4, <1>5, <2>3, <2>5 DEF WaiterStep
\* A waiter that stays awake, or that keeps the token it has taken.
<1>6. ASSUME NEW w \in Waiters,
             \/ PrepareWait(w) \/ (Recheck(w) /\ tokens = 0) \/ CancelWait(w) \/ WaitCheck(w) \/ LockForWait(w)
             \/ EvaluatePredicate(w) \/ WakeUp(w) \/ Consume(w) \/ (FutexWait(w) /\ get_epoch # key[w])
      PROVE  TokensCovered'
  <2>1. Awake' = Awake /\ UNCHANGED <<parked, tokens>> /\ (\A v \in Waiters \ {w} : key'[v] = key[v])
    BY <1>6
       DEF PrepareWait, Recheck, CancelWait, WaitCheck, LockForWait, EvaluatePredicate, WakeUp, Consume,
           FutexWait, Woken, Goto, Awake, TypeOK, Threads
  <2>2. parked' # {} => tokens' <= A' + P
    BY <2>1 DEF TokensCovered, A, P
  <2>3. pc'[w] \in Looked /\ key'[w] = get_epoch => tokens' <= N
    <3>1. \/ pc'[w] \notin Looked \/ tokens = 0
          \/ (pc[w] \in Looked /\ key'[w] = key[w])
      BY <1>6
         DEF PrepareWait, Recheck, CancelWait, WaitCheck, LockForWait, EvaluatePredicate, WakeUp, Consume,
             FutexWait, Woken, Goto, TypeOK, Threads, Looked
    <3> QED BY <1>1, <2>1, <3>1 DEF TokensCovered, N
  <2>4. pc'[w] = "sleep" => tokens' <= P
    <3>1. pc'[w] = "sleep" => pc[w] = "predicate" /\ get_epoch = key[w]
      BY <1>6
         DEF PrepareWait, Recheck, CancelWait, WaitCheck, LockForWait, EvaluatePredicate, WakeUp, Consume,
             FutexWait, Woken, Goto, TypeOK, Threads
    <3>2. pc[w] = "predicate" /\ get_epoch = key[w] => tokens <= N
      BY DEF TokensCovered, Looked, N
    <3> QED BY <1>1, <2>1, <3>1, <3>2
  <2>5. tokens' <= tokens
    BY <1>1, <2>1
  <2> QED
    BY <1>4, <1>6, <2>1, <2>2, <2>3, <2>4, <2>5 DEF WaiterStep
\* A waiter that falls asleep: what it may miss is still to be notified.
<1>7. ASSUME NEW w \in Waiters, Sleep(w) \/ (FutexWait(w) /\ get_epoch = key[w])
      PROVE  TokensCovered'
  <2>1. UNCHANGED <<tokens, key>> /\ pc'[w] = "parked" /\ pc[w] \in Looked
    BY <1>7 DEF Sleep, FutexWait, Goto, TypeOK, Threads, Looked
  <2>2. tokens <= P
    BY <1>1, <1>7, <2>1 DEF TokensCovered, Sleep, N, P
  <2>3. key[w] = get_epoch => tokens <= N
    BY <2>1 DEF TokensCovered, N
  <2>4. parked' # {} => tokens' <= A' + P
    BY <1>1, <1>2, <2>1, <2>2
  <2> QED
    BY <1>1, <1>4, <1>7, <2>1, <2>3, <2>4 DEF WaiterStep
\* A waiter that is interrupted, or whose deadline passes, is awake again.
<1>8. ASSUME NEW w \in Waiters, TimeOut(w) \/ Interrupted(w)
      PROVE  TokensCovered'
  <2>1. w \notin Awake /\ Awake' = Awake \union {w} /\ parked # {}
    BY <1>8 DEF TimeOut, Interrupted, Woken, Goto, Awake, TypeOK, Threads
  <2>2. A' = A + 1
    BY <1>1, <2>1, OneMore DEF A
  <2>3. UNCHANGED <<tokens, key>> /\ pc'[w] # "sleep" /\ pc[w] \in Looked
    BY <1>8 DEF TimeOut, Interrupted, Woken, Goto, TypeOK, Threads, Looked
  <2>4. tokens <= A + P
    BY <2>1 DEF TokensCovered, A, P
  <2>5. key[w] = get_epoch => tokens <= N
    BY <2>3 DEF TokensCovered, N
  <2>6. tokens' <= tokens /\ tokens' <= A' + P
    BY <1>1, <2>2, <2>3, <2>4
  <2> QED
    BY <1>4, <1>8, <2>3, <2>5, <2>6
\* A new token comes with its notification.
<1>9. ASSUME NEW r \in Releasers, AddToken(r) PROVE TokensCovered'
  <2>1. /\ r \notin Notifying /\ Notifying' = Notifying \union {r}
        /\ r \notin Pending /\ Pending' = Pending \union {r}
    BY <1>9 DEF AddToken, Goto, Notifying, Pending, TypeOK, Threads
  <2>2. N' = N + 1 /\ P' = P + 1
    BY <1>1, <2>1, OneMore DEF N, P
  <2>3. \A w \in Waiters : pc'[w] = pc[w]
    BY <1>9, ReleaserMoves DEF ReleaserStep
  <2>4. tokens' = tokens + 1 /\ UNCHANGED <<key, parked>> /\ get_epoch' = get_epoch
    BY <1>9 DEF AddToken, get_epoch
  <2>5. Awake' = Awake
    BY <2>3, <2>4 DEF Awake
  <2>6. A' = A
    BY <2>5 DEF A
  <2>7. \A w \in Waiters : pc'[w] \in Looked /\ key'[w] = get_epoch' => tokens' <= N'
    BY <1>1, <2>2, <2>3, <2>4 DEF TokensCovered, N
  <2>8. \A w \in Waiters : pc'[w] = "sleep" => tokens' <= P'
    BY <1>1, <2>2, <2>3, <2>4 DEF TokensCovered, P
  <2>9. parked' # {} => tokens' <= A' + P'
    BY <1>1, <2>2, <2>4, <2>6 DEF TokensCovered, A, P
  <2> QED BY <2>7, <2>8, <2>9 DEF TokensCovered, A, N, P
\* The epoch leaves every key; only with nobody registered does the
\* notification end here.
<1>10. ASSUME NEW r \in Releasers, Advance(r) PROVE TokensCovered'
  <2>1. \A w \in Waiters : pc'[w] = pc[w]
    BY <1>10, ReleaserMoves DEF ReleaserStep
  <2>2. UNCHANGED <<key, parked, tokens, rounds>>
    BY <1>10 DEF Advance
  <2>3. get_epoch' = get_epoch + 1
    <3>1. r \in Notifying /\ Notifying' = Notifying \ {r} /\ Left' = Left
      BY <1>10 DEF Advance, Goto, Notifying, Left, TypeOK, Threads
    <3>2. N' = N - 1
      BY <1>1, <3>1, OneLess DEF N
    <3>3. /\ get_epoch + Cardinality(Left) + N = Cardinality(Releasers) * Rounds
          /\ get_epoch' + Cardinality(Left) + N' = Cardinality(Releasers) * Rounds
      BY <3>1, WordStepExact DEF WordExact, N
    <3>4. get_epoch' \in Nat /\ Cardinality(Left) \in Nat
      BY PlacesStep, Counts, CountsNext DEF Finite
    <3> QED BY <1>1, <3>2, <3>3, <3>4
  <2>4. \A w \in Waiters : pc'[w] \in Looked => key'[w] # get_epoch'
    <3>1. \A w \in Waiters : pc[w] \in Looked => key[w] <= get_epoch /\ key[w] \in Nat
      BY DEF WordExact, Reg, Registered, Looked, TypeOK
    <3> QED BY <1>1, <2>1, <2>2, <2>3, <3>1
  <2>5. Awake' = Awake
    BY <2>1, <2>2 DEF Awake
  <2>6. CASE get_waiter_count = 0
    <3>1. Reg = {}
      BY <2>6, Counts, FS_EmptySet DEF WordExact, Finite
    <3>2. parked = {} /\ \A w \in Waiters : pc[w] # "sleep"
      BY <3>1 DEF Reg, Registered, TypeOK
    <3> QED BY <2>1, <2>2, <2>4, <3>2 DEF TokensCovered
  <2>7. CASE get_waiter_count # 0
    <3>1. Pending' = Pending
      BY <1>10, <2>7 DEF Advance, Goto, Pending, TypeOK, Threads
    <3> QED BY <2>1, <2>2, <2>4, <2>5, <3>1 DEF TokensCovered
  <2> QED BY <2>6, <2>7
\* A notification ends with a waiter awake, if one slept.
<1>11. ASSUME NEW r \in Releasers, Notify(r) PROVE TokensCovered'
  <2>1. \A w \in Waiters : pc'[w] = pc[w]
    BY <1>11, ReleaserMoves DEF ReleaserStep
  <2>2. UNCHANGED <<key, tokens>> /\ get_epoch' = get_epoch
    BY <1>11 DEF Notify, get_epoch
  <2>3. Notifying' = Notifying /\ r \in Pending /\ Pending' = Pending \ {r}
    BY <1>11 DEF Notify, WakeParked, Goto, Notifying, Pending, TypeOK, Threads
  <2>4. P' = P - 1
    BY <1>1, <2>3, OneLess DEF P
  <2>5. \A w \in Waiters : pc[w] # "sleep"
    BY <1>11 DEF Notify, Sizes, Threads
  <2>6. parked' # {} => tokens' <= A' + P'
    <3> SUFFICES ASSUME parked' # {} PROVE tokens' <= A' + P'
      OBVIOUS
    <3>1. PICK w \in parked : parked' = parked \ {w}
      BY <1>11 DEF Notify, WakeParked
    <3>2. w \in Waiters /\ w \notin Awake /\ Awake' = Awake \union {w}
      BY <2>1, <3>1 DEF Awake, TypeOK
    <3>3. A' = A + 1
      BY <1>1, <3>2, OneMore DEF A
    <3>4. tokens <= A + P
      BY <3>1 DEF TokensCovered, A, P
    <3> QED BY <1>1, <2>2, <2>4, <3>3, <3>4
  <2> QED BY <2>1, <2>2, <2>3, <2>5, <2>6 DEF TokensCovered, A, P
<1> QED
  <2>1. ASSUME NEW w \in Waiters, WaiterStep(w) PROVE TokensCovered'
    <3>1. tokens > 0 \/ tokens = 0
      BY <1>1
    <3> QED BY <1>5, <1>6, <1>7, <2>1, <3>1 DEF WaiterStep
  <2> QED BY <1>8, <1>9, <1>10, <1>11, <2>1 DEF Next, ReleaserStep

-----------------------------------------------------------------------------
\* The inductive invariant holds in every reachable state.
THEOREM Invariance == Sizes /\ Spec => []IInv
<1>1. Sizes /\ Init => IInv
  BY PlacesInit, WordInit, TokensInit DEF IInv
<1>2. Sizes /\ IInv /\ [Next]_vars => IInv'
  <2> SUFFICES ASSUME Sizes, IInv, [Next]_vars PROVE IInv'
    OBVIOUS
  <2>1. CASE Next
    BY <2>1, PlacesStep, WordStepExact, TokensStep DEF IInv
  <2>2. CASE UNCHANGED vars
    BY <2>2
       DEF vars, IInv, Places, TypeOK, WordExact, TokensCovered, get_epoch, get_waiter_count, Reg, Registered,
           Left, Notifying, Pending, Awake
  <2> QED BY <2>1, <2>2
<1>3. Sizes => Sizes'
  BY DEF Sizes, Threads
<1> QED
  BY <1>1, <1>2, <1>3, PTL DEF Spec

\* NoLostWakeup, for every number of waiters below 2^32 and of notifications
\* below 2^32: the registrations that notify_one() and notify_all() look at are
\* exact, and while a token is left no waiter sleeps unless another one is
\* awake or a notification is under way.
THEOREM WakeupsSafe == Sizes /\ Spec => []NoLostWakeup
<1>1. Sizes /\ IInv => NoLostWakeup
  <2> SUFFICES ASSUME Sizes, IInv PROVE NoLostWakeup
    OBVIOUS
  <2> USE DEF IInv
  <2>1. Finite /\ TypeOK
    BY Counts DEF Places
  <2>2. RegistrationExact
    <3>1. get_waiter_count = Cardinality({w \in Waiters : Registered(w)})
      BY DEF WordExact, Reg
    <3>2. /\ get_epoch \in Nat /\ get_epoch < HalfWord /\ HalfWord \in Nat \ {0} /\ Rounds \in Nat
          /\ get_epoch <= Cardinality(Releasers) * Rounds
      BY <2>1, HalvesType DEF WordExact, Finite, Sizes
    <3>3. get_epoch = HalfWord * 0 + get_epoch
      BY <3>2
    <3>4. get_epoch % HalfWord = get_epoch
      BY <3>2, <3>3, DivisionUnique
    <3>5. Cardinality(Releasers) \in Nat
      BY FS_CardinalityType DEF Sizes
    <3>6. get_epoch \in 0 .. Rounds * Cardinality(Releasers)
      BY <3>2, <3>5
    <3> QED BY <3>1, <3>4, <3>6 DEF RegistrationExact
  <2>3. SleeperWoken
    <3> SUFFICES ASSUME tokens > 0, \A r \in Releasers : pc[r] = "idle", NEW v \in Waiters, pc[v] # "done"
                 PROVE  \E w \in Waiters : pc[w] # "done" /\ ~(pc[w] = "parked" /\ w \in parked)
      BY DEF SleeperWoken
    <3>1. CASE parked = {}
      BY <3>1
    <3>2. CASE parked # {}
      <4>1. Pending = {}
        BY DEF Pending
      <4>2. tokens <= Cardinality(Awake)
        BY <2>1, <3>2, <4>1, FS_EmptySet DEF TokensCovered, Finite
      <4>3. Awake # {}
        BY <2>1, <4>2, FS_EmptySet DEF Finite
      <4> QED BY <4>3 DEF Awake
    <3> QED BY <3>1, <3>2
  <2> QED BY <2>1, <2>2, <2>3 DEF NoLostWakeup
<1>2. Sizes => []Sizes
  <2>1. Sizes => Sizes'
    BY DEF Sizes, Threads
  <2> QED BY <2>1, PTL
<1> QED
  BY <1>1, <1>2, Invariance, PTL
=============================================================================
