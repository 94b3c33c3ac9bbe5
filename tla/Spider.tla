------------------------------- MODULE Spider -------------------------------
(***************************************************************************)
(* spider::Spider, the service locator: a registry of lazily built objects *)
(* under one shared mutex, with a construction mutex in every slot.  A     *)
(* factory runs outside both and may get() another service.  Threads get,  *)
(* register, reset and clear; the janitor sweeps.                          *)
(*                                                                         *)
(* Each section under mtx_ is one step.  Slots, registrations and objects  *)
(* are numbered in the order they come into being.  Nothing ever sets      *)
(* Slot::expired_flag, so the branches for it are never taken.             *)
(***************************************************************************)
EXTENDS Integers, Sequences, FiniteSets, SequencesExt

CONSTANTS
    Getters,        \* the threads
    Keys,           \* type and instance id
    Offered,        \* the lifetimes a key is registered with: Resettable, Scoped,
                    \* Timed or Immortal
    Needs,          \* the keys a key's factory gets, in order: none or one
    MaxRegs,        \* bound on the registrations
    MaxObjs,        \* bound on the objects
    Nobody

(* The factories' dependencies are one level deep.                         *)
ASSUME DependenciesFlat ==
    \A k \in Keys : Needs[k] = <<>> \/ \E d \in Keys : Needs[k] = <<d>> /\ Needs[d] = <<>>

VARIABLES
    slots,          \* map_: for every key no slot or one
    owner,          \* who holds the construction mutex of a slot
    stack,          \* the calls of get() of every thread, the outermost first
    held,           \* the handles every thread keeps
    made,           \* the objects: their key, registration and dependency
    regs,           \* the lifetimes of the registrations so far
    janitor, life,  \* the janitor thread; whether ~Spider() has begun or ended
    overtaken       \* registration -> the objects it has and those that are under
                    \* way, when it is replaced or erased during a construction

locatorVars == <<slots, owner, stack, held, made, regs, janitor, life, overtaken>>

NoObj == 0
Slot(k) == slots[k][1]
Registered(k) == slots[k] # <<>>
Objects == DOMAIN made

SpiderInit ==
    /\ slots = [k \in Keys |-> <<>>]
    /\ owner = [i \in 1 .. MaxRegs |-> Nobody]
    /\ stack = [t \in Getters |-> <<>>]
    /\ held = [t \in Getters |-> {}]
    /\ made = <<>>
    /\ regs = <<>>
    /\ janitor = "check"
    /\ life = "up"
    /\ overtaken = [i \in 1 .. MaxRegs |-> 0]

Top(t) == Last(stack[t])
At(t, pc) == stack[t] # <<>> /\ Top(t).pc = pc
Move(t, f) == stack' = [stack EXCEPT ![t] = Append(Front(@), f)]

ObjectsOf(reg) == {o \in Objects : made[o].reg = reg}

(* The calls that have copied the factory of a registration and not        *)
(* returned, and those among them that may yet make an object.             *)
Calls(reg, pcs) ==
    {<<t, i>> \in Getters \X {1, 2} : i \in DOMAIN stack[t] /\ stack[t][i].reg = reg /\ stack[t][i].pc \in pcs}
Constructing(reg) == Calls(reg, {"lock", "check", "needs", "make"})
Storing(reg) == Calls(reg, {"store"})

\* The registrations of these keys end.
Overtake(ks) ==
    LET ended == {Slot(k).reg : k \in {q \in ks : Registered(q)}}
    IN  overtaken' = [reg \in DOMAIN overtaken |->
            IF reg \in ended /\ Constructing(reg) \union Storing(reg) # {}
            THEN Cardinality(ObjectsOf(reg)) + Cardinality(Constructing(reg))
            ELSE overtaken[reg]]

-----------------------------------------------------------------------------
(* Registration and management.                                            *)

Replace(k, lt, factory, obj) ==
    /\ Len(regs) < MaxRegs
    /\ regs' = Append(regs, lt)
    /\ slots' = [slots EXCEPT ![k] =
         <<[id |-> IF Registered(k) THEN Slot(k).id ELSE Len(regs) + 1, reg |-> Len(regs) + 1,
            lt |-> lt, factory |-> factory, obj |-> obj,
            idle |-> factory /\ (Registered(k) => Slot(k).idle)]>>]
    /\ Overtake({k})

Free(t) == stack[t] = <<>> /\ life = "up"

RegisterFactory(t, k, lt) ==
    /\ Free(t)
    /\ Replace(k, lt, TRUE, NoObj)
    /\ UNCHANGED <<owner, stack, held, made, janitor, life>>

\* A pointer, which the caller may keep, or a value.
RegisterObject(t, k, lt) ==
    /\ Free(t)
    /\ Len(made) < MaxObjs
    /\ Replace(k, lt, FALSE, Len(made) + 1)
    /\ made' = Append(made, [key |-> k, reg |-> Len(regs) + 1, part |-> NoObj])
    /\ held' \in {held, [held EXCEPT ![t] = @ \union {Len(made) + 1}]}
    /\ UNCHANGED <<owner, stack, janitor, life>>

Reset(t, k) ==
    /\ Free(t)
    /\ Registered(k) /\ Slot(k).lt = "Resettable"
    /\ slots' = [slots EXCEPT ![k] = <<>>]
    /\ Overtake({k})
    /\ UNCHANGED <<owner, stack, held, made, regs, janitor, life>>

Clear(t) ==
    /\ Free(t)
    /\ slots' = [k \in Keys |-> <<>>]
    /\ Overtake(Keys)
    /\ UNCHANGED <<owner, stack, held, made, regs, janitor, life>>

Release(t, o) ==
    /\ Free(t)
    /\ o \in held[t]
    /\ held' = [held EXCEPT ![t] = @ \ {o}]
    /\ UNCHANGED <<slots, owner, stack, made, regs, janitor, life, overtaken>>

-----------------------------------------------------------------------------
(* get().                                                                  *)

Call(k) == [key |-> k, pc |-> "find", id |-> 0, reg |-> 0, part |-> NoObj, obj |-> NoObj]

Get(t, k) ==
    /\ Free(t)
    /\ stack' = [stack EXCEPT ![t] = <<Call(k)>>]
    /\ UNCHANGED <<slots, owner, held, made, regs, janitor, life, overtaken>>

(* The exception leaves every factory on the stack and unlocks as it goes. *)
Throw(t) ==
    /\ stack' = [stack EXCEPT ![t] = <<>>]
    /\ owner' = [i \in DOMAIN owner |-> IF owner[i] = t THEN Nobody ELSE owner[i]]
    /\ UNCHANGED <<slots, held, made>>

(* build_handle() and the return: to the caller, or to the factory that    *)
(* asked.  The construction mutex is released, if it is held.              *)
BuildHandle(t, o, table) ==
    LET f == Top(t)
    IN  /\ slots' = [table EXCEPT ![f.key][1].idle = @ /\ table[f.key][1].lt # "Timed"]
        /\ owner' = [i \in DOMAIN owner |-> IF i = f.id /\ owner[i] = t THEN Nobody ELSE owner[i]]
        /\ IF Len(stack[t]) = 1
           THEN /\ stack' = [stack EXCEPT ![t] = <<>>]
                /\ held' = [held EXCEPT ![t] = @ \union {o}]
           ELSE /\ stack' = [stack EXCEPT ![t] = <<[Head(@) EXCEPT !.pc = "make", !.part = o]>>]
                /\ UNCHANGED held

\* The fast path.
Find(t) ==
    /\ At(t, "find")
    /\ LET k == Top(t).key
       IN  \/ ~Registered(k) /\ Throw(t)
           \/ /\ Registered(k) /\ Slot(k).obj # NoObj
              /\ BuildHandle(t, Slot(k).obj, slots)
              /\ UNCHANGED made
           \/ /\ Registered(k) /\ Slot(k).obj = NoObj
              /\ Move(t, [Top(t) EXCEPT !.pc = "copy"])
              /\ UNCHANGED <<slots, owner, held, made>>
    /\ UNCHANGED <<regs, janitor, life, overtaken>>

\* The address of the construction mutex and a copy of the factory.
Copy(t) ==
    /\ At(t, "copy")
    /\ LET k == Top(t).key
       IN  \/ ~Registered(k) /\ Throw(t)
           \/ /\ Registered(k)
              /\ Move(t, [Top(t) EXCEPT !.pc = "lock", !.id = Slot(k).id,
                                        !.reg = IF Slot(k).factory THEN Slot(k).reg ELSE 0])
              /\ UNCHANGED <<slots, owner, held, made>>
    /\ UNCHANGED <<regs, janitor, life, overtaken>>

SlotAlive(f) == Registered(f.key) /\ Slot(f.key).id = f.id

\* Bug: one construction mutex for the whole registry.
LockRegistryWide(t) ==
    /\ At(t, "lock")
    /\ \A i \in DOMAIN owner : owner[i] = Nobody
    /\ owner' = [owner EXCEPT ![Top(t).id] = t]
    /\ Move(t, [Top(t) EXCEPT !.pc = "check"])
    /\ UNCHANGED <<slots, held, made, regs, janitor, life, overtaken>>

\* When the slot has been erased the mutex is gone, and locking it is
\* undefined: it may exclude nobody, or never return.
LockConstruction(t) ==
    /\ At(t, "lock")
    /\ \/ /\ SlotAlive(Top(t)) /\ owner[Top(t).id] = Nobody
          /\ owner' = [owner EXCEPT ![Top(t).id] = t]
          /\ Move(t, [Top(t) EXCEPT !.pc = "check"])
       \/ /\ ~SlotAlive(Top(t))
          /\ \E pc \in {"check", "undefined"} : Move(t, [Top(t) EXCEPT !.pc = pc])
          /\ UNCHANGED owner
    /\ UNCHANGED <<slots, held, made, regs, janitor, life, overtaken>>

(* The factory, if there is one, starts with the service it needs.         *)
RunFactory(t) ==
    LET f == Top(t)
    IN  \/ f.reg = 0 /\ Throw(t)
        \/ /\ f.reg # 0 /\ Needs[f.key] = <<>>
           /\ Move(t, [f EXCEPT !.pc = "make"])
           /\ UNCHANGED <<slots, owner, held, made>>
        \/ /\ f.reg # 0 /\ Needs[f.key] # <<>>
           /\ stack' = [stack EXCEPT ![t] = <<[f EXCEPT !.pc = "needs"], Call(Needs[f.key][1])>>]
           /\ UNCHANGED <<slots, owner, held, made>>

\* Bug: the slot is not looked at again under the construction mutex.
DoubleCheckSkipped(t) ==
    /\ At(t, "check")
    /\ RunFactory(t)
    /\ UNCHANGED <<regs, janitor, life, overtaken>>

DoubleCheck(t) ==
    /\ At(t, "check")
    /\ LET k == Top(t).key
       IN  \/ /\ Registered(k) /\ Slot(k).obj # NoObj
              /\ BuildHandle(t, Slot(k).obj, slots)
              /\ UNCHANGED made
           \/ (Registered(k) => Slot(k).obj = NoObj) /\ RunFactory(t)
    /\ UNCHANGED <<regs, janitor, life, overtaken>>

\* The factory makes the object or throws.
Make(t) ==
    /\ At(t, "make")
    /\ \/ Throw(t)
       \/ /\ Len(made) < MaxObjs
          /\ made' = Append(made, [key |-> Top(t).key, reg |-> Top(t).reg, part |-> Top(t).part])
          /\ Move(t, [Top(t) EXCEPT !.pc = "store", !.obj = Len(made) + 1])
          /\ UNCHANGED <<slots, owner, held>>
    /\ UNCHANGED <<regs, janitor, life, overtaken>>

Store(t) ==
    /\ At(t, "store")
    /\ LET f == Top(t)
       IN  \/ ~Registered(f.key) /\ Throw(t)
           \/ /\ Registered(f.key)
              /\ BuildHandle(t, f.obj, [slots EXCEPT ![f.key][1].obj = f.obj,
                                                     ![f.key][1].idle = FALSE])
              /\ UNCHANGED made
    /\ UNCHANGED <<regs, janitor, life, overtaken>>

GetStep(t) ==
    Find(t) \/ Copy(t) \/ LockConstruction(t) \/ DoubleCheck(t) \/ Make(t) \/ Store(t)

-----------------------------------------------------------------------------
(* The janitor and the destructor.                                         *)

InUse(table, o) ==
    \/ \E t \in Getters :
        o \in held[t] \/ \E i \in DOMAIN stack[t] : o \in {stack[t][i].obj, stack[t][i].part}
    \/ \E p \in Objects :
        /\ made[p].part = o
        /\ \/ \E k \in Keys : table[k] # <<>> /\ table[k][1].obj = p
           \/ \E t \in Getters :
                p \in held[t] \/ \E i \in DOMAIN stack[t] : stack[t][i].obj = p

\* Bug: the use count is not looked at.
SweepUsed(table, k) ==
    IF table[k] = <<>> THEN table
    ELSE CASE table[k][1].lt = "Scoped" /\ table[k][1].obj # NoObj -> [table EXCEPT ![k] = <<>>]
           [] table[k][1].lt = "Timed" /\ table[k][1].idle -> [table EXCEPT ![k][1].obj = NoObj]
           [] OTHER -> table

SweepSlot(table, k) ==
    IF table[k] = <<>> THEN table
    ELSE CASE table[k][1].lt = "Scoped" /\ table[k][1].obj # NoObj /\ ~InUse(table, table[k][1].obj)
                -> [table EXCEPT ![k] = <<>>]
           [] table[k][1].lt = "Timed" /\ table[k][1].idle -> [table EXCEPT ![k][1].obj = NoObj]
           [] OTHER -> table

\* The slots are visited in the order of the hash table.
Sweep ==
    /\ janitor = "sleep"
    /\ \E order \in SetToSeqs(Keys) : slots' = FoldLeft(SweepSlot, slots, order)
    /\ Overtake({k \in Keys : Registered(k) /\ slots'[k] = <<>>})
    /\ janitor' = "check"
    /\ UNCHANGED <<owner, stack, held, made, regs, life>>

CheckStop ==
    /\ janitor = "check"
    /\ janitor' = IF life = "up" THEN "sleep" ELSE "ended"
    /\ UNCHANGED <<slots, owner, stack, held, made, regs, life, overtaken>>

\* A Timed service is not asked for during its idle time.
TimePasses(k) ==
    /\ Registered(k) /\ Slot(k).lt = "Timed" /\ ~Slot(k).idle
    /\ slots' = [slots EXCEPT ![k][1].idle = TRUE]
    /\ UNCHANGED <<owner, stack, held, made, regs, janitor, life, overtaken>>

\* ~Spider(), which nobody may race: the stop flag, and the join.
Stop ==
    /\ life = "up"
    /\ \A t \in Getters : stack[t] = <<>>
    /\ life' = "stopping"
    /\ UNCHANGED <<slots, owner, stack, held, made, regs, janitor, overtaken>>

Joined ==
    /\ life = "stopping" /\ janitor = "ended"
    /\ life' = "gone"
    /\ slots' = [k \in Keys |-> <<>>]
    /\ UNCHANGED <<owner, stack, held, made, regs, janitor, overtaken>>

SpiderNext ==
    \/ \E t \in Getters :
        \/ \E k \in Keys :
            \/ Get(t, k) \/ Reset(t, k)
            \/ \E lt \in Offered[k] : RegisterFactory(t, k, lt) \/ RegisterObject(t, k, lt)
        \/ \E o \in Objects : Release(t, o)
        \/ Clear(t)
        \/ GetStep(t)
    \/ Sweep \/ CheckStop \/ Stop \/ Joined
    \/ \E k \in Keys : TimePasses(k)

(* A call of get() goes on, past a construction mutex that is free again    *)
(* and again too; so do the janitor and the destructor.                    *)
SpiderFairness ==
    /\ \A t \in Getters : SF_locatorVars(GetStep(t))
    /\ WF_locatorVars(Sweep \/ CheckStop)
    /\ WF_locatorVars(Joined)

SpiderSpec == SpiderInit /\ [][SpiderNext]_locatorVars /\ SpiderFairness

-----------------------------------------------------------------------------
(* The objects that a registration may come to: one; after it has been     *)
(* replaced or erased during a construction, no more than it then had or   *)
(* had under way.                                                          *)
AtMost(reg) == IF overtaken[reg] = 0 THEN 1 ELSE overtaken[reg]

(* However threads race to the first use, no registration has more objects *)
(* than that, but for a Timed one, which is rebuilt.  A slot holds an      *)
(* object of its own registration, or what a get() stored that an earlier  *)
(* registration's end overtook; and whoever holds an object of a current   *)
(* registration holds the registered one, with the same two exceptions.    *)
InstancesBounded ==
    /\ \A reg \in DOMAIN regs : regs[reg] # "Timed" => Cardinality(ObjectsOf(reg)) <= AtMost(reg)
    /\ \A k \in Keys : Registered(k) =>
        LET late(o) == overtaken[made[o].reg] > 0 /\ made[o].reg < Slot(k).reg IN
        /\ Slot(k).obj # NoObj =>
            /\ made[Slot(k).obj].key = k
            /\ made[Slot(k).obj].reg = Slot(k).reg \/ late(Slot(k).obj)
        /\ \A t \in Getters : \A o \in held[t] :
            made[o].reg = Slot(k).reg /\ Slot(k).lt # "Timed" =>
                Slot(k).obj # NoObj /\ (Slot(k).obj = o \/ late(Slot(k).obj))

(* The sweep erases no slot but that of a Scoped service whose object was   *)
(* built and is in nobody's hands: no thread's, no call's, and not part of  *)
(* an object that stays.                                                   *)
SweepSpares ==
    [][janitor = "sleep" /\ janitor' = "check" =>
         \A k \in Keys : Registered(k) /\ slots'[k] = <<>> =>
            /\ Slot(k).lt = "Scoped"
            /\ Slot(k).obj # NoObj
            /\ \A t \in Getters : Slot(k).obj \notin held[t]
            /\ \A t \in Getters : \A i \in DOMAIN stack[t] :
                    Slot(k).obj \notin {stack[t][i].obj, stack[t][i].part}
            /\ \A p \in Objects : made[p].part = Slot(k).obj =>
                    /\ \A q \in Keys : slots'[q] # <<>> => slots'[q][1].obj # p
                    /\ \A t \in Getters : p \notin held[t]]_locatorVars

(* One object per registration (InstancesBounded), and the sweep takes no   *)
(* Scoped object from under a user (SweepSpares).                          *)
OneInstance == []InstancesBounded /\ SweepSpares

(* A call that locks the mutex of an erased slot may hang, and keeps the    *)
(* construction mutexes that its thread holds.                             *)
Hangs == \E t \in Getters : At(t, "undefined")

(* Every get() returns or throws, factories that get() what they need      *)
(* included, unless a call hangs on the mutex of an erased slot; and       *)
(* ~Spider() ends.                                                         *)
CallsEnd ==
    /\ \A t \in Getters : stack[t] # <<>> ~> stack[t] = <<>> \/ Hangs
    /\ life = "stopping" ~> life = "gone"
=============================================================================
