---------------------------- MODULE LoggerProofs ----------------------------
(* Proofs about the logger: its registry, its losses, its order, its shutdown. *)
EXTENDS Logger, Arithmetic, WellFoundedInduction

Labels == {"start", "ready", "threw", "unborn", "idle", "exited", "claim", "publish", "bump",
           "lock", "sweep", "post", "report", "publish_report",
           "join_janitor", "send", "join_consumer", "drain", "closed", "returned"}
Batches == [op : {"batch"}, from : Nat, to : Nat]
Tasks   == Batches \union [op : {"maintain"}] \union [op : {"flush"}, by : Threads]
Handing == {"recheck", "resnapshot", "dispatch"}  \* the consumer holds a batch

\* Types: of the ring,
RingTypes ==
  /\ consumed \in Nat /\ ring \in Seq(Levels \union {Shutdown})
  /\ published \subseteq 1 .. Len(ring) /\ 1 .. consumed \subseteq published

\* of the registry and the consumer's copy of it,
TableTypes ==
  /\ sinks \subseteq Sinks /\ version \in Nat /\ gate \in Levels \union {DropAll}
  /\ cpc \in {"version", "snapshot", "loop", "wait", "exited"} \union Handing
  /\ table \subseteq Sinks /\ todo \subseteq table /\ seenVersion \in 0 .. version
  /\ batch \in Batches /\ churned \subseteq Sinks
  /\ cpc # "dispatch" => todo = {}

\* of the sinks and their strands,
SinkTypes ==
  /\ threshold \in [Sinks -> Levels] /\ status \in [Sinks -> Statuses]
  /\ reported \in [Sinks -> Statuses] /\ waiting \subseteq Sinks
  /\ undelivered \in [Sinks -> Nat] /\ failures \in [Sinks -> Nat]
  /\ written \in [Sinks -> Seq(SUBSET Nat)] /\ strand \in [Sinks -> Seq(Tasks)]

\* A thread that is about to publish has claimed its slot, and one that is about to
\* claim has a level.
SlotsClaimed ==
  \A t \in Threads :
    /\ pc[t] \in {"publish", "publish_report", "send"} => slot[t] \in 1 .. Len(ring)
    /\ pc[t] = "claim" => slot[t] \in Levels

\* and of the threads.
ThreadTypes ==
  /\ running \in BOOLEAN /\ stopRequested \in BOOLEAN /\ sweepMutex \in BOOLEAN
  /\ pc \in [Threads -> Labels] /\ slot \in [Threads -> Nat]
  /\ pending \in [Threads -> SUBSET Sinks]
  /\ SlotsClaimed

\* A sink registered from the start is in the registry, and in every snapshot of it.
SettledPresent ==
  /\ Registered \ churned \subseteq sinks
  /\ cpc \notin {"version", "snapshot"} => Registered \ churned \subseteq table

\* The batch of the consumer has not reached the strand of s yet.
Awaits(s) == cpc \in {"recheck", "resnapshot"} \/ (cpc = "dispatch" /\ s \in todo)

IsBatch(s, i) == strand[s][i].op = "batch"

\* All that s has written and all that is queued for it comes before event k.
Before(s, k) ==
  /\ \A i \in DOMAIN written[s] : \A m \in written[s][i] : m < k
  /\ \A i \in DOMAIN strand[s] : IsBatch(s, i) => strand[s][i].to < k

\* Batches reach a sink, and leave its strand, in the order of the ring.
InOrder(s) ==
  /\ Before(s, consumed + 1)
  /\ Awaits(s) => Before(s, batch.from)
  /\ \A i \in DOMAIN strand[s] : IsBatch(s, i) =>
       /\ strand[s][i].from \in 1 .. strand[s][i].to
       /\ \A j \in DOMAIN written[s] : \A m \in written[s][j] : m < strand[s][i].from
       /\ \A j \in i + 1 .. Len(strand[s]) : IsBatch(s, j) => strand[s][i].to < strand[s][j].from

\* The batch of the consumer is released from the ring and not empty.
BatchHeld == cpc \in Handing => batch.from \in 1 .. batch.to /\ batch.to <= consumed

Ordered == BatchHeld /\ WrittenInOrder /\ \A s \in Sinks : InOrder(s)

NoBatches(s) == \A i \in DOMAIN strand[s] : ~IsBatch(s, i)

\* Flushes are posted after the last batch: the consumer is gone.
FlushLast(s) ==
  \A i \in DOMAIN strand[s] : strand[s][i].op = "flush" =>
    cpc = "exited" /\ \A j \in i + 1 .. Len(strand[s]) : ~IsBatch(s, j)
FlushesLast == \A s \in Sinks : FlushLast(s)

\* A closer that drains waits for each sink whose strand still holds a batch.
FlushedBy(s, c) == \E i \in DOMAIN strand[s] : strand[s][i] = [op |-> "flush", by |-> c]
DrainCovers ==
  \A c \in Closers : pc[c] \in {"drain", "closed"} =>
    /\ cpc = "exited"
    /\ \A s \in Registered \ churned : NoBatches(s) \/ (s \in pending[c] /\ FlushedBy(s, c))
    /\ pc[c] = "closed" => pending[c] = {}
    /\ pc[c] = "closed" /\ OwnedPool => \A s \in Sinks : NoBatches(s)

IInv ==
  /\ RingTypes /\ TableTypes /\ SinkTypes /\ ThreadTypes
  /\ TableFresh /\ GateMatches /\ SettledPresent
  /\ Ordered /\ FlushesLast /\ DrainCovers /\ LossesCounted

-----------------------------------------------------------------------------
(* Operators *)

\* A set of naturals that is not empty has a minimum.
LEMMA Minimum ==
  ASSUME NEW S \in SUBSET Nat, S # {}
  PROVE  Min(S) \in S /\ \A y \in S : Min(S) <= y
<1> DEFINE R == {ss \in Nat \X Nat : ss[1] < ss[2]}
<1>1. IsWellFoundedOn(R, Nat)
  BY Zenon, NatLessThanWellFounded DEF OpToRel
<1> HIDE DEF R
<1>2. PICK x \in S : \A y \in S : ~(<<y, x>> \in R)
  BY Zenon, <1>1, WFMin
<1>3. ASSUME NEW y \in S PROVE x =< y
  <2>1. y < x => <<y, x>> \in R
    BY Zenon DEF R
  <2> QED BY <1>2, <2>1
<1> QED
  BY Zenon, <1>3 DEF Min

\* The minimum of thresholds is a level, or the gate that drops everything.
LEMMA AggregateType ==
  ASSUME NEW tbl \in SUBSET Sinks, threshold \in [Sinks -> Levels]
  PROVE  Aggregate(tbl) \in Levels \union {DropAll}
<1> DEFINE S == {threshold[s] : s \in tbl} \union {DropAll}
<1>1. S \subseteq Levels \union {DropAll} /\ S # {} /\ S \in SUBSET Nat
  BY LoggerAssumption DEF Levels, DropAll
<1> HIDE DEF S
<1>2. Min(S) \in S
  BY Zenon, <1>1, Minimum
<1> QED
  BY Zenon, <1>1, <1>2 DEF Aggregate, S

\* get_published_sequence() returns the end of a published run.
LEMMA AvailableFacts ==
  ASSUME RingTypes
  PROVE  /\ Len(ring) \in Nat /\ Available \in consumed .. Len(ring)
         /\ (consumed + 1) .. Available \subseteq published
<1>1. /\ consumed \in Nat /\ Len(ring) \in Nat
      /\ published \subseteq 1 .. Len(ring) /\ 1 .. consumed \subseteq published
  BY DEF RingTypes
<1>2. consumed <= Len(ring)
  BY <1>1
<1> DEFINE T == {n \in Nat : n >= consumed /\ n + 1 \notin published}
<1>3. Len(ring) \in T
  BY <1>1, <1>2
<1>4. Min(T) \in T /\ \A y \in T : Min(T) <= y
  BY Zenon, <1>3, Minimum
<1>5. PICK m \in T : \A y \in T : m <= y
  BY Zenon, <1>4
<1>6. ASSUME NEW k \in (consumed + 1) .. m PROVE k \in published
  <2>1. k - 1 \in Nat /\ k - 1 >= consumed /\ k - 1 < m /\ (k - 1) + 1 = k
    BY <1>1
  <2>2. k - 1 \notin T
    BY <1>5, <2>1
  <2> QED BY Zenon, <2>1, <2>2
<1>7. m \in consumed .. Len(ring) /\ (consumed + 1) .. m \subseteq published /\ m + 1 \notin published
  BY <1>1, <1>3, <1>5, <1>6
<1> QED
  BY Zenon, <1>1, <1>7 DEF Available

\* Collecting releases a published run: first the events of the batch, then at most
\* the sentinel.
LEMMA CollectFacts ==
  ASSUME RingTypes, Collect
  PROVE  /\ running' \in BOOLEAN /\ consumed' \in Nat /\ consumed < consumed'
         /\ 1 .. consumed' \subseteq published /\ batch' \in Batches
         /\ \/ /\ cpc' = "recheck" /\ batch'.from = consumed + 1
               /\ batch'.to \in consumed + 1 .. consumed'
               /\ \A n \in batch'.to + 1 .. consumed' : ring[n] = Shutdown
            \/ /\ cpc' = "loop"
               /\ \A n \in consumed + 1 .. consumed' : ring[n] = Shutdown
<1> DEFINE seen == (consumed + 1) .. Available
<1> DEFINE ends == {n \in seen : ring[n] = Shutdown}
<1> DEFINE last == IF ends = {} THEN Available ELSE Min(ends) - 1
<1>1. /\ consumed \in Nat /\ Len(ring) \in Nat /\ Available \in consumed .. Len(ring)
      /\ seen \subseteq published /\ 1 .. consumed \subseteq published
  BY Zenon, AvailableFacts DEF RingTypes
<1>2. PICK a \in Nat : a = Available
  BY <1>1
<1>3. ends # {} => Min(ends) \in ends
  <2>1. ends \in SUBSET Nat
    BY <1>1
  <2> HIDE DEF ends
  <2> QED BY Zenon, <2>1, Minimum
<1>4. PICK e : e = Min(ends)
  OBVIOUS
<1>5. /\ seen # {} /\ running' = (ends = {})
      /\ consumed' = (IF ends = {} THEN last ELSE last + 1)
      /\ batch' = (IF last > consumed THEN [op |-> "batch", from |-> consumed + 1, to |-> last]
                   ELSE NoBatch)
      /\ cpc' = (IF last > consumed THEN "recheck" ELSE "loop")
  BY Zenon DEF Collect
<1>6. CASE ends = {}
  BY <1>1, <1>5, <1>6 DEF NoBatch, Batches
<1>7. CASE ends # {}
  <2>1. e \in (consumed + 1) .. Available /\ ring[e] = Shutdown
    BY Zenon, <1>3, <1>4, <1>7
  <2>2. consumed' = e /\ last = e - 1
    BY <1>1, <1>4, <1>5, <1>7, <2>1
  <2> HIDE DEF last, ends
  <2> QED BY <1>1, <1>5, <1>7, <2>1, <2>2 DEF NoBatch, Batches
<1> QED
  BY Zenon, <1>6, <1>7

-----------------------------------------------------------------------------
(* Steps *)

\* What a thread other than the consumer does.
Calls(t) == Log(t) \/ ClaimEvent(t) \/ PublishEvent(t) \/ BumpVersion(t) \/ JanitorExit
Starts(t) == t = Constructor /\ ConstructorStep
Closes(t) == t \in Closers /\ CloserStep(t)
ThreadStep(t) == Calls(t) \/ SweepStep(t) \/ Starts(t) \/ Closes(t)

\* Every step is one of the consumer, of a strand, of the clock, of a thread or a
\* change of the registry.
LEMMA StepCases ==
  ASSUME Next
  PROVE  \/ ConsumerStep /\ UNCHANGED history
         \/ \E s \in Sinks : (StrandStep(s) \/ DeadlinePasses(s)) /\ UNCHANGED history
         \/ \E t \in Threads : ThreadStep(t) /\ UNCHANGED history
         \/ \E r \in Registrars : RegistryStep(r)
<1>1. /\ Producers \subseteq Threads /\ Registrars \subseteq Threads /\ Closers \subseteq Threads
      /\ Janitor \in Threads /\ Constructor \in Threads
  BY Zenon DEF Threads
<1> QED
  BY ZenonT(30), <1>1 DEF Next, Work, ThreadStep, Calls, Starts, Closes

\* The ring grows, publishes a claimed slot or is collected.
LEMMA RingMoves ==
  ASSUME NEW t \in Threads, ThreadStep(t)
  PROVE  /\ consumed' = consumed
         /\ \/ ring' = ring /\ published' = published
            \/ published' = published /\ Claim(t, slot[t]) /\ pc[t] = "claim"
            \/ published' = published /\ Claim(t, MaxLevel)
            \/ published' = published /\ Claim(t, Shutdown)
            \/ Publish(t) /\ pc[t] \in {"publish", "publish_report", "send"}
<1> USE DEF ringVars, Goto, Publish
<1>1. CASE Calls(t)
  BY Zenon, <1>1 DEF Calls, Log, ClaimEvent, PublishEvent, BumpVersion, JanitorExit
<1>2. CASE SweepStep(t)
  BY Zenon, <1>2 DEF SweepStep, SweepBegin, SweepGate, ReportTransitions, PostMaintains, Report, PublishReport
<1>3. CASE Starts(t)
  BY Zenon, <1>3 DEF Starts, ConstructorStep, StartJanitor, StartJanitorFails, ConstructorThrows, SendSentinel
<1>4. CASE Closes(t)
  BY Zenon, <1>4 DEF Closes, CloserStep, CheckRunning, JoinJanitor, PostFlushes, Close, SendSentinel
<1> QED
  BY Zenon, <1>1, <1>2, <1>3, <1>4 DEF ThreadStep

\* A thread leaves the registry table, the consumer and the sinks alone.
LEMMA ThreadFrame ==
  ASSUME NEW t \in Threads, ThreadStep(t)
  PROVE  /\ UNCHANGED <<sinks, sinkVars, consumerVars>>
         /\ version' = version \/ (version' = version + 1 /\ pc[t] = "bump")
         /\ gate' = gate \/ gate' = Aggregate(sinks)
<1> USE DEF registryVars, sinkVars, consumerVars, Goto
<1>1. CASE Calls(t)
  BY Zenon, <1>1 DEF Calls, Log, ClaimEvent, PublishEvent, BumpVersion, JanitorExit
<1>2. CASE SweepStep(t)
  BY Zenon, <1>2 DEF SweepStep, SweepBegin, SweepGate, ReportTransitions, PostMaintains, Report, PublishReport
<1>3. CASE Starts(t)
  BY Zenon, <1>3 DEF Starts, ConstructorStep
<1>4. CASE Closes(t)
  BY Zenon, <1>4 DEF Closes, CloserStep
<1> QED
  BY Zenon, <1>1, <1>2, <1>3, <1>4 DEF ThreadStep

\* A change of the registry leaves the ring, the consumer and the strands alone.
LEMMA RegistryFrame ==
  ASSUME NEW r \in Registrars, RegistryStep(r), sinks \subseteq Sinks
  PROVE  /\ UNCHANGED <<ringVars, running, stopRequested, consumerVars, version, status, failures,
                        waiting, undelivered, written, reported, strand, slot, pending, sweepMutex>>
         /\ pc[r] = "idle"
         /\ \/ /\ gate' = Aggregate(sinks') /\ pc' = [pc EXCEPT ![r] = "bump"]
               /\ UNCHANGED <<threshold, reconfigured>>
               /\ \E s \in Sinks : /\ sinks' \subseteq sinks \union {s} /\ sinks \ {s} \subseteq sinks'
                                   /\ churned' = churned \union {s}
            \/ /\ UNCHANGED <<sinks, gate, churned, pc>>
               /\ \E s \in Sinks, level \in Levels : /\ threshold' = [threshold EXCEPT ![s] = level]
                                                     /\ reconfigured' = reconfigured \union {s}
<1> USE DEF registryVars, sinkVars, threadVars, Goto, RegistryStep
<1>1. CASE AddSink(r)
  BY Zenon, <1>1 DEF AddSink
<1>2. CASE RemoveSink(r)
  BY Zenon, <1>2 DEF RemoveSink
<1>3. CASE SetConfig(r)
  BY Zenon, <1>3 DEF SetConfig
<1> QED
  BY Zenon, <1>1, <1>2, <1>3

\* A strand or the clock leaves the ring, the registry and the consumer alone.
LEMMA StrandFrame ==
  ASSUME NEW s \in Sinks, StrandStep(s) \/ DeadlinePasses(s)
  PROVE  UNCHANGED <<ringVars, running, stopRequested, registryVars, threshold, reported,
                     consumerVars, pc, slot, sweepMutex>>
BY Zenon DEF StrandStep, DeadlinePasses, FlushSink, sinkVars, threadVars

-----------------------------------------------------------------------------
(* Types *)

\* What the consumer does to its own variables.
LEMMA ConsumerCases ==
  ASSUME ConsumerStep
  PROVE  \/ Collect /\ UNCHANGED <<sinkVars, strand>>
         \/ Dispatch /\ UNCHANGED <<ringVars, running>>
         \/ /\ ReadVersion \/ Snapshot \/ Wait \/ ConsumerExit
            /\ UNCHANGED <<ringVars, running, sinkVars, strand>>
BY Zenon DEF ConsumerStep

LEMMA RingTypesStep ==
  ASSUME RingTypes, TableTypes, ThreadTypes, Next
  PROVE  RingTypes' /\ Len(ring) <= Len(ring')
<1> USE DEF RingTypes
<1>1. ASSUME NEW t \in Threads, ThreadStep(t) PROVE RingTypes' /\ Len(ring) <= Len(ring')
  <2> consumed' = consumed
    BY Zenon, <1>1, RingMoves
  <2>1. CASE ring' = ring /\ published' = published
    BY <2>1
  <2>2. ASSUME NEW x \in Levels \union {Shutdown}, Claim(t, x), published' = published
        PROVE  RingTypes' /\ Len(ring) <= Len(ring')
    BY <2>2 DEF Claim
  <2>3. CASE Publish(t) /\ slot[t] \in 1 .. Len(ring)
    <3>1. ring' = ring /\ published' = published \union {slot[t]}
      BY Zenon, <2>3 DEF Publish
    <3>2. published' \subseteq 1 .. Len(ring') /\ 1 .. consumed' \subseteq published'
      BY Zenon, <2>3, <3>1
    <3> QED BY <3>1, <3>2
  <2>4. MaxLevel \in Levels
    BY LoggerAssumption DEF Levels
  <2> QED
    BY Zenon, <1>1, <2>1, <2>2, <2>3, <2>4, RingMoves DEF ThreadTypes, SlotsClaimed
<1>2. CASE ConsumerStep
  <2>1. CASE Collect
    <3>1. ring' = ring /\ published' = published
      BY Zenon, <2>1 DEF Collect
    <3> QED BY <2>1, <3>1, CollectFacts
  <2>2. CASE UNCHANGED ringVars
    BY <2>2 DEF ringVars
  <2> QED
    BY Zenon, <1>2, <2>1, <2>2, ConsumerCases
<1>3. CASE UNCHANGED ringVars
  BY <1>3 DEF ringVars
<1> QED
  BY Zenon, <1>1, <1>2, <1>3, StepCases, StrandFrame, RegistryFrame DEF TableTypes
LEMMA TableTypesStep ==
  ASSUME RingTypes, TableTypes, SinkTypes, Next
  PROVE  TableTypes'
<1> USE DEF TableTypes, registryVars, consumerVars, history
<1>1. threshold \in [Sinks -> Levels]
  BY Zenon DEF SinkTypes
<1>2. ASSUME NEW t \in Threads, ThreadStep(t), UNCHANGED history PROVE TableTypes'
  <2>1. gate' \in Levels \union {DropAll}
    BY Zenon, <1>1, <1>2, ThreadFrame, AggregateType
  <2>2. version' \in Nat /\ seenVersion' \in 0 .. version'
    BY <1>2, ThreadFrame
  <2> QED BY Zenon, <1>2, <2>1, <2>2, ThreadFrame
<1>3. CASE ConsumerStep /\ UNCHANGED history
  <2>1. UNCHANGED registryVars
    BY Zenon, <1>3 DEF ConsumerStep
  <2>2. CASE Collect
    BY Zenon, <1>3, <2>1, <2>2, CollectFacts DEF Collect, Handing
  <2>3. CASE Dispatch
    BY <1>3, <2>1, <2>3 DEF Dispatch, Visit, Handing, NoBatch, Batches
  <2>4. CASE ReadVersion
    BY <1>3, <2>1, <2>4 DEF ReadVersion, CGoto, Visit, Handing, NoBatch, Batches
  <2>5. CASE Snapshot
    BY <1>3, <2>1, <2>5 DEF Snapshot, CGoto, Visit, Handing, NoBatch, Batches
  <2>6. CASE Wait \/ ConsumerExit
    BY Zenon, <1>3, <2>1, <2>6 DEF Wait, ConsumerExit, CGoto
  <2> QED BY Zenon, <1>3, <2>2, <2>3, <2>4, <2>5, <2>6, ConsumerCases
<1>4. ASSUME NEW r \in Registrars, RegistryStep(r) PROVE TableTypes'
  <2>1. sinks' \subseteq Sinks /\ churned' \subseteq Sinks
    BY Zenon, <1>4, RegistryFrame
  <2>2. gate' \in Levels \union {DropAll}
    BY Zenon, <1>1, <1>4, <2>1, RegistryFrame, AggregateType
  <2> QED BY Zenon, <1>4, <2>1, <2>2, RegistryFrame
<1>5. ASSUME NEW s \in Sinks, StrandStep(s) \/ DeadlinePasses(s), UNCHANGED history PROVE TableTypes'
  BY Zenon, <1>5, StrandFrame
<1> QED
  BY Zenon, <1>2, <1>3, <1>4, <1>5, StepCases
\* A strand moves by one task: nothing, a post that is no batch, the pop of a task
\* that is no batch.
Posted(s, task) == strand'[s] = Append(strand[s], task)
Popped(s) == strand[s] # <<>> /\ strand'[s] = Tail(strand[s])
Turns(s) ==
  \/ strand'[s] = strand[s]
  \/ Posted(s, [op |-> "maintain"])
  \/ \E c \in Closers : Posted(s, [op |-> "flush", by |-> c]) /\ cpc = "exited"

\* Threads post maintenance and flushes.
LEMMA ThreadPosts ==
  ASSUME SinkTypes, NEW t \in Threads, ThreadStep(t)
  PROVE  strand' \in [Sinks -> Seq(Tasks)] /\ \A s \in Sinks : Turns(s)
<1>1. CASE UNCHANGED strand
  BY Zenon, <1>1 DEF SinkTypes, Turns
<1>2. CASE PostMaintains(t)
  BY <1>2 DEF PostMaintains, PostTo, SinkTypes, Turns, Posted, Tasks
<1>3. CASE t \in Closers /\ PostFlushes(t)
  BY <1>3 DEF PostFlushes, PostTo, SinkTypes, Turns, Posted, Tasks
<1>4. UNCHANGED strand \/ PostMaintains(t) \/ (t \in Closers /\ PostFlushes(t))
  <2>1. CASE Calls(t)
    BY Zenon, <2>1 DEF Calls, Log, ClaimEvent, PublishEvent, BumpVersion, JanitorExit
  <2>2. CASE SweepStep(t)
    BY Zenon, <2>2 DEF SweepStep, SweepBegin, SweepGate, ReportTransitions, Report, PublishReport
  <2>3. CASE Starts(t)
    BY Zenon, <2>3 DEF Starts, ConstructorStep
  <2>4. CASE Closes(t)
    BY Zenon, <2>4 DEF Closes, CloserStep, CheckRunning, JoinJanitor, Close
  <2> QED BY Zenon, <2>1, <2>2, <2>3, <2>4 DEF ThreadStep
<1> QED
  BY Zenon, <1>1, <1>2, <1>3, <1>4

\* The head of a strand.
LEMMA TaskFacts ==
  ASSUME SinkTypes, NEW s \in Sinks, strand[s] # <<>>
  PROVE  /\ Len(strand[s]) \in Nat \ {0} /\ Task(s) = strand[s][1] /\ Task(s) \in Tasks
         /\ Tail(strand[s]) \in Seq(Tasks) /\ Len(Tail(strand[s])) = Len(strand[s]) - 1
         /\ \A i \in 1 .. Len(strand[s]) - 1 : Tail(strand[s])[i] = strand[s][i + 1]
BY DEF SinkTypes, Task
\* A batch is dropped by a dead sink, or written up to event n, which is the one that
\* failed or the end; the rest is counted.
Passes(s, from, to) == {k \in from .. to : ring[k] >= threshold[s]}
Dropped(s) ==
  written' = written /\ undelivered' = [undelivered EXCEPT ![s] = @ + Size(Task(s))]
WrittenUpTo(s, n) ==
  /\ written' = [written EXCEPT ![s] = Append(@, Passes(s, Task(s).from, n - 1))]
  /\ undelivered' = [undelivered EXCEPT ![s] = @ + (Task(s).to - n + 1)]

LEMMA ProcessFacts ==
  ASSUME SinkTypes, NEW s \in Sinks, InOrder(s), ProcessBatch(s)
  PROVE  /\ strand[s] # <<>> /\ strand' = [strand EXCEPT ![s] = Tail(@)]
         /\ Task(s) \in Batches /\ Task(s).from \in 1 .. Task(s).to /\ IsBatch(s, 1)
         /\ Dropped(s) \/ \E n \in Task(s).from .. Task(s).to + 1 : WrittenUpTo(s, n)
<1>1. strand[s] # <<>> /\ Task(s).op = "batch" /\ strand' = [strand EXCEPT ![s] = Tail(@)]
  BY Zenon DEF ProcessBatch, Pop
<1>2. Task(s) = strand[s][1] /\ Task(s) \in Tasks /\ 1 \in DOMAIN strand[s]
  BY <1>1, TaskFacts DEF SinkTypes
<1>3. IsBatch(s, 1) /\ Task(s) \in Batches
  BY Zenon, <1>1, <1>2 DEF IsBatch, Tasks
<1>4. Task(s).from \in 1 .. Task(s).to
  BY Zenon, <1>2, <1>3 DEF InOrder
<1>5. PICK from, to \in Nat : from = Task(s).from /\ to = Task(s).to
  BY Zenon, <1>3 DEF Batches
<1>6. Lose(s, Size(Task(s))) /\ UNCHANGED written => Dropped(s)
  BY Zenon DEF Lose, Dropped
<1>7. ASSUME NEW n \in Events(Task(s)), Write(s, n - 1), Lose(s, Task(s).to - n + 1)
      PROVE  n \in Task(s).from .. Task(s).to + 1 /\ WrittenUpTo(s, n)
  <2>1. n \in Task(s).from .. Task(s).to + 1
    BY <1>4, <1>5 DEF Events
  <2> QED BY Zenon, <1>7, <2>1 DEF Write, Lose, WrittenUpTo, Passes
<1>8. ASSUME Write(s, Task(s).to), UNCHANGED undelivered
      PROVE  Task(s).to + 1 \in Task(s).from .. Task(s).to + 1 /\ WrittenUpTo(s, Task(s).to + 1)
  <2>1. to + 1 \in from .. to + 1 /\ (to + 1) - 1 = to /\ to - (to + 1) + 1 = 0
    BY <1>4, <1>5
  <2>2. undelivered' = [undelivered EXCEPT ![s] = @ + 0]
    BY <1>8 DEF SinkTypes
  <2>3. written' = [written EXCEPT ![s] = Append(@, Passes(s, from, (to + 1) - 1))]
    BY Zenon, <1>5, <1>8, <2>1 DEF Write, Passes
  <2> QED BY Zenon, <1>5, <2>1, <2>2, <2>3 DEF WrittenUpTo
<1>9. \/ Lose(s, Size(Task(s))) /\ UNCHANGED written
      \/ \E n \in Events(Task(s)) : Write(s, n - 1) /\ Lose(s, Task(s).to - n + 1)
      \/ Write(s, Task(s).to) /\ UNCHANGED undelivered
  BY Zenon DEF ProcessBatch
<1> QED
  BY Zenon, <1>1, <1>3, <1>4, <1>6, <1>7, <1>8, <1>9

\* A sink's health after a task.
LEMMA HealthTypes ==
  ASSUME SinkTypes, NEW s \in Sinks, StrandStep(s) \/ DeadlinePasses(s)
  PROVE  /\ status' \in [Sinks -> Statuses] /\ failures' \in [Sinks -> Nat]
         /\ waiting' \subseteq Sinks
<1> USE DEF SinkTypes, Statuses
<1>1. CASE UNCHANGED <<status, failures, waiting>>
  BY Zenon, <1>1
<1>2. CASE Recover(s)
  BY Zenon, <1>2 DEF Recover
<1>3. ASSUME NEW to \in Statuses, Fail(s, to)
      PROVE  status' \in [Sinks -> Statuses] /\ failures' \in [Sinks -> Nat] /\ waiting' \subseteq Sinks
  BY <1>3 DEF Fail
<1>4. CASE DeadlinePasses(s)
  BY Zenon, <1>4 DEF DeadlinePasses
<1>5. StrandStep(s) => \/ UNCHANGED <<status, failures, waiting>>
                       \/ Recover(s)
                       \/ \E to \in Statuses : Fail(s, to)
  BY Zenon DEF StrandStep, ProcessBatch, Maintain, FlushSink, sinkVars
<1> QED
  BY Zenon, <1>1, <1>2, <1>3, <1>4, <1>5

LEMMA SinkTypesStep ==
  ASSUME RingTypes, TableTypes, SinkTypes, Ordered, Next
  PROVE  SinkTypes'
<1> USE DEF SinkTypes
<1>1. ASSUME NEW t \in Threads, ThreadStep(t) PROVE SinkTypes'
  <2>1. reported' \in [Sinks -> Statuses]
    <3>1. CASE ReportTransitions(t)
      BY Zenon, <3>1 DEF ReportTransitions
    <3>2. CASE UNCHANGED reported
      BY Zenon, <3>2
    <3>3. Calls(t) \/ Starts(t) \/ Closes(t) => UNCHANGED reported
      BY Zenon DEF Calls, Log, ClaimEvent, PublishEvent, BumpVersion, JanitorExit, Starts, ConstructorStep, Closes, CloserStep
    <3>4. SweepStep(t) => UNCHANGED reported \/ ReportTransitions(t)
      BY Zenon DEF SweepStep, SweepBegin, SweepGate, PostMaintains, Report, PublishReport
    <3> QED BY Zenon, <1>1, <3>1, <3>2, <3>3, <3>4 DEF ThreadStep
  <2> QED BY Zenon, <1>1, <2>1, ThreadFrame, ThreadPosts DEF sinkVars
<1>2. CASE ConsumerStep
  <2>1. reported' = reported
    BY Zenon, <1>2 DEF ConsumerStep
  <2>2. CASE Dispatch
    <3>1. PICK s \in todo :
            /\ \/ undelivered' = [undelivered EXCEPT ![s] = @ + Size(batch)]
               \/ undelivered' = undelivered
            /\ Post(s, batch) \/ strand' = strand
      BY Zenon, <2>2 DEF Dispatch
    <3>2. Size(batch) \in Nat
      <4>1. batch.from \in 1 .. batch.to
        BY Zenon, <2>2 DEF Ordered, BatchHeld, Dispatch, Handing
      <4> QED BY <4>1 DEF Size, TableTypes, Batches
    <3>3. batch \in Tasks /\ s \in Sinks
      BY Zenon DEF TableTypes, Tasks
    <3>4. undelivered' \in [Sinks -> Nat]
      <4>1. CASE undelivered' = [undelivered EXCEPT ![s] = @ + Size(batch)]
        BY <3>2, <3>3, <4>1
      <4> QED BY Zenon, <3>1, <4>1
    <3>5. strand' \in [Sinks -> Seq(Tasks)]
      <4>1. CASE Post(s, batch)
        BY <3>3, <4>1 DEF Post
      <4> QED BY Zenon, <3>1, <4>1
    <3> QED BY Zenon, <2>1, <2>2, <3>4, <3>5 DEF Dispatch
  <2>3. CASE UNCHANGED <<sinkVars, strand>>
    BY Zenon, <2>1, <2>3 DEF sinkVars
  <2> QED BY Zenon, <1>2, <2>2, <2>3, ConsumerCases
<1>3. ASSUME NEW s \in Sinks, StrandStep(s) \/ DeadlinePasses(s) PROVE SinkTypes'
  <2>1. CASE ProcessBatch(s)
    <3>1. /\ strand[s] # <<>> /\ strand' = [strand EXCEPT ![s] = Tail(@)]
          /\ Task(s) \in Batches /\ Task(s).from \in 1 .. Task(s).to /\ IsBatch(s, 1)
          /\ Dropped(s) \/ \E n \in Task(s).from .. Task(s).to + 1 : WrittenUpTo(s, n)
      BY Zenon, <2>1, ProcessFacts DEF Ordered
    <3>2. strand' \in [Sinks -> Seq(Tasks)]
      BY Zenon, <3>1, TaskFacts
    <3>3. CASE Dropped(s)
      <4>1. undelivered' \in [Sinks -> Nat] /\ written' = written
        BY <3>1, <3>3 DEF Dropped, Size, Batches
      <4> QED BY Zenon, <1>3, <3>2, <4>1, StrandFrame, HealthTypes
    <3>4. ASSUME NEW n \in Task(s).from .. Task(s).to + 1, WrittenUpTo(s, n) PROVE SinkTypes'
      <4>1. undelivered' \in [Sinks -> Nat]
        BY SMTT(20), <3>1, <3>4 DEF WrittenUpTo, Batches
      <4>2. Passes(s, Task(s).from, n - 1) \in SUBSET Nat
        BY <3>1 DEF Passes, Batches
      <4>3. written' \in [Sinks -> Seq(SUBSET Nat)]
        BY <3>4, <4>2 DEF WrittenUpTo
      <4> QED BY Zenon, <1>3, <3>2, <4>1, <4>3, StrandFrame, HealthTypes
    <3> QED BY Zenon, <3>1, <3>3, <3>4
  <2>2. CASE Maintain(s) \/ FlushSink(s)
    <3>1. strand[s] # <<>> /\ strand' = [strand EXCEPT ![s] = Tail(@)]
      BY Zenon, <2>2 DEF Maintain, FlushSink, Pop
    <3>2. strand' \in [Sinks -> Seq(Tasks)]
      BY Zenon, <3>1, TaskFacts
    <3>3. undelivered' = undelivered /\ written' = written
      BY Zenon, <2>2 DEF Maintain, FlushSink, sinkVars
    <3> QED BY Zenon, <1>3, <3>2, <3>3, StrandFrame, HealthTypes
  <2>3. CASE DeadlinePasses(s)
    BY Zenon, <2>3, StrandFrame, HealthTypes DEF DeadlinePasses
  <2> QED BY Zenon, <1>3, <2>1, <2>2, <2>3 DEF StrandStep
<1>4. ASSUME NEW r \in Registrars, RegistryStep(r) PROVE SinkTypes'
  <2>1. threshold' \in [Sinks -> Levels]
    BY Zenon, <1>4, RegistryFrame DEF TableTypes
  <2> QED BY Zenon, <1>4, <2>1, RegistryFrame DEF TableTypes
<1> QED
  BY Zenon, <1>1, <1>2, <1>3, <1>4, StepCases
LEMMA SlotsStep ==
  ASSUME RingTypes, ThreadTypes, Len(ring) <= Len(ring'), NEW t \in Threads, ThreadStep(t)
  PROVE  pc' \in [Threads -> Labels] /\ slot' \in [Threads -> Nat] /\ SlotsClaimed'
<1>1. /\ pc \in [Threads -> Labels] /\ slot \in [Threads -> Nat] /\ SlotsClaimed
      /\ Len(ring) \in Nat /\ Len(ring') \in Nat
  BY DEF ThreadTypes, RingTypes
<1>2. Janitor \in Threads /\ Constructor \in Threads
  BY Zenon DEF Threads
<1>3. ASSUME NEW u \in Threads, NEW l \in Labels \ {"publish", "publish_report", "send", "claim"},
             pc' = [pc EXCEPT ![u] = l],
             slot' = slot \/ slot' = [slot EXCEPT ![u] = 0]
      PROVE  pc' \in [Threads -> Labels] /\ slot' \in [Threads -> Nat] /\ SlotsClaimed'
  BY <1>1, <1>3 DEF SlotsClaimed
<1>4. ASSUME NEW l \in Labels, NEW x, Claim(t, x), l # "claim", pc' = [pc EXCEPT ![t] = l]
      PROVE  pc' \in [Threads -> Labels] /\ slot' \in [Threads -> Nat] /\ SlotsClaimed'
  BY <1>1, <1>4 DEF Claim, SlotsClaimed, RingTypes
<1>5. CASE Log(t)
  BY <1>1, <1>5 DEF Log, Goto, SlotsClaimed, Labels, Levels
<1>6. CASE StartJanitor
  BY <1>1, <1>2, <1>6 DEF StartJanitor, SlotsClaimed, Labels
<1>7. \A left : AfterReports(left) \in Labels \ {"publish", "publish_report", "send", "claim"}
  BY Zenon DEF AfterReports, Labels
<1> DEFINE Moved(u, to) == pc' = [pc EXCEPT ![u] = to] /\ (slot' = slot \/ slot' = [slot EXCEPT ![u] = 0])
<1>8. Calls(t) => \/ Log(t) \/ Moved(t, "idle") \/ Moved(Janitor, "exited")
                  \/ \E x : Claim(t, x) /\ pc' = [pc EXCEPT ![t] = "publish"]
  BY Zenon DEF Calls, ClaimEvent, PublishEvent, BumpVersion, JanitorExit, Goto, Publish
<1>9. SweepStep(t) => \/ Moved(t, "lock") \/ Moved(t, "sweep") \/ Moved(t, "post")
                      \/ \E left : Moved(t, AfterReports(left))
                      \/ \E x : Claim(t, x) /\ pc' = [pc EXCEPT ![t] = "publish_report"]
  BY Zenon DEF SweepStep, SweepBegin, SweepGate, ReportTransitions, PostMaintains, Report, PublishReport, Goto, Publish
<1>10. Starts(t) => \/ StartJanitor \/ Moved(t, "threw") \/ Moved(t, "join_consumer")
                    \/ \E x : Claim(t, x) /\ pc' = [pc EXCEPT ![t] = "send"]
  BY Zenon DEF Starts, ConstructorStep, StartJanitorFails, ConstructorThrows, SendSentinel, Goto, Publish
<1>11. Closes(t) => \/ Moved(t, "join_janitor") \/ Moved(t, "returned") \/ Moved(t, "join_consumer")
                    \/ Moved(t, "drain") \/ Moved(t, "closed")
                    \/ \E x : Claim(t, x) /\ pc' = [pc EXCEPT ![t] = "send"]
  BY Zenon DEF Closes, CloserStep, CheckRunning, JoinJanitor, PostFlushes, Close, SendSentinel, Goto, Publish
<1>12. /\ {"publish", "publish_report", "send"} \subseteq Labels \ {"claim"}
       /\ {"lock", "sweep", "post", "threw", "join_consumer", "join_janitor", "returned", "drain",
           "closed", "idle", "exited"} \subseteq Labels \ {"publish", "publish_report", "send", "claim"}
  BY Zenon DEF Labels
<1> QED
  BY ZenonT(30), <1>2, <1>3, <1>4, <1>5, <1>6, <1>7, <1>8, <1>9, <1>10, <1>11, <1>12 DEF ThreadStep

LEMMA PendingStep ==
  ASSUME TableTypes, ThreadTypes, NEW t \in Threads, ThreadStep(t)
  PROVE  pending' \in [Threads -> SUBSET Sinks]
<1>1. pending \in [Threads -> SUBSET Sinks] /\ sinks \subseteq Sinks
  BY Zenon DEF ThreadTypes, TableTypes
<1>2. ASSUME NEW to \in SUBSET Sinks, pending' = [pending EXCEPT ![t] = to]
      PROVE  pending' \in [Threads -> SUBSET Sinks]
  BY Zenon, <1>1, <1>2
<1>3. Calls(t) \/ Starts(t) => pending' = pending
  BY Zenon DEF Calls, Log, ClaimEvent, PublishEvent, BumpVersion, JanitorExit, Starts, ConstructorStep
<1>4. SweepStep(t) => pending' = pending \/ \E to \in SUBSET Sinks : pending' = [pending EXCEPT ![t] = to]
  <2>1. CASE ReportTransitions(t)
    <3>1. {s \in sinks : reported[s] # status[s]} \in SUBSET Sinks
      BY Zenon, <1>1
    <3> QED BY Zenon, <2>1, <3>1 DEF ReportTransitions
  <2>2. CASE Report(t)
    <3>1. \A s : pending[t] \ {s} \in SUBSET Sinks
      BY Zenon, <1>1
    <3> QED BY Zenon, <2>2, <3>1 DEF Report
  <2> QED BY Zenon, <2>1, <2>2 DEF SweepStep, SweepBegin, SweepGate, PostMaintains, PublishReport
<1>5. Closes(t) => pending' = pending \/ \E to \in SUBSET Sinks : pending' = [pending EXCEPT ![t] = to]
  BY Zenon, <1>1 DEF Closes, CloserStep, CheckRunning, JoinJanitor, PostFlushes, Close, SendSentinel
<1> QED
  BY Zenon, <1>1, <1>2, <1>3, <1>4, <1>5 DEF ThreadStep

LEMMA ThreadTypesStep ==
  ASSUME RingTypes, TableTypes, SinkTypes, ThreadTypes, Next, Len(ring) <= Len(ring')
  PROVE  ThreadTypes'
<1>1. ASSUME NEW t \in Threads, ThreadStep(t) PROVE ThreadTypes'
  <2>1. running' \in BOOLEAN /\ stopRequested' \in BOOLEAN /\ sweepMutex' \in BOOLEAN
    <3>1. running \in BOOLEAN /\ stopRequested \in BOOLEAN /\ sweepMutex \in BOOLEAN
      BY Zenon DEF ThreadTypes
    <3>2. CASE Calls(t)
      BY Zenon, <3>1, <3>2 DEF Calls, Log, ClaimEvent, PublishEvent, BumpVersion, JanitorExit
    <3>3. CASE SweepStep(t)
      BY Zenon, <3>1, <3>3 DEF SweepStep, SweepBegin, SweepGate, ReportTransitions, PostMaintains, Report, PublishReport
    <3>4. CASE Starts(t)
      BY Zenon, <3>1, <3>4 DEF Starts, ConstructorStep, StartJanitor, StartJanitorFails, ConstructorThrows
    <3>5. CASE Closes(t)
      BY Zenon, <3>1, <3>5 DEF Closes, CloserStep, CheckRunning, JoinJanitor, PostFlushes, Close
    <3> QED BY Zenon, <1>1, <3>2, <3>3, <3>4, <3>5 DEF ThreadStep
  <2> QED BY Zenon, <1>1, <2>1, SlotsStep, PendingStep DEF ThreadTypes
<1>2. CASE ConsumerStep
  <2>1. running' \in BOOLEAN
    BY Zenon, <1>2, ConsumerCases, CollectFacts DEF ThreadTypes
  <2>2. UNCHANGED <<stopRequested, sweepMutex, threadVars>>
    BY Zenon, <1>2 DEF ConsumerStep
  <2>3. ring' = ring
    BY Zenon, <1>2, ConsumerCases DEF Collect, ringVars
  <2> QED BY Zenon, <2>1, <2>2, <2>3 DEF ThreadTypes, SlotsClaimed, threadVars
<1>3. ASSUME NEW s \in Sinks, StrandStep(s) \/ DeadlinePasses(s) PROVE ThreadTypes'
  <2>1. pending' \in [Threads -> SUBSET Sinks]
    <3>1. CASE FlushSink(s)
      BY Zenon, <3>1 DEF FlushSink, ThreadTypes
    <3>2. CASE UNCHANGED pending
      BY Zenon, <3>2 DEF ThreadTypes
    <3> QED BY Zenon, <1>3, <3>1, <3>2 DEF StrandStep, DeadlinePasses, threadVars
  <2>2. UNCHANGED <<ring, running, stopRequested, pc, slot, sweepMutex>>
    BY Zenon, <1>3, StrandFrame DEF ringVars
  <2> QED BY Zenon, <2>1, <2>2 DEF ThreadTypes, SlotsClaimed
<1>4. ASSUME NEW r \in Registrars, RegistryStep(r) PROVE ThreadTypes'
  <2>1. UNCHANGED <<ring, running, stopRequested, slot, sweepMutex, pending>> /\ sinks \subseteq Sinks
    BY Zenon, <1>4, RegistryFrame DEF ringVars, TableTypes
  <2>2. pc' = pc \/ pc' = [pc EXCEPT ![r] = "bump"]
    BY Zenon, <1>4, <2>1, RegistryFrame
  <2>3. pc' \in [Threads -> Labels] /\ SlotsClaimed'
    BY Zenon, <2>1, <2>2 DEF ThreadTypes, SlotsClaimed, Labels
  <2> QED BY Zenon, <2>1, <2>3 DEF ThreadTypes
<1> QED
  BY Zenon, <1>1, <1>2, <1>3, <1>4, StepCases
-----------------------------------------------------------------------------
(* The registry *)

\* A change that is not announced yet stays so until the version is advanced.
LEMMA BumpsStay ==
  ASSUME ThreadTypes, NEW t \in Threads, ThreadStep(t), NEW r \in Registrars, pc[r] = "bump"
  PROVE  pc'[r] = "bump" \/ version' = version + 1
<1>1. pc \in [Threads -> Labels] /\ r \in Threads /\ r # Janitor /\ r # Constructor
  BY Zenon, LoggerAssumption DEF ThreadTypes, Threads
<1>2. ASSUME NEW u, NEW to, pc[u] # "bump", pc' = [pc EXCEPT ![u] = to] PROVE pc'[r] = "bump"
  BY Zenon, <1>1, <1>2
<1>3. CASE StartJanitor
  BY Zenon, <1>1, <1>3 DEF StartJanitor
<1>4. CASE Calls(t)
  BY Zenon, <1>2, <1>4 DEF Calls, Log, ClaimEvent, PublishEvent, BumpVersion, JanitorExit, Goto
<1>5. CASE SweepStep(t)
  BY Zenon, <1>2, <1>5 DEF SweepStep, SweepBegin, SweepGate, ReportTransitions, PostMaintains, Report, PublishReport, Goto
<1>6. CASE Starts(t)
  BY Zenon, <1>2, <1>3, <1>6 DEF Starts, ConstructorStep, StartJanitorFails, ConstructorThrows, SendSentinel, Goto
<1>7. CASE Closes(t)
  BY Zenon, <1>2, <1>7 DEF Closes, CloserStep, CheckRunning, JoinJanitor, PostFlushes, Close, SendSentinel, Goto
<1> QED
  BY Zenon, <1>4, <1>5, <1>6, <1>7 DEF ThreadStep

\* The copies of the registry stay in step with it.
LEMMA RegistryKept ==
  ASSUME TableTypes, ThreadTypes, TableFresh, Next
  PROVE  TableFresh'
<1> USE DEF TableFresh
<1>1. ASSUME NEW t \in Threads, ThreadStep(t) PROVE TableFresh'
  <2>1. UNCHANGED <<sinks, cpc, table, seenVersion>>
    BY Zenon, <1>1, ThreadFrame DEF consumerVars
  <2>2. CASE version' = version + 1
    BY <2>1, <2>2 DEF TableTypes
  <2>3. CASE version' = version /\ version' # version + 1
    BY Zenon, <1>1, <2>1, <2>3, BumpsStay
  <2>4. version \in Nat
    BY Zenon DEF TableTypes
  <2>5. version' = version => version' # version + 1
    BY <2>4
  <2> QED BY Zenon, <1>1, <2>2, <2>3, <2>5, ThreadFrame
<1>2. CASE ConsumerStep
  <2>1. UNCHANGED <<sinks, version, pc>>
    BY Zenon, <1>2 DEF ConsumerStep, registryVars, threadVars
  <2>2. CASE Collect \/ Dispatch
    BY Zenon, <2>1, <2>2 DEF Collect, Dispatch
  <2>3. CASE ReadVersion
    BY Zenon, <2>1, <2>3 DEF ReadVersion, CGoto, Visit
  <2>4. CASE Snapshot
    BY Zenon, <2>1, <2>4 DEF Snapshot
  <2>5. CASE Wait \/ ConsumerExit
    BY Zenon, <2>1, <2>5 DEF Wait, ConsumerExit, CGoto
  <2> QED BY Zenon, <1>2, <2>2, <2>3, <2>4, <2>5, ConsumerCases
<1>3. ASSUME NEW s \in Sinks, StrandStep(s) \/ DeadlinePasses(s) PROVE TableFresh'
  BY Zenon, <1>3, StrandFrame DEF registryVars, consumerVars
<1>4. ASSUME NEW r \in Registrars, RegistryStep(r) PROVE TableFresh'
  <2>1. UNCHANGED <<cpc, table, seenVersion, version>> /\ sinks \subseteq Sinks
    BY Zenon, <1>4, RegistryFrame DEF consumerVars, TableTypes
  <2>2. CASE pc' = [pc EXCEPT ![r] = "bump"]
    <3>1. pc'[r] = "bump"
      BY Zenon, <2>2 DEF ThreadTypes, Threads
    <3> QED BY Zenon, <3>1
  <2>3. CASE UNCHANGED <<sinks, pc>>
    BY Zenon, <2>1, <2>3
  <2> QED BY Zenon, <1>4, <2>1, <2>2, <2>3, RegistryFrame
<1> QED
  BY Zenon, <1>1, <1>2, <1>3, <1>4, StepCases

\* The gate moves with the registry.
LEMMA GateKept ==
  ASSUME TableTypes, GateMatches, Next
  PROVE  GateMatches'
<1> USE DEF GateMatches, Aggregate, registryVars, sinkVars, history
<1>1. ASSUME NEW t \in Threads, ThreadStep(t), UNCHANGED history PROVE GateMatches'
  BY Zenon, <1>1, ThreadFrame
<1>2. CASE ConsumerStep /\ UNCHANGED history
  BY Zenon, <1>2, ConsumerCases DEF ConsumerStep, Dispatch
<1>3. ASSUME NEW s \in Sinks, StrandStep(s) \/ DeadlinePasses(s), UNCHANGED history PROVE GateMatches'
  BY Zenon, <1>3, StrandFrame
<1>4. ASSUME NEW r \in Registrars, RegistryStep(r) PROVE GateMatches'
  <2>1. CASE UNCHANGED <<threshold, reconfigured>> /\ gate' = Aggregate(sinks')
    BY Zenon, <2>1
  <2>2. CASE \E s : reconfigured' = reconfigured \union {s}
    BY Zenon, <2>2
  <2> QED BY Zenon, <1>4, <2>1, <2>2, RegistryFrame DEF TableTypes
<1> QED
  BY Zenon, <1>1, <1>2, <1>3, <1>4, StepCases

\* A sink that is registered from the start and never removed is in every table.
LEMMA SettledKept ==
  ASSUME TableTypes, SettledPresent, Next
  PROVE  SettledPresent'
<1> USE DEF SettledPresent, history
<1>1. ASSUME NEW t \in Threads, ThreadStep(t), UNCHANGED history PROVE SettledPresent'
  BY Zenon, <1>1, ThreadFrame DEF consumerVars
<1>2. CASE ConsumerStep /\ UNCHANGED history
  <2>1. sinks' = sinks
    BY Zenon, <1>2 DEF ConsumerStep, registryVars
  <2>2. CASE Collect \/ Dispatch \/ ReadVersion \/ Wait \/ ConsumerExit
    BY Zenon, <1>2, <2>1, <2>2 DEF Collect, Dispatch, ReadVersion, Wait, ConsumerExit, CGoto
  <2>3. CASE Snapshot
    BY Zenon, <1>2, <2>1, <2>3 DEF Snapshot
  <2> QED BY Zenon, <1>2, <2>2, <2>3, ConsumerCases
<1>3. ASSUME NEW s \in Sinks, StrandStep(s) \/ DeadlinePasses(s), UNCHANGED history PROVE SettledPresent'
  BY Zenon, <1>3, StrandFrame DEF consumerVars, registryVars
<1>4. ASSUME NEW r \in Registrars, RegistryStep(r) PROVE SettledPresent'
  BY Zenon, <1>4, RegistryFrame DEF consumerVars, TableTypes
<1> QED
  BY Zenon, <1>1, <1>2, <1>3, <1>4, StepCases
-----------------------------------------------------------------------------
(* Strands *)

\* The batches of a strand are the same, d places further.
Aligned(s, d) ==
  /\ \A i \in DOMAIN strand'[s] : strand'[s][i].op = "batch" =>
       i + d \in DOMAIN strand[s] /\ strand'[s][i] = strand[s][i + d]
  /\ \A i \in DOMAIN strand[s] : IsBatch(s, i) =>
       i - d \in DOMAIN strand'[s] /\ strand'[s][i - d] = strand[s][i]

Shifts(s) == Turns(s) \/ (Popped(s) /\ Task(s).op # "batch")

LEMMA ShiftsAlign ==
  ASSUME SinkTypes, NEW s \in Sinks, Shifts(s)
  PROVE  \E d \in {0, 1} : Aligned(s, d)
<1>1. strand[s] \in Seq(Tasks)
  BY Zenon DEF SinkTypes
<1>2. CASE strand'[s] = strand[s]
  <2>1. Aligned(s, 0)
    BY <1>1, <1>2 DEF Aligned
  <2> QED BY Zenon, <2>1
<1>3. ASSUME NEW task \in Tasks, Posted(s, task), task.op # "batch" PROVE Aligned(s, 0)
  BY <1>1, <1>3 DEF Aligned, Posted, IsBatch
<1>4. CASE Popped(s) /\ Task(s).op # "batch"
  <2>1. /\ strand[s] # <<>> /\ Len(strand[s]) \in Nat \ {0} /\ strand[s][1].op # "batch"
        /\ strand'[s] \in Seq(Tasks) /\ Len(strand'[s]) = Len(strand[s]) - 1
        /\ \A i \in 1 .. Len(strand[s]) - 1 : strand'[s][i] = strand[s][i + 1]
    BY Zenon, <1>4, TaskFacts DEF Popped
  <2>2. DOMAIN strand[s] = 1 .. Len(strand[s]) /\ DOMAIN strand'[s] = 1 .. Len(strand[s]) - 1
    BY <1>1, <2>1
  <2>3. \A i \in DOMAIN strand'[s] : i + 1 \in DOMAIN strand[s] /\ strand'[s][i] = strand[s][i + 1]
    BY <2>1, <2>2
  <2>4. ASSUME NEW i \in DOMAIN strand[s], IsBatch(s, i)
        PROVE  i - 1 \in DOMAIN strand'[s] /\ strand'[s][i - 1] = strand[s][i]
    <3>1. i # 1
      BY Zenon, <2>1, <2>4 DEF IsBatch
    <3>2. i - 1 \in 1 .. Len(strand[s]) - 1 /\ (i - 1) + 1 = i
      BY <2>1, <2>2, <3>1
    <3> QED BY Zenon, <2>1, <2>2, <3>2
  <2>5. Aligned(s, 1)
    BY Zenon, <2>3, <2>4 DEF Aligned
  <2> QED BY Zenon, <2>5
<1>5. /\ [op |-> "maintain"] \in Tasks /\ [op |-> "maintain"].op # "batch"
      /\ \A c \in Closers : [op |-> "flush", by |-> c] \in Tasks /\ [op |-> "flush", by |-> c].op # "batch"
  BY Zenon DEF Tasks, Threads
<1> QED
  BY Zenon, <1>2, <1>3, <1>4, <1>5 DEF Shifts, Turns

\* A step that moves no batch keeps the order of a sink.
LEMMA OrderFrame ==
  ASSUME RingTypes, SinkTypes, SinkTypes', NEW s \in Sinks, InOrder(s), Shifts(s),
         written'[s] = written[s], consumed' = consumed,
         Awaits(s)' => Awaits(s) /\ batch' = batch
  PROVE  InOrder(s)'
<1>1. PICK d \in {0, 1} : Aligned(s, d)
  BY Zenon, ShiftsAlign
<1>2. /\ strand[s] \in Seq(Tasks) /\ strand'[s] \in Seq(Tasks)
  BY Zenon DEF SinkTypes
<1>3. ASSUME NEW k, Before(s, k)
      PROVE  /\ \A i \in DOMAIN written'[s] : \A m \in written'[s][i] : m < k
             /\ \A i \in DOMAIN strand'[s] : IsBatch(s, i)' => strand'[s][i].to < k
  BY Zenon, <1>1, <1>3 DEF Before, Aligned, IsBatch
<1>4. Before(s, consumed + 1)' /\ (Awaits(s)' => Before(s, batch.from)')
  BY Zenon, <1>3 DEF InOrder, Before
<1>5. ASSUME NEW i \in DOMAIN strand'[s], IsBatch(s, i)'
      PROVE  /\ strand'[s][i].from \in 1 .. strand'[s][i].to
             /\ \A j \in DOMAIN written'[s] : \A m \in written'[s][j] : m < strand'[s][i].from
             /\ \A j \in i + 1 .. Len(strand'[s]) : IsBatch(s, j)' => strand'[s][i].to < strand'[s][j].from
  <2>1. i + d \in DOMAIN strand[s] /\ strand'[s][i] = strand[s][i + d] /\ IsBatch(s, i + d)
    BY Zenon, <1>1, <1>5 DEF Aligned, IsBatch
  <2>2. ASSUME NEW j \in i + 1 .. Len(strand'[s]), IsBatch(s, j)'
        PROVE  strand'[s][i].to < strand'[s][j].from
    <3>1. j \in DOMAIN strand'[s]
      BY <1>2
    <3>2. j + d \in DOMAIN strand[s] /\ strand'[s][j] = strand[s][j + d] /\ IsBatch(s, j + d)
      BY Zenon, <1>1, <2>2, <3>1 DEF Aligned, IsBatch
    <3>3. j + d \in (i + d) + 1 .. Len(strand[s])
      BY <1>2, <2>1, <3>1, <3>2
    <3> QED BY Zenon, <2>1, <3>2, <3>3 DEF InOrder
  <2> QED BY Zenon, <2>1, <2>2 DEF InOrder
<1> QED
  BY Zenon, <1>4, <1>5 DEF InOrder
-----------------------------------------------------------------------------
(* Steps that move no event *)

\* No event is collected, dispatched, written or lost, and the consumer hands its batch
\* to the same sinks, or to none that it should have skipped.
Quiet ==
  /\ UNCHANGED <<consumed, written, undelivered>>
  /\ \A n \in 1 .. consumed : ring'[n] = ring[n]
  /\ \A s \in Sinks : Shifts(s)
  /\ \A s \in Sinks : Awaits(s)' => Awaits(s)
  /\ \A s \in Registered \ churned : Awaits(s) => Awaits(s)'
  /\ cpc' \in Handing => cpc \in Handing /\ batch' = batch
  /\ cpc' = "exited" \/ cpc # "exited"
  /\ \A s \in Settled' : s \in Settled /\ threshold'[s] = threshold[s]

Types == RingTypes /\ TableTypes /\ SinkTypes /\ ThreadTypes

LEMMA QuietThread ==
  ASSUME Types, NEW t \in Threads, ThreadStep(t), UNCHANGED history
  PROVE  Quiet
<1> USE DEF Types
<1>1. UNCHANGED <<threshold, written, undelivered, cpc, batch, todo, consumed>>
  BY Zenon, ThreadFrame, RingMoves DEF sinkVars, consumerVars
<1>2. ASSUME NEW n \in 1 .. consumed PROVE ring'[n] = ring[n]
  <2>1. n \in 1 .. Len(ring) /\ ring \in Seq(Levels \union {Shutdown})
    BY Zenon DEF RingTypes
  <2>2. ASSUME NEW x, Claim(t, x) PROVE ring'[n] = ring[n]
    BY <2>1, <2>2 DEF Claim
  <2> QED BY Zenon, <2>2, RingMoves DEF Publish
<1>3. \A s \in Sinks : Shifts(s)
  BY Zenon, ThreadPosts DEF Shifts
<1> QED
  BY Zenon, <1>1, <1>2, <1>3 DEF Quiet, Awaits, Settled, history

LEMMA QuietRegistry ==
  ASSUME Types, NEW r \in Registrars, RegistryStep(r)
  PROVE  Quiet
<1> USE DEF Types
<1>1. sinks \subseteq Sinks
  BY Zenon DEF TableTypes
<1>2. UNCHANGED <<written, undelivered, cpc, batch, todo, consumed, ring, strand>>
  BY Zenon, <1>1, RegistryFrame DEF consumerVars, ringVars
<1>3. ASSUME NEW s \in Settled' PROVE s \in Settled /\ threshold'[s] = threshold[s]
  <2>1. s \in Registered \ (churned' \union reconfigured') /\ s \in Sinks
    BY Zenon, <1>3, LoggerAssumption DEF Settled
  <2>2. CASE UNCHANGED <<threshold, reconfigured>> /\ \E u \in Sinks : churned' = churned \union {u}
    BY Zenon, <2>1, <2>2 DEF Settled
  <2>3. CASE /\ UNCHANGED churned
             /\ \E u \in Sinks, level \in Levels : /\ threshold' = [threshold EXCEPT ![u] = level]
                                                   /\ reconfigured' = reconfigured \union {u}
    BY Zenon, <2>1, <2>3 DEF Settled, SinkTypes
  <2> QED BY Zenon, <1>1, <2>2, <2>3, RegistryFrame
<1> QED
  BY Zenon, <1>2, <1>3 DEF Quiet, Awaits, Shifts, Turns

LEMMA QuietStrand ==
  ASSUME Types, NEW s \in Sinks, Maintain(s) \/ FlushSink(s) \/ DeadlinePasses(s),
         StrandStep(s) \/ DeadlinePasses(s), UNCHANGED history
  PROVE  Quiet
<1>1. UNCHANGED <<threshold, cpc, batch, todo, consumed, ring>>
  BY Zenon, StrandFrame DEF ringVars, consumerVars
<1>2. UNCHANGED <<written, undelivered>>
  BY Zenon DEF Maintain, FlushSink, DeadlinePasses, sinkVars
<1>3. ASSUME NEW u \in Sinks PROVE Shifts(u)
  <2>1. CASE strand' = strand
    BY Zenon, <2>1 DEF Shifts, Turns
  <2>2. CASE /\ strand[s] # <<>> /\ strand' = [strand EXCEPT ![s] = Tail(@)]
             /\ Task(s).op \in {"maintain", "flush"}
    <3>1. strand'[u] = IF u = s THEN Tail(strand[s]) ELSE strand[u]
      BY Zenon, <2>2 DEF Types, SinkTypes
    <3> QED BY Zenon, <2>2, <3>1 DEF Shifts, Turns, Popped
  <2> QED BY Zenon, <2>1, <2>2 DEF Maintain, FlushSink, DeadlinePasses, Pop
<1> QED
  BY Zenon, <1>1, <1>2, <1>3 DEF Quiet, Awaits, Settled, history

LEMMA QuietConsumer ==
  ASSUME Types, SettledPresent, ReadVersion \/ Snapshot \/ Wait \/ ConsumerExit,
         UNCHANGED <<ringVars, sinkVars, strand, history>>
  PROVE  Quiet
<1>1. UNCHANGED <<threshold, written, undelivered, consumed, ring, strand>>
  BY Zenon DEF ringVars, sinkVars
<1> DEFINE Hands ==
      /\ \A s \in Sinks : Awaits(s)' => Awaits(s)
      /\ \A s \in Registered \ churned : Awaits(s) => Awaits(s)'
      /\ cpc' \in Handing => cpc \in Handing /\ batch' = batch
      /\ cpc' = "exited" \/ cpc # "exited"
<1>2. ReadVersion => Hands
  BY Zenon DEF ReadVersion, CGoto, Visit, Awaits, Handing, SettledPresent
<1>3. Snapshot => Hands
  BY Zenon DEF Snapshot, CGoto, Visit, Awaits, Handing, SettledPresent
<1>4. Wait \/ ConsumerExit => Hands
  BY Zenon DEF Wait, ConsumerExit, CGoto, Awaits, Handing
<1> QED
  BY Zenon, <1>1, <1>2, <1>3, <1>4 DEF Quiet, Shifts, Turns, Settled, history

\* Every other step collects, dispatches or processes a batch.
LEMMA Moves ==
  ASSUME Types, SettledPresent, Next
  PROVE  \/ Quiet
         \/ Collect /\ UNCHANGED <<sinkVars, strand, history>>
         \/ Dispatch /\ UNCHANGED <<ringVars, history>>
         \/ \E s \in Sinks : ProcessBatch(s) /\ StrandStep(s) /\ UNCHANGED history
<1>1. ConsumerStep /\ UNCHANGED history =>
        \/ Quiet
        \/ Collect /\ UNCHANGED <<sinkVars, strand, history>>
        \/ Dispatch /\ UNCHANGED <<ringVars, history>>
  BY Zenon, ConsumerCases, QuietConsumer
<1>2. ASSUME NEW s \in Sinks, StrandStep(s) \/ DeadlinePasses(s), UNCHANGED history
      PROVE  Quiet \/ (ProcessBatch(s) /\ StrandStep(s))
  BY Zenon, <1>2, QuietStrand DEF StrandStep
<1> QED
  BY Zenon, <1>1, <1>2, QuietThread, QuietRegistry, StepCases
-----------------------------------------------------------------------------
(* Order *)

\* Collecting opens a batch above everything the sinks have seen.
LEMMA CollectOrder ==
  ASSUME Types, Ordered, Collect, UNCHANGED <<sinkVars, strand>>
  PROVE  Ordered'
<1>1. /\ UNCHANGED <<written, strand>> /\ consumed \in Nat /\ consumed' \in Nat /\ consumed < consumed'
      /\ \/ /\ cpc' = "recheck" /\ batch'.from = consumed + 1
            /\ batch'.to \in consumed + 1 .. consumed'
         \/ cpc' = "loop"
  BY Zenon, CollectFacts DEF Types, RingTypes, sinkVars
<1>2. BatchHeld'
  BY <1>1 DEF BatchHeld, Handing
<1>3. WrittenInOrder'
  BY Zenon, <1>1 DEF Ordered, WrittenInOrder
<1>4. ASSUME NEW s \in Sinks PROVE InOrder(s)'
  <2>1. InOrder(s) /\ Before(s, consumed + 1)
    BY Zenon DEF Ordered, InOrder
  <2>2. /\ \A i \in DOMAIN written[s] : \A m \in written[s][i] : m < consumed' + 1
        /\ \A i \in DOMAIN strand[s] : IsBatch(s, i) => strand[s][i].to < consumed' + 1
    <3>1. ASSUME NEW i \in DOMAIN written[s], NEW m \in written[s][i] PROVE m < consumed' + 1
      <4>1. m < consumed + 1 /\ m \in Nat
        BY <2>1 DEF Before, Types, SinkTypes
      <4>2. \A a, b, c \in Nat : a < b + 1 /\ b < c => a < c + 1
        OBVIOUS
      <4> QED BY Zenon, <1>1, <4>1, <4>2
    <3>2. ASSUME NEW i \in DOMAIN strand[s], IsBatch(s, i) PROVE strand[s][i].to < consumed' + 1
      <4>1. strand[s][i].to < consumed + 1 /\ strand[s][i] \in Tasks
        BY <2>1, <3>2 DEF Before, Types, SinkTypes
      <4>2. strand[s][i].to \in Nat
        BY Zenon, <3>2, <4>1 DEF IsBatch, Tasks, Batches
      <4> QED BY <1>1, <4>1, <4>2
    <3> QED BY Zenon, <3>1, <3>2
  <2>3. Before(s, consumed + 1)'
    BY Zenon, <1>1, <2>2 DEF Before, IsBatch
  <2>4. Awaits(s)' => Before(s, batch.from)'
    BY Zenon, <1>1, <2>1 DEF Before, Awaits, IsBatch
  <2> QED BY Zenon, <1>1, <2>1, <2>3, <2>4 DEF InOrder, IsBatch
<1> QED
  BY Zenon, <1>2, <1>3, <1>4 DEF Ordered

\* Dispatching appends the batch to a strand that awaits it.
LEMMA DispatchOrder ==
  ASSUME Types, Ordered, Dispatch, UNCHANGED ringVars, SinkTypes'
  PROVE  Ordered'
<1>1. UNCHANGED <<written, consumed>> /\ cpc = "dispatch" /\ BatchHeld
  BY Zenon DEF Dispatch, ringVars, Ordered
<1>2. PICK u \in todo : Visit(todo \ {u}) /\ (Post(u, batch) \/ UNCHANGED strand)
  BY Zenon DEF Dispatch
<1>3. /\ u \in Sinks /\ strand \in [Sinks -> Seq(Tasks)] /\ batch \in Batches /\ batch \in Tasks
      /\ batch.from \in 1 .. batch.to /\ batch.to <= consumed /\ consumed \in Nat
  BY Zenon, <1>1 DEF Types, TableTypes, SinkTypes, RingTypes, BatchHeld, Handing, Tasks
<1>4. \A s \in Sinks : Awaits(s)' => Awaits(s) /\ s # u /\ batch' = batch
  BY Zenon, <1>1, <1>2 DEF Visit, Awaits
<1>5. BatchHeld'
  BY Zenon, <1>1, <1>2 DEF BatchHeld, Visit, Handing
<1>6. WrittenInOrder'
  BY Zenon, <1>1 DEF Ordered, WrittenInOrder
<1>7. ASSUME NEW s \in Sinks, strand'[s] = strand[s] PROVE InOrder(s)'
  BY Zenon, <1>1, <1>4, <1>7, OrderFrame DEF Types, Ordered, Shifts, Turns
<1>8. CASE Post(u, batch)
  <2>1. strand'[u] = Append(strand[u], batch) /\ \A s \in Sinks \ {u} : strand'[s] = strand[s]
    BY Zenon, <1>3, <1>8 DEF Post
  <2>2. PICK q \in Seq(Tasks) : q = strand[u]
    BY Zenon, <1>3
  <2>3. /\ Len(q) \in Nat /\ DOMAIN q = 1 .. Len(q)
        /\ Len(strand'[u]) = Len(q) + 1 /\ DOMAIN strand'[u] = 1 .. Len(q) + 1
        /\ strand'[u][Len(q) + 1] = batch /\ \A i \in 1 .. Len(q) : strand'[u][i] = q[i]
    BY <1>3, <2>1, <2>2
  <2>4. InOrder(u) /\ Before(u, batch.from) /\ Before(u, consumed + 1)
    BY Zenon, <1>1, <1>2, <1>3 DEF Ordered, InOrder, Awaits
  <2>5. Before(u, consumed + 1)'
    <3>1. \A i \in DOMAIN strand'[u] : strand'[u][i].op = "batch" => strand'[u][i].to < consumed + 1
      BY <1>3, <2>2, <2>3, <2>4 DEF Before, IsBatch, Batches
    <3> QED BY Zenon, <1>1, <2>4, <3>1 DEF Before, IsBatch
  <2>6. ~Awaits(u)'
    BY Zenon, <1>3, <1>4
  <2>7. ASSUME NEW i \in DOMAIN strand'[u], strand'[u][i].op = "batch"
        PROVE  /\ strand'[u][i].from \in 1 .. strand'[u][i].to
               /\ \A j \in DOMAIN written[u] : \A m \in written[u][j] : m < strand'[u][i].from
               /\ \A j \in i + 1 .. Len(strand'[u]) : strand'[u][j].op = "batch" =>
                    strand'[u][i].to < strand'[u][j].from
    <3>1. CASE i = Len(q) + 1
      <4>1. strand'[u][i] = batch
        BY Zenon, <2>3, <3>1
      <4>2. \A j \in i + 1 .. Len(strand'[u]) : FALSE
        BY <2>3, <3>1
      <4> QED BY Zenon, <1>3, <2>4, <4>1, <4>2 DEF Before
    <3>2. CASE i \in 1 .. Len(q)
      <4>1. strand'[u][i] = strand[u][i] /\ IsBatch(u, i) /\ i \in DOMAIN strand[u]
        BY Zenon, <2>2, <2>3, <2>7, <3>2 DEF IsBatch
      <4>2. ASSUME NEW j \in i + 1 .. Len(strand'[u]), strand'[u][j].op = "batch"
            PROVE  strand'[u][i].to < strand'[u][j].from
        <5>1. j = Len(q) + 1 \/ j \in i + 1 .. Len(q)
          BY <2>3, <3>2
        <5>2. CASE j = Len(q) + 1
          BY Zenon, <2>3, <2>4, <4>1, <5>2 DEF Before
        <5>3. CASE j \in i + 1 .. Len(q)
          <6>1. j \in 1 .. Len(q)
            BY <2>3, <3>2, <5>3
          <6> QED BY Zenon, <2>2, <2>3, <2>4, <4>1, <4>2, <5>3, <6>1 DEF InOrder, IsBatch
        <5> QED BY Zenon, <5>1, <5>2, <5>3
      <4> QED BY Zenon, <2>4, <4>1, <4>2 DEF InOrder
    <3> QED BY <2>3, <3>1, <3>2
  <2>8. InOrder(u)'
    BY Zenon, <1>1, <2>5, <2>6, <2>7 DEF InOrder, IsBatch
  <2> QED BY Zenon, <1>5, <1>6, <1>7, <2>1, <2>8 DEF Ordered
<1>9. CASE UNCHANGED strand
  BY Zenon, <1>5, <1>6, <1>7, <1>9 DEF Ordered
<1> QED
  BY Zenon, <1>2, <1>8, <1>9
\* Processing the head of a strand appends events that lie between those written and
\* those queued.
LEMMA ProcessOrder ==
  ASSUME Types, Ordered, SinkTypes', NEW s \in Sinks, ProcessBatch(s), StrandStep(s)
  PROVE  Ordered'
<1>1. /\ strand[s] # <<>> /\ strand' = [strand EXCEPT ![s] = Tail(@)]
      /\ Task(s) \in Batches /\ Task(s).from \in 1 .. Task(s).to /\ IsBatch(s, 1)
      /\ Dropped(s) \/ \E n \in Task(s).from .. Task(s).to + 1 : WrittenUpTo(s, n)
  BY Zenon, ProcessFacts DEF Types, Ordered
<1>2. UNCHANGED <<consumed, cpc, todo, batch>>
  BY Zenon, StrandFrame DEF ringVars, consumerVars
<1>3. /\ written \in [Sinks -> Seq(SUBSET Nat)] /\ strand \in [Sinks -> Seq(Tasks)]
      /\ strand'[s] = Tail(strand[s]) /\ \A u \in Sinks \ {s} : strand'[u] = strand[u]
  BY Zenon, <1>1 DEF Types, SinkTypes
<1>4. PICK q \in Seq(Tasks) : q = strand[s]
  BY Zenon, <1>3
<1>5. PICK from, to \in Nat : from = Task(s).from /\ to = Task(s).to
  BY Zenon, <1>1 DEF Batches
<1>6. /\ Len(q) \in Nat \ {0} /\ Task(s) = q[1] /\ from \in 1 .. to /\ IsBatch(s, 1)
      /\ DOMAIN q = 1 .. Len(q) /\ Len(strand'[s]) = Len(q) - 1 /\ DOMAIN strand'[s] = 1 .. Len(q) - 1
      /\ \A i \in 1 .. Len(q) - 1 : strand'[s][i] = q[i + 1]
  <2>1. /\ Len(strand[s]) \in Nat \ {0} /\ Task(s) = strand[s][1] /\ strand'[s] \in Seq(Tasks)
        /\ Len(strand'[s]) = Len(strand[s]) - 1
        /\ \A i \in 1 .. Len(strand[s]) - 1 : strand'[s][i] = strand[s][i + 1]
    BY Zenon, <1>1, <1>3, TaskFacts DEF Types
  <2>2. DOMAIN q = 1 .. Len(q) /\ DOMAIN strand'[s] = 1 .. Len(strand'[s])
    BY <2>1
  <2> QED BY Zenon, <1>1, <1>4, <1>5, <2>1, <2>2
<1>7. InOrder(s) /\ 1 \in DOMAIN strand[s] /\ WrittenInOrder /\ BatchHeld
  BY <1>4, <1>6 DEF Ordered
\* What is written now is new, old or an event of the batch.
<1>8. PICK w \in SUBSET (from .. to) :
        /\ written' = written \/ written' = [written EXCEPT ![s] = Append(@, w)]
  <2>1. ASSUME NEW n \in from .. to + 1 PROVE Passes(s, from, n - 1) \in SUBSET (from .. to)
    BY DEF Passes
  <2>2. Dropped(s) \/ \E n \in from .. to + 1 : WrittenUpTo(s, n)
    BY Zenon, <1>1, <1>5
  <2> QED BY Zenon, <1>5, <2>1, <2>2 DEF Dropped, WrittenUpTo
<1>9. ASSUME NEW i \in DOMAIN written'[s], NEW m \in written'[s][i]
      PROVE  m \in w \/ (i \in DOMAIN written[s] /\ m \in written[s][i])
  <2>1. CASE written' = [written EXCEPT ![s] = Append(@, w)]
    <3>1. PICK v \in Seq(SUBSET Nat) : v = written[s]
      BY Zenon, <1>3
    <3>2. written'[s] = Append(v, w)
      BY Zenon, <1>3, <2>1, <3>1
    <3> QED BY <1>9, <3>1, <3>2
  <2> QED BY Zenon, <1>8, <1>9, <2>1
<1>10. \A u \in Sinks \ {s} : written'[u] = written[u]
  BY Zenon, <1>3, <1>8
<1>11. \A m \in w : m \in Nat /\ from <= m /\ m <= to
  OBVIOUS
<1>12. ASSUME NEW k \in Nat, Before(s, k)
       PROVE  /\ \A i \in DOMAIN written'[s] : \A m \in written'[s][i] : m < k
              /\ \A i \in DOMAIN strand'[s] : IsBatch(s, i)' => strand'[s][i].to < k
  <2>1. to < k
    BY Zenon, <1>4, <1>5, <1>6, <1>7, <1>12 DEF Before
  <2>2. \A m \in w : m < k
    BY <1>11, <2>1
  <2>3. \A i \in DOMAIN strand'[s] : i + 1 \in DOMAIN strand[s] /\ strand'[s][i] = strand[s][i + 1]
    BY SMTT(20), <1>4, <1>6
  <2> QED BY Zenon, <1>9, <1>12, <2>2, <2>3 DEF Before, IsBatch
<1>13. ASSUME NEW i \in DOMAIN strand'[s], IsBatch(s, i)'
       PROVE  /\ strand'[s][i].from \in 1 .. strand'[s][i].to
              /\ \A j \in DOMAIN written'[s] : \A m \in written'[s][j] : m < strand'[s][i].from
              /\ \A j \in i + 1 .. Len(strand'[s]) : IsBatch(s, j)' => strand'[s][i].to < strand'[s][j].from
  <2>1. /\ i + 1 \in 2 .. Len(q) /\ i + 1 \in DOMAIN strand[s] /\ strand'[s][i] = strand[s][i + 1]
        /\ i + 1 \in 1 + 1 .. Len(strand[s])
    BY <1>4, <1>6
  <2>2. IsBatch(s, i + 1) /\ strand[s][i + 1] \in Batches
    BY SMTT(20), <1>3, <1>13, <2>1 DEF IsBatch, Tasks
  <2>3. to < strand[s][i + 1].from
    BY Zenon, <1>4, <1>5, <1>6, <1>7, <2>1, <2>2 DEF InOrder
  <2>4. \A m \in w : m < strand[s][i + 1].from
    BY <1>11, <2>2, <2>3 DEF Batches
  <2>5. ASSUME NEW j \in i + 1 .. Len(strand'[s]), IsBatch(s, j)'
        PROVE  strand'[s][i].to < strand'[s][j].from
    <3>1. j + 1 \in (i + 1) + 1 .. Len(strand[s]) /\ strand'[s][j] = strand[s][j + 1]
      BY <1>4, <1>6
    <3> QED BY Zenon, <1>7, <2>1, <2>2, <2>5, <3>1 DEF InOrder, IsBatch
  <2> QED BY Zenon, <1>7, <1>9, <2>1, <2>2, <2>4, <2>5 DEF InOrder
<1>14. InOrder(s)'
  <2>1. Awaits(s)' => Awaits(s) /\ batch'.from = batch.from /\ batch.from \in Nat
    BY Zenon, <1>2 DEF Awaits, Types, TableTypes, Batches
  <2>2. consumed + 1 \in Nat /\ consumed' + 1 = consumed + 1
    BY <1>2 DEF Types, RingTypes
  <2> QED BY Zenon, <1>7, <1>12, <1>13, <2>1, <2>2 DEF InOrder, Before
<1>15. ASSUME NEW u \in Sinks \ {s} PROVE InOrder(u)'
  BY Zenon, <1>2, <1>3, <1>10, OrderFrame DEF Types, Ordered, Shifts, Turns, Awaits
<1>16. WrittenInOrder'
  <2>1. CASE written' = written
    BY Zenon, <1>7, <2>1 DEF WrittenInOrder
  <2>2. CASE written' = [written EXCEPT ![s] = Append(@, w)]
    <3>1. PICK v \in Seq(SUBSET Nat) : v = written[s]
      BY Zenon, <1>3
    <3>2. /\ Len(v) \in Nat /\ DOMAIN v = 1 .. Len(v) /\ DOMAIN written'[s] = 1 .. Len(v) + 1
          /\ written'[s][Len(v) + 1] = w /\ \A i \in 1 .. Len(v) : written'[s][i] = v[i]
      BY <1>3, <2>2, <3>1
    <3>3. \A i \in DOMAIN v : \A m \in v[i] : m < from /\ m \in Nat
      BY <1>4, <1>5, <1>6, <1>7, <3>1 DEF InOrder
    <3>4. ASSUME NEW i \in DOMAIN written'[s], NEW j \in DOMAIN written'[s], i < j,
                 NEW m \in written'[s][i], NEW n \in written'[s][j]
          PROVE  m < n
      <4>1. i \in DOMAIN v /\ m \in v[i]
        BY <3>2, <3>4
      <4>2. CASE j = Len(v) + 1
        <5>1. n \in w
          BY Zenon, <3>2, <4>2
        <5>2. m \in Nat /\ n \in Nat /\ m < from /\ from <= n
          BY Zenon, <1>11, <3>3, <4>1, <5>1
        <5>3. \A a, b, c \in Nat : a < b /\ b <= c => a < c
          OBVIOUS
        <5> QED BY Zenon, <5>2, <5>3
      <4>3. CASE j \in DOMAIN v
        BY Zenon, <1>7, <3>1, <3>2, <3>4, <4>1, <4>3 DEF WrittenInOrder
      <4> QED BY <3>2, <4>2, <4>3
    <3> QED BY Zenon, <1>7, <1>10, <3>4 DEF WrittenInOrder
  <2> QED BY Zenon, <1>8, <2>1, <2>2
<1>17. BatchHeld'
  BY Zenon, <1>2, <1>7 DEF BatchHeld
<1> QED
  BY Zenon, <1>14, <1>15, <1>16, <1>17 DEF Ordered

LEMMA OrderStep ==
  ASSUME Types, SettledPresent, Ordered, SinkTypes', Next
  PROVE  Ordered'
<1>1. CASE Quiet
  <2>1. UNCHANGED <<consumed, written>> /\ \A s \in Sinks : Awaits(s)' => Awaits(s) /\ batch' = batch
    BY Zenon, <1>1 DEF Quiet, Awaits, Handing
  <2>2. \A s \in Sinks : InOrder(s)'
    BY Zenon, <1>1, <2>1, OrderFrame DEF Types, Ordered, Quiet
  <2> QED BY Zenon, <1>1, <2>1, <2>2 DEF Ordered, Quiet, BatchHeld, WrittenInOrder
<1> QED
  BY Zenon, <1>1, Moves, CollectOrder, DispatchOrder, ProcessOrder
-----------------------------------------------------------------------------
(* Shutdown *)

\* How a strand can move while it takes no batch.
LEMMA StrandMoves ==
  ASSUME SinkTypes, NEW s \in Sinks, Turns(s) \/ Popped(s)
  PROVE  \/ /\ Len(strand'[s]) = Len(strand[s]) - 1 /\ Len(strand[s]) \in Nat \ {0}
            /\ DOMAIN strand'[s] = 1 .. Len(strand[s]) - 1
            /\ \A i \in 1 .. Len(strand[s]) - 1 : strand'[s][i] = strand[s][i + 1]
         \/ strand'[s] = strand[s]
         \/ \E task \in Tasks \ Batches :
              /\ task.op = "flush" => cpc = "exited"
              /\ task.op # "batch" /\ strand'[s] = Append(strand[s], task)
              /\ Len(strand'[s]) = Len(strand[s]) + 1 /\ Len(strand[s]) \in Nat
              /\ DOMAIN strand'[s] = 1 .. Len(strand[s]) + 1
              /\ strand'[s][Len(strand[s]) + 1] = task
              /\ \A i \in 1 .. Len(strand[s]) : strand'[s][i] = strand[s][i]
<1>1. strand[s] \in Seq(Tasks)
  BY Zenon DEF SinkTypes
<1>2. CASE Popped(s)
  <2>1. /\ strand'[s] \in Seq(Tasks) /\ Len(strand'[s]) = Len(strand[s]) - 1 /\ Len(strand[s]) \in Nat \ {0}
        /\ \A i \in 1 .. Len(strand[s]) - 1 : strand'[s][i] = strand[s][i + 1]
    BY Zenon, <1>2, TaskFacts DEF Popped
  <2> QED BY <2>1
<1>3. ASSUME NEW task \in Tasks, Posted(s, task)
      PROVE  /\ strand'[s] = Append(strand[s], task)
             /\ Len(strand'[s]) = Len(strand[s]) + 1 /\ Len(strand[s]) \in Nat
             /\ DOMAIN strand'[s] = 1 .. Len(strand[s]) + 1
             /\ strand'[s][Len(strand[s]) + 1] = task
             /\ \A i \in 1 .. Len(strand[s]) : strand'[s][i] = strand[s][i]
  BY <1>1, <1>3 DEF Posted
<1>4. /\ [op |-> "maintain"] \in Tasks \ Batches /\ [op |-> "maintain"].op = "maintain"
      /\ \A c \in Closers : [op |-> "flush", by |-> c] \in Tasks \ Batches /\ [op |-> "flush", by |-> c].op = "flush"
  BY Zenon DEF Tasks, Batches, Threads
<1> QED
  BY Zenon, <1>2, <1>3, <1>4 DEF Turns

LEMMA NoBatchesKept ==
  ASSUME SinkTypes, NEW s \in Sinks, Turns(s) \/ Popped(s), NoBatches(s)
  PROVE  NoBatches(s)'
<1>1. DOMAIN strand[s] = 1 .. Len(strand[s])
  BY DEF SinkTypes
<1>2. CASE /\ Len(strand'[s]) = Len(strand[s]) - 1 /\ Len(strand[s]) \in Nat \ {0}
           /\ DOMAIN strand'[s] = 1 .. Len(strand[s]) - 1
           /\ \A i \in 1 .. Len(strand[s]) - 1 : strand'[s][i] = strand[s][i + 1]
  <2>1. \A i \in DOMAIN strand'[s] : i + 1 \in DOMAIN strand[s] /\ strand'[s][i] = strand[s][i + 1]
    BY <1>1, <1>2
  <2> QED BY Zenon, <2>1 DEF NoBatches, IsBatch
<1>3. CASE strand'[s] = strand[s]
  BY Zenon, <1>3 DEF NoBatches, IsBatch
<1>4. ASSUME NEW task, task.op # "batch", task.op = "flush" => cpc = "exited",
             Len(strand'[s]) = Len(strand[s]) + 1 /\ Len(strand[s]) \in Nat,
             DOMAIN strand'[s] = 1 .. Len(strand[s]) + 1,
             strand'[s][Len(strand[s]) + 1] = task,
             \A i \in 1 .. Len(strand[s]) : strand'[s][i] = strand[s][i]
      PROVE  NoBatches(s)'
  BY <1>1, <1>4 DEF NoBatches, IsBatch
<1> QED
  BY Zenon, <1>2, <1>3, <1>4, StrandMoves

LEMMA FlushLastKept ==
  ASSUME SinkTypes, NEW s \in Sinks, Turns(s) \/ Popped(s), FlushLast(s), cpc' = "exited" \/ cpc # "exited"
  PROVE  FlushLast(s)'
<1>1. DOMAIN strand[s] = 1 .. Len(strand[s])
  BY DEF SinkTypes
<1>2. CASE /\ Len(strand'[s]) = Len(strand[s]) - 1 /\ Len(strand[s]) \in Nat \ {0}
           /\ DOMAIN strand'[s] = 1 .. Len(strand[s]) - 1
           /\ \A i \in 1 .. Len(strand[s]) - 1 : strand'[s][i] = strand[s][i + 1]
  <2>1. \A i \in DOMAIN strand'[s] : i + 1 \in DOMAIN strand[s] /\ strand'[s][i] = strand[s][i + 1]
    BY <1>1, <1>2
  <2>2. \A i \in DOMAIN strand'[s] : \A j \in i + 1 .. Len(strand'[s]) :
          j + 1 \in (i + 1) + 1 .. Len(strand[s]) /\ strand'[s][j] = strand[s][j + 1]
    BY <1>2
  <2> QED BY Zenon, <2>1, <2>2 DEF FlushLast, IsBatch
<1>3. CASE strand'[s] = strand[s]
  BY Zenon, <1>3 DEF FlushLast, IsBatch
<1>4. ASSUME NEW task, task.op # "batch", task.op = "flush" => cpc = "exited",
             Len(strand'[s]) = Len(strand[s]) + 1 /\ Len(strand[s]) \in Nat,
             DOMAIN strand'[s] = 1 .. Len(strand[s]) + 1,
             strand'[s][Len(strand[s]) + 1] = task,
             \A i \in 1 .. Len(strand[s]) : strand'[s][i] = strand[s][i]
      PROVE  FlushLast(s)'
  <2>1. ASSUME NEW i \in DOMAIN strand'[s], strand'[s][i].op = "flush"
        PROVE  cpc' = "exited" /\ \A j \in i + 1 .. Len(strand'[s]) : strand'[s][j].op # "batch"
    <3>1. CASE i = Len(strand[s]) + 1
      <4>1. \A j \in i + 1 .. Len(strand'[s]) : FALSE
        BY <1>4, <3>1
      <4> QED BY Zenon, <1>4, <2>1, <3>1, <4>1
    <3>2. CASE i \in 1 .. Len(strand[s])
      <4>1. strand[s][i].op = "flush" /\ i \in DOMAIN strand[s]
        BY Zenon, <1>1, <1>4, <2>1, <3>2
      <4>2. \A j \in i + 1 .. Len(strand'[s]) :
              j = Len(strand[s]) + 1 \/ (j \in i + 1 .. Len(strand[s]) /\ j \in 1 .. Len(strand[s]))
        BY <1>4, <3>2
      <4> QED BY Zenon, <1>4, <4>1, <4>2 DEF FlushLast, IsBatch
    <3> QED BY <1>4, <3>1, <3>2
  <2> QED BY Zenon, <2>1 DEF FlushLast, IsBatch
<1> QED
  BY Zenon, <1>2, <1>3, <1>4, StrandMoves

\* A flush stays queued until it is the head.
LEMMA FlushKept ==
  ASSUME SinkTypes, NEW s \in Sinks, NEW c, FlushedBy(s, c),
         Turns(s) \/ (Popped(s) /\ Task(s) # [op |-> "flush", by |-> c])
  PROVE  FlushedBy(s, c)'
<1>1. DOMAIN strand[s] = 1 .. Len(strand[s])
  BY DEF SinkTypes
<1>2. PICK k \in DOMAIN strand[s] : strand[s][k] = [op |-> "flush", by |-> c]
  BY Zenon DEF FlushedBy
<1>3. CASE Popped(s) /\ Task(s) # [op |-> "flush", by |-> c]
  <2>1. k # 1 /\ Len(strand[s]) \in Nat
    BY Zenon, <1>2, <1>3, TaskFacts DEF Popped
  <2>2. /\ DOMAIN strand'[s] = 1 .. Len(strand[s]) - 1
        /\ \A i \in 1 .. Len(strand[s]) - 1 : strand'[s][i] = strand[s][i + 1]
    <3>1. /\ strand'[s] \in Seq(Tasks) /\ Len(strand'[s]) = Len(strand[s]) - 1
          /\ \A i \in 1 .. Len(strand[s]) - 1 : strand'[s][i] = strand[s][i + 1]
      BY Zenon, <1>3, TaskFacts DEF Popped
    <3> QED BY <3>1
  <2>3. k - 1 \in DOMAIN strand'[s] /\ (k - 1) + 1 = k /\ k - 1 \in 1 .. Len(strand[s]) - 1
    BY <1>1, <1>2, <2>1, <2>2
  <2> QED BY Zenon, <1>2, <2>2, <2>3 DEF FlushedBy
<1>4. CASE Turns(s)
  <2>1. k \in DOMAIN strand'[s] /\ strand'[s][k] = strand[s][k]
    <3>1. strand[s] \in Seq(Tasks)
      BY Zenon DEF SinkTypes
    <3>2. ASSUME NEW task, strand'[s] = Append(strand[s], task)
          PROVE  k \in DOMAIN strand'[s] /\ strand'[s][k] = strand[s][k]
      BY <3>1, <3>2
    <3> QED BY Zenon, <1>4, <3>2 DEF Turns, Posted
  <2> QED BY Zenon, <1>2, <2>1 DEF FlushedBy
<1> QED
  BY Zenon, <1>3, <1>4
\* Flushes stay last: the consumer posts no batch once it is gone.
LEMMA FlushStep ==
  ASSUME Types, SettledPresent, Ordered, FlushesLast, Next
  PROVE  FlushesLast'
<1>1. CASE Quiet
  <2>1. \A s \in Sinks : (Turns(s) \/ Popped(s)) /\ (cpc' = "exited" \/ cpc # "exited")
    BY Zenon, <1>1 DEF Quiet, Shifts
  <2> QED BY Zenon, <2>1, FlushLastKept DEF FlushesLast, Types
<1>2. CASE Collect /\ UNCHANGED <<sinkVars, strand, history>>
  BY Zenon, <1>2 DEF FlushesLast, FlushLast, Collect
<1>3. CASE Dispatch
  <2>1. cpc # "exited" /\ \E u \in todo : Post(u, batch) \/ strand' = strand
    BY Zenon, <1>3 DEF Dispatch
  <2>2. PICK u \in todo : Post(u, batch) \/ strand' = strand
    BY Zenon, <2>1
  <2>3. /\ strand \in [Sinks -> Seq(Tasks)] /\ u \in Sinks /\ batch.op = "batch"
        /\ \A s \in Sinks : \A i \in DOMAIN strand[s] : strand[s][i].op # "flush"
    BY Zenon, <2>1 DEF FlushesLast, FlushLast, Types, SinkTypes, TableTypes, Batches
  <2>4. CASE Post(u, batch)
    <3>1. \A s \in Sinks : \A i \in DOMAIN strand'[s] : strand'[s][i].op # "flush"
      BY <2>3, <2>4 DEF Post
    <3> QED BY Zenon, <3>1 DEF FlushesLast, FlushLast
  <2>5. CASE strand' = strand
    BY Zenon, <2>3, <2>5 DEF FlushesLast, FlushLast
  <2> QED BY Zenon, <2>2, <2>4, <2>5
<1>4. ASSUME NEW s \in Sinks, ProcessBatch(s), StrandStep(s) PROVE FlushesLast'
  <2>1. strand[s] # <<>> /\ strand' = [strand EXCEPT ![s] = Tail(@)] /\ cpc' = cpc
    BY Zenon, <1>4, StrandFrame DEF ProcessBatch, Pop, consumerVars
  <2>2. \A u \in Sinks : Turns(u) \/ Popped(u)
    BY Zenon, <2>1 DEF Types, SinkTypes, Turns, Popped
  <2> QED BY Zenon, <2>1, <2>2, FlushLastKept DEF FlushesLast, Types
<1> QED
  BY Zenon, <1>1, <1>2, <1>3, <1>4, Moves

\* How a closer comes to wait for its flushes, and how it stops waiting.
LEMMA CloserMoves ==
  ASSUME Types, NEW t \in Threads, ThreadStep(t), NEW c \in Closers, pc'[c] \in {"drain", "closed"}
  PROVE  \/ pc'[c] = pc[c] /\ pending'[c] = pending[c]
         \/ t = c /\ PostFlushes(c)
         \/ t = c /\ Close(c)
<1>1. /\ pc \in [Threads -> Labels] /\ pending \in [Threads -> SUBSET Sinks]
      /\ c \in Threads /\ Janitor \in Threads /\ Constructor \in Threads
  BY Zenon DEF Types, ThreadTypes, Threads
<1>2. CASE StartJanitor /\ pending' = pending
  <2>1. pc'[c] = IF c = Janitor THEN pc'[c] ELSE IF c = Constructor THEN "ready" ELSE pc[c]
    BY Zenon, <1>1, <1>2 DEF StartJanitor
  <2>2. pc'[Janitor] \in {"idle", "exited"}
    BY Zenon, <1>1, <1>2 DEF StartJanitor
  <2> QED BY Zenon, <1>2, <2>1, <2>2
<1>3. ASSUME NEW u \in Threads, NEW to \in Labels \ {"drain", "closed"}, pc' = [pc EXCEPT ![u] = to],
             pending' = pending \/ \E v : pending' = [pending EXCEPT ![u] = v]
      PROVE  pc'[c] = pc[c] /\ pending'[c] = pending[c]
  <2>1. u # c
    BY Zenon, <1>1, <1>3
  <2>2. ASSUME NEW v, pending' = [pending EXCEPT ![u] = v] PROVE pending'[c] = pending[c]
    BY Zenon, <1>1, <2>1, <2>2
  <2> QED BY Zenon, <1>1, <1>3, <2>1, <2>2
<1>4. /\ \A left : AfterReports(left) \in Labels \ {"drain", "closed"}
      /\ {"publish", "publish_report", "send", "claim", "lock", "sweep", "post", "threw", "join_consumer",
          "join_janitor", "returned", "idle", "exited"} \subseteq Labels \ {"drain", "closed"}
  BY Zenon DEF AfterReports, Labels
<1> DEFINE Moved(u, to) ==
      pc' = [pc EXCEPT ![u] = to] /\ (pending' = pending \/ \E v : pending' = [pending EXCEPT ![u] = v])
<1>5. Calls(t) => Moved(t, "idle") \/ Moved(t, "claim") \/ Moved(t, "publish") \/ Moved(Janitor, "exited")
  BY Zenon DEF Calls, Log, ClaimEvent, PublishEvent, BumpVersion, JanitorExit, Goto
<1>6. SweepStep(t) => \/ Moved(t, "lock") \/ Moved(t, "sweep") \/ Moved(t, "post")
                      \/ Moved(t, "publish_report") \/ \E left : Moved(t, AfterReports(left))
  BY Zenon DEF SweepStep, SweepBegin, SweepGate, ReportTransitions, PostMaintains, Report, PublishReport, Goto
<1>7. Starts(t) => \/ (StartJanitor /\ pending' = pending) \/ Moved(t, "threw") \/ Moved(t, "join_consumer") \/ Moved(t, "send")
  BY Zenon DEF Starts, ConstructorStep, StartJanitorFails, ConstructorThrows, SendSentinel, Goto
<1>8. CASE Closes(t)
  <2>1. \/ Moved(t, "join_janitor") \/ Moved(t, "returned") \/ Moved(t, "join_consumer")
        \/ Moved(t, "send") \/ PostFlushes(t) \/ Close(t)
    BY Zenon, <1>8 DEF Closes, CloserStep, CheckRunning, JoinJanitor, SendSentinel, Goto
  <2>2. ASSUME t # c, PostFlushes(t) \/ Close(t) PROVE pc'[c] = pc[c] /\ pending'[c] = pending[c]
    BY Zenon, <1>1, <2>2 DEF PostFlushes, Close, Goto
  <2> QED BY Zenon, <1>3, <1>4, <2>1, <2>2
<1> QED
  BY Zenon, <1>1, <1>2, <1>3, <1>4, <1>5, <1>6, <1>7, <1>8 DEF ThreadStep
\* While a closer waits, each batch left in a strand has a flush of the closer behind it.
LEMMA DrainStep ==
  ASSUME Types, SettledPresent, Ordered, FlushesLast, DrainCovers, Next
  PROVE  DrainCovers'
<1>1. /\ SinkTypes /\ strand \in [Sinks -> Seq(Tasks)] /\ pc \in [Threads -> Labels]
      /\ pending \in [Threads -> SUBSET Sinks] /\ Closers \subseteq Threads
  BY Zenon DEF Types, SinkTypes, ThreadTypes, Threads
<1>2. Registered \subseteq Sinks /\ churned \subseteq churned'
  <2>1. UNCHANGED history => churned' = churned
    BY Zenon DEF history
  <2>2. ASSUME NEW r \in Registrars, RegistryStep(r) PROVE churned \subseteq churned'
    BY Zenon, <2>2, RegistryFrame DEF Types, TableTypes
  <2> QED BY Zenon, <2>1, <2>2, StepCases, LoggerAssumption
\* A closer that was waiting, in a step that is not its own.
<1>3. ASSUME NEW c \in Closers, pc[c] \in {"drain", "closed"}, pc'[c] = pc[c],
             cpc' = "exited" \/ cpc # "exited",
             pending'[c] \subseteq pending[c],
             \A s \in Sinks : Turns(s) \/ Popped(s),
             \A s \in Sinks : FlushedBy(s, c) /\ s \in pending[c] =>
               (s \in pending'[c] /\ FlushedBy(s, c)') \/ NoBatches(s)'
      PROVE  /\ cpc' = "exited"
             /\ \A s \in Registered \ churned' : NoBatches(s)' \/ (s \in pending'[c] /\ FlushedBy(s, c)')
             /\ pc'[c] = "closed" => pending'[c] = {}
             /\ pc'[c] = "closed" /\ OwnedPool => \A s \in Sinks : NoBatches(s)'
  <2>1. \A s \in Sinks : NoBatches(s) => NoBatches(s)'
    BY Zenon, <1>1, <1>3, NoBatchesKept
  <2>2. pending[c] = {} => pending'[c] = {}
    BY Zenon, <1>3
  <2> QED BY Zenon, <1>2, <1>3, <2>1, <2>2 DEF DrainCovers
\* Threads.
<1>4. ASSUME NEW t \in Threads, ThreadStep(t), UNCHANGED history, NEW c \in Closers, pc'[c] \in {"drain", "closed"}
      PROVE  /\ cpc' = "exited"
             /\ \A s \in Registered \ churned' : NoBatches(s)' \/ (s \in pending'[c] /\ FlushedBy(s, c)')
             /\ pc'[c] = "closed" => pending'[c] = {}
             /\ pc'[c] = "closed" /\ OwnedPool => \A s \in Sinks : NoBatches(s)'
  <2>1. cpc' = cpc /\ churned' = churned /\ (\A s \in Sinks : Turns(s)) /\ sinks' = sinks
    BY Zenon, <1>1, <1>4, ThreadFrame, ThreadPosts DEF consumerVars, history
  <2>2. CASE pc'[c] = pc[c] /\ pending'[c] = pending[c]
    <3>1. \A s \in Sinks : FlushedBy(s, c) => FlushedBy(s, c)'
      BY Zenon, <1>1, <2>1, FlushKept
    <3>2. pending'[c] \subseteq pending[c]
      BY Zenon, <2>2
    <3> QED BY Zenon, <1>3, <1>4, <2>1, <2>2, <3>1, <3>2
  <2>3. CASE PostFlushes(c)
    <3>1. cpc = "exited" /\ pc'[c] = "drain" /\ pending'[c] = sinks /\ Registered \ churned \subseteq sinks
      BY Zenon, <1>1, <2>3 DEF PostFlushes, Goto, SettledPresent
    <3>2. ASSUME NEW s \in Registered \ churned PROVE FlushedBy(s, c)'
      <4>1. s \in Sinks /\ strand'[s] = Append(strand[s], [op |-> "flush", by |-> c])
        BY Zenon, <1>2, <2>3, <3>1 DEF PostFlushes, PostTo
      <4>2. PICK q \in Seq(Tasks) : q = strand[s]
        BY Zenon, <1>1, <4>1
      <4>3. PICK f : f = [op |-> "flush", by |-> c]
        BY Zenon
      <4>4. strand'[s] = Append(q, f)
        BY Zenon, <4>1, <4>2, <4>3
      <4>5. Len(q) + 1 \in DOMAIN strand'[s] /\ strand'[s][Len(q) + 1] = f
        BY <4>2, <4>4
      <4> QED BY Zenon, <4>3, <4>5 DEF FlushedBy
    <3> QED BY Zenon, <2>1, <3>1, <3>2
  <2>4. CASE Close(c)
    <3>1. /\ pc[c] = "drain" /\ pending[c] = {} /\ pending'[c] = {} /\ strand' = strand
          /\ OwnedPool => \A s \in Sinks : strand[s] = <<>>
      BY Zenon, <2>4 DEF Close, Goto
    <3>2. \A s \in Sinks : strand[s] = <<>> => NoBatches(s)
      BY <1>1 DEF NoBatches
    <3> QED BY Zenon, <1>2, <2>1, <3>1, <3>2 DEF DrainCovers, NoBatches, IsBatch
  <2> QED BY Zenon, <1>4, <2>2, <2>3, <2>4, CloserMoves
\* Strands.
<1>5. ASSUME NEW u \in Sinks, StrandStep(u) \/ DeadlinePasses(u), UNCHANGED history,
             NEW c \in Closers, pc'[c] \in {"drain", "closed"}
      PROVE  /\ cpc' = "exited"
             /\ \A s \in Registered \ churned' : NoBatches(s)' \/ (s \in pending'[c] /\ FlushedBy(s, c)')
             /\ pc'[c] = "closed" => pending'[c] = {}
             /\ pc'[c] = "closed" /\ OwnedPool => \A s \in Sinks : NoBatches(s)'
  <2>1. cpc' = cpc /\ pc' = pc
    BY Zenon, <1>5, StrandFrame DEF consumerVars
  <2>2. CASE strand' = strand /\ pending' = pending
    BY Zenon, <1>3, <1>5, <2>1, <2>2 DEF Turns, FlushedBy
  <2>3. CASE strand[u] # <<>> /\ strand' = [strand EXCEPT ![u] = Tail(@)]
    <3>1. Popped(u) /\ \A s \in Sinks \ {u} : strand'[s] = strand[s]
      BY Zenon, <1>1, <2>3 DEF Popped
    <3>2. \A s \in Sinks : Turns(s) \/ Popped(s)
      BY Zenon, <3>1 DEF Turns
    <3>3. \A s \in Sinks \ {u} : FlushedBy(s, c) => FlushedBy(s, c)'
      BY Zenon, <3>1 DEF FlushedBy
    <3>4. CASE Task(u) # [op |-> "flush", by |-> c] /\ pending'[c] = pending[c]
      <4>1. FlushedBy(u, c) => FlushedBy(u, c)'
        BY Zenon, <1>1, <3>1, <3>4, FlushKept
      <4>2. pending'[c] \subseteq pending[c]
        BY Zenon, <3>4
      <4> QED BY Zenon, <1>3, <1>5, <2>1, <3>2, <3>3, <3>4, <4>1, <4>2
    <3>5. CASE Task(u) = [op |-> "flush", by |-> c] /\ pending'[c] = pending[c] \ {u}
      <4>1. Task(u).op = "flush" /\ Task(u) = strand[u][1] /\ Len(strand[u]) \in Nat \ {0} /\ 1 \in DOMAIN strand[u]
        BY <1>1, <2>3, <3>5, TaskFacts
      <4>2. \A j \in 1 + 1 .. Len(strand[u]) : ~IsBatch(u, j)
        BY Zenon, <4>1 DEF FlushesLast, FlushLast
      <4>3. /\ strand'[u] \in Seq(Tasks) /\ Len(strand'[u]) = Len(strand[u]) - 1
            /\ \A i \in 1 .. Len(strand[u]) - 1 : strand'[u][i] = strand[u][i + 1]
        BY Zenon, <1>1, <3>1, TaskFacts DEF Popped
      <4>4. \A i \in DOMAIN strand'[u] : i + 1 \in 1 + 1 .. Len(strand[u]) /\ strand'[u][i] = strand[u][i + 1]
        BY SMTT(20), <4>1, <4>3
      <4>5. NoBatches(u)'
        BY Zenon, <4>2, <4>4 DEF NoBatches, IsBatch
      <4>6. pending'[c] \subseteq pending[c] /\ \A s \in Sinks \ {u} : s \in pending[c] => s \in pending'[c]
        BY Zenon, <3>5
      <4> QED BY Zenon, <1>3, <1>5, <2>1, <3>2, <3>3, <4>5, <4>6
    <3>6. CASE Task(u).op # "flush" /\ pending' = pending
      <4>1. [op |-> "flush", by |-> c].op = "flush"
        BY Zenon
      <4> QED BY Zenon, <3>4, <3>6, <4>1
    <3>7. CASE FlushSink(u)
      <4>1. /\ pending' = [pending EXCEPT ![Task(u).by] = @ \ {u}]
            /\ Task(u).op = "flush" /\ Task(u) \in Tasks
        BY Zenon, <1>1, <2>3, <3>7, TaskFacts DEF FlushSink
      <4>2. PICK b \in Threads : Task(u) = [op |-> "flush", by |-> b] /\ Task(u).by = b
        BY Zenon, <4>1 DEF Tasks, Batches
      <4>3. CASE b = c
        BY Zenon, <1>1, <3>5, <4>1, <4>2, <4>3
      <4>4. CASE b # c
        <5>1. pending'[c] = pending[c]
          BY Zenon, <1>1, <4>1, <4>2, <4>4
        <5>2. [op |-> "flush", by |-> b].by = b /\ [op |-> "flush", by |-> c].by = c
          BY Zenon
        <5>3. Task(u) # [op |-> "flush", by |-> c]
          BY Zenon, <4>2, <4>4, <5>2
        <5> QED BY Zenon, <3>4, <5>1, <5>3
      <4> QED BY Zenon, <4>3, <4>4
    <3>8. ProcessBatch(u) \/ Maintain(u) => Task(u).op # "flush"
      BY Zenon DEF ProcessBatch, Maintain
    <3> QED BY Zenon, <1>5, <2>2, <3>6, <3>7, <3>8 DEF StrandStep, DeadlinePasses, threadVars
  <2> QED BY Zenon, <1>5, <2>2, <2>3 DEF StrandStep, ProcessBatch, Maintain, FlushSink, Pop, DeadlinePasses, threadVars
\* The consumer: gone, if a closer waits.
<1>6. ASSUME ConsumerStep, NEW c \in Closers, pc'[c] \in {"drain", "closed"} PROVE FALSE
  <2>1. pc' = pc
    BY Zenon, <1>6 DEF ConsumerStep, threadVars
  <2>2. cpc = "exited"
    BY Zenon, <1>6, <2>1 DEF DrainCovers
  <2> QED BY Zenon, <1>6, <2>2 DEF ConsumerStep, Collect, Dispatch, ReadVersion, Snapshot, Wait, ConsumerExit, CGoto
\* Registrars.
<1>7. ASSUME NEW r \in Registrars, RegistryStep(r), NEW c \in Closers, pc'[c] \in {"drain", "closed"}
      PROVE  /\ cpc' = "exited"
             /\ \A s \in Registered \ churned' : NoBatches(s)' \/ (s \in pending'[c] /\ FlushedBy(s, c)')
             /\ pc'[c] = "closed" => pending'[c] = {}
             /\ pc'[c] = "closed" /\ OwnedPool => \A s \in Sinks : NoBatches(s)'
  <2>1. UNCHANGED <<cpc, pending, strand>> /\ (pc' = pc \/ pc' = [pc EXCEPT ![r] = "bump"])
    BY Zenon, <1>7, RegistryFrame DEF consumerVars, Types, TableTypes
  <2>2. pc'[c] = pc[c]
    BY Zenon, <1>1, <1>7, <2>1
  <2>3. /\ pending'[c] \subseteq pending[c] /\ (cpc' = "exited" \/ cpc # "exited")
        /\ \A s \in Sinks : Turns(s) \/ Popped(s)
        /\ \A s \in Sinks : FlushedBy(s, c) /\ s \in pending[c] =>
             (s \in pending'[c] /\ FlushedBy(s, c)') \/ NoBatches(s)'
    BY Zenon, <2>1 DEF Turns, FlushedBy
  <2>4. pc[c] \in {"drain", "closed"}
    BY Zenon, <1>7, <2>2
  <2> QED BY Zenon, <1>3, <2>2, <2>3, <2>4
<1> QED
  BY Zenon, <1>4, <1>5, <1>6, <1>7, StepCases DEF DrainCovers
-----------------------------------------------------------------------------
(* Losses *)

\* A set that grows by at most d elements.
LEMMA GrowsBy ==
  ASSUME NEW A, NEW B, NEW X, IsFiniteSet(A), IsFiniteSet(X), B \subseteq A \union X,
         NEW a \in Nat, NEW d \in Nat, Cardinality(A) <= a, Cardinality(X) <= d
  PROVE  Cardinality(B) <= a + d
<1>1. /\ IsFiniteSet(A \union X)
      /\ Cardinality(A \union X) = Cardinality(A) + Cardinality(X) - Cardinality(A \intersect X)
  BY Zenon, FS_Union
<1>2. /\ Cardinality(A) \in Nat /\ Cardinality(X) \in Nat /\ Cardinality(A \intersect X) \in Nat
      /\ IsFiniteSet(B) /\ Cardinality(B) \in Nat /\ Cardinality(B) <= Cardinality(A \union X)
  BY Zenon, <1>1, FS_Subset, FS_CardinalityType
<1> QED
  BY <1>1, <1>2

\* An interval of events.
LEMMA EventCount ==
  ASSUME NEW a \in Nat, NEW b \in Nat, a <= b + 1
  PROVE  IsFiniteSet(a .. b) /\ b - a + 1 \in Nat /\ Cardinality(a .. b) <= b - a + 1
<1>1. /\ IsFiniteSet(a .. b)
      /\ Cardinality(a .. b) = IF a > b THEN 0 ELSE b - a + 1
  BY FS_Interval
<1> QED
  BY <1>1

\* What a sink has lost is finite.
LEMMA LostFinite ==
  ASSUME RingTypes, NEW s
  PROVE  IsFiniteSet(Lost(s))
<1>1. IsFiniteSet(1 .. consumed)
  BY FS_Interval DEF RingTypes
<1>2. Lost(s) \subseteq 1 .. consumed
  BY Zenon DEF Lost
<1> QED
  BY Zenon, <1>1, <1>2, FS_Subset

\* The losses of a sink stay counted when the sink loses no event that it does not
\* count: the new losses are among d events that undelivered() has gone up by.
LEMMA LossBound ==
  ASSUME RingTypes, SinkTypes, NEW s \in Sinks, Cardinality(Lost(s)) <= undelivered[s],
         NEW a \in Nat, NEW b \in Nat, a <= b + 1,
         Lost(s)' \subseteq Lost(s) \union (a .. b),
         undelivered'[s] = undelivered[s] + (b - a + 1)
  PROVE  Cardinality(Lost(s)') <= undelivered'[s]
<1>1. undelivered[s] \in Nat /\ IsFiniteSet(Lost(s))
  BY Zenon, LostFinite DEF SinkTypes
<1>2. IsFiniteSet(a .. b) /\ b - a + 1 \in Nat /\ Cardinality(a .. b) <= b - a + 1
  BY Zenon, EventCount
<1>3. PICK A, B, X, d : A = Lost(s) /\ B = Lost(s)' /\ X = a .. b /\ d = b - a + 1
  OBVIOUS
<1> QED
  BY Zenon, <1>1, <1>2, <1>3, GrowsBy

\* Nothing is lost.
LEMMA NoLoss ==
  ASSUME RingTypes, SinkTypes, NEW s \in Sinks, Cardinality(Lost(s)) <= undelivered[s],
         Lost(s)' \subseteq Lost(s), undelivered'[s] = undelivered[s]
  PROVE  Cardinality(Lost(s)') <= undelivered'[s]
<1>1. undelivered[s] \in Nat /\ undelivered'[s] = undelivered[s] + (0 - 1 + 1)
  BY DEF SinkTypes
<1>2. 1 \in Nat /\ 0 \in Nat /\ 1 <= 0 + 1
  OBVIOUS
<1> QED
  BY Zenon, <1>1, <1>2, LossBound

\* The sinks that count are registered.
LEMMA SettledFacts ==
  ASSUME NEW s \in Settled
  PROVE  s \in Sinks /\ s \in Registered \ churned
BY Zenon, LoggerAssumption DEF Settled
\* An event is lost in a step only if it was on its way before.
LEMMA LossCases ==
  ASSUME RingTypes, NEW s \in Sinks, NEW n \in Lost(s)', n \in 1 .. consumed,
         ring'[n] = ring[n], threshold'[s] = threshold[s],
         \A i \in DOMAIN written[s] : n \in written[s][i] => \E j \in DOMAIN written'[s] : n \in written'[s][j]
  PROVE  n \in Lost(s) \/ (InFlight(s, n) /\ ~InFlight(s, n)')
BY Zenon DEF Lost

LEMMA QuietLosses ==
  ASSUME Types, LossesCounted, Quiet
  PROVE  LossesCounted'
<1>1. SUFFICES ASSUME NEW s \in Settled' PROVE Cardinality(Lost(s)') <= undelivered'[s]
  BY Zenon DEF LossesCounted
<1>2. s \in Settled /\ threshold'[s] = threshold[s] /\ UNCHANGED <<consumed, written, undelivered>>
  BY Zenon DEF Quiet
<1>3. s \in Sinks /\ s \in Registered \ churned /\ Cardinality(Lost(s)) <= undelivered[s]
  BY Zenon, <1>2, SettledFacts DEF LossesCounted
<1>4. ASSUME NEW n \in Lost(s)' PROVE n \in Lost(s)
  <2>1. PICK d \in {0, 1} : Aligned(s, d)
    BY Zenon, <1>3, ShiftsAlign DEF Quiet, Types
  <2>2. InFlight(s, n) => InFlight(s, n)'
    <3>1. ASSUME NEW i \in DOMAIN strand[s], strand[s][i].op = "batch", n \in Events(strand[s][i])
          PROVE  InFlight(s, n)'
      <4>1. i - d \in DOMAIN strand'[s] /\ strand'[s][i - d] = strand[s][i]
        BY Zenon, <2>1, <3>1 DEF Aligned, IsBatch
      <4> QED BY Zenon, <3>1, <4>1 DEF InFlight
    <3>2. ASSUME n \in Events(batch), Awaits(s) PROVE InFlight(s, n)'
      BY Zenon, <1>3, <3>2 DEF Quiet, Awaits, InFlight, Handing
    <3> QED BY Zenon, <3>1, <3>2 DEF InFlight, Awaits
  <2>3. n \in 1 .. consumed
    BY Zenon, <1>2 DEF Lost
  <2>4. ring'[n] = ring[n]
    BY Zenon, <2>3 DEF Quiet
  <2> QED BY Zenon, <1>2, <1>3, <2>2, <2>3, <2>4, LossCases DEF Types
<1> QED
  BY Zenon, <1>2, <1>3, <1>4, NoLoss DEF Types

LEMMA CollectLosses ==
  ASSUME Types, LossesCounted, Collect, UNCHANGED <<sinkVars, strand, history>>
  PROVE  LossesCounted'
<1>1. /\ UNCHANGED <<threshold, written, undelivered, strand, ring>> /\ Settled' = Settled
      /\ cpc = "loop"
  BY Zenon DEF Collect, sinkVars, history, Settled
<1>2. SUFFICES ASSUME NEW s \in Settled PROVE Cardinality(Lost(s)') <= undelivered'[s]
  BY Zenon, <1>1 DEF LossesCounted
<1>3. s \in Sinks /\ Cardinality(Lost(s)) <= undelivered[s]
  BY Zenon, <1>2, SettledFacts DEF LossesCounted
<1>4. ASSUME NEW n \in Lost(s)' PROVE n \in Lost(s)
  <2>1. n \in 1 .. consumed' /\ ring[n] # Shutdown /\ ~InFlight(s, n)'
    BY Zenon, <1>1 DEF Lost
  <2>2. consumed \in Nat /\ consumed' \in Nat
    BY Zenon, CollectFacts DEF Types, RingTypes
  <2>3. CASE n \in 1 .. consumed
    <3>1. InFlight(s, n) => InFlight(s, n)'
      BY Zenon, <1>1 DEF InFlight
    <3> QED BY Zenon, <1>1, <1>3, <2>3, <3>1, LossCases DEF Types
  <2>4. CASE n \in consumed + 1 .. consumed'
    <3>1. CASE cpc' = "loop"
      BY Zenon, <2>1, <2>4, <3>1, CollectFacts DEF Types
    <3>2. CASE /\ cpc' = "recheck" /\ batch'.from = consumed + 1
               /\ batch'.to \in consumed + 1 .. consumed'
               /\ \A k \in batch'.to + 1 .. consumed' : ring[k] = Shutdown
      <4>1. n \in batch'.from .. batch'.to \/ n \in batch'.to + 1 .. consumed'
        BY <2>2, <2>4, <3>2
      <4> QED BY Zenon, <2>1, <3>2, <4>1 DEF InFlight, Events
    <3> QED BY Zenon, <3>1, <3>2, CollectFacts DEF Types
  <2> QED BY <2>1, <2>2, <2>3, <2>4
<1> QED
  BY Zenon, <1>1, <1>3, <1>4, NoLoss DEF Types

LEMMA DispatchLosses ==
  ASSUME Types, Ordered, LossesCounted, Dispatch, UNCHANGED <<ringVars, history>>
  PROVE  LossesCounted'
<1>1. /\ UNCHANGED <<threshold, written, consumed, ring>> /\ Settled' = Settled
      /\ cpc = "dispatch"
  BY Zenon DEF Dispatch, ringVars, history, Settled
<1>2. SUFFICES ASSUME NEW s \in Settled PROVE Cardinality(Lost(s)') <= undelivered'[s]
  BY Zenon, <1>1 DEF LossesCounted
<1>3. s \in Sinks /\ Cardinality(Lost(s)) <= undelivered[s]
  BY Zenon, <1>2, SettledFacts DEF LossesCounted
<1>4. PICK u \in todo :
        /\ Visit(todo \ {u})
        /\ LET accepted == \E n \in Events(batch) : ring[n] >= threshold[u] IN
           /\ undelivered' = IF accepted /\ status[u] = "Dead"
                             THEN [undelivered EXCEPT ![u] = @ + Size(batch)]
                             ELSE undelivered
           /\ IF accepted /\ status[u] # "Dead" THEN Post(u, batch) ELSE UNCHANGED strand
  BY Zenon DEF Dispatch
<1>5. /\ u \in Sinks /\ strand \in [Sinks -> Seq(Tasks)] /\ undelivered \in [Sinks -> Nat]
      /\ batch \in Batches /\ batch.from \in 1 .. batch.to
  BY Zenon, <1>1 DEF Types, TableTypes, SinkTypes, Ordered, BatchHeld, Handing
<1>6. PICK from, to \in Nat : from = batch.from /\ to = batch.to
  BY Zenon, <1>5 DEF Batches
<1>7. from <= to + 1 /\ Size(batch) = to - from + 1 /\ Events(batch) = from .. to
  BY <1>5, <1>6 DEF Size, Events
<1>8. strand' = strand \/ Post(u, batch)
  BY Zenon, <1>4
<1>9. ASSUME NEW i \in DOMAIN strand[s] PROVE i \in DOMAIN strand'[s] /\ strand'[s][i] = strand[s][i]
  <2>1. CASE Post(u, batch)
    BY <1>3, <1>5, <2>1 DEF Post
  <2> QED BY Zenon, <1>8, <2>1
<1>10. ASSUME NEW n \in Lost(s)' PROVE n \in Lost(s) \/ (s = u /\ n \in Events(batch) /\ ~Post(u, batch))
  <2>1. SUFFICES ASSUME InFlight(s, n), ~InFlight(s, n)'
                 PROVE  s = u /\ n \in Events(batch) /\ ~Post(u, batch)
    BY Zenon, <1>1, <1>3, LossCases DEF Lost, Types
  <2>2. n \in Events(batch) /\ s \in todo
    BY Zenon, <1>1, <1>9, <2>1 DEF InFlight
  <2>3. s = u
    BY Zenon, <1>4, <2>1, <2>2 DEF InFlight, Visit
  <2>4. ~Post(u, batch)
    <3>1. SUFFICES ASSUME Post(u, batch) PROVE FALSE
      BY Zenon
    <3>2. PICK q \in Seq(Tasks) : q = strand[u]
      BY Zenon, <1>5
    <3>3. strand'[u] = Append(q, batch)
      BY Zenon, <1>5, <3>1, <3>2 DEF Post
    <3>4. Len(q) + 1 \in DOMAIN strand'[u] /\ strand'[u][Len(q) + 1] = batch /\ batch.op = "batch"
      BY <1>5, <3>2, <3>3 DEF Batches
    <3> QED BY Zenon, <2>1, <2>2, <2>3, <3>4 DEF InFlight
  <2> QED BY Zenon, <2>2, <2>3, <2>4
<1>11. CASE s = u /\ undelivered' = [undelivered EXCEPT ![u] = @ + Size(batch)]
  <2>1. undelivered'[s] = undelivered[s] + (to - from + 1)
    BY Zenon, <1>3, <1>5, <1>7, <1>11
  <2>2. Lost(s)' \subseteq Lost(s) \union (from .. to)
    BY Zenon, <1>7, <1>10
  <2> QED BY Zenon, <1>3, <1>7, <2>1, <2>2, LossBound DEF Types
<1>12. CASE s # u
  <2>1. undelivered'[s] = undelivered[s]
    BY Zenon, <1>3, <1>4, <1>5, <1>12
  <2> QED BY Zenon, <1>3, <1>10, <1>12, <2>1, NoLoss DEF Types
<1>13. CASE s = u /\ undelivered' = undelivered
           /\ ((\E n \in Events(batch) : ring[n] >= threshold[u]) => Post(u, batch))
  <2>1. ASSUME NEW n \in Lost(s)' PROVE n \in Lost(s)
    <3>1. n \in Events(batch) => Post(u, batch)
      BY Zenon, <1>1, <1>13 DEF Lost
    <3> QED BY Zenon, <1>10, <3>1
  <2> QED BY Zenon, <1>3, <1>13, <2>1, NoLoss DEF Types
<1> QED
  BY Zenon, <1>4, <1>11, <1>12, <1>13
LEMMA ProcessLosses ==
  ASSUME Types, Ordered, LossesCounted, NEW u \in Sinks, ProcessBatch(u), StrandStep(u), UNCHANGED history
  PROVE  LossesCounted'
<1>1. /\ UNCHANGED <<threshold, consumed, ring, cpc, todo, batch>> /\ Settled' = Settled
  BY Zenon, StrandFrame DEF ringVars, consumerVars, history, Settled
<1>2. SUFFICES ASSUME NEW s \in Settled PROVE Cardinality(Lost(s)') <= undelivered'[s]
  BY Zenon, <1>1 DEF LossesCounted
<1>3. s \in Sinks /\ Cardinality(Lost(s)) <= undelivered[s]
  BY Zenon, <1>2, SettledFacts DEF LossesCounted
<1>4. /\ strand[u] # <<>> /\ strand' = [strand EXCEPT ![u] = Tail(@)]
      /\ Task(u) \in Batches /\ Task(u).from \in 1 .. Task(u).to /\ IsBatch(u, 1)
      /\ Dropped(u) \/ \E n \in Task(u).from .. Task(u).to + 1 : WrittenUpTo(u, n)
  BY Zenon, ProcessFacts DEF Types, Ordered
<1>5. PICK from, to \in Nat : from = Task(u).from /\ to = Task(u).to
  BY Zenon, <1>4 DEF Batches
<1>6. /\ undelivered \in [Sinks -> Nat] /\ written \in [Sinks -> Seq(SUBSET Nat)]
      /\ strand \in [Sinks -> Seq(Tasks)] /\ from \in 1 .. to
  BY Zenon, <1>4, <1>5 DEF Types, SinkTypes
\* Only an event of the head can cease to be on its way.
<1>7. ASSUME NEW n, InFlight(s, n), ~InFlight(s, n)' PROVE s = u /\ n \in from .. to
  <2>1. PICK i \in DOMAIN strand[s] : strand[s][i].op = "batch" /\ n \in Events(strand[s][i])
    BY Zenon, <1>1, <1>7 DEF InFlight
  <2>2. s = u
    BY Zenon, <1>3, <1>4, <1>6, <1>7, <2>1 DEF InFlight
  <2>3. /\ Len(strand[u]) \in Nat \ {0} /\ Task(u) = strand[u][1]
        /\ strand'[u] \in Seq(Tasks) /\ Len(strand'[u]) = Len(strand[u]) - 1
        /\ \A k \in 1 .. Len(strand[u]) - 1 : strand'[u][k] = strand[u][k + 1]
    BY Zenon, <1>4, <1>6, TaskFacts DEF Types
  <2>4. CASE i = 1
    BY Zenon, <1>5, <2>1, <2>2, <2>3, <2>4 DEF Events
  <2>5. CASE i # 1
    <3>1. i \in 1 .. Len(strand[u])
      BY <1>6, <2>1, <2>2
    <3>2. PICK old \in Nat, q \in Seq(Tasks) : old = Len(strand[u]) /\ q = strand'[u] /\ Len(q) = old - 1
      BY Zenon, <2>3
    <3>3. i - 1 \in 1 .. old - 1 /\ (i - 1) + 1 = i /\ i - 1 \in DOMAIN q
      BY <2>5, <3>1, <3>2
    <3>4. strand'[u][i - 1] = strand[u][i]
      BY Zenon, <2>3, <3>2, <3>3
    <3> QED BY Zenon, <1>7, <2>1, <2>2, <3>2, <3>3, <3>4 DEF InFlight
  <2> QED BY Zenon, <2>4, <2>5
\* What is written stays written.
<1>8. ASSUME NEW n, NEW i \in DOMAIN written[s], n \in written[s][i]
      PROVE  \E j \in DOMAIN written'[s] : n \in written'[s][j]
  <2>1. ASSUME NEW w, written' = [written EXCEPT ![u] = Append(@, w)]
        PROVE  i \in DOMAIN written'[s] /\ written'[s][i] = written[s][i]
    BY <1>3, <1>6, <1>8, <2>1
  <2>2. written' = written \/ \E w : written' = [written EXCEPT ![u] = Append(@, w)]
    BY Zenon, <1>4 DEF Dropped, WrittenUpTo
  <2> QED BY Zenon, <1>8, <2>1, <2>2
<1>9. ASSUME NEW n \in Lost(s)' PROVE n \in Lost(s) \/ (s = u /\ n \in from .. to)
  <2>1. n \in 1 .. consumed
    BY Zenon, <1>1 DEF Lost
  <2>2. n \in Lost(s) \/ (InFlight(s, n) /\ ~InFlight(s, n)')
    BY Zenon, <1>1, <1>3, <1>8, <2>1, LossCases DEF Types
  <2> QED BY Zenon, <1>7, <2>2
<1>10. CASE s # u
  <2>1. undelivered'[s] = undelivered[s]
    BY Zenon, <1>3, <1>4, <1>6, <1>10 DEF Dropped, WrittenUpTo
  <2> QED BY Zenon, <1>3, <1>9, <1>10, <2>1, NoLoss DEF Types
<1>11. CASE s = u /\ Dropped(u)
  <2>1. Size(Task(u)) = to - from + 1 /\ from <= to + 1
    BY <1>5, <1>6 DEF Size
  <2>2. undelivered'[s] = undelivered[s] + (to - from + 1)
    BY Zenon, <1>3, <1>6, <1>11, <2>1 DEF Dropped
  <2>3. Lost(s)' \subseteq Lost(s) \union (from .. to)
    BY Zenon, <1>9
  <2> QED BY Zenon, <1>3, <2>1, <2>2, <2>3, LossBound DEF Types
<1>12. ASSUME s = u, NEW k \in from .. to + 1, WrittenUpTo(u, k)
       PROVE  Cardinality(Lost(s)') <= undelivered'[s]
  <2>1. undelivered'[s] = undelivered[s] + (to - k + 1)
    BY Zenon, <1>3, <1>5, <1>6, <1>12 DEF WrittenUpTo
  <2>2. k \in Nat /\ k <= to + 1
    BY <1>6
  <2>3. ASSUME NEW n \in Lost(s)' PROVE n \in Lost(s) \union (k .. to)
    <3>1. CASE n \in from .. k - 1
      <4>1. n \in Passes(u, from, k - 1)
        BY Zenon, <1>1, <1>12, <3>1 DEF Lost, Passes
      <4>2. PICK v \in Seq(SUBSET Nat) : v = written[u]
        BY Zenon, <1>6
      <4>3. PICK w : w = Passes(u, from, k - 1)
        OBVIOUS
      <4>4. written'[u] = Append(v, w)
        BY Zenon, <1>5, <1>6, <1>12, <4>2, <4>3 DEF WrittenUpTo
      <4>5. Len(v) + 1 \in DOMAIN written'[u] /\ written'[u][Len(v) + 1] = w
        BY <4>2, <4>4
      <4> QED BY Zenon, <1>12, <4>1, <4>3, <4>5 DEF Lost
    <3>2. CASE n \in from .. to /\ n \notin from .. k - 1
      <4>1. n \in k .. to
        BY <1>6, <2>2, <3>2
      <4> QED BY Zenon, <4>1
    <3> QED BY Zenon, <1>9, <3>1, <3>2
  <2>4. Lost(s)' \subseteq Lost(s) \union (k .. to)
    BY Zenon, <2>3
  <2> QED BY Zenon, <1>3, <2>1, <2>2, <2>4, LossBound DEF Types
<1> QED
  BY Zenon, <1>4, <1>5, <1>10, <1>11, <1>12

-----------------------------------------------------------------------------
(* The theorems *)

LEMMA InitIInv ==
  ASSUME Init
  PROVE  IInv
<1> USE DEF Init
<1>1. RingTypes
  BY DEF RingTypes
<1>2. TableTypes
  <2>1. gate \in Levels \union {DropAll}
    <3>1. gate = Aggregate(Registered)
      BY Zenon DEF Aggregate
    <3> QED BY Zenon, <3>1, AggregateType, LoggerAssumption
  <2>2. NoBatch \in Batches
    BY Zenon DEF NoBatch, Batches
  <2>3. version \in Nat
    BY Zenon, LoggerAssumption, FS_CardinalityType
  <2>4. 0 \in 0 .. version
    BY <2>3
  <2> QED BY Zenon, <2>1, <2>2, <2>3, <2>4, LoggerAssumption DEF TableTypes, Handing
<1>3. SinkTypes
  BY DEF SinkTypes, Statuses
<1>4. ThreadTypes
  BY Zenon DEF ThreadTypes, SlotsClaimed, Labels
<1>5. TableFresh /\ GateMatches /\ SettledPresent
  BY Zenon DEF TableFresh, GateMatches, SettledPresent, Aggregate
<1>6. /\ \A s \in Sinks : DOMAIN strand[s] = {} /\ DOMAIN written[s] = {}
      /\ cpc = "version"
  OBVIOUS
<1>7. Ordered /\ FlushesLast
  BY Zenon, <1>6 DEF Ordered, BatchHeld, Handing, WrittenInOrder, InOrder, Before, Awaits, FlushesLast, FlushLast
<1>8. DrainCovers
  BY Zenon DEF DrainCovers, Threads
<1>9. LossesCounted
  <2>1. ASSUME NEW s \in Settled PROVE Cardinality(Lost(s)) <= undelivered[s]
    <3>1. Lost(s) = {} /\ undelivered[s] = 0
      BY <2>1, SettledFacts DEF Lost
    <3>2. Cardinality(Lost(s)) = 0
      BY Zenon, <3>1, FS_EmptySet
    <3> QED BY <3>1, <3>2
  <2> QED BY Zenon, <2>1 DEF LossesCounted
<1> QED
  BY Zenon, <1>1, <1>2, <1>3, <1>4, <1>5, <1>7, <1>8, <1>9 DEF IInv

LEMMA LossesStep ==
  ASSUME Types, SettledPresent, Ordered, LossesCounted, Next
  PROVE  LossesCounted'
BY Zenon, Moves, QuietLosses, CollectLosses, DispatchLosses, ProcessLosses

LEMMA StepIInv ==
  ASSUME IInv, [Next]_vars
  PROVE  IInv'
<1>1. CASE UNCHANGED vars
  <2>1. UNCHANGED <<ringVars, running, stopRequested, registryVars, sinkVars, reported,
                    strand, consumerVars, threadVars, sweepMutex, used, history>>
    BY Zenon, <1>1 DEF vars
  <2>2. UNCHANGED <<ring, published, consumed>> /\ UNCHANGED <<sinks, version, gate>>
        /\ UNCHANGED <<threshold, status, failures, waiting, undelivered, written>>
        /\ UNCHANGED <<cpc, table, seenVersion, batch, todo>> /\ UNCHANGED <<pc, slot, pending>>
        /\ UNCHANGED <<churned, reconfigured>>
        /\ UNCHANGED <<running, stopRequested, reported, strand, sweepMutex>>
    BY Zenon, <2>1 DEF ringVars, registryVars, sinkVars, consumerVars, threadVars, history
  <2>3. RingTypes' /\ TableTypes' /\ SinkTypes' /\ ThreadTypes'
    BY Zenon, <2>2 DEF IInv, RingTypes, TableTypes, SinkTypes, ThreadTypes, SlotsClaimed
  <2>4. TableFresh' /\ GateMatches' /\ SettledPresent'
    BY Zenon, <2>2 DEF IInv, TableFresh, GateMatches, Aggregate, SettledPresent
  <2>5. Ordered'
    BY Zenon, <2>2 DEF IInv, Ordered, BatchHeld, WrittenInOrder, InOrder, Before, Awaits, IsBatch
  <2>6. FlushesLast' /\ DrainCovers'
    <3>1. FlushesLast'
      <4>1. strand' = strand /\ cpc' = cpc
        BY Zenon, <2>2
      <4>2. \A s : FlushLast(s)' <=> FlushLast(s)
        BY <4>1 DEF FlushLast, IsBatch
      <4> QED BY Zenon, <4>2 DEF IInv, FlushesLast
    <3>2. \A s, c : NoBatches(s)' = NoBatches(s) /\ FlushedBy(s, c)' = FlushedBy(s, c)
      BY Zenon, <2>2 DEF NoBatches, FlushedBy, IsBatch
    <3>3. DrainCovers'
      BY Zenon, <2>2, <3>2 DEF IInv, DrainCovers
    <3> QED BY Zenon, <3>1, <3>3
  <2>7. LossesCounted'
    BY Zenon, <2>2 DEF IInv, LossesCounted, Settled, Lost, InFlight
  <2> QED BY Zenon, <2>3, <2>4, <2>5, <2>6, <2>7 DEF IInv
<1>2. CASE Next
  <2>1. /\ RingTypes /\ TableTypes /\ SinkTypes /\ ThreadTypes /\ Types
        /\ TableFresh /\ GateMatches /\ SettledPresent
        /\ Ordered /\ FlushesLast /\ DrainCovers /\ LossesCounted
    BY Zenon DEF IInv, Types
  <2>2. RingTypes' /\ Len(ring) <= Len(ring')
    BY Zenon, <1>2, <2>1, RingTypesStep
  <2>3. TableTypes' /\ SinkTypes' /\ ThreadTypes'
    BY Zenon, <1>2, <2>1, <2>2, TableTypesStep, SinkTypesStep, ThreadTypesStep
  <2>4. TableFresh' /\ GateMatches' /\ SettledPresent'
    BY Zenon, <1>2, <2>1, RegistryKept, GateKept, SettledKept
  <2>5. Ordered'
    BY Zenon, <1>2, <2>1, <2>3, OrderStep
  <2>6. FlushesLast' /\ DrainCovers' /\ LossesCounted'
    BY Zenon, <1>2, <2>1, FlushStep, DrainStep, LossesStep
  <2> QED BY Zenon, <2>2, <2>3, <2>4, <2>5, <2>6 DEF IInv
<1> QED
  BY Zenon, <1>1, <1>2

\* The inductive invariant of the logger holds for any number of sinks, producers and
\* registrars, whatever the sinks fail on.  Calls of shutdown() that overlap are let
\* through as running_ lets them; that they join the same thread is not in the model.
THEOREM Invariance == Spec => []IInv
<1>1. Init => IInv
  BY Zenon, InitIInv
<1>2. IInv /\ [Next]_vars => IInv'
  BY Zenon, StepIInv
<1> QED
  BY <1>1, <1>2, PTL DEF Spec

\* The consumer's table and the gate agree with the registry whenever nobody is in the
\* middle of changing it, and every variable has its type.
THEOREM RegistryAgrees == Spec => []RegistryCoherent
<1>1. IInv => RegistryCoherent
  BY Zenon DEF IInv, RegistryCoherent, TypeOK, RingTypes, TableTypes, SinkTypes, ThreadTypes
<1> QED
  BY <1>1, Invariance, PTL

\* What a sink accepts and has not written is on its way to it or counted as undelivered.
THEOREM NothingLostSilently == Spec => []LossesCounted
<1>1. IInv => LossesCounted
  BY Zenon DEF IInv
<1> QED
  BY <1>1, Invariance, PTL

\* Each sink writes each event at most once and in the order of the claims.
THEOREM WritesInOrder == Spec => []WrittenInOrder
<1>1. IInv => WrittenInOrder
  BY Zenon DEF IInv, Ordered
<1> QED
  BY <1>1, Invariance, PTL

\* When shutdown() has returned no batch waits for a sink: the flush that it waited for
\* was behind every batch of the sink's strand.
THEOREM ShutdownComplete == Spec => []ShutdownDrains
<1>1. ASSUME IInv PROVE ShutdownDrains
  <2>1. SUFFICES ASSUME NEW c \in Closers, pc[c] = "closed",
                        NEW s \in (IF OwnedPool THEN Sinks ELSE Settled), NEW n \in 1 .. consumed
                 PROVE  ~InFlight(s, n)
    BY Zenon DEF ShutdownDrains
  <2>2. /\ cpc = "exited" /\ pending[c] = {}
        /\ \A z \in Registered \ churned : NoBatches(z) \/ z \in pending[c]
        /\ OwnedPool => \A z \in Sinks : NoBatches(z)
    BY Zenon, <1>1, <2>1 DEF IInv, DrainCovers
  <2>3. OwnedPool => s \in Sinks
    BY Zenon, <2>1
  <2>4. ~OwnedPool => s \in Registered \ churned
    BY Zenon, <2>1 DEF Settled
  <2>5. NoBatches(s)
    BY Zenon, <2>2, <2>3, <2>4
  <2>6. cpc \notin {"recheck", "resnapshot", "dispatch"}
    BY Zenon, <2>2
  <2> QED BY Zenon, <2>5, <2>6 DEF NoBatches, IsBatch, InFlight
<1> QED
  BY <1>1, Invariance, PTL
=============================================================================
