------------------------------- MODULE Logger -------------------------------
(***************************************************************************)
(* crow::Logger: producers publish events into a ring, one consumer thread *)
(* dispatches batches to the strands of the registered sinks, a janitor    *)
(* thread watches the health of the sinks, and shutdown() sends a sentinel *)
(* through the ring and drains the strands.                                *)
(*                                                                         *)
(* The ring is a MultiProducerSequencer, taken at the level of             *)
(* ClaimOrderQueue: a claim appends to ring, a slot may be published once  *)
(* its turn of the buffer is free, the consumer sees the contiguous        *)
(* published prefix.  A sink is a FileSink as the logger sees it: a status,*)
(* a threshold, a backoff, a serial strand; FileSink has the files.        *)
(***************************************************************************)
EXTENDS Integers, Sequences, FiniteSets, FiniteSetsExt

CONSTANTS Sinks,         \* sink objects
          Registered,    \* the sinks registered at construction time
          Producers,     \* threads that call log()
          Registrars,    \* threads that call add_sink(), remove_sink(), set_config(), sweep()
          Closers,       \* threads that call shutdown()
          Janitor,       \* the janitor thread
          Constructor,   \* the thread that runs start_threads()
          Capacity,      \* size of the ring
          OwnedPool,     \* whether the logger owns its thread pool
          MaxLevel,      \* the level of an error report; levels are 0 .. MaxLevel
          MaxLogs, MaxFaults, MaxChanges, MaxMaintain  \* bounds on an instance

Threads == Producers \union Registrars \union Closers
             \union {Janitor, Constructor}

ASSUME LoggerAssumption ==
  /\ Registered \subseteq Sinks /\ IsFiniteSet(Registered)
  /\ Capacity \in Nat \ {0} /\ MaxLevel \in Nat
  /\ OwnedPool \in BOOLEAN
  /\ Constructor # Janitor /\ {Constructor, Janitor} \intersect Registrars = {}

VARIABLES ring,          \* levels of the claimed slots, in claim order
          published,     \* indices of ring that are published
          consumed,      \* how many slots the consumer has released
          running,       \* running_
          stopRequested, \* the stop token of the janitor
          sinks,         \* sinks_, the registry table
          version,       \* registry_version_
          gate,          \* gate_
          threshold,     \* per sink: the threshold in its dispatch word
          status,        \* per sink: the status in its dispatch word
          failures,      \* per sink: consecutive_failures_
          waiting,       \* sinks whose retry deadline lies in the future
          undelivered,   \* per sink: undelivered_
          written,       \* per sink: for each batch in turn, the events written of it
          reported,      \* per sink: reported_status_
          strand,        \* per sink: the queue of its strand
          cpc, table, seenVersion, batch, todo,  \* the consumer thread
          pc, slot, pending,  \* per thread: label, level or claimed slot, sinks to report or to flush
          sweepMutex,    \* sweep_mutex_ is held
          used,          \* how much of each bound is used
          churned,       \* history: the sinks added or removed since the start
          reconfigured   \* history: the sinks whose configuration was replaced

ringVars     == <<ring, published, consumed>>
registryVars == <<sinks, version, gate>>
sinkVars     == <<threshold, status, failures, waiting, undelivered, written>>
consumerVars == <<cpc, table, seenVersion, batch, todo>>
threadVars   == <<pc, slot, pending>>
history      == <<churned, reconfigured>>
vars == <<ringVars, running, stopRequested, registryVars, sinkVars, reported,
          strand, consumerVars, threadVars, sweepMutex, used, history>>

Levels   == 0 .. MaxLevel
DropAll  == MaxLevel + 1  \* detail::drop_all_threshold
Shutdown == MaxLevel + 2  \* the content of the shutdown sentinel's slot
NoBatch  == [op |-> "batch", from |-> 1, to |-> 0]

Init ==
  /\ ring = <<>> /\ published = {} /\ consumed = 0
  /\ running = TRUE /\ stopRequested = FALSE
  /\ sinks = Registered /\ version = Cardinality(Registered)
  /\ threshold \in [Sinks -> Levels]
  /\ gate = Min({threshold[s] : s \in Registered} \union {DropAll})
  /\ status = [s \in Sinks |-> "Healthy"] /\ failures = [s \in Sinks |-> 0]
  /\ waiting = {} /\ undelivered = [s \in Sinks |-> 0]
  /\ written = [s \in Sinks |-> <<>>]
  /\ reported = [s \in Sinks |-> "Healthy"] /\ strand = [s \in Sinks |-> <<>>]
  /\ cpc = "version" /\ table = {} /\ seenVersion = 0 /\ batch = NoBatch /\ todo = {}
  /\ pc = [t \in Threads |-> IF t = Constructor THEN "start"
                             ELSE IF t = Janitor THEN "unborn" ELSE "idle"]
  /\ slot = [t \in Threads |-> 0] /\ pending = [t \in Threads |-> {}]
  /\ sweepMutex = FALSE
  /\ used = [logs |-> 0, faults |-> 0, changes |-> 0]
  /\ churned = {} /\ reconfigured = {}

-----------------------------------------------------------------------------
Goto(t, from, to) == pc[t] = from /\ pc' = [pc EXCEPT ![t] = to]
Ready == pc[Constructor] = "ready"
Use(what, max) == used[what] < max /\ used' = [used EXCEPT ![what] = @ + 1]

\* next(): the claim precedes the wait for a free slot, which is the guard of Publish.
Claim(t, content) ==
  /\ ring' = Append(ring, content)
  /\ slot' = [slot EXCEPT ![t] = Len(ring) + 1]

Publish(t) ==
  /\ slot[t] <= consumed + Capacity
  /\ published' = published \union {slot[t]}
  /\ slot' = [slot EXCEPT ![t] = 0]
  /\ UNCHANGED <<ring, consumed>>

\* publish_gate(): the minimum over every registered sink, dead ones included.
Aggregate(tbl) == Min({threshold[s] : s \in tbl} \union {DropAll})

-----------------------------------------------------------------------------
(* Producers *)

\* log() lets the level pass the gate, and formats the message,
Log(p) ==
  /\ Ready /\ Goto(p, "idle", "claim")
  /\ Use("logs", MaxLogs)
  /\ \E level \in Levels : level >= gate /\ slot' = [slot EXCEPT ![p] = level]
  /\ UNCHANGED <<ringVars, running, stopRequested, registryVars, sinkVars,
                 reported, strand, consumerVars, pending, sweepMutex>>

\* then claims a slot for it, whatever the gate is by now.
ClaimEvent(p) ==
  /\ Goto(p, "claim", "publish") /\ Claim(p, slot[p])
  /\ UNCHANGED <<published, consumed, running, stopRequested, registryVars, sinkVars,
                 reported, strand, consumerVars, pending, sweepMutex, used>>

PublishEvent(p) ==
  /\ Goto(p, "publish", "idle") /\ Publish(p)
  /\ UNCHANGED <<running, stopRequested, registryVars, sinkVars, reported, strand,
                 consumerVars, pending, sweepMutex, used>>

-----------------------------------------------------------------------------
(* The registry *)

\* The locked section of add_sink(): swap the table and publish the gate.  A sink is
\* registered once, as its documentation demands: each registration has its own strand.
AddSink(r) ==
  /\ Ready /\ Goto(r, "idle", "bump")
  /\ Use("changes", MaxChanges)
  /\ \E s \in Sinks \ (Registered \union churned) :
       sinks' = sinks \union {s} /\ churned' = churned \union {s}
  /\ gate' = Aggregate(sinks')
  /\ UNCHANGED <<ringVars, running, stopRequested, version, sinkVars, reported, strand,
                 consumerVars, slot, pending, sweepMutex, reconfigured>>

\* Bug: the version is not advanced.
RemoveSinkUnversioned(r) ==
  /\ Ready /\ Goto(r, "idle", "idle")
  /\ Use("changes", MaxChanges)
  /\ \E s \in sinks : sinks' = sinks \ {s} /\ churned' = churned \union {s}
  /\ gate' = Aggregate(sinks')
  /\ UNCHANGED <<ringVars, running, stopRequested, version, sinkVars, reported, strand,
                 consumerVars, slot, pending, sweepMutex, reconfigured>>

RemoveSink(r) ==
  /\ Ready /\ Goto(r, "idle", "bump")
  /\ Use("changes", MaxChanges)
  /\ \E s \in sinks : sinks' = sinks \ {s} /\ churned' = churned \union {s}
  /\ gate' = Aggregate(sinks')
  /\ UNCHANGED <<ringVars, running, stopRequested, version, sinkVars, reported, strand,
                 consumerVars, slot, pending, sweepMutex, reconfigured>>

\* registry_version_ is advanced after the lock is released.
BumpVersion(r) ==
  /\ Goto(r, "bump", "idle")
  /\ version' = version + 1
  /\ UNCHANGED <<ringVars, running, stopRequested, sinks, gate, sinkVars, reported,
                 strand, consumerVars, slot, pending, sweepMutex, used>>

\* set_config() of a sink publishes its threshold; only a sweep moves the gate.
SetConfig(r) ==
  /\ Ready /\ pc[r] = "idle"
  /\ Use("changes", MaxChanges)
  /\ \E s \in Sinks, level \in Levels :
       /\ threshold' = [threshold EXCEPT ![s] = level]
       /\ reconfigured' = reconfigured \union {s}
  /\ UNCHANGED <<churned, ringVars, running, stopRequested, registryVars, status, failures, waiting,
                 undelivered, written, reported, strand, consumerVars, threadVars, sweepMutex>>

-----------------------------------------------------------------------------
(* The consumer thread *)

CGoto(from, to) == cpc = from /\ cpc' = to

\* Go on with the sinks that are left, or back to the top of the loop.
Visit(tbl) ==
  /\ todo' = tbl
  /\ IF tbl = {} THEN cpc' = "loop" /\ batch' = NoBatch
     ELSE cpc' = "dispatch" /\ UNCHANGED batch

\* registry_version_ is read before the snapshot, when the loop starts and again
\* before each dispatch, where an unchanged version skips the lock.
ReadVersion ==
  /\ seenVersion' = version
  /\ \/ CGoto("version", "snapshot") /\ UNCHANGED <<todo, batch>>
     \/ /\ cpc = "recheck"
        /\ IF version = seenVersion THEN Visit(table)
           ELSE cpc' = "resnapshot" /\ UNCHANGED <<todo, batch>>
  /\ UNCHANGED table

Snapshot ==
  /\ table' = sinks
  /\ \/ CGoto("snapshot", "loop") /\ UNCHANGED <<todo, batch>>
     \/ cpc = "resnapshot" /\ Visit(sinks)
  /\ UNCHANGED seenVersion

\* get_published_sequence(next_seq): the end of the contiguous published prefix.
Available ==
  CHOOSE n \in consumed .. Len(ring) :
    (consumed + 1) .. n \subseteq published /\ n + 1 \notin published

\* Bug: the next batch starts at the last event of this one.
CollectOverlaps ==
  LET seen == (consumed + 1) .. Available
      ends == {n \in seen : ring[n] = Shutdown}
      last == IF ends = {} THEN Available ELSE Min(ends) - 1
  IN /\ running /\ cpc = "loop" /\ seen # {}
     /\ consumed' = IF ends = {} THEN last ELSE last + 1
     /\ running' = (ends = {})
     /\ batch' = IF last > consumed
                 THEN [op |-> "batch", from |-> Max({consumed, 1}), to |-> last]
                 ELSE NoBatch
     /\ cpc' = IF last > consumed THEN "recheck" ELSE "loop"
     /\ UNCHANGED <<ring, published, table, seenVersion, todo>>

\* Move the available events out of the ring, up to the sentinel, and release them.
Collect ==
  LET seen == (consumed + 1) .. Available
      ends == {n \in seen : ring[n] = Shutdown}
      last == IF ends = {} THEN Available ELSE Min(ends) - 1
  IN /\ running /\ cpc = "loop" /\ seen # {}
     /\ consumed' = IF ends = {} THEN last ELSE last + 1
     /\ running' = (ends = {})
     /\ batch' = IF last > consumed THEN [op |-> "batch", from |-> consumed + 1, to |-> last]
                 ELSE NoBatch
     /\ cpc' = IF last > consumed THEN "recheck" ELSE "loop"
     /\ UNCHANGED <<ring, published, table, seenVersion, todo>>

Events(b) == b.from .. b.to
Size(b) == b.to - b.from + 1
Post(s, task) == strand' = [strand EXCEPT ![s] = Append(@, task)]

\* One sink of the table: skipped below its threshold, counted when dead, else posted.
Dispatch ==
  /\ cpc = "dispatch"
  /\ \E s \in todo :
       /\ Visit(todo \ {s})
       /\ LET accepted == \E n \in Events(batch) : ring[n] >= threshold[s] IN
          /\ undelivered' = IF accepted /\ status[s] = "Dead"
                            THEN [undelivered EXCEPT ![s] = @ + Size(batch)]
                            ELSE undelivered
          /\ IF accepted /\ status[s] # "Dead" THEN Post(s, batch) ELSE UNCHANGED strand
  /\ UNCHANGED <<table, seenVersion, threshold, status, failures, waiting, written>>

\* Nothing is published: wait_for() returns only when something is.
Wait ==
  /\ \/ running /\ Available = consumed /\ CGoto("loop", "wait")
     \/ Available > consumed /\ CGoto("wait", "loop")
  /\ UNCHANGED <<table, seenVersion, batch, todo>>

ConsumerExit ==
  /\ ~running /\ CGoto("loop", "exited")
  /\ UNCHANGED <<table, seenVersion, batch, todo>>

ConsumerStep ==
  /\ \/ Collect /\ UNCHANGED <<sinkVars, strand>>
     \/ Dispatch /\ UNCHANGED <<ringVars, running>>
     \/ /\ ReadVersion \/ Snapshot \/ Wait \/ ConsumerExit
        /\ UNCHANGED <<ringVars, running, sinkVars, strand>>
  /\ UNCHANGED <<stopRequested, registryVars, reported, threadVars, sweepMutex, used>>

-----------------------------------------------------------------------------
(* The sinks, on their strands *)

\* Once the owned pool is joined nothing posted later runs.
ExecutorUp == ~OwnedPool \/ \A c \in Closers : pc[c] # "closed"

Pop(s) == strand[s] # <<>> /\ strand' = [strand EXCEPT ![s] = Tail(@)]
Task(s) == Head(strand[s])

\* fail(): note_failure() allows the first retry at once and delays the later ones.
Fail(s, to) ==
  /\ Use("faults", MaxFaults)
  /\ failures' = [failures EXCEPT ![s] = @ + 1]
  /\ waiting' = IF failures[s] = 0 THEN waiting \ {s} ELSE waiting \union {s}
  /\ status' = [status EXCEPT ![s] = to]

\* note_success() and set_status(Healthy), at the end of open_stream().
Recover(s) ==
  /\ failures' = [failures EXCEPT ![s] = 0]
  /\ waiting' = waiting \ {s}
  /\ status' = [status EXCEPT ![s] = "Healthy"]
  /\ UNCHANGED used

\* The loop of process_batch() writes the events of a batch that pass the threshold, in
\* the order of the batch, up to the one that fails.
Write(s, upTo) ==
  written' = [written EXCEPT ![s] =
                Append(@, {n \in Task(s).from .. upTo : ring[n] >= threshold[s]})]

Lose(s, n) == undelivered' = [undelivered EXCEPT ![s] = @ + n]

\* Bug: only the event that failed is counted, not the rest of its batch.
ProcessBatchCountsOne(s) ==
  /\ Pop(s) /\ Task(s).op = "batch"
  /\ \/ status[s] = "Dead" /\ Lose(s, Size(Task(s)))
        /\ UNCHANGED <<status, failures, waiting, written, used>>
     \/ /\ status[s] # "Dead"
        /\ \/ \E n \in Events(Task(s)) : ring[n] >= threshold[s]
                /\ Fail(s, "Dead") /\ Write(s, n - 1) /\ Lose(s, 1)
           \/ /\ Write(s, Task(s).to) /\ UNCHANGED undelivered
              /\ UNCHANGED <<status, failures, waiting, used>>

\* process_batch(): dead since the post, died on an event, or written whole and then
\* rotate_if_needed(), whose outcome is to do nothing, to succeed or to degrade.
ProcessBatch(s) ==
  /\ Pop(s) /\ Task(s).op = "batch"
  /\ \/ status[s] = "Dead" /\ Lose(s, Size(Task(s)))
        /\ UNCHANGED <<status, failures, waiting, written, used>>
     \/ /\ status[s] # "Dead"
        /\ \/ \E n \in Events(Task(s)) : ring[n] >= threshold[s]
                /\ Fail(s, "Dead") /\ Write(s, n - 1) /\ Lose(s, Task(s).to - n + 1)
           \/ /\ Write(s, Task(s).to) /\ UNCHANGED undelivered
              /\ \/ UNCHANGED <<status, failures, waiting, used>>
                 \/ s \notin waiting /\ (Recover(s) \/ Fail(s, "Degraded"))

\* maintain(): looks at the deadline again, then reopens a dead sink or rotates, which
\* does nothing while the file is short or has its timestamp from this second.
Maintain(s) ==
  /\ Pop(s) /\ Task(s).op = "maintain"
  /\ \/ s \in waiting /\ UNCHANGED <<status, failures, waiting, used>>
     \/ s \notin waiting /\ Recover(s)
     \/ s \notin waiting /\ Fail(s, IF status[s] = "Dead" THEN "Dead" ELSE "Degraded")
     \/ status[s] # "Dead" /\ UNCHANGED <<status, failures, waiting, used>>
  /\ UNCHANGED <<undelivered, written>>

\* Bug: a dead sink does not count down.
FlushSinkUnlessDead(s) ==
  /\ Pop(s) /\ Task(s).op = "flush"
  /\ pending' = IF status[s] = "Dead" THEN pending
                ELSE [pending EXCEPT ![Task(s).by] = @ \ {s}]
  /\ UNCHANGED <<sinkVars, used>>

\* flush() on behalf of shutdown() counts the sink down in the closer.
FlushSink(s) ==
  /\ Pop(s) /\ Task(s).op = "flush"
  /\ pending' = [pending EXCEPT ![Task(s).by] = @ \ {s}]
  /\ UNCHANGED <<sinkVars, used>>

StrandStep(s) ==
  /\ ExecutorUp
  /\ \/ (ProcessBatch(s) \/ Maintain(s)) /\ UNCHANGED <<threshold, pending>>
     \/ FlushSink(s)
  /\ UNCHANGED <<ringVars, running, stopRequested, registryVars, reported, consumerVars,
                 pc, slot, sweepMutex>>

\* The steady clock reaches the retry deadline of a sink.
DeadlinePasses(s) ==
  /\ s \in waiting /\ waiting' = waiting \ {s}
  /\ UNCHANGED <<ringVars, running, stopRequested, registryVars, threshold, status, failures,
                 undelivered, written, reported, strand, consumerVars, threadVars, sweepMutex, used>>

-----------------------------------------------------------------------------
(* sweep_once(), by the janitor and by callers of sweep() *)

\* The janitor's interval has passed and no stop is requested, or sweep() is called.
SweepBegin(t) ==
  /\ Ready /\ Goto(t, "idle", "lock")
  /\ t = Janitor => ~stopRequested
  /\ \A s \in Sinks :
       Cardinality({i \in DOMAIN strand[s] : strand[s][i].op = "maintain"}) < MaxMaintain
  /\ IF t = Janitor THEN UNCHANGED used ELSE Use("changes", MaxChanges)
  /\ UNCHANGED <<ringVars, running, stopRequested, registryVars, sinkVars, reported, strand,
                 consumerVars, slot, pending, sweepMutex>>

\* Lock sweep_mutex_ and republish the gate from the registry.
SweepGate(t) ==
  /\ ~sweepMutex /\ sweepMutex' = TRUE
  /\ Goto(t, "lock", "sweep")
  /\ gate' = Aggregate(sinks)
  /\ UNCHANGED <<ringVars, running, stopRequested, sinks, version, sinkVars, reported, strand,
                 consumerVars, slot, pending, used>>

\* report_transitions(): what has changed since the last sweep looked.
ReportTransitions(t) ==
  /\ Goto(t, "sweep", "post")
  /\ pending' = [pending EXCEPT ![t] = {s \in sinks : reported[s] # status[s]}]
  /\ reported' = [s \in Sinks |-> IF s \in sinks THEN status[s] ELSE reported[s]]
  /\ UNCHANGED <<ringVars, running, stopRequested, registryVars, sinkVars, strand,
                 consumerVars, slot, sweepMutex, used>>

PostTo(set, task) ==
  strand' = [s \in Sinks |-> IF s \in set THEN Append(strand[s], task) ELSE strand[s]]

\* Bug: dead sinks are left alone.
DueDegradedOnly == {s \in sinks : status[s] = "Degraded" /\ s \notin waiting}

\* The sinks a sweep asks to recover.
Due == {s \in sinks : status[s] # "Healthy" /\ s \notin waiting}

\* The sweep ends when every transition is reported.
AfterReports(left) == IF left = {} THEN "idle" ELSE "report"

\* Post maintain() to the sinks that are due, and unlock.
PostMaintains(t) ==
  /\ Goto(t, "post", AfterReports(pending[t])) /\ sweepMutex' = FALSE
  /\ PostTo(Due, [op |-> "maintain"])
  /\ UNCHANGED <<ringVars, running, stopRequested, registryVars, sinkVars, reported,
                 consumerVars, slot, pending, used>>

\* default_error_report(): through the ring when some sink would take it, else stderr.
Report(t) ==
  /\ pc[t] = "report"
  /\ \E s \in pending[t] : pending' = [pending EXCEPT ![t] = @ \ {s}]
  /\ IF \E s \in sinks : status[s] # "Dead" /\ threshold[s] <= MaxLevel
     THEN Goto(t, "report", "publish_report") /\ Claim(t, MaxLevel)
     ELSE Goto(t, "report", AfterReports(pending'[t])) /\ UNCHANGED <<ring, slot>>
  /\ UNCHANGED <<published, consumed, running, stopRequested, registryVars, sinkVars,
                 reported, strand, consumerVars, sweepMutex, used>>

PublishReport(t) ==
  /\ Goto(t, "publish_report", AfterReports(pending[t])) /\ Publish(t)
  /\ UNCHANGED <<running, stopRequested, registryVars, sinkVars, reported, strand,
                 consumerVars, pending, sweepMutex, used>>

JanitorExit ==
  /\ stopRequested /\ Goto(Janitor, "idle", "exited")
  /\ UNCHANGED <<ringVars, running, stopRequested, registryVars, sinkVars, reported, strand,
                 consumerVars, slot, pending, sweepMutex, used>>

SweepStep(t) ==
  \/ SweepBegin(t) \/ SweepGate(t) \/ ReportTransitions(t) \/ PostMaintains(t)
  \/ Report(t) \/ PublishReport(t)

-----------------------------------------------------------------------------
(* start_threads() and shutdown() *)

\* The janitor starts, or health_check_interval is zero and there is none.
StartJanitor ==
  /\ \E there \in {"idle", "exited"} :
       pc[Constructor] = "start"
         /\ pc' = [pc EXCEPT ![Constructor] = "ready", ![Janitor] = there]
  /\ UNCHANGED <<ringVars, running, slot>>

\* Starting the janitor throws: the consumer is stopped as by shutdown().
StartJanitorFails ==
  /\ Goto(Constructor, "start", "send") /\ Claim(Constructor, Shutdown)
  /\ running' = FALSE
  /\ UNCHANGED <<published, consumed>>

\* shutdown() returns at once when running_ is already false.
CheckRunning(c) ==
  /\ Ready /\ Goto(c, "idle", IF running THEN "join_janitor" ELSE "returned")
  /\ stopRequested' = (stopRequested \/ running)
  /\ UNCHANGED <<ringVars, running, strand, slot, pending>>

JoinJanitor(c) ==
  /\ pc[Janitor] = "exited" /\ Goto(c, "join_janitor", "send")
  /\ Claim(c, Shutdown)
  /\ UNCHANGED <<published, consumed, running, stopRequested, strand, pending>>

SendSentinel(t) ==
  /\ Goto(t, "send", "join_consumer") /\ Publish(t)

\* Bug: the flushes are posted before the consumer has posted the last batch.
PostFlushesEarly(c) ==
  /\ Goto(c, "join_consumer", "drain")
  /\ pending' = [pending EXCEPT ![c] = sinks]
  /\ PostTo(sinks, [op |-> "flush", by |-> c])
  /\ UNCHANGED <<ringVars, running, stopRequested, slot>>

\* The consumer is joined, then a flush is posted to every registered sink.
PostFlushes(c) ==
  /\ cpc = "exited" /\ Goto(c, "join_consumer", "drain")
  /\ pending' = [pending EXCEPT ![c] = sinks]
  /\ PostTo(sinks, [op |-> "flush", by |-> c])
  /\ UNCHANGED <<ringVars, running, stopRequested, slot>>

\* All flushes have run, and the owned pool, if any, is joined.
Close(c) ==
  /\ pending[c] = {} /\ Goto(c, "drain", "closed")
  /\ OwnedPool => \A s \in Sinks : strand[s] = <<>>
  /\ running' = FALSE
  /\ UNCHANGED <<ringVars, stopRequested, strand, slot, pending>>

CloserStep(c) ==
  /\ \/ CheckRunning(c) \/ JoinJanitor(c) \/ PostFlushes(c) \/ Close(c)
     \/ SendSentinel(c) /\ UNCHANGED <<running, stopRequested, strand, pending>>
  /\ UNCHANGED <<registryVars, sinkVars, reported, consumerVars, sweepMutex, used>>

ConstructorThrows ==
  /\ cpc = "exited" /\ Goto(Constructor, "join_consumer", "threw")
  /\ UNCHANGED <<ringVars, running, slot>>

ConstructorStep ==
  /\ \/ StartJanitor \/ StartJanitorFails \/ ConstructorThrows
     \/ SendSentinel(Constructor) /\ UNCHANGED running
  /\ UNCHANGED <<stopRequested, registryVars, sinkVars, reported, strand, consumerVars,
                 pending, sweepMutex, used>>

-----------------------------------------------------------------------------
RegistryStep(r) == AddSink(r) \/ RemoveSink(r) \/ SetConfig(r)

\* What the logger and its executor do by themselves.
Work ==
  \/ ConsumerStep \/ JanitorExit \/ ConstructorStep
  \/ \E p \in Producers : ClaimEvent(p) \/ PublishEvent(p)
  \/ \E s \in Sinks : StrandStep(s) \/ DeadlinePasses(s)
  \/ \E r \in Registrars : BumpVersion(r)
  \/ \E t \in Registrars \union {Janitor} : SweepStep(t)
  \/ \E c \in Closers : CloserStep(c)
  \/ \E p \in Producers : Log(p)

Next ==
  \/ Work /\ UNCHANGED history
  \/ \E r \in Registrars : RegistryStep(r)

Spec == Init /\ [][Next]_vars

\* The threads, the executor and the clock make progress; nobody has to call the logger.
Fairness ==
  /\ WF_vars(ConsumerStep /\ UNCHANGED history)
  /\ WF_vars((SweepStep(Janitor) \/ JanitorExit) /\ UNCHANGED history)
  /\ WF_vars(ConstructorStep /\ UNCHANGED history)
  /\ \A p \in Producers : WF_vars((ClaimEvent(p) \/ PublishEvent(p)) /\ UNCHANGED history)
  /\ \A s \in Sinks : WF_vars(StrandStep(s) /\ UNCHANGED history)
  /\ \A s \in Sinks : WF_vars(DeadlinePasses(s) /\ UNCHANGED history)
  /\ \A r \in Registrars : WF_vars(BumpVersion(r) /\ UNCHANGED history)
  /\ \A r \in Registrars : WF_vars(pc[r] # "idle" /\ SweepStep(r) /\ UNCHANGED history)
  /\ \A c \in Closers : WF_vars(pc[c] # "idle" /\ CloserStep(c) /\ UNCHANGED history)

FairSpec == Spec /\ Fairness

-----------------------------------------------------------------------------
(* Properties *)

Statuses == {"Healthy", "Degraded", "Dead"}

\* Every variable has its type; the consumer never runs past what is published.
TypeOK ==
  /\ ring \in Seq(Levels \union {Shutdown})
  /\ published \subseteq 1 .. Len(ring) /\ 1 .. consumed \subseteq published
  /\ running \in BOOLEAN /\ stopRequested \in BOOLEAN /\ sweepMutex \in BOOLEAN
  /\ sinks \subseteq Sinks /\ version \in Nat /\ gate \in Levels \union {DropAll}
  /\ threshold \in [Sinks -> Levels] /\ status \in [Sinks -> Statuses]
  /\ reported \in [Sinks -> Statuses] /\ waiting \subseteq Sinks
  /\ undelivered \in [Sinks -> Nat] /\ failures \in [Sinks -> Nat]
  /\ table \subseteq Sinks /\ todo \subseteq table /\ seenVersion \in 0 .. version
  /\ pending \in [Threads -> SUBSET Sinks]

\* The consumer's cached version is never newer than its table: once a registry change
\* is complete, an unchanged version means an unchanged table, so no sink is missed or
\* kept for ever by the check that skips the lock.
TableFresh ==
  (/\ cpc \in {"loop", "wait", "recheck", "dispatch"}
   /\ seenVersion = version
   /\ \A r \in Registrars : pc[r] # "bump")
  => table = sinks

\* add_sink(), remove_sink() and the sweeps never revert the gate: while no
\* configuration is replaced it is the minimum over the current registry.
GateMatches == reconfigured = {} => gate = Aggregate(sinks)

\* The lock-free copies of the registry (the consumer's table, the gate) agree with
\* it whenever nobody is in the middle of changing it.
RegistryCoherent == TypeOK /\ TableFresh /\ GateMatches

\* The sinks a registrar has never touched.
Settled == Registered \ (churned \union reconfigured)

\* The event is in a batch that has not reached s yet.
InFlight(s, n) ==
  \/ \E i \in DOMAIN strand[s] : strand[s][i].op = "batch" /\ n \in Events(strand[s][i])
  \/ n \in Events(batch) /\ (cpc \in {"recheck", "resnapshot"} \/ (cpc = "dispatch" /\ s \in todo))

Lost(s) ==
  {n \in 1 .. consumed :
     /\ ring[n] # Shutdown /\ ring[n] >= threshold[s]
     /\ ~InFlight(s, n)
     /\ \A i \in DOMAIN written[s] : n \notin written[s][i]}

\* No event disappears silently: what a sink accepts and has not written is on its way
\* or counted by undelivered().
LossesCounted == \A s \in Settled : Cardinality(Lost(s)) <= undelivered[s]

\* Each sink writes each event at most once and in the order of the claims: what it
\* writes of one batch comes before all that it writes of a later one.
WrittenInOrder ==
  \A s \in Sinks : \A i, j \in DOMAIN written[s] :
    i < j => \A m \in written[s][i], n \in written[s][j] : m < n

\* When shutdown() has returned, no registered sink has a batch left to process.
ShutdownDrains ==
  (\E c \in Closers : pc[c] = "closed") =>
    \A s \in (IF OwnedPool THEN Sinks ELSE Settled), n \in 1 .. consumed : ~InFlight(s, n)

\* shutdown() returns whatever the janitor, the sinks and the producers are doing.
ShutdownReturns == \A c \in Closers : (pc[c] = "join_janitor") ~> (pc[c] = "closed")

\* A constructor that fails does not hang on the consumer it has started.
ConstructorEnds == <>(pc[Constructor] \in {"ready", "threw"})

\* Construction and shutdown end, whatever fails or races them.
LifecycleEnds == ShutdownReturns /\ ConstructorEnds

\* A replaced configuration reaches the gate with a later sweep of the janitor.
GateCatchesUp ==
  (gate # Aggregate(sinks)) ~> (gate = Aggregate(sinks) \/ pc[Janitor] = "exited")

\* A dead sink that stays registered is retried until it recovers.
DeadSinkRetried ==
  \A s \in Sinks : (status[s] = "Dead") ~> (status[s] # "Dead" \/ s \notin sinks \/ pc[Janitor] = "exited")

\* While it runs, the janitor repairs what went stale: the gate and dead sinks.
JanitorRepairs == GateCatchesUp /\ DeadSinkRetried
=============================================================================
