------------------------------- MODULE Server -------------------------------
(***************************************************************************)
(* albatross::Server with its listeners, their accept loops, connection    *)
(* trackers and deadline sweeps, and the coroutine of every connection.    *)
(*                                                                         *)
(* The thread that owns the server runs setup(), waits and destroys it, as *)
(* run_standalone() does; other threads, handlers and observers call       *)
(* stop().  Everything else is a coroutine on one of the injected          *)
(* executors, each driven by one thread: a step is one turn of a coroutine *)
(* (between two co_awaits), one atomic operation of stop() or one critical *)
(* section.  What the code dispatches to another executor (the stop        *)
(* signal of an accept loop, the cancel() of a connection) is a set of     *)
(* pending turns.  Time is a deadline that may pass at any moment.         *)
(***************************************************************************)
EXTENDS Integers, FiniteSets

CONSTANTS
    Listeners,     \* listeners_
    TlsListeners,  \* the TlsListeners among them
    QuicListeners, \* the QuicListeners: a scaffold that accepts nothing
    Conns,         \* clients that may connect, each once
    Stoppers,      \* threads, handlers and observers that call stop() once
    Observers,     \* the number of observers_
    MaxErrors,     \* consecutive accept errors are counted up to this bound
    NoListener,
    NoConn

ASSUME ServerSizes ==
    /\ IsFiniteSet(Listeners)
    /\ IsFiniteSet(Conns)
    /\ Observers \in Nat
    /\ NoConn \notin Conns

VARIABLES
    state,         \* state_
    stopRequested, \* stop_requested_
    owner,         \* where the owning thread is
    stopper,       \* caller -> where it is in stop()
    shutdown,      \* where graceful_shutdown() is
    faulted,       \* a wait of graceful_shutdown() threw
    readied,       \* observers whose on_setup_complete() has returned
    released,      \* observers whose on_shutdown_started() was awaited
    acceptor,      \* listener -> "closed" or "listening"
    loop,          \* listener -> where run() is
    errors,        \* listener -> consecutive_errors
    accepted,      \* listener -> the connection async_accept has produced
    emits,         \* listeners whose stop signal is dispatched, not yet emitted
    cancelled,     \* listeners whose run() sees a cancellation
    live,          \* live_accept_loops_
    conn,          \* connection -> where its serve coroutine is
    home,          \* connection -> the listener that accepted it
    entries,       \* the connections in the trackers' entries lists
    inFlight,      \* listener -> in_flight of its tracker
    deadline,      \* connection -> "none", "armed" or "passed"
    kills,         \* connections whose cancel() is dispatched
    closed,        \* connections whose stream cancel() has closed
    drained,       \* listeners drain_until() is finished with
    drainOver,     \* drain_timeout has passed
    driven         \* the executors are driven by their threads

serverVars == <<state, stopRequested, owner, stopper, driven>>
shutdownVars == <<shutdown, faulted, readied, released, drained, drainOver, emits>>
loopVars == <<acceptor, loop, errors, accepted, cancelled, live>>
connVars == <<conn, home, entries, inFlight, deadline, kills, closed>>
vars == <<serverVars, shutdownVars, loopVars, connVars>>

States == {"build", "starting", "running", "stopping", "stopped"}

\* Where a connection's coroutine may be parked in a read under a deadline.
Reading == {"idle", "header", "body"}

Init ==
    /\ state = "build"
    /\ stopRequested = FALSE
    /\ owner = "build"
    /\ stopper = [s \in Stoppers |-> "ready"]
    /\ shutdown = "none"
    /\ faulted = FALSE
    /\ readied = 0
    /\ released = 0
    /\ acceptor = [l \in Listeners |-> "closed"]
    /\ loop = [l \in Listeners |-> "none"]
    /\ errors = [l \in Listeners |-> 0]
    /\ accepted = [l \in Listeners |-> NoConn]
    /\ emits = {}
    /\ cancelled = {}
    /\ live = 0
    /\ conn = [c \in Conns |-> "none"]
    /\ home = [c \in Conns |-> NoListener]
    /\ entries = {}
    /\ inFlight = [l \in Listeners |-> 0]
    /\ deadline = [c \in Conns |-> "none"]
    /\ kills = {}
    /\ closed = {}
    /\ drained = {}
    /\ drainOver = FALSE
    /\ driven = TRUE

\* total_in_flight() = 0: the sum of what every tracker counts.
NoneInFlight == \A l \in Listeners : inFlight[l] = 0

-----------------------------------------------------------------------------
(* setup(), by the owner *)

\* Without a listener or with a route conflict setup() throws at once; else
\* every listener is bound, whether or not others fail.  QuicListener::bind()
\* does nothing.
Bind ==
    /\ owner = "build"
    /\ state = "build"
    /\ \/ /\ \E failing \in SUBSET (Listeners \ QuicListeners) :
                acceptor' = [l \in Listeners |->
                                IF l \in QuicListeners \union failing THEN "closed" ELSE "listening"]
          /\ owner' = "bound"
       \/ /\ owner' = "failed"
          /\ UNCHANGED acceptor
    /\ UNCHANGED <<state, stopRequested, stopper, driven, loop, errors, accepted, cancelled,
                   live, shutdownVars, connVars>>

\* One failed bind() makes setup() throw and clears listeners_, which closes
\* the acceptors that were bound.
CheckBound ==
    /\ owner = "bound"
    /\ IF \A l \in Listeners \ QuicListeners : acceptor[l] = "listening"
       THEN /\ owner' = "barrier"
            /\ state' = "starting"
            /\ UNCHANGED acceptor
       ELSE /\ owner' = "failed"
            /\ acceptor' = [l \in Listeners |-> "closed"]
            /\ UNCHANGED state
    /\ UNCHANGED <<stopRequested, stopper, driven, loop, errors, accepted, cancelled,
                   live, shutdownVars, connVars>>

\* notify_setup_observers(), awaited: one observer after another; a throw is
\* passed to on_unhandled_exception and the next observer is notified.
NotifySetupObserver ==
    /\ owner = "barrier"
    /\ driven
    /\ readied < Observers
    /\ readied' = readied + 1
    /\ UNCHANGED <<serverVars, shutdown, faulted, released, drained, drainOver, emits,
                   loopVars, connVars>>

\* Bug: the loops are spawned without waiting for the observers.
NoBarrier ==
    /\ owner = "barrier"
    /\ live' = Cardinality(Listeners)
    /\ owner' = "spawn"
    /\ UNCHANGED <<state, stopRequested, stopper, driven, shutdownVars,
                   acceptor, loop, errors, accepted, cancelled, connVars>>

BarrierPassed ==
    /\ owner = "barrier"
    /\ readied = Observers
    /\ live' = Cardinality(Listeners)
    /\ owner' = "spawn"
    /\ UNCHANGED <<state, stopRequested, stopper, driven, shutdownVars,
                   acceptor, loop, errors, accepted, cancelled, connVars>>

SpawnLoop(l) ==
    /\ owner = "spawn"
    /\ loop[l] = "none"
    /\ loop' = [loop EXCEPT ![l] = "spawned"]
    /\ UNCHANGED <<serverVars, shutdownVars, acceptor, errors, accepted, cancelled, live,
                   connVars>>

Publish ==
    /\ owner = "spawn"
    /\ \A l \in Listeners : loop[l] # "none"
    /\ state' = "running"
    /\ owner' = "check"
    /\ UNCHANGED <<stopRequested, stopper, driven, shutdownVars, loopVars, connVars>>

\* stop_requested_.exchange(false)
CheckStopRequested ==
    /\ owner = "check"
    /\ owner' = IF stopRequested THEN "stop" ELSE "serving"
    /\ stopRequested' = FALSE
    /\ UNCHANGED <<state, stopper, driven, shutdownVars, loopVars, connVars>>

-----------------------------------------------------------------------------
(* stop() and the life of the owner after setup() *)

\* The compare-exchange from running to stopping; begin_shutdown() spawns
\* graceful_shutdown() on the control executor.
BeginShutdown ==
    /\ state' = "stopping"
    /\ shutdown' = "signal"

\* The first compare-exchange: a no-op before setup() and after another stop().
Stop(s) ==
    /\ stopper[s] = "ready"
    /\ owner # "destroyed"
    /\ \/ /\ state = "running"
          /\ BeginShutdown
          /\ stopper' = [stopper EXCEPT ![s] = "done"]
       \/ /\ state # "running"
          /\ stopper' = [stopper EXCEPT ![s] = IF state = "starting" THEN "latch" ELSE "done"]
          /\ UNCHANGED <<state, shutdown>>
    /\ UNCHANGED <<stopRequested, owner, driven, faulted, readied, released, drained,
                   drainOver, emits, loopVars, connVars>>

Latch(s) ==
    /\ stopper[s] = "latch"
    /\ stopRequested' = TRUE
    /\ stopper' = [stopper EXCEPT ![s] = "recheck"]
    /\ UNCHANGED <<state, owner, driven, shutdownVars, loopVars, connVars>>

\* Bug: stop() trusts the latch alone.
NoRecheck(s) ==
    /\ stopper[s] = "recheck"
    /\ stopper' = [stopper EXCEPT ![s] = "done"]
    /\ UNCHANGED <<state, stopRequested, owner, driven, shutdownVars, loopVars, connVars>>

\* The second compare-exchange: setup() may have looked at the latch already.
Recheck(s) ==
    /\ stopper[s] = "recheck"
    /\ stopper' = [stopper EXCEPT ![s] = "done"]
    /\ \/ /\ state = "running"
          /\ BeginShutdown
          /\ stopRequested' = FALSE
       \/ /\ state # "running"
          /\ UNCHANGED <<state, shutdown, stopRequested>>
    /\ UNCHANGED <<owner, driven, faulted, readied, released, drained, drainOver,
                   emits, loopVars, connVars>>

\* The owner's own stop(), from the tail of setup() or from ~Server().
OwnerStop ==
    /\ owner \in {"stop", "dtor"}
    /\ owner' = IF owner = "stop" THEN "serving" ELSE "dtorWait"
    /\ \/ /\ state = "running"
          /\ BeginShutdown
       \/ /\ state # "running"
          /\ UNCHANGED <<state, shutdown>>
    /\ UNCHANGED <<stopRequested, stopper, driven, faulted, readied, released, drained,
                   drainOver, emits, loopVars, connVars>>

\* wait_until_stopped() takes the mutex that phase 5 holds until it has
\* notified; shutdown = "latched" is that critical section.
WaitUntilStopped ==
    /\ owner \in {"serving", "dtorWait"}
    /\ shutdown # "latched"
    /\ state \in {"build", "stopped"}
    /\ owner' = IF owner = "serving" THEN "waited" ELSE "destroyed"
    /\ UNCHANGED <<state, stopRequested, stopper, driven, shutdownVars, loopVars, connVars>>

\* async_wait_stopped() polls state_ without the mutex.
AsyncWaitStopped ==
    /\ owner = "serving"
    /\ state \in {"build", "stopped"}
    /\ owner' = "waited"
    /\ UNCHANGED <<state, stopRequested, stopper, driven, shutdownVars, loopVars, connVars>>

\* run_standalone(): stop_all() after the wait, or when setup() threw; it
\* joins the threads, so that no turn is under way.
StopExecutors ==
    /\ owner \in {"waited", "failed"}
    /\ driven
    /\ shutdown # "latched"
    /\ driven' = FALSE
    /\ UNCHANGED <<state, stopRequested, owner, stopper, shutdownVars, loopVars, connVars>>

\* ~Server(): at once when nothing runs, else stop() and wait.
Destroy ==
    /\ owner \in {"serving", "waited", "failed"}
    /\ owner' = IF state \in {"build", "stopped"} THEN "destroyed" ELSE "dtor"
    /\ UNCHANGED <<state, stopRequested, stopper, driven, shutdownVars, loopVars, connVars>>

-----------------------------------------------------------------------------
(* graceful_shutdown() *)

Executors == driven

\* Phase 1: the stop signals are dispatched to the loops' executors.
SignalLoops ==
    /\ Executors
    /\ shutdown = "signal"
    /\ emits' = Listeners
    /\ shutdown' = "loops"
    /\ UNCHANGED <<serverVars, faulted, readied, released, drained, drainOver, loopVars, connVars>>

\* Bug: the loops are signalled and not waited for.
LoopsNotAwaited ==
    /\ Executors
    /\ shutdown = "loops"
    /\ shutdown' = "drain"
    /\ UNCHANGED <<serverVars, faulted, readied, released, drained, drainOver, emits, loopVars, connVars>>

\* Phase 1.5: until live_accept_loops_ is zero.
LoopsEnded ==
    /\ Executors
    /\ shutdown = "loops"
    /\ live = 0
    /\ shutdown' = "drain"
    /\ UNCHANGED <<serverVars, faulted, readied, released, drained, drainOver, emits, loopVars, connVars>>

\* The deadline that all listeners share.
DrainTimeout ==
    /\ Executors
    /\ shutdown = "drain"
    /\ ~drainOver
    /\ drainOver' = TRUE
    /\ UNCHANGED <<serverVars, shutdown, faulted, readied, released, drained, emits, loopVars, connVars>>

\* Phase 2, drain_until() of one listener after another (the order does not
\* matter): at zero or at the deadline, cancel() is dispatched to whatever is
\* still in the entries list.
DrainUntil(l) ==
    /\ Executors
    /\ shutdown = "drain"
    /\ l \notin drained
    /\ inFlight[l] = 0 \/ drainOver
    /\ kills' = kills \union {c \in entries : home[c] = l}
    /\ drained' = drained \union {l}
    /\ UNCHANGED <<serverVars, shutdown, faulted, readied, released, drainOver, emits, loopVars,
                   conn, home, entries, inFlight, deadline, closed>>

\* Bug: draining is taken for unwinding.
UnwindSkipped ==
    /\ Executors
    /\ shutdown = "drain"
    /\ drained = Listeners
    /\ shutdown' = "observers"
    /\ UNCHANGED <<serverVars, faulted, readied, released, drained, drainOver, emits, loopVars, connVars>>

\* Phase 2.5: until every tracker handle is released.
Unwound ==
    /\ Executors
    /\ shutdown = "drain"
    /\ drained = Listeners
    /\ NoneInFlight
    /\ shutdown' = "observers"
    /\ UNCHANGED <<serverVars, faulted, readied, released, drained, drainOver, emits, loopVars, connVars>>

\* Phase 3: on_shutdown_started() of every observer is awaited; a throw is
\* passed on and the next is notified.
NotifyShutdownObserver ==
    /\ Executors
    /\ shutdown = "observers"
    /\ released < Observers
    /\ released' = released + 1
    /\ UNCHANGED <<serverVars, shutdown, faulted, readied, drained, drainOver, emits, loopVars, connVars>>

\* Phase 4 notifies the completion to the observers without suspending, and
\* phase 5 publishes it: latched under the mutex, state_ stored before the
\* notification.
LatchStopped ==
    /\ Executors
    /\ \/ shutdown = "observers" /\ released = Observers
       \/ shutdown = "threw"
    /\ state' = "stopped"
    /\ shutdown' = "latched"
    /\ UNCHANGED <<stopRequested, owner, stopper, driven, faulted, readied, released,
                   drained, drainOver, emits, loopVars, connVars>>

\* notify_all() and the unlock, the coroutine's last use of the server.
NotifyStopped ==
    /\ shutdown = "latched"
    /\ shutdown' = "done"
    /\ UNCHANGED <<serverVars, faulted, readied, released, drained, drainOver, emits, loopVars, connVars>>

\* A wait of phases 1.5 to 2.5 throws; completion is published all the same.
ShutdownThrows ==
    /\ Executors
    /\ shutdown \in {"loops", "drain"}
    /\ shutdown' = "threw"
    /\ faulted' = TRUE
    /\ UNCHANGED <<serverVars, readied, released, drained, drainOver, emits, loopVars, connVars>>

-----------------------------------------------------------------------------
(* Listener::run(), one accept loop per listener *)

LoopOnly(l, to) ==
    /\ loop' = [loop EXCEPT ![l] = to]
    /\ UNCHANGED <<serverVars, shutdownVars, connVars>>

\* The top of the loop looks at the cancellation state.
Top(l) == IF l \in cancelled THEN "leaving" ELSE "accepting"

\* The stop signal, emitted on the loop's own executor.
Emit(l) ==
    /\ Executors
    /\ l \in emits
    /\ emits' = emits \ {l}
    /\ cancelled' = cancelled \union {l}
    /\ UNCHANGED <<serverVars, shutdown, faulted, readied, released, drained, drainOver,
                   acceptor, loop, errors, accepted, live, connVars>>

\* start_sweep() and the first async_accept; QuicListener::run() returns.
RunLoop(l) ==
    /\ Executors
    /\ loop[l] = "spawned"
    /\ LoopOnly(l, IF l \in QuicListeners THEN "leaving" ELSE Top(l))
    /\ UNCHANGED <<acceptor, errors, accepted, cancelled, live>>

\* async_accept completes with a connection; run() resumes in a later turn.
Accept(l, c) ==
    /\ loop[l] = "accepting"
    /\ acceptor[l] = "listening"
    /\ l \notin cancelled
    /\ conn[c] = "none"
    /\ \A k \in Listeners : accepted[k] # c
    /\ LoopOnly(l, "accepted")
    /\ accepted' = [accepted EXCEPT ![l] = c]
    /\ UNCHANGED <<acceptor, errors, cancelled, live>>

\* register_connection() and co_spawn of the serve coroutine.
Register(l) ==
    /\ Executors
    /\ loop[l] = "accepted"
    /\ LET c == accepted[l] IN
        /\ conn' = [conn EXCEPT ![c] = "spawned"]
        /\ home' = [home EXCEPT ![c] = l]
        /\ entries' = entries \union {c}
    /\ inFlight' = [inFlight EXCEPT ![l] = @ + 1]
    /\ accepted' = [accepted EXCEPT ![l] = NoConn]
    /\ errors' = [errors EXCEPT ![l] = 0]
    /\ loop' = [loop EXCEPT ![l] = Top(l)]
    /\ UNCHANGED <<serverVars, shutdownVars, acceptor, cancelled, live, deadline, kills, closed>>

\* A transient error: retried at once twice, then after a growing delay.
AcceptError(l) ==
    /\ Executors
    /\ loop[l] = "accepting"
    /\ errors[l] < MaxErrors
    /\ errors' = [errors EXCEPT ![l] = @ + 1]
    /\ LoopOnly(l, IF errors[l] >= 2 THEN "backoff" ELSE Top(l))
    /\ UNCHANGED <<acceptor, accepted, cancelled, live>>

\* The delay ends or is cancelled.
BackoffEnds(l) ==
    /\ Executors
    /\ loop[l] = "backoff"
    /\ LoopOnly(l, Top(l))
    /\ UNCHANGED <<acceptor, errors, accepted, cancelled, live>>

\* operation_aborted, or an error that makes the acceptor useless.
AcceptEnds(l) ==
    /\ Executors
    /\ loop[l] = "accepting"
    /\ LoopOnly(l, "leaving")
    /\ UNCHANGED <<acceptor, errors, accepted, cancelled, live>>

\* Every way out of run() closes the acceptor; the completion handler counts
\* the loop down.
LoopEnds(l) ==
    /\ Executors
    /\ loop[l] = "leaving"
    /\ LoopOnly(l, "ended")
    /\ acceptor' = [acceptor EXCEPT ![l] = "closed"]
    /\ live' = live - 1
    /\ errors' = [errors EXCEPT ![l] = 0]
    /\ UNCHANGED <<accepted, cancelled>>

-----------------------------------------------------------------------------
(* The coroutine of one connection, its deadline and its cancellation *)

ConnTo(c, to, d) ==
    /\ Executors
    /\ conn' = [conn EXCEPT ![c] = to]
    /\ deadline' = [deadline EXCEPT ![c] = d]
    /\ UNCHANGED <<serverVars, shutdownVars, loopVars, home, entries, inFlight, kills, closed>>

\* The coroutine's first turn: a TLS handshake under the stream's own timeout,
\* or the driver's wait for the first request under the idle deadline.
ServeStarts(c) ==
    /\ conn[c] = "spawned"
    /\ IF home[c] \in TlsListeners
       THEN ConnTo(c, "handshake", "none")
       ELSE ConnTo(c, "idle", "armed")

\* handshake() succeeds and a driver for the negotiated protocol serves, or it
\* fails, times out, or no driver matches.
HandshakeEnds(c) ==
    /\ conn[c] = "handshake"
    /\ \/ c \notin closed /\ ConnTo(c, "idle", "armed")
       \/ ConnTo(c, "closing", "none")

\* Part of a message arrives: the phase deadline replaces the one in force,
\* once per phase.
PartArrives(c) ==
    /\ c \notin closed
    /\ \/ conn[c] = "idle" /\ ConnTo(c, "header", "armed")
       \/ conn[c] \in {"idle", "header"} /\ ConnTo(c, "body", "armed")

\* The message is complete; the deadline in force also covers the handler.
RequestArrives(c) ==
    /\ c \notin closed
    /\ conn[c] \in Reading
    /\ ConnTo(c, "dispatch", deadline[c])

\* End of stream, a malformed message, a transport error, or an aborted read.
\* Responses held back, that to the malformed message included, are flushed.
ReadEnds(c) ==
    /\ conn[c] \in Reading
    /\ \/ ConnTo(c, "flush", deadline[c])
       \/ ConnTo(c, "closing", deadline[c])

\* The write behind the loop ends, its error is swallowed.
Flushed(c) ==
    /\ conn[c] = "flush"
    /\ ConnTo(c, "closing", deadline[c])

\* The handler does not see the cancellation of its connection.
HandlerReturns(c) ==
    /\ conn[c] = "dispatch"
    /\ ConnTo(c, "write", deadline[c])

\* The response is written and the next request awaited, or the connection
\* is not kept alive.
Written(c) ==
    /\ conn[c] = "write"
    /\ \/ c \notin closed /\ ConnTo(c, "idle", "armed")
       \/ ConnTo(c, "closing", deadline[c])

\* Handle::release(): the entry goes first, under the lock ...
Release(c) ==
    /\ Executors
    /\ conn[c] = "closing"
    /\ conn' = [conn EXCEPT ![c] = "releasing"]
    /\ entries' = entries \ {c}
    /\ UNCHANGED <<serverVars, shutdownVars, loopVars, home, inFlight, deadline, kills, closed>>

\* ... the count after it; then the frame is gone.
CountDown(c) ==
    /\ Executors
    /\ conn[c] = "releasing"
    /\ conn' = [conn EXCEPT ![c] = "gone"]
    /\ inFlight' = [inFlight EXCEPT ![home[c]] = @ - 1]
    /\ deadline' = [deadline EXCEPT ![c] = "none"]
    /\ UNCHANGED <<serverVars, shutdownVars, loopVars, home, entries, kills, closed>>

DeadlinePasses(c) ==
    /\ deadline[c] = "armed"
    /\ conn[c] \notin {"closing", "releasing", "gone"}
    /\ deadline' = [deadline EXCEPT ![c] = "passed"]
    /\ UNCHANGED <<serverVars, shutdownVars, loopVars, conn, home, entries, inFlight, kills, closed>>

\* Bug: the sweep runs only while connections are being accepted.
SweepWhileAccepting(l) ==
    /\ Executors
    /\ loop[l] = "accepting"
    /\ LET expired == {c \in entries : home[c] = l /\ deadline[c] = "passed"} IN
        /\ expired \ (kills \union closed) # {}
        /\ kills' = kills \union expired
    /\ UNCHANGED <<serverVars, shutdownVars, loopVars, conn, home, entries, inFlight, deadline, closed>>

\* One tick of the sweep: cancel() is dispatched to the connections whose
\* deadline has passed.  Their deadline may move before it runs.
Sweep(l) ==
    /\ Executors
    /\ loop[l] \notin {"none", "spawned"}
    /\ LET expired == {c \in entries : home[c] = l /\ deadline[c] = "passed"} IN
        /\ expired \ (kills \union closed) # {}
        /\ kills' = kills \union expired
    /\ UNCHANGED <<serverVars, shutdownVars, loopVars, conn, home, entries, inFlight, deadline, closed>>

\* cancel(), on the connection's executor: closes the stream for good.
Cancel(c) ==
    /\ Executors
    /\ c \in kills
    /\ kills' = kills \ {c}
    /\ closed' = closed \union {c}
    /\ UNCHANGED <<serverVars, shutdownVars, loopVars, conn, home, entries, inFlight, deadline>>

-----------------------------------------------------------------------------
SetupNext ==
    \/ Bind
    \/ CheckBound
    \/ NotifySetupObserver
    \/ BarrierPassed
    \/ \E l \in Listeners : SpawnLoop(l)
    \/ Publish
    \/ CheckStopRequested

OwnerNext ==
    \/ OwnerStop
    \/ WaitUntilStopped
    \/ AsyncWaitStopped
    \/ StopExecutors
    \/ Destroy

StopNext(s) == Stop(s) \/ Latch(s) \/ Recheck(s)

ShutdownNext ==
    \/ SignalLoops
    \/ LoopsEnded
    \/ DrainTimeout
    \/ \E l \in Listeners : DrainUntil(l)
    \/ Unwound
    \/ NotifyShutdownObserver
    \/ LatchStopped
    \/ NotifyStopped

\* What a loop does by itself; whether clients connect or accept fails is open.
LoopTurn(l) == RunLoop(l) \/ Register(l) \/ BackoffEnds(l) \/ LoopEnds(l)

LoopNext(l) ==
    \/ Emit(l)
    \/ LoopTurn(l)
    \/ \E c \in Conns : Accept(l, c)
    \/ AcceptError(l)
    \/ AcceptEnds(l)
    \/ Sweep(l)

\* What a connection does by itself: the handshake and the handler end, and an
\* operation on a closed stream fails.
ConnTurn(c) ==
    \/ ServeStarts(c)
    \/ HandshakeEnds(c)
    \/ HandlerReturns(c)
    \/ c \in closed /\ (ReadEnds(c) \/ Written(c) \/ Flushed(c))
    \/ Release(c)
    \/ CountDown(c)

ConnNext(c) ==
    \/ Cancel(c)
    \/ ConnTurn(c)
    \/ PartArrives(c)
    \/ RequestArrives(c)
    \/ ReadEnds(c)
    \/ Written(c)
    \/ Flushed(c)
    \/ DeadlinePasses(c)

Next ==
    \/ SetupNext
    \/ OwnerNext
    \/ \E s \in Stoppers : StopNext(s)
    \/ ShutdownNext
    \/ ShutdownThrows
    \/ \E l \in Listeners : LoopNext(l)
    \/ \E c \in Conns : ConnNext(c)

Spec == Init /\ [][Next]_vars

\* The executors are driven and the threads scheduled: setup() and stop() are
\* finished, every coroutine that can run does, timers fire.  Nothing is
\* assumed of the clients (whether they connect, send or read), of the calls
\* of stop(), of failures or of the owner's wish to end.
Fairness ==
    /\ WF_vars(SetupNext)
    /\ WF_vars(OwnerStop)
    /\ \A s \in Stoppers : WF_vars(Latch(s) \/ Recheck(s))
    /\ WF_vars(ShutdownNext)
    /\ \A l \in Listeners :
        /\ WF_vars(Emit(l))
        /\ WF_vars(LoopTurn(l))
        /\ WF_vars(l \in cancelled /\ AcceptEnds(l))
        /\ WF_vars(Sweep(l))
    /\ \A c \in Conns : WF_vars(Cancel(c)) /\ WF_vars(ConnTurn(c))

FairSpec == Spec /\ Fairness

-----------------------------------------------------------------------------
(* Properties *)

\* Some caller's stop() found the server starting or running.
StopAsked ==
    \/ \E s \in Stoppers : stopper[s] \in {"latch", "recheck"}
    \/ owner = "stop"
    \/ state = "stopping"

Gone(c) == conn[c] \in {"none", "gone"}

TypeOK ==
    /\ state \in States
    /\ stopRequested \in BOOLEAN
    /\ readied \in 0 .. Observers
    /\ released \in 0 .. Observers
    /\ acceptor \in [Listeners -> {"closed", "listening"}]
    /\ live \in 0 .. Cardinality(Listeners)
    /\ inFlight \in [Listeners -> 0 .. Cardinality(Conns)]
    /\ entries \subseteq Conns
    /\ kills \subseteq Conns

\* A server that reports itself stopped, or whose setup() threw because a
\* listener could not bind, has left nothing behind that its destruction would
\* pull the ground from under: no accept loop, no listening socket without a
\* loop, no connection whose coroutine has yet to unwind, and observers that
\* have all been told.  (Phase 5 also runs when a wait of the shutdown threw,
\* where the code makes no such promise.)
NothingLeftBehind ==
    /\ TypeOK
    /\ state = "stopped" /\ ~faulted =>
        /\ \A l \in Listeners : loop[l] = "ended" /\ acceptor[l] = "closed"
        /\ \A c \in Conns : Gone(c)
        /\ NoneInFlight
        /\ released = Observers
    /\ owner = "failed" => \A l \in Listeners : acceptor[l] = "closed"
    /\ \A l \in Listeners : loop[l] = "ended" => acceptor[l] = "closed"

\* Requests are served only while what the observers own exists: every
\* connection's coroutine lives between the last on_setup_complete() and the
\* first on_shutdown_started().
ObserverWindow ==
    \A c \in Conns : ~Gone(c) => readied = Observers /\ released = 0

\* Once shutdown has started to drain, new connections are refused: the set of
\* tracked connections only shrinks, so the drain ends.
DrainOnlyShrinks ==
    [][(shutdown \in {"drain", "observers", "latched", "done"} /\ ~faulted)
         => entries' \subseteq entries]_vars

\* A stop() that any thread calls once setup() has published "starting" is
\* honoured, however it races the end of setup() and other callers: the server
\* stops, whatever the clients do.
StopHonoured == StopAsked ~> state = "stopped"

\* A connection that outlives its deadline, parked in a read, a write or the
\* handler, is cancelled and closed, whatever its client does and even when
\* its listener has stopped accepting.
DeadlineEnforced ==
    \A c \in Conns :
        deadline[c] = "passed" /\ conn[c] \in Reading \union {"dispatch", "write", "flush"}
            ~> \/ deadline[c] # "passed"
               \/ conn[c] \in {"closing", "releasing", "gone"}
               \/ ~driven

\* What the comment on phase 5 of graceful_shutdown() claims: the server is
\* not destroyed before the coroutine has left its last critical section.
LastTouch == owner = "destroyed" => shutdown # "latched"

=============================================================================
