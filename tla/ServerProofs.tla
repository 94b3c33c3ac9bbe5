---------------------------- MODULE ServerProofs ----------------------------
(***************************************************************************)
(* Safety of the server's life cycle for every number of listeners,        *)
(* connections, callers of stop() and observers.                           *)
(***************************************************************************)
EXTENDS Server, Arithmetic

\* The accept loops that have not ended, and the connections that a listener's
\* tracker counts.
LiveLoops == {l \in Listeners : loop[l] # "ended"}
TrackedBy(l) == {c \in Conns : home[c] = l /\ ~Gone(c)}

\* Every variable that the argument looks at has its type.
Typed ==
    /\ state \in States
    /\ stopRequested \in BOOLEAN
    /\ faulted \in BOOLEAN
    /\ shutdown \in {"none", "signal", "loops", "drain", "observers", "threw", "latched", "done"}
    /\ readied \in 0 .. Observers
    /\ released \in 0 .. Observers
    /\ acceptor \in [Listeners -> {"closed", "listening"}]
    /\ loop \in [Listeners -> {"none", "spawned", "accepting", "accepted", "backoff", "leaving", "ended"}]
    /\ accepted \in [Listeners -> Conns \union {NoConn}]
    /\ conn \in [Conns -> {"none", "spawned", "handshake", "dispatch", "write", "flush", "closing", "releasing", "gone"}
                             \union Reading]
    /\ home \in [Conns -> Listeners \union {NoListener}]
    /\ inFlight \in [Listeners -> Int]
    /\ kills \subseteq Conns

\* Where the owner and graceful_shutdown() are determines the state.
LifeCycle ==
    /\ owner \in {"barrier", "spawn"} <=> state = "starting"
    /\ owner = "build" => state = "build"
    /\ owner \in {"bound", "failed"} => state = "build"
    /\ owner \in {"check", "stop", "serving", "dtor", "dtorWait"} => state \in {"running", "stopping", "stopped"}
    /\ shutdown = "none" <=> state \in {"build", "starting", "running"}
    /\ shutdown \in {"latched", "done"} <=> state = "stopped"

\* setup() passes its barrier once, and loops exist from then on.
SetupOrder ==
    /\ state = "build" \/ owner = "barrier" => live = 0 /\ \A l \in Listeners : loop[l] = "none"
    /\ ~(state = "build" \/ owner = "barrier") =>
        readied = Observers /\ live = Cardinality(LiveLoops)
    /\ state \notin {"build", "starting"} => \A l \in Listeners : loop[l] # "none"
    /\ \A l \in Listeners : acceptor[l] = "listening" => (state # "build" \/ owner = "bound") /\ loop[l] # "ended"

\* A connection is accepted by one loop, tracked by one listener, and listed
\* until its handle is released.
ConnsTracked ==
    /\ \A l \in Listeners : loop[l] = "accepted" <=> accepted[l] # NoConn
    /\ \A l \in Listeners : accepted[l] # NoConn => conn[accepted[l]] = "none"
    /\ \A k, l \in Listeners : k # l /\ accepted[k] = accepted[l] => accepted[k] = NoConn
    /\ \A c \in Conns : conn[c] # "none" => home[c] \in Listeners /\ loop[home[c]] # "none"
    /\ \A l \in Listeners : inFlight[l] = Cardinality(TrackedBy(l))
    /\ entries = {c \in Conns : conn[c] \notin {"none", "releasing", "gone"}}

\* What each phase of graceful_shutdown() has waited for stays true after it,
\* unless a wait threw: that skips the observers.
PhasesKept ==
    /\ shutdown = "threw" => faulted
    /\ faulted => shutdown \in {"threw", "latched", "done"}
    /\ released > 0 => shutdown \in {"observers", "latched", "done"} /\ ~faulted
    /\ shutdown \in {"drain", "observers", "latched", "done"} /\ ~faulted => LiveLoops = {}
    /\ shutdown \in {"observers", "latched", "done"} /\ ~faulted => \A c \in Conns : Gone(c)
    /\ shutdown \in {"latched", "done"} /\ ~faulted => released = Observers

IInv == Typed /\ LifeCycle /\ SetupOrder /\ ConnsTracked /\ PhasesKept

-----------------------------------------------------------------------------
(* The counts *)

\* They are finite, so that a count of zero means that nobody is left.
LEMMA Finiteness ==
    /\ IsFiniteSet(LiveLoops) /\ Cardinality(LiveLoops) \in 0 .. Cardinality(Listeners)
    /\ Cardinality(LiveLoops) = 0 => LiveLoops = {}
    /\ \A l \in Listeners :
        /\ IsFiniteSet(TrackedBy(l)) /\ Cardinality(TrackedBy(l)) \in 0 .. Cardinality(Conns)
        /\ Cardinality(TrackedBy(l)) = 0 => TrackedBy(l) = {}
<1>1. LiveLoops \in SUBSET Listeners /\ \A l \in Listeners : TrackedBy(l) \in SUBSET Conns
  BY Zenon DEF LiveLoops, TrackedBy
<1>2. Cardinality(Listeners) \in Nat /\ Cardinality(Conns) \in Nat
  BY Zenon, ServerSizes, FS_CardinalityType
<1>3. IsFiniteSet(LiveLoops) /\ Cardinality(LiveLoops) <= Cardinality(Listeners)
  BY Zenon, <1>1, ServerSizes, FS_Subset
<1>4. \A l \in Listeners : IsFiniteSet(TrackedBy(l)) /\ Cardinality(TrackedBy(l)) <= Cardinality(Conns)
  BY Zenon, <1>1, ServerSizes, FS_Subset
<1>5. Cardinality(LiveLoops) \in Nat /\ \A l \in Listeners : Cardinality(TrackedBy(l)) \in Nat
  BY Zenon, <1>3, <1>4, FS_CardinalityType
<1>6. Cardinality(LiveLoops) = 0 => LiveLoops = {}
  BY Zenon, <1>3, FS_EmptySet
<1>7. \A l \in Listeners : Cardinality(TrackedBy(l)) = 0 => TrackedBy(l) = {}
  BY Zenon, <1>4, FS_EmptySet
<1> QED
  BY <1>2, <1>3, <1>4, <1>5, <1>6, <1>7

LEMMA InitInv == Init => IInv
<1> SUFFICES ASSUME Init PROVE IInv
  OBVIOUS
<1>1. Typed
  <2>1. 0 \in 0 .. Observers
    BY ServerSizes
  <2>2. stopRequested \in BOOLEAN /\ faulted \in BOOLEAN
    BY Zenon DEF Init
  <2> QED BY <2>1, <2>2 DEF Init, Typed, States, Reading
<1>2. LifeCycle /\ SetupOrder
  BY Zenon DEF Init, LifeCycle, SetupOrder
<1>3. \A l \in Listeners : TrackedBy(l) = {}
  BY Zenon DEF Init, TrackedBy, Gone
<1>4. \A l \in Listeners : inFlight[l] = Cardinality(TrackedBy(l))
  BY Zenon, <1>3, FS_EmptySet DEF Init
<1>5. ConnsTracked
  BY Zenon, <1>4 DEF Init, ConnsTracked
<1>6. PhasesKept
  BY DEF Init, PhasesKept
<1> QED
  BY Zenon, <1>1, <1>2, <1>5, <1>6 DEF IInv

-----------------------------------------------------------------------------
(* setup(), stop() and graceful_shutdown() *)

\* What these steps leave alone.
ConnsStill == UNCHANGED <<loop, accepted, conn, home, entries, inFlight>>

LEMMA StillFrame ==
    ASSUME ConnsTracked, ConnsStill
    PROVE  /\ ConnsTracked' /\ LiveLoops' = LiveLoops
           /\ \A l \in Listeners : TrackedBy(l)' = TrackedBy(l)
           /\ \A c \in Conns : Gone(c)' <=> Gone(c)
<1>1. /\ LiveLoops' = LiveLoops
      /\ \A l \in Listeners : TrackedBy(l)' = TrackedBy(l)
      /\ \A c \in Conns : Gone(c)' <=> Gone(c)
  BY Zenon DEF ConnsStill, LiveLoops, TrackedBy, Gone
<1>2. ConnsTracked'
  BY Zenon, <1>1 DEF ConnsStill, ConnsTracked
<1> QED
  BY Zenon, <1>1, <1>2

\* setup() keeps the invariant.
LEMMA SetupStep ==
    ASSUME IInv, SetupNext
    PROVE  IInv'
<1> USE DEF IInv
<1>1. CASE Bind
  <2>1. ConnsStill
    BY Zenon, <1>1 DEF Bind, ConnsStill, connVars
  <2>2. Typed'
    BY Zenon, <1>1 DEF Bind, Typed, connVars, shutdownVars, States
  <2>3. LifeCycle' /\ SetupOrder'
    BY Zenon, <1>1, <2>1 DEF Bind, LifeCycle, SetupOrder, Typed, connVars, shutdownVars, ConnsStill
  <2>4. PhasesKept'
    BY Zenon, <1>1, <2>1, StillFrame DEF Bind, PhasesKept, shutdownVars
  <2> QED BY Zenon, <2>1, <2>2, <2>3, <2>4, StillFrame
<1>2. CASE NotifySetupObserver
  <2>1. ConnsStill
    BY Zenon, <1>2 DEF NotifySetupObserver, ConnsStill, connVars, loopVars
  <2>2. Typed'
    BY <1>2, ServerSizes DEF NotifySetupObserver, Typed, connVars, loopVars, serverVars
  <2>3. LifeCycle' /\ SetupOrder'
    BY Zenon, <1>2 DEF NotifySetupObserver, LifeCycle, SetupOrder, loopVars, serverVars
  <2>4. PhasesKept'
    BY Zenon, <1>2, <2>1, StillFrame DEF NotifySetupObserver, PhasesKept
  <2> QED BY Zenon, <2>1, <2>2, <2>3, <2>4, StillFrame
<1>3. CASE BarrierPassed
  <2>1. ConnsStill
    BY Zenon, <1>3 DEF BarrierPassed, ConnsStill, connVars
  <2>2. Typed'
    BY Zenon, <1>3 DEF BarrierPassed, Typed, connVars, shutdownVars
  <2>3. LiveLoops' = Listeners
    BY Zenon, <1>3, <2>1 DEF BarrierPassed, SetupOrder, LiveLoops, ConnsStill
  <2>4. LifeCycle' /\ SetupOrder'
    BY Zenon, <1>3, <2>3 DEF BarrierPassed, LifeCycle, SetupOrder, shutdownVars
  <2>5. PhasesKept'
    BY Zenon, <1>3, <2>1, StillFrame DEF BarrierPassed, PhasesKept, shutdownVars
  <2> QED BY Zenon, <2>1, <2>2, <2>4, <2>5, StillFrame
<1>4. ASSUME NEW l \in Listeners, SpawnLoop(l) PROVE IInv'
  <2>1. Typed'
    BY Zenon, <1>4 DEF SpawnLoop, Typed, connVars, serverVars, shutdownVars
  <2>2. LiveLoops' = LiveLoops
    BY Zenon, <1>4 DEF SpawnLoop, LiveLoops, Typed
  <2>3. LifeCycle' /\ SetupOrder'
    BY Zenon, <1>4, <2>2 DEF SpawnLoop, LifeCycle, SetupOrder, Typed, serverVars, shutdownVars
  <2>4. (\A k \in Listeners : TrackedBy(k)' = TrackedBy(k)) /\ (\A c \in Conns : Gone(c)' <=> Gone(c))
    BY Zenon, <1>4 DEF SpawnLoop, connVars, TrackedBy, Gone
  <2>5. ConnsTracked'
    BY <1>4, <2>4 DEF SpawnLoop, ConnsTracked, Typed, connVars
  <2>6. PhasesKept'
    BY Zenon, <1>4, <2>2, <2>4 DEF SpawnLoop, PhasesKept, shutdownVars
  <2> QED BY Zenon, <2>1, <2>3, <2>5, <2>6
<1>5. CASE Publish
  <2>1. ConnsStill
    BY Zenon, <1>5 DEF Publish, ConnsStill, connVars, loopVars
  <2>2. Typed'
    BY Zenon, <1>5 DEF Publish, Typed, connVars, loopVars, shutdownVars, States
  <2>3. LifeCycle' /\ SetupOrder'
    BY Zenon, <1>5, <2>1, StillFrame DEF Publish, LifeCycle, SetupOrder, loopVars, shutdownVars
  <2>4. PhasesKept'
    BY Zenon, <1>5, <2>1, StillFrame DEF Publish, PhasesKept, shutdownVars
  <2> QED BY Zenon, <2>1, <2>2, <2>3, <2>4, StillFrame
<1>6. CASE CheckStopRequested
  <2>1. ConnsStill
    BY Zenon, <1>6 DEF CheckStopRequested, ConnsStill, connVars, loopVars
  <2>2. Typed'
    BY Zenon, <1>6 DEF CheckStopRequested, Typed, connVars, loopVars, shutdownVars
  <2>3. LifeCycle' /\ SetupOrder'
    BY Zenon, <1>6, <2>1, StillFrame DEF CheckStopRequested, LifeCycle, SetupOrder, loopVars, shutdownVars
  <2>4. PhasesKept'
    BY Zenon, <1>6, <2>1, StillFrame DEF CheckStopRequested, PhasesKept, shutdownVars
  <2> QED BY Zenon, <2>1, <2>2, <2>3, <2>4, StillFrame
<1>7. CASE CheckBound
  <2>1. ConnsStill
    BY Zenon, <1>7 DEF CheckBound, ConnsStill, connVars
  <2>2. Typed'
    BY Zenon, <1>7 DEF CheckBound, Typed, connVars, shutdownVars, States
  <2>3. LifeCycle' /\ SetupOrder'
    BY Zenon, <1>7, <2>1 DEF CheckBound, LifeCycle, SetupOrder, Typed, connVars, shutdownVars, ConnsStill
  <2>4. PhasesKept'
    BY Zenon, <1>7, <2>1, StillFrame DEF CheckBound, PhasesKept, shutdownVars
  <2> QED BY Zenon, <2>1, <2>2, <2>3, <2>4, StillFrame
<1> QED
  BY Zenon, <1>1, <1>2, <1>3, <1>4, <1>5, <1>6, <1>7 DEF SetupNext

\* A call of stop() or a step of the owner's life after setup() keeps the invariant.
LEMMA OwnerStep ==
    ASSUME IInv, OwnerNext \/ \E s \in Stoppers : StopNext(s)
    PROVE  IInv'
<1> USE DEF IInv
<1>1. /\ ConnsStill
      /\ UNCHANGED <<faulted, readied, released, acceptor, live, kills>>
      /\ \/ UNCHANGED <<state, shutdown>>
         \/ state = "running" /\ BeginShutdown
  BY Zenon DEF OwnerNext, StopNext, Stop, Latch, Recheck, OwnerStop, WaitUntilStopped, AsyncWaitStopped, StopExecutors,
         Destroy, ConnsStill, shutdownVars, loopVars, connVars
<1>2. stopRequested' \in BOOLEAN
  BY Zenon DEF Typed, OwnerNext, StopNext, Stop, Latch, Recheck, OwnerStop, WaitUntilStopped, AsyncWaitStopped,
         StopExecutors, Destroy
<1>3. Typed'
  BY Zenon, <1>1, <1>2 DEF Typed, ConnsStill, BeginShutdown, States
<1>4. LifeCycle'
  BY Zenon, <1>1 DEF Typed, LifeCycle, BeginShutdown, OwnerNext, StopNext, Stop, Latch, Recheck, OwnerStop,
              WaitUntilStopped, AsyncWaitStopped, StopExecutors, Destroy, States
<1>5. ((owner = "barrier") = (owner' = "barrier")) /\ ((owner = "bound") = (owner' = "bound"))
  BY Zenon DEF OwnerNext, StopNext, Stop, Latch, Recheck, OwnerStop, WaitUntilStopped, AsyncWaitStopped, StopExecutors,
         Destroy
<1>6. SetupOrder'
  BY Zenon, <1>1, <1>5, StillFrame DEF SetupOrder, BeginShutdown, ConnsStill
<1>7. PhasesKept'
  BY Zenon, <1>1, StillFrame DEF LifeCycle, PhasesKept, BeginShutdown, Typed
<1> QED
  BY Zenon, <1>1, <1>3, <1>4, <1>6, <1>7, StillFrame

\* graceful_shutdown() keeps the invariant.
LEMMA ShutdownStep ==
    ASSUME IInv, ShutdownNext \/ ShutdownThrows
    PROVE  IInv'
<1> USE DEF IInv
<1>1. /\ ConnsStill
      /\ UNCHANGED <<stopRequested, owner, readied, acceptor, live>>
  BY Zenon DEF ShutdownNext, ShutdownThrows, SignalLoops, LoopsEnded, DrainTimeout, DrainUntil, Unwound,
         NotifyShutdownObserver, LatchStopped, NotifyStopped, ConnsStill, serverVars, loopVars, connVars
<1>2. CASE UNCHANGED <<state, shutdown, faulted, released>> /\ kills' \subseteq Conns
  BY Zenon, <1>1, <1>2, StillFrame DEF Typed, LifeCycle, SetupOrder, PhasesKept, ConnsStill
<1>3. CASE SignalLoops \/ LoopsEnded \/ Unwound \/ NotifyStopped
  <2>1. UNCHANGED <<state, faulted, released, kills>>
    BY Zenon, <1>3 DEF SignalLoops, LoopsEnded, Unwound, NotifyStopped, serverVars, connVars
  <2>2. Typed' /\ LifeCycle' /\ SetupOrder'
    BY Zenon, <1>1, <1>3, <2>1, StillFrame
       DEF Typed, LifeCycle, SetupOrder, ConnsStill, SignalLoops, LoopsEnded, Unwound, NotifyStopped
  <2>3. LoopsEnded => LiveLoops = {}
    BY Zenon, Finiteness DEF LoopsEnded, LifeCycle, SetupOrder
  <2>4. Unwound => \A c \in Conns : Gone(c)
    <3>1. SUFFICES ASSUME Unwound, NEW c \in Conns, ~Gone(c) PROVE FALSE
      OBVIOUS
    <3>2. home[c] \in Listeners /\ c \in TrackedBy(home[c])
      BY Zenon, <3>1 DEF ConnsTracked, TrackedBy, Gone
    <3>3. Cardinality(TrackedBy(home[c])) = 0
      BY Zenon, <3>1, <3>2 DEF Unwound, NoneInFlight, ConnsTracked
    <3> QED BY Zenon, <3>2, <3>3, Finiteness
  <2>5. PhasesKept'
    BY Zenon, <1>1, <1>3, <2>1, <2>3, <2>4, StillFrame DEF PhasesKept, SignalLoops, LoopsEnded, Unwound, NotifyStopped
  <2> QED BY Zenon, <1>1, <2>2, <2>5, StillFrame
<1>4. CASE NotifyShutdownObserver
  <2>1. UNCHANGED <<state, shutdown, faulted, kills>> /\ released' \in 0 .. Observers
    BY <1>4, ServerSizes DEF NotifyShutdownObserver, Typed, serverVars, connVars
  <2>2. Typed' /\ LifeCycle' /\ SetupOrder'
    BY Zenon, <1>1, <2>1, StillFrame DEF Typed, LifeCycle, SetupOrder, ConnsStill
  <2>3. PhasesKept'
    BY <1>1, <1>4, <2>1, StillFrame DEF PhasesKept, NotifyShutdownObserver
  <2> QED BY Zenon, <1>1, <2>2, <2>3, StillFrame
<1>5. CASE LatchStopped
  <2>1. UNCHANGED <<released, faulted, kills>> /\ state' = "stopped" /\ shutdown' = "latched"
    BY Zenon, <1>5 DEF LatchStopped, connVars
  <2>2. Typed' /\ LifeCycle' /\ SetupOrder'
    BY Zenon, <1>1, <1>5, <2>1, StillFrame DEF Typed, LifeCycle, SetupOrder, ConnsStill, LatchStopped, States
  <2>3. PhasesKept'
    BY <1>1, <1>5, <2>1, StillFrame DEF PhasesKept, LatchStopped
  <2> QED BY Zenon, <1>1, <2>2, <2>3, StillFrame
<1>6. CASE ShutdownThrows
  <2>1. UNCHANGED <<state, released, kills>> /\ shutdown' = "threw" /\ faulted' = TRUE
    BY Zenon, <1>6 DEF ShutdownThrows, serverVars, connVars
  <2>2. Typed' /\ LifeCycle' /\ SetupOrder'
    BY Zenon, <1>1, <1>6, <2>1, StillFrame DEF Typed, LifeCycle, SetupOrder, ConnsStill, ShutdownThrows
  <2>3. PhasesKept'
    BY Zenon, <1>1, <1>6, <2>1, StillFrame DEF PhasesKept, ShutdownThrows, Typed
  <2> QED BY Zenon, <1>1, <2>2, <2>3, StillFrame
<1>7. DrainTimeout \/ (\E l \in Listeners : DrainUntil(l))
        => UNCHANGED <<state, shutdown, faulted, released>> /\ kills' \subseteq Conns
  BY Zenon DEF DrainTimeout, DrainUntil, serverVars, connVars, Typed, ConnsTracked
<1> QED
  BY Zenon, <1>2, <1>3, <1>4, <1>5, <1>6, <1>7 DEF ShutdownNext

-----------------------------------------------------------------------------
(* Accept loops and connections *)

\* What these steps leave alone.
ControlStill == UNCHANGED <<state, stopRequested, owner, shutdown, faulted, readied, released>>

\* A loop that goes on in its own turns.
LoopMoves(l, to) ==
    /\ loop[l] \in {"spawned", "accepting", "backoff", "leaving"}
    /\ loop' = [loop EXCEPT ![l] = to]
    /\ UNCHANGED <<accepted, conn, home, entries, inFlight, kills>>

\* A step of a loop that neither accepts nor registers keeps the invariant.
LEMMA LoopFrame ==
    ASSUME IInv, ControlStill, NEW l \in Listeners,
           \/ \E to \in {"spawned", "accepting", "backoff", "leaving"} :
                 LoopMoves(l, to) /\ UNCHANGED <<acceptor, live>>
           \/ /\ LoopMoves(l, "ended")
              /\ acceptor' = [acceptor EXCEPT ![l] = "closed"]
              /\ live' = live - 1
    PROVE  IInv'
<1> USE DEF IInv
<1>1. loop[l] \in {"spawned", "accepting", "backoff", "leaving"} /\ loop' = [loop EXCEPT ![l] = loop'[l]]
      /\ loop'[l] \in {"spawned", "accepting", "backoff", "leaving", "ended"}
      /\ UNCHANGED <<accepted, conn, home, entries, inFlight, kills>>
  BY Zenon DEF LoopMoves, Typed
<1>2. Typed'
  BY <1>1 DEF Typed, ControlStill
<1>3. LifeCycle'
  BY Zenon DEF LifeCycle, ControlStill
<1>4. (\A k \in Listeners : TrackedBy(k)' = TrackedBy(k)) /\ (\A c \in Conns : Gone(c)' <=> Gone(c))
  BY Zenon, <1>1 DEF TrackedBy, Gone
<1>5. ConnsTracked'
  BY <1>1, <1>4 DEF ConnsTracked, Typed
<1>6. l \in LiveLoops /\ ~(state = "build" \/ owner = "barrier")
  BY Zenon, <1>1 DEF LiveLoops, SetupOrder
<1>7. CASE loop'[l] # "ended"
  <2>1. LiveLoops' = LiveLoops
    BY Zenon, <1>1, <1>7 DEF LiveLoops, Typed
  <2>2. UNCHANGED <<acceptor, live>>
    BY Zenon, <1>7 DEF LoopMoves, Typed
  <2>3. SetupOrder'
    BY Zenon, <1>1, <1>7, <2>1, <2>2 DEF SetupOrder, ControlStill, Typed
  <2>4. PhasesKept'
    BY Zenon, <1>4, <2>1 DEF PhasesKept, ControlStill
  <2> QED BY Zenon, <1>2, <1>3, <1>5, <2>3, <2>4
<1>8. CASE loop'[l] = "ended"
  <2>1. LiveLoops' = LiveLoops \ {l}
    BY Zenon, <1>1, <1>8 DEF LiveLoops, Typed
  <2>2. acceptor' = [acceptor EXCEPT ![l] = "closed"] /\ live' = live - 1
    BY Zenon, <1>8 DEF LoopMoves, Typed
  <2>3. live' = Cardinality(LiveLoops')
    BY Zenon, <1>6, <2>1, <2>2, Finiteness, OneLess DEF SetupOrder
  <2>4. SetupOrder'
    BY Zenon, <1>1, <1>6, <1>8, <2>2, <2>3 DEF SetupOrder, ControlStill, Typed
  <2>5. PhasesKept'
    BY Zenon, <1>4, <2>1 DEF PhasesKept, ControlStill
  <2> QED BY Zenon, <1>2, <1>3, <1>5, <2>4, <2>5
<1> QED
  BY Zenon, <1>7, <1>8

\* async_accept produces a connection that no other loop has.
LEMMA AcceptStep ==
    ASSUME IInv, NEW l \in Listeners, NEW c \in Conns, Accept(l, c)
    PROVE  IInv'
<1> USE DEF IInv
<1>1. ControlStill /\ UNCHANGED <<acceptor, live, conn, home, entries, inFlight, kills>>
  BY Zenon DEF Accept, LoopOnly, ControlStill, serverVars, shutdownVars, connVars
<1>2. loop' = [loop EXCEPT ![l] = "accepted"] /\ accepted' = [accepted EXCEPT ![l] = c]
  BY Zenon DEF Accept, LoopOnly
<1>3. Typed' /\ LifeCycle'
  BY Zenon, <1>1, <1>2 DEF Typed, LifeCycle, ControlStill
<1>4. LiveLoops' = LiveLoops /\ (\A k \in Listeners : TrackedBy(k)' = TrackedBy(k))
      /\ (\A d \in Conns : Gone(d)' <=> Gone(d))
  BY Zenon, <1>1, <1>2 DEF LiveLoops, TrackedBy, Gone, Typed, Accept
<1>5. SetupOrder'
  BY Zenon, <1>1, <1>2, <1>4 DEF SetupOrder, ControlStill, Typed, Accept
<1>6. ConnsTracked'
  BY <1>1, <1>2, <1>4, ServerSizes DEF ConnsTracked, Typed, Accept
<1>7. PhasesKept'
  BY Zenon, <1>1, <1>4 DEF PhasesKept, ControlStill
<1> QED
  BY Zenon, <1>3, <1>5, <1>6, <1>7

\* register_connection() counts the connection with the listener of its loop.
LEMMA RegisterStep ==
    ASSUME IInv, NEW l \in Listeners, Register(l)
    PROVE  IInv'
<1> USE DEF IInv
<1> DEFINE c == accepted[l]
<1>1. c \in Conns /\ conn[c] = "none" /\ loop[l] = "accepted"
  BY Zenon DEF Register, ConnsTracked, Typed
<1> HIDE DEF c
<1>2. /\ ControlStill /\ UNCHANGED <<acceptor, live, kills>>
      /\ conn' = [conn EXCEPT ![c] = "spawned"] /\ home' = [home EXCEPT ![c] = l]
      /\ entries' = entries \union {c} /\ inFlight' = [inFlight EXCEPT ![l] = @ + 1]
      /\ accepted' = [accepted EXCEPT ![l] = NoConn] /\ loop' = [loop EXCEPT ![l] = Top(l)]
  BY Zenon DEF c, Register, ControlStill, serverVars, shutdownVars
<1>3. Top(l) \in {"accepting", "leaving"}
  BY Zenon DEF Top
<1>4. Typed' /\ LifeCycle'
  BY <1>1, <1>2, <1>3 DEF Typed, LifeCycle, ControlStill
<1>5. LiveLoops' = LiveLoops /\ l \in LiveLoops
  BY Zenon, <1>1, <1>2, <1>3 DEF LiveLoops, Typed
<1>6. SetupOrder'
  BY Zenon, <1>1, <1>2, <1>3, <1>5 DEF SetupOrder, ControlStill, Typed
<1>7. TrackedBy(l)' = TrackedBy(l) \union {c} /\ c \notin TrackedBy(l)
  BY Zenon, <1>1, <1>2 DEF TrackedBy, Gone, Typed
<1>8. \A k \in Listeners \ {l} : TrackedBy(k)' = TrackedBy(k)
  BY <1>1, <1>2 DEF TrackedBy, Gone, Typed, ConnsTracked
<1>9. \A k \in Listeners : inFlight'[k] = Cardinality(TrackedBy(k)')
  BY <1>2, <1>7, <1>8, Finiteness, OneMore DEF ConnsTracked, Typed
<1>10. ConnsTracked'
  BY <1>1, <1>2, <1>3, <1>9 DEF c, ConnsTracked, Typed
<1>11. PhasesKept'
  BY Zenon, <1>2, <1>5 DEF PhasesKept, ControlStill
<1> QED
  BY Zenon, <1>4, <1>6, <1>10, <1>11

\* Every step of an accept loop or a sweep keeps the invariant.
LEMMA LoopStep ==
    ASSUME IInv, NEW l \in Listeners, LoopNext(l)
    PROVE  IInv'
<1>1. CASE RunLoop(l) \/ BackoffEnds(l) \/ AcceptError(l) \/ AcceptEnds(l)
  BY Zenon, <1>1, LoopFrame
     DEF RunLoop, BackoffEnds, AcceptError, AcceptEnds, LoopOnly, LoopMoves, Top, ControlStill, serverVars,
         shutdownVars, connVars
<1>2. CASE LoopEnds(l)
  BY Zenon, <1>2, LoopFrame DEF LoopEnds, LoopOnly, LoopMoves, ControlStill, serverVars, shutdownVars, connVars
<1>3. CASE Emit(l) \/ Sweep(l)
  <2>1. ControlStill /\ ConnsStill /\ UNCHANGED <<acceptor, live>> /\ kills' \subseteq Conns
    BY Zenon, <1>3 DEF Emit, Sweep, ControlStill, ConnsStill, serverVars, shutdownVars, loopVars, connVars, IInv, Typed,
                ConnsTracked
  <2>2. Typed' /\ LifeCycle' /\ SetupOrder' /\ PhasesKept'
    BY Zenon, <2>1, StillFrame DEF IInv, Typed, LifeCycle, SetupOrder, PhasesKept, ControlStill, ConnsStill
  <2> QED BY Zenon, <2>1, <2>2, StillFrame DEF IInv
<1> QED
  BY Zenon, <1>1, <1>2, <1>3, AcceptStep, RegisterStep DEF LoopNext, LoopTurn

\* A connection's coroutine that goes on without releasing its handle.
LEMMA ConnFrame ==
    ASSUME IInv, ControlStill, NEW c \in Conns, NEW to \in Reading \union {"handshake", "dispatch", "write", "flush", "closing"},
           conn[c] \in Reading \union {"spawned", "handshake", "dispatch", "write", "flush"},
           conn' = [conn EXCEPT ![c] = to],
           UNCHANGED <<loop, accepted, acceptor, live, home, entries, inFlight, kills>>
    PROVE  IInv'
<1> USE DEF IInv
<1>1. \A d \in Conns : (Gone(d)' <=> Gone(d)) /\ (conn'[d] = "none" <=> conn[d] = "none")
      /\ (conn'[d] = "releasing" <=> conn[d] = "releasing") /\ (conn'[d] = "gone" <=> conn[d] = "gone")
  BY Zenon DEF Gone, Reading, Typed
<1>2. LiveLoops' = LiveLoops /\ \A k \in Listeners : TrackedBy(k)' = TrackedBy(k)
  BY Zenon, <1>1 DEF LiveLoops, TrackedBy
<1>3. Typed' /\ LifeCycle' /\ SetupOrder' /\ PhasesKept'
  BY <1>1, <1>2 DEF Typed, LifeCycle, SetupOrder, PhasesKept, ControlStill
<1>4. ConnsTracked'
  BY <1>1, <1>2 DEF ConnsTracked, Typed
<1> QED
  BY Zenon, <1>3, <1>4

\* Handle::release() takes the entry away first and counts down after it.
LEMMA ReleaseStep ==
    ASSUME IInv, NEW c \in Conns, Release(c) \/ CountDown(c)
    PROVE  IInv'
<1> USE DEF IInv
<1>1. ControlStill /\ UNCHANGED <<loop, accepted, acceptor, live, home, kills>> /\ conn[c] \in {"closing", "releasing"}
  BY Zenon DEF Release, CountDown, ControlStill, serverVars, shutdownVars, loopVars
<1>2. LiveLoops' = LiveLoops
  BY Zenon, <1>1 DEF LiveLoops
<1>3. CASE Release(c)
  <2>1. conn' = [conn EXCEPT ![c] = "releasing"] /\ entries' = entries \ {c} /\ UNCHANGED inFlight
    BY Zenon, <1>3 DEF Release
  <2>2. \A d \in Conns : (Gone(d)' <=> Gone(d)) /\ (conn'[d] = "none" <=> conn[d] = "none")
    BY Zenon, <1>1, <2>1 DEF Gone, Typed
  <2>3. \A k \in Listeners : TrackedBy(k)' = TrackedBy(k)
    BY Zenon, <1>1, <2>2 DEF TrackedBy
  <2>4. Typed' /\ LifeCycle' /\ SetupOrder' /\ PhasesKept'
    BY Zenon, <1>1, <1>2, <2>1, <2>2 DEF Typed, LifeCycle, SetupOrder, PhasesKept, ControlStill
  <2>5. ConnsTracked'
    BY <1>1, <2>1, <2>2, <2>3 DEF ConnsTracked, Typed
  <2> QED BY Zenon, <2>4, <2>5
<1>4. CASE CountDown(c)
  <2>1. PICK h \in Listeners : h = home[c] /\ conn[c] = "releasing"
    BY Zenon, <1>4 DEF CountDown, ConnsTracked
  <2>2. /\ conn' = [conn EXCEPT ![c] = "gone"] /\ UNCHANGED entries
        /\ inFlight' = [inFlight EXCEPT ![h] = @ - 1]
    BY Zenon, <1>4, <2>1 DEF CountDown
  <2>3. c \in TrackedBy(h) /\ TrackedBy(h)' = TrackedBy(h) \ {c}
    BY Zenon, <1>1, <2>1, <2>2 DEF TrackedBy, Gone, Typed
  <2>4. \A k \in Listeners \ {h} : TrackedBy(k)' = TrackedBy(k)
    BY Zenon, <1>1, <2>1, <2>2 DEF TrackedBy, Gone, Typed
  <2>5. \A k \in Listeners : inFlight'[k] = Cardinality(TrackedBy(k)')
    BY <2>1, <2>2, <2>3, <2>4, Finiteness, OneLess DEF ConnsTracked, Typed
  <2>6. \A d \in Conns : (Gone(d) => Gone(d)') /\ (conn'[d] = "none" <=> conn[d] = "none")
    BY Zenon, <1>1, <2>2 DEF Gone, Typed
  <2>7. Typed' /\ LifeCycle' /\ SetupOrder' /\ PhasesKept'
    BY <1>1, <1>2, <2>1, <2>2, <2>6 DEF Typed, LifeCycle, SetupOrder, PhasesKept, ControlStill
  <2>8. ConnsTracked'
    BY <1>1, <2>1, <2>2, <2>5, <2>6 DEF ConnsTracked, Typed
  <2> QED BY Zenon, <2>7, <2>8
<1> QED
  BY Zenon, <1>3, <1>4

\* Every step of a connection, its deadline and its cancellation keeps the invariant.
LEMMA ConnStep ==
    ASSUME IInv, NEW c \in Conns, ConnNext(c)
    PROVE  IInv'
<1>1. CASE ServeStarts(c) \/ HandshakeEnds(c) \/ HandlerReturns(c) \/ PartArrives(c) \/ RequestArrives(c)
           \/ ReadEnds(c) \/ Written(c) \/ Flushed(c)
  <2>1. ControlStill /\ UNCHANGED <<loop, accepted, acceptor, live, home, entries, inFlight, kills>>
    BY Zenon, <1>1 DEF ServeStarts, HandshakeEnds, HandlerReturns, PartArrives, RequestArrives, ReadEnds, Written, Flushed, ConnTo,
                ControlStill, serverVars, shutdownVars, loopVars
  <2>2. conn[c] \in Reading \union {"spawned", "handshake", "dispatch", "write", "flush"}
    BY Zenon, <1>1 DEF ServeStarts, HandshakeEnds, HandlerReturns, PartArrives, RequestArrives, ReadEnds, Written, Flushed, Reading
  <2>3. \E to \in Reading \union {"handshake", "dispatch", "write", "flush", "closing"} : conn' = [conn EXCEPT ![c] = to]
    BY Zenon, <1>1 DEF ServeStarts, HandshakeEnds, HandlerReturns, PartArrives, RequestArrives, ReadEnds, Written, Flushed, ConnTo,
                Reading
  <2> QED BY Zenon, <2>1, <2>2, <2>3, ConnFrame
<1>2. CASE Cancel(c) \/ DeadlinePasses(c)
  <2>1. ControlStill /\ ConnsStill /\ UNCHANGED <<acceptor, live>> /\ kills' \subseteq Conns
    BY Zenon, <1>2 DEF Cancel, DeadlinePasses, ControlStill, ConnsStill, serverVars, shutdownVars, loopVars, IInv, Typed
  <2>2. Typed' /\ LifeCycle' /\ SetupOrder' /\ PhasesKept'
    BY Zenon, <2>1, StillFrame DEF IInv, Typed, LifeCycle, SetupOrder, PhasesKept, ControlStill, ConnsStill
  <2> QED BY Zenon, <2>1, <2>2, StillFrame DEF IInv
<1> QED
  BY Zenon, <1>1, <1>2, ReleaseStep DEF ConnNext, ConnTurn

-----------------------------------------------------------------------------
(* The theorems *)

LEMMA InvStep == IInv /\ [Next]_vars => IInv'
<1> SUFFICES ASSUME IInv, [Next]_vars PROVE IInv'
  OBVIOUS
<1>1. CASE UNCHANGED vars
  <2>1. ConnsStill /\ ControlStill /\ UNCHANGED <<acceptor, live, kills>>
    BY Zenon, <1>1 DEF vars, serverVars, shutdownVars, loopVars, connVars, ConnsStill, ControlStill
  <2> QED
    BY Zenon, <2>1, StillFrame DEF IInv, Typed, LifeCycle, SetupOrder, PhasesKept, ControlStill, ConnsStill
<1> QED
  BY Zenon, <1>1, SetupStep, OwnerStep, ShutdownStep, LoopStep, ConnStep DEF Next

\* The inductive invariant of the server: where the owner and the shutdown are
\* determines the state, the counters count the loops and the connections, and
\* what a phase of the shutdown waited for stays true.
THEOREM Invariance == Spec => []IInv
<1>1. Init => IInv
  BY Zenon, InitInv
<1>2. IInv /\ [Next]_vars => IInv'
  BY Zenon, InvStep
<1> QED
  BY <1>1, <1>2, PTL DEF Spec

\* A server that reports itself stopped has no accept loop, no listening socket,
\* no connection and no observer left to tell, whatever races its shutdown.
THEOREM StoppedClean == Spec => []NothingLeftBehind
<1>1. IInv => NothingLeftBehind
  <2> SUFFICES ASSUME IInv PROVE NothingLeftBehind
    OBVIOUS
  <2>1. live \in 0 .. Cardinality(Listeners)
    <3>1. 0 \in 0 .. Cardinality(Listeners)
      BY ServerSizes, FS_CardinalityType
    <3> QED BY Zenon, <3>1, Finiteness DEF IInv, SetupOrder
  <2>2. inFlight \in [Listeners -> 0 .. Cardinality(Conns)]
    BY Finiteness DEF IInv, Typed, ConnsTracked
  <2>3. TypeOK
    BY Zenon, <2>1, <2>2 DEF TypeOK, IInv, Typed, ConnsTracked
  <2>4. ASSUME state = "stopped", ~faulted
        PROVE  /\ \A l \in Listeners : loop[l] = "ended" /\ acceptor[l] = "closed"
               /\ \A c \in Conns : Gone(c)
               /\ NoneInFlight
               /\ released = Observers
    <3>1. LiveLoops = {} /\ (\A c \in Conns : Gone(c)) /\ released = Observers
      BY Zenon, <2>4 DEF IInv, LifeCycle, PhasesKept
    <3>2. \A l \in Listeners : TrackedBy(l) = {}
      BY Zenon, <3>1 DEF TrackedBy
    <3>3. NoneInFlight
      BY Zenon, <3>2, FS_EmptySet DEF NoneInFlight, IInv, ConnsTracked
    <3>4. \A l \in Listeners : loop[l] = "ended" /\ acceptor[l] = "closed"
      BY Zenon, <3>1 DEF LiveLoops, IInv, SetupOrder, Typed
    <3> QED BY Zenon, <3>1, <3>3, <3>4
  <2>5. owner = "failed" => \A l \in Listeners : acceptor[l] = "closed"
    BY Zenon DEF IInv, Typed, LifeCycle, SetupOrder
  <2>6. \A l \in Listeners : loop[l] = "ended" => acceptor[l] = "closed"
    BY Zenon DEF IInv, Typed, SetupOrder
  <2> QED BY Zenon, <2>3, <2>4, <2>5, <2>6 DEF NothingLeftBehind
<1> QED
  BY <1>1, Invariance, PTL

\* Every connection lives between the last on_setup_complete() and the first
\* on_shutdown_started().
THEOREM ObserversCover == Spec => []ObserverWindow
<1>1. IInv => ObserverWindow
  <2> SUFFICES ASSUME IInv, NEW c \in Conns, ~Gone(c) PROVE readied = Observers /\ released = 0
    BY Zenon DEF ObserverWindow
  <2>1. home[c] \in Listeners /\ loop[home[c]] # "none"
    BY Zenon DEF Gone, IInv, ConnsTracked
  <2>2. readied = Observers
    BY Zenon, <2>1 DEF IInv, SetupOrder
  <2>3. released = 0
    BY ServerSizes DEF IInv, Typed, PhasesKept
  <2> QED BY Zenon, <2>2, <2>3
<1> QED
  BY <1>1, Invariance, PTL

\* From the drain on, no connection is added to the trackers.
THEOREM DrainShrinks == Spec => DrainOnlyShrinks
<1> DEFINE Shrinks ==
        (shutdown \in {"drain", "observers", "latched", "done"} /\ ~faulted) => entries' \subseteq entries
<1>1. IInv /\ [Next]_vars => [Shrinks]_vars
  <2> SUFFICES ASSUME IInv, Next, shutdown \in {"drain", "observers", "latched", "done"}, ~faulted
               PROVE  entries' \subseteq entries
    OBVIOUS
  <2>1. \A l \in Listeners : ~Register(l)
    BY Zenon DEF IInv, PhasesKept, LiveLoops, Register
  <2>2. CASE SetupNext \/ OwnerNext \/ ShutdownNext \/ ShutdownThrows \/ \E s \in Stoppers : StopNext(s)
    BY Zenon, <2>2 DEF SetupNext, Bind, CheckBound, NotifySetupObserver, BarrierPassed, SpawnLoop, Publish, CheckStopRequested,
        OwnerNext, OwnerStop, WaitUntilStopped, AsyncWaitStopped, StopExecutors, Destroy, StopNext, Stop, Latch,
        Recheck, ShutdownNext, ShutdownThrows, SignalLoops, LoopsEnded, DrainTimeout, DrainUntil, Unwound,
        NotifyShutdownObserver, LatchStopped, NotifyStopped, connVars
  <2>3. ASSUME NEW l \in Listeners, LoopNext(l) PROVE entries' \subseteq entries
    BY Zenon, <2>1, <2>3 DEF LoopNext, LoopTurn, Emit, RunLoop, BackoffEnds, LoopEnds, Accept, AcceptError, AcceptEnds, Sweep,
        LoopOnly, connVars
  <2>4. ASSUME NEW c \in Conns, ConnNext(c) PROVE entries' \subseteq entries
    BY Zenon, <2>4 DEF ConnNext, ConnTurn, Cancel, ServeStarts, HandshakeEnds, HandlerReturns, PartArrives, RequestArrives,
        ReadEnds, Written, Flushed, Release, CountDown, DeadlinePasses, ConnTo
  <2> QED BY Zenon, <2>2, <2>3, <2>4 DEF Next
<1> QED
  BY <1>1, Invariance, PTL DEF Spec, DrainOnlyShrinks
=============================================================================
