--------------------------- MODULE MCConcurrency ---------------------------
(***************************************************************************)
(* Three components on small instances, one at a time: the variable part    *)
(* names the one that runs, the variables of the others keep their initial *)
(* values.  The components share no state in the code.                     *)
(***************************************************************************)
EXTENDS SingleProducer

CONSTANTS
    Waiters, TimedWaiters, Releasers, Rounds, Wakes, Backends, HalfWord, NoThread,
    PoolThreads, Coroutines, Closers, PoolCapacity, MinConnections, Holders, Timeouts, NoHolder, NoClient

VARIABLES
    part,
    backend, wake, word, mutex, parked, epc, key, tokens, rounds,
    phase, holders, free, waiters, created, ppc, mode, slot, ready, woken, taken, target, leaked

Events == INSTANCE EventCount WITH state <- word, pc <- epc
Connections == INSTANCE ConnectionPool
    WITH Capacity <- PoolCapacity, Threads <- PoolThreads, pc <- ppc, claimed <- taken

ASSUME EventSizes == Events!Sizes
ASSUME ConnectionSizes == Connections!Sizes

eventVars == <<backend, wake, word, mutex, parked, epc, key, tokens, rounds>>
poolVars == <<phase, holders, free, waiters, created, ppc, mode, slot, ready, woken, taken, target, leaked>>

Running(p) == part = p /\ UNCHANGED part

AnyInit ==
    /\ part \in {"single_producer", "event_count", "connection_pool"}
    /\ Init
    /\ Events!Init /\ (part # "event_count" => backend = "futex" /\ wake = "one")
    /\ Connections!Init /\ (part # "connection_pool" => created = 0)

AnyNext ==
    \/ Running("single_producer") /\ Next /\ UNCHANGED <<eventVars, poolVars>>
    \/ Running("event_count") /\ Events!Next /\ UNCHANGED <<vars, poolVars>>
    \/ Running("connection_pool") /\ Connections!Next /\ UNCHANGED <<vars, eventVars>>

(* The fairness of the part that runs, as its module states it.            *)
ProducerFairness ==
    /\ SF_vars(part = "single_producer" /\ ProducerStep)
    /\ WF_vars(part = "single_producer" /\ ConsumerStep)
EventFairness ==
    /\ \A w \in Waiters :
        SF_eventVars(part = "event_count" /\ Events!WaiterStep(w) /\ UNCHANGED <<backend, wake>>)
    /\ \A r \in Releasers :
        SF_eventVars(part = "event_count" /\ Events!ReleaserStep(r) /\ UNCHANGED <<backend, wake>>)
PoolFairness ==
    \A t \in Connections!Clients :
        /\ WF_poolVars(part = "connection_pool" /\ Connections!Step(t))
        /\ WF_poolVars(part = "connection_pool" /\ Connections!TimerFires(t))
AnySpec ==
    /\ AnyInit
    /\ [][AnyNext]_<<part, vars, eventVars, poolVars>>
    /\ ProducerFairness /\ EventFairness /\ PoolFairness

-----------------------------------------------------------------------------
(* The properties of the parts, see their modules.                         *)

\* EventCount: no wake-up is lost.
NoLostWakeup == Events!NoLostWakeup

\* EventCount: with a token for every waiter each of them gets one.
EventsAllServed == part = "event_count" => Events!AllServed

\* ConnectionPool: connections and waiters are accounted for.
ConnectionsAccounted == Connections!ConnectionsAccounted

\* ConnectionPool: waiters are served in arrival order and answered once.
ServedInOrder == Connections!ServedInOrder

\* ConnectionPool: waits that have an end, end.
ConnectionWaitsEnd == Connections!WaitsEnd
=============================================================================
