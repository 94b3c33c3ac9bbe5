---------------------------- MODULE Transactions ----------------------------
(***************************************************************************)
(* Elephant transactions, savepoints and executors on borrowed pool        *)
(* connections: Transaction and Savepoint as move-only objects, the        *)
(* synchronous and asynchronous executors they and the Session lend, the   *)
(* return of a connection through QueuedHolder::reset(), and the server's  *)
(* view of each connection (block, savepoint stack, undecided writes).     *)
(* Savepoints and executors lent by a transaction hold the raw connection; *)
(* as their documentation requires, they are gone before it is given back. *)
(***************************************************************************)
EXTENDS Integers, Sequences, FiniteSets, SequencesExt

CONSTANTS
    Conns,          \* pool connections
    Txs,            \* Transaction objects
    Sps,            \* Savepoint objects
    MaxSavepoints,  \* bound on savepoints created, each with a name of its own
    Execs,          \* executor objects
    NoConn,         \* a null PGconn*
    CleanupSql,     \* the pool's cleanup_sql is not empty
    MaxUnits,       \* bound on successful begin() calls
    MaxWrites       \* bound on writes of one unit of work

VARIABLES
    link,           \* each connection as libpq and the server see it
    place,          \* each connection: free, lent or dropped
    tx, sps, execs, \* the objects
    durable,        \* writes that survived a COMMIT
    unit,           \* units of work begun
    kept,           \* per unit: writes that succeeded and were not rolled back
    asked,          \* units whose commit() sent COMMIT
    reported,       \* units whose commit() returned success
    warned,         \* units in which some call returned an error
    named,          \* savepoints created; the next one's name
    deserted        \* connections given back by assigning over their transaction

txVars == <<link, place, tx, sps, execs, durable, unit, kept, asked, reported, warned, named, deserted>>

(* ---------------------- the server's side (PostgreSQL) ------------------- *)

Units == 1 .. MaxUnits
Base == <<[name |-> 0, writes |-> {}]>>
Idle == [status |-> "ok", block |-> "none", frames |-> Base, busy |-> FALSE]
Pending(l) == UNION {l.frames[i].writes : i \in DOMAIN l.frames}

(* The most recent savepoint of that name, 0 if there is none. *)
FrameOf(l, name) ==
    LET is == {i \in 2 .. Len(l.frames) : l.frames[i].name = name} IN
    IF is = {} THEN 0 ELSE CHOOSE i \in is : \A j \in is : j <= i

Reply(l, ok) == [link |-> l, ok |-> ok, commits |-> {}]
Ended(l) == [l EXCEPT !.block = "none", !.frames = Base]
ErrorIn(l) == IF l.block = "open" THEN [l EXCEPT !.block = "aborted"] ELSE l

(* RELEASE keeps the work of the savepoint, ROLLBACK TO drops it and       *)
(* revives an aborted block; an unknown name is an error.                  *)
Released(l, i) ==
    [l EXCEPT !.frames = [SubSeq(l.frames, 1, i - 1) EXCEPT ![i - 1].writes =
        @ \cup UNION {l.frames[j].writes : j \in i .. Len(l.frames)}]]
RolledBackTo(l, i) ==
    [l EXCEPT !.block = "open",
              !.frames = Append(SubSeq(l.frames, 1, i - 1), [name |-> l.frames[i].name, writes |-> {}])]

Serve(l, verb, arg) ==
    CASE verb = "BEGIN" /\ l.block = "none" -> Reply([l EXCEPT !.block = "open"], TRUE)
      [] verb = "BEGIN" /\ l.block # "none" -> Reply(l, l.block = "open")
      [] verb = "COMMIT" -> [link |-> Ended(l), ok |-> TRUE,
                             commits |-> IF l.block = "open" THEN Pending(l) ELSE {}]
      [] verb = "ROLLBACK" -> Reply(Ended(l), TRUE)
      [] verb = "SAVEPOINT" /\ l.block = "open" ->
             Reply([l EXCEPT !.frames = Append(@, [name |-> arg, writes |-> {}])], TRUE)
      [] verb = "RELEASE" /\ l.block = "open" /\ FrameOf(l, arg) # 0 ->
             Reply(Released(l, FrameOf(l, arg)), TRUE)
      [] verb = "ROLLBACK TO" /\ l.block # "none" /\ FrameOf(l, arg) # 0 ->
             Reply(RolledBackTo(l, FrameOf(l, arg)), TRUE)
      [] verb = "WRITE" /\ l.block = "open" ->
             Reply([l EXCEPT !.frames[Len(l.frames)].writes = @ \cup arg], TRUE)
      [] verb = "WRITE" /\ l.block = "none" -> [link |-> l, ok |-> TRUE, commits |-> arg]
      [] verb = "CLEANUP" -> Reply(ErrorIn(l), l.block = "none")
      [] OTHER -> Reply(ErrorIn(l), FALSE)

(* PQexec: a dead link is noticed, an unread answer is discarded first.    *)
PQexec(c, verb, arg) ==
    IF link[c].status # "ok"
    THEN Reply([link[c] EXCEPT !.status = "bad"], FALSE)
    ELSE Serve([link[c] EXCEPT !.busy = FALSE], verb, arg)

(* The server or the network ends a session: its open block is gone, and   *)
(* libpq learns of it at the next statement.                               *)
LinkDies(c) ==
    /\ link[c].status = "ok"
    /\ link' = [link EXCEPT ![c] = [Idle EXCEPT !.status = "dead"]]
    /\ UNCHANGED <<place, tx, sps, execs, durable, unit, kept, asked, reported, warned, named, deserted>>

(* ------------------------------ the holder ------------------------------ *)

(* QueuedHolder::reset(): verify, run the cleanup SQL if there is any, and  *)
(* return the connection to the pool or drop it.  before is the connection  *)
(* after what the caller did first.                                        *)
HolderReset(c, before) ==
    LET l == before.link
        r == IF l.status = "bad" THEN Reply(l, FALSE)
             ELSE IF ~CleanupSql THEN Reply(l, TRUE)
             ELSE IF l.status = "dead" THEN Reply([l EXCEPT !.status = "bad"], FALSE)
             ELSE Serve([l EXCEPT !.busy = FALSE], "CLEANUP", "")
    IN /\ link' = [link EXCEPT ![c] = IF r.ok THEN r.link ELSE Idle]
       /\ place' = [place EXCEPT ![c] = IF r.ok THEN "free" ELSE "dropped"]

(* Nothing lent by the transaction is left when it gives the connection up. *)
NothingLent(c) ==
    /\ \A s \in Sps : sps[s].active => sps[s].conn # c
    /\ \A e \in Execs : execs[e].conn # c

(* A dropped connection is replaced by try_create_holder on a later borrow. *)
Take(c) ==
    /\ place[c] \in {"free", "dropped"}
    /\ place' = [place EXCEPT ![c] = "lent"]

Gone == [status |-> "gone", conn |-> NoConn, unit |-> 0]
MovedFrom == [status |-> "FAILED", conn |-> NoConn, unit |-> 0]
NoSavepoint == [conn |-> NoConn, name |-> 0, active |-> FALSE, mark |-> {}, unit |-> 0]
NoExec == [conn |-> NoConn, own |-> FALSE, pc |-> "idle"]

TxInit ==
    /\ link = [c \in Conns |-> Idle]
    /\ place = [c \in Conns |-> "free"]
    /\ tx = [t \in Txs |-> Gone]
    /\ sps = [s \in Sps |-> NoSavepoint]
    /\ execs = [e \in Execs |-> NoExec]
    /\ durable = {} /\ unit = 0
    /\ kept = [u \in Units |-> {}]
    /\ asked = {} /\ reported = {} /\ warned = {} /\ named = 0 /\ deserted = {}

(* What a statement's reply changes, and what the caller learns of it. *)
Apply(c, r) ==
    /\ link' = [link EXCEPT ![c] = r.link]
    /\ durable' = durable \cup r.commits
Told(u, ok) == warned' = IF ok \/ u = 0 THEN warned ELSE warned \cup {u}
Ready(t) == tx[t].status = "ACTIVE" /\ \A e \in Execs : execs[e].conn = tx[t].conn => execs[e].pc = "idle"

(* ------------------------- Session and Transaction ----------------------- *)

(* try_begin_transaction and both begin_transaction overloads: with no      *)
(* holder they answer PoolExhausted, WaitTimeout or PoolShutdown.           *)
BeginTransaction(t) ==
    /\ tx[t].status = "gone"
    /\ \E c \in Conns :
           Take(c) /\ tx' = [tx EXCEPT ![t] = [status |-> "IDLE", conn |-> c, unit |-> 0]]
    /\ UNCHANGED <<link, sps, execs, durable, unit, kept, asked, reported, warned, named, deserted>>

BeginOn(t, c) ==
    /\ unit < MaxUnits
    /\ LET r == PQexec(c, "BEGIN", "") IN
       /\ Apply(c, r)
       /\ unit' = IF r.ok THEN unit + 1 ELSE unit
       /\ tx' = [tx EXCEPT ![t] = IF r.ok THEN [status |-> "ACTIVE", conn |-> c, unit |-> unit + 1]
                                  ELSE [@ EXCEPT !.status = "FAILED"]]
    /\ UNCHANGED <<sps, execs, kept, asked, reported, warned, named, deserted>>
Begin(t) == tx[t].status = "IDLE" /\ BeginOn(t, tx[t].conn) /\ UNCHANGED place

(* begin_auto_transaction: borrow and begin() in one call; when begin()     *)
(* fails the local Transaction is destroyed and its connection goes back.   *)
BeginAutoTransaction(t) ==
    /\ tx[t].status = "gone" /\ unit < MaxUnits
    /\ \E c \in Conns :
           LET r == PQexec(c, "BEGIN", "") IN
           IF r.ok
           THEN /\ Take(c)
                /\ Apply(c, r)
                /\ unit' = unit + 1
                /\ tx' = [tx EXCEPT ![t] = [status |-> "ACTIVE", conn |-> c, unit |-> unit + 1]]
           ELSE /\ place[c] \in {"free", "dropped"}
                /\ HolderReset(c, r)
                /\ UNCHANGED <<tx, durable, unit>>
    /\ UNCHANGED <<sps, execs, kept, asked, reported, warned, named, deserted>>

Commit(t) ==
    /\ Ready(t)
    /\ LET c == tx[t].conn
           r == PQexec(c, "COMMIT", "")
       IN /\ asked' = asked \cup {tx[t].unit}
          /\ \/ /\ Apply(c, r)
                /\ tx' = [tx EXCEPT ![t].status = IF r.ok THEN "COMMITTED" ELSE "FAILED"]
                /\ reported' = IF r.ok THEN reported \cup {tx[t].unit} ELSE reported
                /\ Told(tx[t].unit, r.ok)
             \/ \* the server commits and the link is lost before the answer
                /\ r.ok
                /\ durable' = durable \cup r.commits
                /\ link' = [link EXCEPT ![c] = [Idle EXCEPT !.status = "bad"]]
                /\ tx' = [tx EXCEPT ![t].status = "FAILED"]
                /\ Told(tx[t].unit, FALSE)
                /\ UNCHANGED reported
    /\ UNCHANGED <<place, sps, execs, unit, kept, named, deserted>>

Rollback(t) ==
    /\ Ready(t)
    /\ LET r == PQexec(tx[t].conn, "ROLLBACK", "") IN
       /\ Apply(tx[t].conn, r)
       /\ tx' = [tx EXCEPT ![t].status = IF r.ok THEN "ROLLED_BACK" ELSE "FAILED"]
       /\ Told(tx[t].unit, r.ok)
    /\ UNCHANGED <<place, sps, execs, unit, kept, asked, reported, named, deserted>>

(* ~Transaction: a safety-net ROLLBACK while ACTIVE, then reset(). *)
RollbackFirstSkipped(t) == Reply(link[tx[t].conn], TRUE)
RollbackFirst(t) ==
    IF tx[t].status = "ACTIVE" THEN PQexec(tx[t].conn, "ROLLBACK", "")
                               ELSE Reply(link[tx[t].conn], TRUE)
Destroy(t) ==
    /\ tx[t].status # "gone"
    /\ tx' = [tx EXCEPT ![t] = Gone]
    /\ IF tx[t].conn = NoConn THEN UNCHANGED <<link, place>>
       ELSE NothingLent(tx[t].conn) /\ HolderReset(tx[t].conn, RollbackFirst(t))
    /\ UNCHANGED <<sps, execs, durable, unit, kept, asked, reported, warned, named, deserted>>

MoveConstruct(t, from) ==
    /\ t # from /\ tx[t].status = "gone" /\ tx[from].status # "gone"
    /\ tx' = [tx EXCEPT ![t] = tx[from], ![from] = MovedFrom]
    /\ UNCHANGED <<link, place, sps, execs, durable, unit, kept, asked, reported, warned, named, deserted>>

(* operator=: this transaction's holder is reset without a ROLLBACK. *)
MoveAssign(t, from) ==
    /\ t # from /\ tx[t].status # "gone" /\ tx[from].status # "gone"
    /\ tx' = [tx EXCEPT ![t] = tx[from], ![from] = MovedFrom]
    /\ LET c == tx[t].conn IN
       IF c = NoConn THEN UNCHANGED <<link, place, deserted>>
       ELSE /\ NothingLent(c)
            /\ HolderReset(c, Reply(link[c], TRUE))
            /\ deserted' = IF tx[t].status = "ACTIVE" THEN deserted \cup {c} ELSE deserted
    /\ UNCHANGED <<sps, execs, durable, unit, kept, asked, reported, warned, named>>

(* ------------------------------ savepoints ------------------------------ *)

(* The name is valid (is_valid_identifier) and new: a repeated name would   *)
(* denote the latest savepoint of that name.                               *)
CreateSavepoint(t, s) ==
    /\ Ready(t) /\ ~sps[s].active /\ named < MaxSavepoints
    /\ named' = named + 1
    /\ LET r == PQexec(tx[t].conn, "SAVEPOINT", named') IN
       /\ Apply(tx[t].conn, r)
       /\ Told(tx[t].unit, r.ok)
       /\ sps' = IF ~r.ok THEN sps
                 ELSE [sps EXCEPT ![s] = [conn |-> tx[t].conn, name |-> named', active |-> TRUE,
                                          mark |-> kept[tx[t].unit], unit |-> tx[t].unit]]
    /\ UNCHANGED <<place, tx, execs, unit, kept, asked, reported, deserted>>

SavepointRollback(s) ==
    /\ sps[s].active
    /\ LET r == PQexec(sps[s].conn, "ROLLBACK TO", sps[s].name) IN
       /\ Apply(sps[s].conn, r)
       /\ Told(sps[s].unit, r.ok)
       /\ kept' = IF r.ok THEN [kept EXCEPT ![sps[s].unit] = sps[s].mark] ELSE kept
    /\ UNCHANGED <<place, tx, sps, execs, unit, asked, reported, named, deserted>>

(* release() reports its error; the destructor and operator= ignore it and  *)
(* the object is gone either way.                                          *)
ReleaseDirect(s, after) ==
    LET r == PQexec(sps[s].conn, "RELEASE", sps[s].name) IN
    /\ Apply(sps[s].conn, r)
    /\ sps' = after
SavepointRelease(s) ==
    /\ sps[s].active
    /\ LET r == PQexec(sps[s].conn, "RELEASE", sps[s].name) IN
       /\ ReleaseDirect(s, IF r.ok THEN [sps EXCEPT ![s].active = FALSE] ELSE sps)
       /\ Told(sps[s].unit, r.ok)
    /\ UNCHANGED <<place, tx, execs, unit, kept, asked, reported, named, deserted>>
SavepointDestroy(s) ==
    /\ sps[s].active
    /\ ReleaseDirect(s, [sps EXCEPT ![s] = NoSavepoint])
    /\ UNCHANGED <<place, tx, execs, unit, kept, asked, reported, warned, named, deserted>>
SavepointMoveAssign(s, from) ==
    /\ s # from /\ sps[from].active
    /\ LET after == [sps EXCEPT ![s] = sps[from], ![from] = NoSavepoint] IN
       IF sps[s].active THEN ReleaseDirect(s, after)
       ELSE sps' = after /\ UNCHANGED <<link, durable>>
    /\ UNCHANGED <<place, tx, execs, unit, kept, asked, reported, warned, named, deserted>>

(* ------------------------------- executors ------------------------------ *)

(* with_sync/with_async of a transaction lend its connection; those of the  *)
(* Session borrow one, and reset() it when the executor is destroyed.       *)
WithExecutor(t, e) ==
    /\ Ready(t) /\ execs[e].conn = NoConn
    /\ execs' = [execs EXCEPT ![e] = [conn |-> tx[t].conn, own |-> FALSE, pc |-> "idle"]]
    /\ UNCHANGED <<link, place, tx, sps, durable, unit, kept, asked, reported, warned, named, deserted>>
SessionExecutor(e) ==
    /\ execs[e].conn = NoConn
    /\ \E c \in Conns :
           Take(c) /\ execs' = [execs EXCEPT ![e] = [conn |-> c, own |-> TRUE, pc |-> "idle"]]
    /\ UNCHANGED <<link, tx, sps, durable, unit, kept, asked, reported, warned, named, deserted>>
DestroyExecutor(e) ==
    /\ execs[e].conn # NoConn /\ execs[e].pc = "idle"
    /\ execs' = [execs EXCEPT ![e] = NoExec]
    /\ IF execs[e].own THEN HolderReset(execs[e].conn, Reply(link[execs[e].conn], TRUE))
                       ELSE UNCHANGED <<link, place>>
    /\ UNCHANGED <<tx, sps, durable, unit, kept, asked, reported, warned, named, deserted>>

(* The unit of work a statement on this connection belongs to. *)
UnitOn(c) ==
    LET ts == {t \in Txs : tx[t].conn = c /\ tx[t].status = "ACTIVE"} IN
    IF ts = {} THEN 0 ELSE tx[CHOOSE t \in ts : TRUE].unit
Wrote(u) == {w \in durable \cup UNION {Pending(link[c]) : c \in Conns} : w[1] = u}
                \cup (IF u = 0 THEN {} ELSE kept[u])
NextWrite(u) == <<u, Cardinality(Wrote(u)) + 1>>

(* A statement's outcome: a write the server accepts, or one it refuses     *)
(* (constraint, syntax).                                                   *)
Execute(e) ==
    /\ execs[e].conn # NoConn /\ execs[e].pc = "idle"
    /\ LET c == execs[e].conn
           u == UnitOn(c)
       IN /\ u # 0 /\ Cardinality(Wrote(u)) < MaxWrites
          /\ \E verb \in {"WRITE", "REFUSED"} :
                 LET r == PQexec(c, verb, {NextWrite(u)}) IN
                 /\ Apply(c, r)
                 /\ kept' = IF r.ok THEN [kept EXCEPT ![u] = @ \cup {NextWrite(u)}] ELSE kept
                 /\ Told(u, r.ok)
    /\ UNCHANGED <<place, tx, sps, execs, unit, asked, reported, named, deserted>>

(* execute() of the asynchronous executor: PQsendQuery refuses while an     *)
(* earlier answer is unread; the waits end with the answer or with an error *)
(* (cancellation), which leaves the answer unread.                         *)
SendQuery(e) ==
    /\ execs[e].conn # NoConn /\ execs[e].pc = "idle"
    /\ LET c == execs[e].conn
           sent == link[c].status = "ok" /\ ~link[c].busy
       IN /\ link' = [link EXCEPT ![c] = IF link[c].status # "ok" THEN [@ EXCEPT !.status = "bad"]
                                         ELSE [@ EXCEPT !.busy = TRUE]]
          /\ execs' = IF sent THEN [execs EXCEPT ![e].pc = "waiting"] ELSE execs
          /\ Told(UnitOn(c), sent)
    /\ UNCHANGED <<place, tx, sps, durable, unit, kept, asked, reported, named, deserted>>
CollectResult(e) ==
    /\ execs[e].pc = "waiting"
    /\ execs' = [execs EXCEPT ![e].pc = "idle"]
    /\ link' = [link EXCEPT ![execs[e].conn] = IF @.status = "ok" THEN [@ EXCEPT !.busy = FALSE]
                                               ELSE [@ EXCEPT !.status = "bad"]]
    /\ Told(UnitOn(execs[e].conn), link[execs[e].conn].status = "ok")
    /\ UNCHANGED <<place, tx, sps, durable, unit, kept, asked, reported, named, deserted>>
WaitFails(e) ==
    /\ execs[e].pc = "waiting"
    /\ execs' = [execs EXCEPT ![e].pc = "idle"]
    /\ Told(UnitOn(execs[e].conn), FALSE)
    /\ UNCHANGED <<link, place, tx, sps, durable, unit, kept, asked, reported, named, deserted>>

TxNext ==
    \/ \E c \in Conns : LinkDies(c)
    \/ \E t \in Txs :
           \/ BeginTransaction(t) \/ BeginAutoTransaction(t) \/ Begin(t) \/ Commit(t)
           \/ Rollback(t) \/ Destroy(t)
    \/ \E t, from \in Txs : MoveConstruct(t, from) \/ MoveAssign(t, from)
    \/ \E t \in Txs, s \in Sps : CreateSavepoint(t, s)
    \/ \E s \in Sps : SavepointRollback(s) \/ SavepointRelease(s) \/ SavepointDestroy(s)
    \/ \E s, from \in Sps : SavepointMoveAssign(s, from)
    \/ \E t \in Txs, e \in Execs : WithExecutor(t, e)
    \/ \E e \in Execs :
           \/ SessionExecutor(e) \/ DestroyExecutor(e) \/ Execute(e)
           \/ SendQuery(e) \/ CollectResult(e) \/ WaitFails(e)

TxSpec == TxInit /\ [][TxNext]_txVars

(* ------------------------------ properties ------------------------------ *)

(* Of a unit of work either nothing or exactly the writes that succeeded    *)
(* and were not rolled back to a savepoint becomes durable, and only if its *)
(* commit() was called: not the safety-net destructor, a failed COMMIT, a   *)
(* lost answer or the next borrower of the connection makes part of it      *)
(* durable.  (A connection deserted by operator= is the exception.)         *)
AllOrNothing ==
    deserted = {} =>
        \A u \in Units :
            LET d == {w \in durable : w[1] = u}
            IN d = {} \/ (u \in asked /\ d = kept[u])

(* A connection waiting in the pool has no transaction block open, unless   *)
(* operator= gave it back over an ACTIVE transaction with no cleanup SQL    *)
(* configured; ~Transaction and reset() see to every other path.            *)
CleanHandOver ==
    \A c \in Conns :
        place[c] = "free" /\ link[c].block # "none" => c \in deserted /\ ~CleanupSql

(* No transaction leaves half of its work, or its block, behind.            *)
WorkSound == AllOrNothing /\ CleanHandOver

(* When commit() reports success and no earlier call of the unit reported   *)
(* an error, the work is durable: releasing or destroying savepoints folds  *)
(* their work into the transaction.                                        *)
ReportedWorkKept ==
    deserted = {} => \A u \in reported \ warned : kept[u] \subseteq durable
=============================================================================
