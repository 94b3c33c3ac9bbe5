---------------------------- MODULE MCComponents ----------------------------
(***************************************************************************)
(* Components on small instances, one at a time: the variable part names   *)
(* the one that runs, and the variables of the others hold Idle.  The      *)
(* components share no state in the code.                                  *)
(***************************************************************************)
EXTENDS Integers, Sequences, TLC

VARIABLES
    part,
    \* Routing
    norm, local, mws, baked, exact, parametric, conflicts, frozen, added, reply,
    \* Http1Driver
    script, arrived, eof, broken, serve, read, parsed, msg, armed, last, outbuf, wire,
    \* HttpText
    text, parts,
    \* RequestContext
    ctxFrame, bag, built, dead, bodyLeft, reads, headers, wanted, status, unwound, arena,
    \* Config
    class, cfg, sets, phase, origin, doc, edit, loaded, attached,
    \* Query
    query, saved, cond, literals, calls, threw,
    \* Transactions
    link, place, tx, sps, execs, durable, unit, kept, asked, reported, warned, named, deserted,
    \* ErrorCodes
    connection, answer, outcome,
    \* Values
    type, given, sent, stored, field, got,
    \* Sorter
    config, window, fresh, entered, emitted, ruled, flushed

Idle == "idle"

-----------------------------------------------------------------------------
(* The instances *)

\* Literal, templated and clashing routes, with and without a trailing slash;
\* requests that spell their slashes and escapes in every way.
Router == INSTANCE Routing WITH
    Methods <- {"get", "post"}, Ctrls <- {"u"}, Middlewares <- {"log", "auth"},
    GroupPrefixes <- {<<>>, <<"v", "">>},
    RoutePaths <- {<<"">>, <<"a">>, <<"a", "">>, <<"a", "{x}">>, <<"a", "{y}">>, <<"{x}", "b">>,
                   <<"{x}", "{x}">>},
    RequestPaths <- {<<"">>, <<"a">>, <<"a", "">>, <<"", "a">>, <<"a", "b">>, <<"v", "a", "", "b">>,
                     <<"a", "b%">>, <<"a", "%62">>, <<"v", "a", "c", "">>, <<"v", "">>, <<"a", "", "">>},
    ParamName <- ("{x}" :> "x" @@ "{y}" :> "y"), Illegal <- {"{}"},
    Decoded <- ("b%" :> "malformed" @@ "%62" :> "b"), Malformed <- "malformed", MaxRoutes <- 2

\* Three pipelined messages, and an output buffer that two responses fill.
Driver == INSTANCE Http1Driver WITH
    MaxMessages <- 3, BatchCap <- 2, sent <- arrived, pc <- serve, got <- read

\* The characters % + & = ? 4 f z, and a multipart field that looks like the end.
HttpTexts == INSTANCE HttpText WITH
    Alphabet <- {37, 43, 38, 61, 63, 52, 102, 122}, MaxText <- 4,
    Parts <- {[name |-> "a", value |-> <<>>],
              [name |-> "b", value |-> <<"delim", "eol", "x", "eol">>]}

LowerCase(n) == IF n = "date" THEN "Date" ELSE n

\* Two middlewares and a handler, two spellings of one header name.
Context == INSTANCE RequestContext WITH
    Depth <- 3, Keys <- {"a", "b"}, Names <- {"Date", "date", "Server", "Content-Type"},
    Lower <- LowerCase, Values <- {"u"}, Errors <- {"NotFound"}, MaxPayloads <- 3, MaxHeaders <- 2

Tls == [cert_file |-> "a", key_file |-> "a", key_passphrase |-> "a", dh_params_file |-> "",
        ca_file |-> "", min_version |-> "tls12", session_cache |-> TRUE, require_client_cert |-> FALSE]
Listener == [bind |-> "a", port |-> 443, transport |-> "tls", protocols |-> <<"http2", "http1">>,
             tls |-> <<Tls>>]
Credentials == [host |-> "localhost", port |-> "", dbname |-> "a b", user |-> "a", password |-> "q'\\"]
Connection ==
    [credentials |-> Credentials, role |-> "primary", priority |-> 0, cluster_name |-> "",
     connect_timeout |-> 30, statement_timeout |-> 0, idle_in_transaction_timeout |-> 0,
     lock_timeout |-> 0, ssl_mode |-> "require", ssl_cert |-> <<"a">>, ssl_key |-> <<"a b">>,
     ssl_root_cert |-> <<"a">>, binary_protocol |-> TRUE, auto_prepare |-> FALSE,
     pipeline_mode |-> TRUE, application_name |-> "", search_path |-> "public", work_mem_mb |-> 4,
     jit |-> TRUE, extra_options |-> <<>>]

\* Texts that are empty, need quotes, and hold a quote and a backslash.
Configs == INSTANCE Config WITH
    Classes <- {"Timeouts", "TlsConfig", "ListenerConfig", "ServerConfig", "ConnectionCredentials",
                "ConnectionConfig", "PoolConfig", "LoggerConfig", "FileSinkConfig",
                "ConsoleSinkConfig"},
    Nums <- {-1, 0, 64}, Texts <- {"", "a b", "q'\\"},
    Chars <- ("" :> <<>> @@ "a" :> <<"a">> @@ "a b" :> <<"a", "sp", "b">>
              @@ "q'\\" :> <<"x", "q", "bs">> @@ "localhost" :> <<"l">> @@ "5432" :> <<"5">>
              @@ "5433" :> <<"6">> @@ "test_db" :> <<"d">> @@ "test_user" :> <<"u">>
              @@ "test_password" :> <<"p">>),
    Stoi <- ("5432" :> 5432 @@ "5433" :> 5433 @@ "0" :> 0 @@ "5432x" :> 5432),
    Seed <- ("TlsConfig" :> Tls @@ "ListenerConfig" :> Listener
             @@ "ConnectionCredentials" :> Credentials @@ "ConnectionConfig" :> Connection
             @@ "Timeouts" :> [header_ms |-> 1, body_ms |-> 2, idle_ms |-> 3]),
    ListenerSamples <- {Listener,
                        [Listener EXCEPT !.transport = "tcp", !.tls = <<>>, !.protocols = <<"http2">>],
                        [Listener EXCEPT !.transport = "quic", !.protocols = <<>>]},
    TlsSamples <- {Tls, [Tls EXCEPT !.cert_file = ""]}, MaxSets <- 2,
    MaxReplaced <- 1

Queries == INSTANCE QueryMeaning WITH MaxCalls <- 5

\* Two transactions and two nested savepoints over one connection.
Work == INSTANCE Transactions WITH
    Conns <- {"k1"}, Txs <- {"t1", "t2"}, Sps <- {"s1", "s2"}, MaxSavepoints <- 2, Execs <- {"e1"},
    NoConn <- "none", CleanupSql <- FALSE, MaxUnits <- 2, MaxWrites <- 1

\* The same over a pool that runs cleanup_sql on every return, with one savepoint.
CleanedWork == INSTANCE Transactions WITH
    Conns <- {"k1"}, Txs <- {"t1", "t2"}, Sps <- {"s1"}, MaxSavepoints <- 1, Execs <- {"e1"},
    NoConn <- "none", CleanupSql <- TRUE, MaxUnits <- 2, MaxWrites <- 1

Errs == INSTANCE ErrorCodes

\* With bytes of one bit, a 64-bit integer has eight bits.
Fields == INSTANCE Values WITH
    Base <- 2, Texts <- UNION {[1 .. n -> {"a", "quote", "backslash", "nul"}] : n \in 0 .. 2},
    Blobs <- UNION {[1 .. n -> {0, 1}] : n \in 0 .. 2}

SorterConfig(w, b, sorting, threshold) ==
    [window_size |-> w, batch_size |-> b, enable_sorting |-> sorting, merge_threshold |-> threshold]

\* Windows larger than, equal to and smaller than a batch, and empty ones;
\* batches below, at and above merge_threshold.
Sorters == INSTANCE Sorter WITH
    SortKeys <- 1 .. 3, MaxAdd <- 2, MaxEntries <- 5,
    Settings <- {SorterConfig(3, 1, TRUE, 2), SorterConfig(3, 2, TRUE, 64), SorterConfig(2, 1, TRUE, 0),
                 SorterConfig(1, 2, TRUE, 64), SorterConfig(0, 0, TRUE, 64), SorterConfig(2, 2, FALSE, 64)}

-----------------------------------------------------------------------------
routingVars == <<norm, local, mws, baked, exact, parametric, conflicts, frozen, added, reply>>
driverVars == <<script, arrived, eof, broken, serve, read, parsed, msg, armed, last, outbuf,
                wire>>
textVars == <<text, parts>>
contextVars == <<ctxFrame, bag, built, dead, bodyLeft, reads, headers, wanted, status, unwound,
                 arena>>
configVars == <<class, cfg, sets, phase, origin, doc, edit, loaded, attached>>
queryVars == <<query, saved, cond, literals, calls, threw>>
txVars == <<link, place, tx, sps, execs, durable, unit, kept, asked, reported, warned, named,
            deserted>>
errorVars == <<connection, answer, outcome>>
valueVars == <<type, given, sent, stored, field, got>>
sorterVars == <<config, window, fresh, entered, emitted, ruled, flushed>>

(* The variables of the parts that do not run.                             *)
IdleRouting ==
    /\ norm = Idle /\ local = Idle /\ mws = Idle /\ baked = Idle /\ exact = Idle
    /\ parametric = Idle /\ conflicts = Idle /\ frozen = Idle /\ added = Idle /\ reply = Idle
IdleDriver ==
    /\ script = Idle /\ arrived = Idle /\ eof = Idle /\ broken = Idle /\ serve = Idle
    /\ read = Idle /\ parsed = Idle /\ msg = Idle /\ armed = Idle /\ last = Idle /\ outbuf = Idle
    /\ wire = Idle
IdleText ==
    /\ text = Idle /\ parts = Idle
IdleContext ==
    /\ ctxFrame = Idle /\ bag = Idle /\ built = Idle /\ dead = Idle /\ bodyLeft = Idle
    /\ reads = Idle /\ headers = Idle /\ wanted = Idle /\ status = Idle /\ unwound = Idle
    /\ arena = Idle
IdleConfig ==
    /\ class = Idle /\ cfg = Idle /\ sets = Idle /\ phase = Idle /\ origin = Idle /\ doc = Idle
    /\ edit = Idle /\ loaded = Idle /\ attached = Idle
IdleQuery ==
    /\ query = Idle /\ saved = Idle /\ cond = Idle /\ literals = Idle /\ calls = Idle
    /\ threw = Idle
IdleTransactions ==
    /\ link = Idle /\ place = Idle /\ tx = Idle /\ sps = Idle /\ execs = Idle /\ durable = Idle
    /\ unit = Idle /\ kept = Idle /\ asked = Idle /\ reported = Idle /\ warned = Idle
    /\ named = Idle /\ deserted = Idle
IdleErrors ==
    /\ connection = Idle /\ answer = Idle /\ outcome = Idle
IdleValues ==
    /\ type = Idle /\ given = Idle /\ sent = Idle /\ stored = Idle /\ field = Idle /\ got = Idle
IdleSorter ==
    /\ config = Idle /\ window = Idle /\ fresh = Idle /\ entered = Idle /\ emitted = Idle
    /\ ruled = Idle /\ flushed = Idle

AnyInit ==
    /\ part \in {"routing", "driver", "text", "context", "config",
                 "query", "transactions", "errors", "values", "cleaned", "sorter"}
    /\ IF part = "routing" THEN Router!RoutingInit ELSE IdleRouting
    /\ IF part = "driver" THEN Driver!DriverInit ELSE IdleDriver
    /\ IF part = "text" THEN HttpTexts!TextInit ELSE IdleText
    /\ IF part = "context" THEN Context!ContextInit ELSE IdleContext
    /\ IF part = "config" THEN Configs!ConfigInit ELSE IdleConfig
    /\ IF part = "query" THEN Queries!QueryInit ELSE IdleQuery
    /\ IF part = "transactions" THEN Work!TxInit
       ELSE IF part = "cleaned" THEN CleanedWork!TxInit ELSE IdleTransactions
    /\ IF part = "errors" THEN Errs!ErrorsInit ELSE IdleErrors
    /\ IF part = "values" THEN Fields!ValuesInit ELSE IdleValues
    /\ IF part = "sorter" THEN Sorters!SorterInit ELSE IdleSorter

AnyNext ==
    /\ UNCHANGED part
    /\ IF part = "routing" THEN Router!RoutingNext ELSE UNCHANGED routingVars
    /\ IF part = "driver" THEN Driver!DriverNext ELSE UNCHANGED driverVars
    /\ IF part = "text" THEN HttpTexts!TextNext ELSE UNCHANGED textVars
    /\ IF part = "context" THEN Context!ContextNext ELSE UNCHANGED contextVars
    /\ IF part = "config" THEN Configs!ConfigNext ELSE UNCHANGED configVars
    /\ IF part = "query" THEN Queries!QueryNext ELSE UNCHANGED queryVars
    /\ IF part = "transactions" THEN Work!TxNext
       ELSE IF part = "cleaned" THEN CleanedWork!TxNext ELSE UNCHANGED txVars
    /\ IF part = "errors" THEN Errs!ErrorsNext ELSE UNCHANGED errorVars
    /\ IF part = "values" THEN Fields!ValuesNext ELSE UNCHANGED valueVars
    /\ IF part = "sorter" THEN Sorters!SorterNext ELSE UNCHANGED sorterVars

AnySpec == AnyInit /\ [][AnyNext]_<<part, routingVars, driverVars, textVars, contextVars, configVars,
                                  queryVars, txVars, errorVars, valueVars, sorterVars>>

-----------------------------------------------------------------------------
(* The properties of the parts, see their modules.                         *)

\* Router: requests are answered by exactly the routes declared.
RoutesExact == part = "routing" => Router!RoutesExact

\* Http11Driver: every request has its answer, in order.
RepliesSound == part = "driver" => Driver!RepliesSound

\* Http11Driver: every phase of a message has one deadline.
PhaseDeadlines == part = "driver" => Driver!PhaseDeadlines

\* url_decode, query, form and multipart: decoding inverts encoding.
DecodedAsWritten == part = "text" => HttpTexts!DecodedAsWritten

\* RequestContext, Body, Headers: nothing is destroyed twice or lost.
ContextSound == part = "context" => Context!ContextSound

\* Configurations survive their JSON and reach libpq and the listeners.
ConfigSound == part = "config" => Configs!ConfigSound

\* Query compiler: its modes write the same statement.
ModesAgree == part = "query" => Queries!ModesAgree

\* Query compiler: PostgreSQL reads the text as the tree it came from.
TextMeansTree == part = "query" => Queries!TextMeansTree

\* Transaction: no half of a unit and no open block is left behind.
WorkSound ==
    /\ part = "transactions" => Work!WorkSound
    /\ part = "cleaned" => CleanedWork!WorkSound

\* PostgreSQL errors: the code and the advice are those of the condition that
\* PostgreSQL's list of error codes names.
ErrorsClassified == part = "errors" => Errs!ErrorsClassified


\* SlidingWindowSorter: nothing is lost, and a bounded disorder is sorted out.
SorterSound == part = "sorter" => Sorters!SorterSound

=============================================================================
