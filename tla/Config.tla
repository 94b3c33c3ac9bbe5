-------------------------------- MODULE Config --------------------------------
(***************************************************************************)
(* Configuration objects: the builders, validation and field descriptors   *)
(* of every ConfigInterface class, the JSON codecs of pangolin, the libpq  *)
(* connection string, and the listeners attached from a ServerConfig.      *)
(*                                                                         *)
(* A configuration is a function from the keys of its fields() to values:  *)
(* numbers, strings, Booleans, enumerators as strings, optionals as        *)
(* sequences of at most one value, vectors as sequences, nested            *)
(* configurations and string maps as functions.  A JSON value is a pair of *)
(* its type and its content.                                               *)
(***************************************************************************)
EXTENDS Integers, Sequences, FiniteSets, SequencesExt

CONSTANTS
    Classes,       \* classes under study
    Nums,          \* numbers given to setters
    Texts,         \* strings given to setters
    Chars,         \* text -> its characters
    Seed,          \* class -> a configuration the program already has
    Stoi,          \* text that stoi() reads -> the number
    ListenerSamples, \* listener configurations given to add_listener()
    TlsSamples,    \* TLS configurations given to tls()
    MaxSets,       \* setter calls on one builder
    MaxReplaced    \* setter calls before a value is replaced by hand

VARIABLES
    class,    \* the class of the configuration
    cfg,      \* config_ of the builder, then the finished configuration
    sets,     \* setter calls so far
    phase,    \* "building", "built", "threw", "saved", "loaded", "refused", "attached"
    origin,   \* "builder" or the name of the preset
    doc,      \* the JSON document
    edit,     \* what was done to the document by hand
    loaded,   \* what deserialize() made of it
    attached  \* listeners of the server, as <<transport, drivers>>

configVars == <<class, cfg, sets, phase, origin, doc, edit, loaded, attached>>

None == <<>>
Some(x) == <<x>>

-----------------------------------------------------------------------------
(* The classes: members with their initial values, field descriptors (key ->  *)
(* codec and policy), and the members that the setters of the builder reach.  *)

F(codec) == [codec |-> codec, policy |-> "Normal"]
Secret(codec) == [codec |-> codec, policy |-> "Secret"]
Excluded(codec) == [codec |-> codec, policy |-> "Excluded"]

Num == [kind |-> "num"]
Size == [kind |-> "size"]
U16 == [kind |-> "u16"]
Text == [kind |-> "text"]
Bool == [kind |-> "bool"]
TextMap == [kind |-> "map"]
EnumInt(values) == [kind |-> "enumInt", of |-> values]
EnumText(values) == [kind |-> "enumText", of |-> values]
Optional(codec) == [kind |-> "optional", of |-> codec]
Vector(codec) == [kind |-> "vector", of |-> codec]
Nested(c) == [kind |-> "nested", of |-> c]

TimeoutsDefaults == [header_ms |-> 10, body_ms |-> 30, idle_ms |-> 60]
TimeoutsFields == [header_ms |-> F(Num), body_ms |-> F(Num), idle_ms |-> F(Num)]
TimeoutsSetters == {"header_ms", "body_ms", "idle_ms"}

MinVersions == {"tls12", "tls13"}

TlsDefaults ==
    [cert_file |-> "", key_file |-> "", key_passphrase |-> "", dh_params_file |-> "", ca_file |-> "",
     min_version |-> "tls12", session_cache |-> TRUE, require_client_cert |-> FALSE]

TlsFields ==
    [cert_file |-> F(Text), key_file |-> F(Text), key_passphrase |-> Secret(Text),
     dh_params_file |-> F(Text), ca_file |-> F(Text), min_version |-> F(EnumText(MinVersions)),
     session_cache |-> F(Bool), require_client_cert |-> F(Bool)]

TlsSetters ==
    {"cert_file", "key_file", "key_passphrase", "dh_params_file", "ca_file", "min_version",
     "session_cache", "require_client_cert"}

Protocols == {"http1", "http2", "http3"}
Transports == {"tcp", "tls", "quic"}

ListenerDefaults ==
    [bind |-> "0.0.0.0", port |-> 8080, transport |-> "tcp", protocols |-> <<>>, tls |-> None]

ListenerFields ==
    [bind |-> F(Text), port |-> F(U16), transport |-> F(EnumText(Transports)),
     protocols |-> F(Vector(EnumText(Protocols))), tls |-> F(Optional(Nested("TlsConfig")))]

ListenerSetters == {"bind", "port", "transport", "protocols", "tls"}

PathNormalizations == {"none", "collapse_trailing_slash", "collapse_multi_slash"}

ServerDefaults ==
    [listeners |-> <<>>, threads |-> 1, timeouts |-> TimeoutsDefaults, body_limit |-> 16,
     request_arena_size |-> 8, drain_timeout_ms |-> 30, path_normalization |-> "collapse_trailing_slash"]

ServerFields ==
    [listeners |-> F(Vector(Nested("ListenerConfig"))), threads |-> F(Size),
     timeouts |-> F(Nested("Timeouts")), body_limit |-> F(Size), request_arena_size |-> F(Size),
     drain_timeout_ms |-> F(Num), path_normalization |-> F(EnumText(PathNormalizations))]

ServerSetters ==
    {"listeners", "threads", "timeouts", "body_limit", "request_arena_size", "drain_timeout_ms",
     "path_normalization"}

CredentialsDefaults ==
    [host |-> "localhost", port |-> "5432", dbname |-> "", user |-> "", password |-> ""]

CredentialsFields ==
    [host |-> F(Text), port |-> F(Text), dbname |-> F(Text), user |-> F(Text), password |-> Secret(Text)]

CredentialsSetters == {"host", "port", "dbname", "user", "password"}

SslModes == <<"disable", "allow", "prefer", "require", "verify-ca", "verify-full">>
NodeRoles == <<"primary", "standby_sync", "standby_async", "analytics", "archive">>

ConnectionDefaults ==
    [credentials |-> CredentialsDefaults,
     role |-> "primary", priority |-> 0, cluster_name |-> "",
     connect_timeout |-> 30, statement_timeout |-> 0, idle_in_transaction_timeout |-> 0, lock_timeout |-> 0,
     ssl_mode |-> "prefer", ssl_cert |-> None, ssl_key |-> None, ssl_root_cert |-> None,
     binary_protocol |-> TRUE, auto_prepare |-> FALSE, pipeline_mode |-> TRUE,
     application_name |-> "", search_path |-> "public", work_mem_mb |-> 4, jit |-> TRUE,
     extra_options |-> <<>>]

ConnectionFields ==
    [credentials |-> F(Nested("ConnectionCredentials")),
     role |-> F(EnumInt(NodeRoles)), priority |-> F(Num), cluster_name |-> F(Text),
     connect_timeout |-> F(Num), statement_timeout |-> F(Num),
     idle_in_transaction_timeout |-> F(Num), lock_timeout |-> F(Num),
     ssl_mode |-> F(EnumInt(SslModes)), ssl_cert |-> F(Optional(Text)),
     ssl_key |-> F(Optional(Text)), ssl_root_cert |-> F(Optional(Text)),
     binary_protocol |-> F(Bool), auto_prepare |-> F(Bool), pipeline_mode |-> F(Bool),
     application_name |-> F(Text), search_path |-> F(Text),
     work_mem_mb |-> F(Size), jit |-> F(Bool), extra_options |-> F(TextMap)]

ConnectionSetters ==
    {"role", "priority", "cluster_name", "connect_timeout", "statement_timeout",
     "idle_in_transaction_timeout", "lock_timeout", "ssl_mode", "ssl_cert", "ssl_key", "ssl_root_cert",
     "binary_protocol", "auto_prepare", "pipeline_mode", "application_name", "search_path",
     "work_mem_mb", "jit", "extra_options"}

PoolDefaults ==
    [capacity |-> 16, min_connections |-> 2, connect_timeout |-> 10, idle_timeout |-> 300,
     health_check_interval |-> 30, max_lifetime |-> 3600, cleanup_sql |-> ""]

PoolFields ==
    [capacity |-> F(Size), min_connections |-> F(Size), connect_timeout |-> F(Num), idle_timeout |-> F(Num),
     health_check_interval |-> F(Num), max_lifetime |-> F(Num), cleanup_sql |-> F(Text)]

PoolSetters ==
    {"capacity", "min_connections", "connect_timeout", "idle_timeout", "health_check_interval",
     "max_lifetime", "cleanup_sql"}

WaitStrategies == <<"BusySpin", "Yielding", "Blocking">>

LoggerDefaults ==
    [ring_buffer_size |-> 8192, pool_size |-> 2, wait_strategy |-> "Yielding", health_check_interval |-> 1000]

LoggerFields ==
    [ring_buffer_size |-> F(Size), pool_size |-> F(Size), wait_strategy |-> F(EnumInt(WaitStrategies)),
     health_check_interval |-> F(Num)]

LoggerSetters == {"ring_buffer_size", "wait_strategy", "pool_size", "health_check_interval"}

LogLevels == <<"Trace", "Debug", "Info", "Warning", "Error", "Fatal">>

FileSinkDefaults ==
    [threshold |-> "Debug", file |-> "", add_time_to_filename |-> TRUE,
     time_format_in_file_name |-> "iso8601", rotate_file |-> TRUE, max_file_size |-> 100,
     flush_each_entry |-> FALSE, prefix_filter |-> ""]

FileSinkFields ==
    [threshold |-> F(EnumInt(LogLevels)), file |-> F(Text), add_time_to_filename |-> F(Bool),
     time_format_in_file_name |-> F(Text), rotate_file |-> F(Bool), max_file_size |-> F(Size),
     flush_each_entry |-> F(Bool), prefix_filter |-> Excluded(Text)]

FileSinkSetters ==
    {"threshold", "file", "add_time_to_filename", "time_format_in_file_name", "max_file_size",
     "flush_each_entry", "rotate_file", "prefix_filter"}

ConsoleSinkDefaults ==
    [threshold |-> "Debug", enable_colors |-> TRUE, flush_each_entry |-> FALSE, output |-> "cout",
     prefix_filter |-> ""]

ConsoleSinkFields ==
    [threshold |-> F(EnumInt(LogLevels)), enable_colors |-> F(Bool), flush_each_entry |-> F(Bool),
     output |-> Excluded(Text), prefix_filter |-> Excluded(Text)]

ConsoleSinkSetters == {"threshold", "enable_colors", "flush_each_entry", "output", "prefix_filter"}

Fields(c) ==
    CASE c = "Timeouts" -> TimeoutsFields
      [] c = "TlsConfig" -> TlsFields
      [] c = "ListenerConfig" -> ListenerFields
      [] c = "ServerConfig" -> ServerFields
      [] c = "ConnectionCredentials" -> CredentialsFields
      [] c = "ConnectionConfig" -> ConnectionFields
      [] c = "PoolConfig" -> PoolFields
      [] c = "LoggerConfig" -> LoggerFields
      [] c = "FileSinkConfig" -> FileSinkFields
      [] c = "ConsoleSinkConfig" -> ConsoleSinkFields

Defaults(c) ==
    CASE c = "Timeouts" -> TimeoutsDefaults
      [] c = "TlsConfig" -> TlsDefaults
      [] c = "ListenerConfig" -> ListenerDefaults
      [] c = "ServerConfig" -> ServerDefaults
      [] c = "ConnectionCredentials" -> CredentialsDefaults
      [] c = "ConnectionConfig" -> ConnectionDefaults
      [] c = "PoolConfig" -> PoolDefaults
      [] c = "LoggerConfig" -> LoggerDefaults
      [] c = "FileSinkConfig" -> FileSinkDefaults
      [] c = "ConsoleSinkConfig" -> ConsoleSinkDefaults

Setters(c) ==
    CASE c = "Timeouts" -> TimeoutsSetters
      [] c = "TlsConfig" -> TlsSetters
      [] c = "ListenerConfig" -> ListenerSetters
      [] c = "ServerConfig" -> ServerSetters
      [] c = "ConnectionCredentials" -> CredentialsSetters
      [] c = "ConnectionConfig" -> ConnectionSetters
      [] c = "PoolConfig" -> PoolSetters
      [] c = "LoggerConfig" -> LoggerSetters
      [] c = "FileSinkConfig" -> FileSinkSetters
      [] c = "ConsoleSinkConfig" -> ConsoleSinkSetters

-----------------------------------------------------------------------------
(* validate() *)

TimeoutsValid(c) == c.header_ms > 0 /\ c.body_ms > 0 /\ c.idle_ms > 0

TlsValid(c) ==
    /\ c.cert_file # ""
    /\ c.key_file # ""
    /\ c.require_client_cert => c.ca_file # ""

ListenerValid(c) ==
    LET h3 == "http3" \in Range(c.protocols) IN
    /\ c.bind # ""
    /\ IsInjective(c.protocols)
    /\ IF c.transport = "quic" THEN c.protocols \in {<<>>, <<"http3">>} ELSE ~h3
    /\ IF c.transport = "tcp" THEN c.tls = None ELSE c.tls # None /\ TlsValid(c.tls[1])

ServerValid(c) ==
    /\ c.threads # 0
    /\ c.body_limit # 0
    /\ c.request_arena_size # 0
    /\ c.drain_timeout_ms >= 0
    /\ TimeoutsValid(c.timeouts)
    /\ \A i \in DOMAIN c.listeners : ListenerValid(c.listeners[i])

CredentialsValid(c) ==
    /\ c.dbname # ""
    /\ c.user # ""
    /\ c.port = "" \/ (c.port \in DOMAIN Stoi /\ Stoi[c.port] \in 1 .. 65535)

ConnectionValid(c) ==
    /\ CredentialsValid(c.credentials)
    /\ c.ssl_mode \in {"verify-ca", "verify-full"} => c.ssl_root_cert # None
    /\ c.ssl_cert = None <=> c.ssl_key = None
    /\ c.connect_timeout >= 0
    /\ c.priority >= 0

PoolValid(c) ==
    /\ c.capacity # 0
    /\ c.min_connections <= c.capacity
    /\ c.connect_timeout > 0

LoggerValid(c) == \E k \in 0 .. 20 : c.ring_buffer_size = 2 ^ k

FileSinkValid(c) ==
    /\ ~(c.rotate_file /\ c.max_file_size = 0)
    /\ c.file # ""
    /\ ~(c.add_time_to_filename /\ c.time_format_in_file_name = "")

Validate(c, v) ==
    CASE c = "Timeouts" -> TimeoutsValid(v)
      [] c = "TlsConfig" -> TlsValid(v)
      [] c = "ListenerConfig" -> ListenerValid(v)
      [] c = "ServerConfig" -> ServerValid(v)
      [] c = "ConnectionCredentials" -> CredentialsValid(v)
      [] c = "ConnectionConfig" -> ConnectionValid(v)
      [] c = "PoolConfig" -> PoolValid(v)
      [] c = "LoggerConfig" -> LoggerValid(v)
      [] c = "FileSinkConfig" -> FileSinkValid(v)
      [] c = "ConsoleSinkConfig" -> TRUE

-----------------------------------------------------------------------------
(* pangolin: write_field() and read_field() over JSON values *)

RECURSIVE Write(_, _)
RECURSIVE Read(_, _)

\* Bug: secrets are written like any other field.
WritesFieldOfSecrets(policy) == policy # "Excluded"

WritesField(policy) == policy \notin {"Secret", "Excluded"}
ReadsField(policy) == policy \notin {"Excluded", "ReadOnly"}

\* auto_serialize(): an empty optional adds no key.
AutoSerialize(c, v) ==
    LET written == {f \in DOMAIN v : /\ WritesField(Fields(c)[f].policy)
                                     /\ ~(Fields(c)[f].codec.kind = "optional" /\ v[f] = None)}
    IN  [f \in written |-> Write(Fields(c)[f].codec, v[f])]

Ordinal(values, v) == CHOOSE i \in DOMAIN values : values[i] = v

Write(codec, v) ==
    CASE codec.kind \in {"num", "size", "u16"} -> <<"num", v>>
      [] codec.kind \in {"text", "enumText"} -> <<"str", v>>
      [] codec.kind = "bool" -> <<"bool", v>>
      [] codec.kind = "enumInt" -> <<"num", Ordinal(codec.of, v) - 1>>
      [] codec.kind = "map" -> <<"obj", [k \in DOMAIN v |-> <<"str", v[k]>>]>>
      [] codec.kind = "optional" -> Write(codec.of, v[1])
      [] codec.kind = "vector" -> <<"arr", [i \in DOMAIN v |-> Write(codec.of, v[i])]>>
      [] codec.kind = "nested" -> <<"obj", AutoSerialize(codec.of, v)>>

\* auto_deserialize() into a fresh builder, whose finalize() validates: a key
\* that is missing leaves the default; None when anything throws.
AutoDeserialize(c, object) ==
    LET present == {f \in DOMAIN Fields(c) : ReadsField(Fields(c)[f].policy) /\ f \in DOMAIN object}
        values == [f \in present |-> Read(Fields(c)[f].codec, object[f])]
        result == [f \in DOMAIN Fields(c) |->
                        IF f \in present THEN values[f][1] ELSE Defaults(c)[f]]
    IN  IF (\E f \in present : values[f] = None) \/ ~Validate(c, result) THEN None ELSE Some(result)

\* jsoncpp (external): as*() converts between the scalars, all but a string
\* that is to be a number or a Boolean, and throws for the others.  A real is
\* written <<"real", n>> and stands for n + 1/2.
AsString(j) ==
    CASE j[1] = "str" -> Some(j[2])
      [] j[1] = "null" -> Some("")
      [] j[1] = "bool" -> Some(IF j[2] THEN "true" ELSE "false")
      [] j[1] = "num" -> Some(ToString(j[2]))
      [] j[1] = "real" -> Some(ToString(j[2]) \o ".5")
      [] OTHER -> None

AsInteger(j) ==
    CASE j[1] \in {"num", "real"} -> Some(j[2])
      [] j[1] = "null" -> Some(0)
      [] j[1] = "bool" -> Some(IF j[2] THEN 1 ELSE 0)
      [] OTHER -> None

AsBool(j) ==
    CASE j[1] = "bool" -> Some(j[2])
      [] j[1] = "null" -> Some(FALSE)
      [] j[1] = "num" -> Some(j[2] # 0)
      [] j[1] = "real" -> Some(TRUE)
      [] OTHER -> None

\* isMember() and getMemberNames(): null is an object without members.
AsObject(j) ==
    CASE j[1] = "obj" -> Some(j[2])
      [] j[1] = "null" -> Some(<<>>)
      [] OTHER -> None

Within(r, set) == IF r # None /\ r[1] \in set THEN r ELSE None

AllOf(rs) ==
    IF \E i \in DOMAIN rs : rs[i] = None THEN None ELSE Some([i \in DOMAIN rs |-> rs[i][1]])

\* static_cast takes any number for an enumerator.
Enumerator(values, n) == IF n + 1 \in DOMAIN values THEN values[n + 1] ELSE "#" \o ToString(n)

\* A negative number for an unsigned field, a port beyond 16 bits, an unknown
\* name and a vector that is no array throw, and so does what as*() refuses.
Read(codec, j) ==
    CASE codec.kind = "num" -> AsInteger(j)
      [] codec.kind = "size" -> Within(AsInteger(j), Nat)
      [] codec.kind = "u16" -> Within(AsInteger(j), 0 .. 65535)
      [] codec.kind = "text" -> AsString(j)
      [] codec.kind = "enumText" -> Within(AsString(j), codec.of)
      [] codec.kind = "bool" -> AsBool(j)
      [] codec.kind = "enumInt" ->
            LET r == AsInteger(j) IN IF r = None THEN None ELSE Some(Enumerator(codec.of, r[1]))
      [] codec.kind = "map" ->
            LET r == AsObject(j) IN IF r = None THEN None ELSE AllOf([k \in DOMAIN r[1] |-> AsString(r[1][k])])
      [] codec.kind = "optional" -> LET r == Read(codec.of, j) IN IF r = None THEN None ELSE Some(r)
      [] codec.kind = "vector" ->
            IF j[1] # "arr" THEN None ELSE AllOf([i \in DOMAIN j[2] |-> Read(codec.of, j[2][i])])
      [] codec.kind = "nested" ->
            LET r == AsObject(j) IN IF r = None THEN None ELSE AutoDeserialize(codec.of, r[1])

-----------------------------------------------------------------------------
(* Building *)

Samples(codec) ==
    CASE codec.kind = "num" -> Nums
      [] codec.kind = "size" -> Nums \intersect Nat
      [] codec.kind = "u16" -> {0, 443}
      [] codec.kind = "text" -> Texts
      [] codec.kind = "bool" -> BOOLEAN
      [] codec.kind = "enumInt" -> Range(codec.of)
      [] codec.kind = "enumText" -> codec.of
      [] codec.kind = "map" -> {<<>>} \union {("keepalives" :> t) : t \in Texts}
      [] codec.kind = "optional" -> IF codec.of = Text THEN {Some(t) : t \in Texts} ELSE {Some(t) : t \in TlsSamples}
      [] codec.kind = "vector" ->
            IF codec.of.kind = "nested" THEN {<<l>> : l \in ListenerSamples}
            ELSE SeqOf(codec.of.of, 2)
      [] codec.kind = "nested" -> {Seed[codec.of]}

\* A builder starts from the defaults or, where it has the constructor or
\* after the setter calls, from a configuration that the program has.
ConfigInit ==
    /\ class \in Classes
    /\ cfg \in {Defaults(class)} \union (IF class \in DOMAIN Seed THEN {Seed[class]} ELSE {})
    /\ sets = 0
    /\ phase = "building"
    /\ origin = "builder"
    /\ doc = <<>>
    /\ edit = <<"none", "">>
    /\ loaded = None
    /\ attached = <<>>

Building == phase = "building" /\ sets < MaxSets

\* The setters of the builders, one field each.
SetField(f) ==
    /\ Building
    /\ f \in Setters(class)
    /\ \E v \in Samples(Fields(class)[f].codec) : cfg' = [cfg EXCEPT ![f] = v]
    /\ sets' = sets + 1
    /\ UNCHANGED <<class, phase, origin, doc, edit, loaded, attached>>

\* credentials() of ConnectionConfig::Builder replaces the credentials; its
\* host(), port(), dbname(), user() and password() rebuild them around the
\* other four.
SetCredential(f) ==
    /\ Building
    /\ class = "ConnectionConfig"
    /\ \/ cfg' = [cfg EXCEPT !.credentials = Seed["ConnectionCredentials"]]
       \/ \E t \in Texts : cfg' = [cfg EXCEPT !.credentials[f] = t]
    /\ sets' = sets + 1
    /\ UNCHANGED <<class, phase, origin, doc, edit, loaded, attached>>

\* extra_option() adds one entry.
SetExtraOption(k, t) ==
    /\ Building
    /\ class = "ConnectionConfig"
    /\ cfg' = [cfg EXCEPT !.extra_options = (k :> t) @@ @]
    /\ sets' = sets + 1
    /\ UNCHANGED <<class, phase, origin, doc, edit, loaded, attached>>

\* add_listener()
AddListener ==
    /\ Building
    /\ class = "ServerConfig"
    /\ \E l \in ListenerSamples : cfg' = [cfg EXCEPT !.listeners = Append(@, l)]
    /\ sets' = sets + 1
    /\ UNCHANGED <<class, phase, origin, doc, edit, loaded, attached>>

\* finalize()
Finalize ==
    /\ phase = "building"
    /\ phase' = IF Validate(class, cfg) THEN "built" ELSE "threw"
    /\ UNCHANGED <<class, cfg, sets, origin, doc, edit, loaded, attached>>

\* ConnectionConfig::local_dev(), testing(), production() and PoolConfig's
\* minimal(), standard(), high_performance(): setters on a new builder.
ConnectionPreset(name) ==
    LET d == Defaults("ConnectionConfig") IN
    CASE name = "local_dev" -> [d EXCEPT !.ssl_mode = "disable", !.connect_timeout = 5]
      [] name = "testing" -> [d EXCEPT !.credentials = [host |-> "localhost", port |-> "5433", dbname |-> "test_db",
                                                        user |-> "test_user", password |-> "test_password"],
                                       !.ssl_mode = "disable", !.connect_timeout = 10]
      [] name = "production" -> [d EXCEPT !.ssl_mode = "verify-full", !.connect_timeout = 30,
                                          !.statement_timeout = 60]

PoolPreset(name) ==
    LET d == Defaults("PoolConfig") IN
    CASE name = "minimal" -> [d EXCEPT !.capacity = 2, !.min_connections = 1]
      [] name = "standard" -> d
      [] name = "high_performance" -> [d EXCEPT !.capacity = 64, !.min_connections = 8, !.health_check_interval = 15]

Preset(name) ==
    /\ Building
    /\ sets = 0
    /\ \/ /\ class = "ConnectionConfig" /\ name \in {"local_dev", "testing", "production"}
          /\ cfg' = ConnectionPreset(name)
       \/ /\ class = "PoolConfig" /\ name \in {"minimal", "standard", "high_performance"}
          /\ cfg' = PoolPreset(name)
    /\ origin' = name
    /\ sets' = MaxSets
    /\ UNCHANGED <<class, phase, doc, edit, loaded, attached>>

-----------------------------------------------------------------------------
(* Saving and loading *)

\* serialize(), which validates first; dump_server_config() of a server.
Serialize ==
    /\ phase = "built"
    /\ doc' = AutoSerialize(class, cfg)
    /\ phase' = "saved"
    /\ UNCHANGED <<class, cfg, sets, origin, edit, loaded, attached>>

\* What a value may be replaced by.
Replacements ==
    {<<"null", 0>>, <<"bool", TRUE>>, <<"num", 7>>, <<"num", -1>>, <<"num", 70000>>, <<"real", 1>>,
     <<"str", "x">>, <<"arr", <<>>>>, <<"arr", <<<<"null", 0>>>>>>, <<"obj", <<>>>>}

\* The file is edited by hand: a key goes, a value is replaced by one of any
\* type, a key is added that nobody reads.
EditDocument ==
    /\ phase = "saved"
    /\ edit[1] = "none"
    /\ \/ \E f \in DOMAIN doc :
            /\ doc' = [g \in DOMAIN doc \ {f} |-> doc[g]]
            /\ edit' = <<"dropped", f>>
       \/ \E f \in DOMAIN doc, j \in Replacements :
            /\ sets <= MaxReplaced
            /\ doc' = [doc EXCEPT ![f] = j]
            /\ edit' = <<"replaced", f>>
       \/ /\ doc' = ("comment" :> <<"str", "x">>) @@ doc
          /\ edit' = <<"unknown", "">>
    /\ UNCHANGED <<class, cfg, sets, phase, origin, loaded, attached>>

\* deserialize(), as load_server_config() calls it: one of its error results
\* when anything throws.
Deserialize ==
    /\ phase = "saved"
    /\ loaded' = AutoDeserialize(class, doc)
    /\ phase' = IF loaded' = None THEN "refused" ELSE "loaded"
    /\ UNCHANGED <<class, cfg, sets, origin, doc, edit, attached>>

-----------------------------------------------------------------------------
(* attach_default_listeners() *)

EffectiveProtocols(l) ==
    IF l.protocols # <<>> THEN l.protocols
    ELSE IF l.transport = "quic" THEN <<"http3">> ELSE <<"http1">>

\* The combinations that attach_one() has a listener for.
Servable(l) ==
    LET ps == EffectiveProtocols(l) IN
    \/ l.transport = "tcp" /\ ps = <<"http1">>
    \/ l.transport = "tls" /\ ps \in {<<"http1">>, <<"http2">>, <<"http1", "http2">>, <<"http2", "http1">>}
    \/ l.transport = "quic" /\ ps = <<"http3">>

\* make_http11_config()
MakeHttp11Config == [max_body_bytes |-> cfg.body_limit, timeouts |-> cfg.timeouts]

\* Listeners are attached in order until one is not supported; that throws
\* and leaves the ones before it attached.
AttachDefaultListeners ==
    /\ class = "ServerConfig"
    /\ phase = "built"
    /\ LET ls == cfg.listeners
           bad == {i \in DOMAIN ls : ~Servable(ls[i])}
           upto == IF bad = {} THEN Len(ls) ELSE Min(bad) - 1
           one(l) == [transport |-> l.transport, drivers |-> EffectiveProtocols(l),
                      tls |-> IF l.transport = "tcp" THEN None ELSE l.tls,
                      http11 |-> MakeHttp11Config]
       IN  attached' = [i \in 1 .. upto |-> one(ls[i])]
    /\ phase' = "attached"
    /\ UNCHANGED <<class, cfg, sets, origin, doc, edit, loaded>>

ConfigNext ==
    \/ \E f \in DOMAIN Fields(class) : SetField(f)
    \/ \E f \in DOMAIN CredentialsFields : SetCredential(f)
    \/ \E t \in Texts : SetExtraOption("options", t)
    \/ AddListener
    \/ \E name \in {"local_dev", "testing", "production", "minimal", "standard", "high_performance"} : Preset(name)
    \/ Finalize
    \/ Serialize
    \/ EditDocument
    \/ Deserialize
    \/ AttachDefaultListeners

ConfigSpec == ConfigInit /\ [][ConfigNext]_configVars

-----------------------------------------------------------------------------
(* The libpq connection string, as a sequence of characters *)

\* escape_connection_value()
EscapeConnectionValue(t) ==
    LET escaped == FlattenSeq([i \in DOMAIN t |-> IF t[i] \in {"bs", "q"} THEN <<"bs", t[i]>> ELSE <<t[i]>>])
    IN  IF t = <<>> THEN <<"q", "q">>
        ELSE IF \E i \in DOMAIN t : t[i] \in {"bs", "q", "sp", "eq"}
        THEN <<"q">> \o escaped \o <<"q">>
        ELSE escaped

Option(key, t) == <<key, EscapeConnectionValue(Chars[t])>>
Given(key, t) == IF t = "" THEN <<>> ELSE <<Option(key, t)>>
GivenOptional(key, o) == IF o = None THEN <<>> ELSE <<Option(key, o[1])>>

\* to_connection_string() of the credentials: what is empty is left to libpq.
CredentialsOptions(c) ==
    Given("host", c.host) \o Given("port", c.port) \o Given("dbname", c.dbname)
        \o Given("user", c.user) \o Given("password", c.password)

\* ... and of the whole configuration.  Numbers and sslmode need no escapes.
ConnectionOptions(c) ==
    CredentialsOptions(c.credentials)
        \o <<<<"sslmode", <<c.ssl_mode>>>>>>
        \o GivenOptional("sslcert", c.ssl_cert) \o GivenOptional("sslkey", c.ssl_key)
        \o GivenOptional("sslrootcert", c.ssl_root_cert)
        \o (IF c.connect_timeout > 0 THEN <<<<"connect_timeout", <<ToString(c.connect_timeout)>>>>>> ELSE <<>>)
        \o Given("application_name", c.application_name)
        \o [i \in 1 .. Cardinality(DOMAIN c.extra_options) |->
              LET k == SetToSeq(DOMAIN c.extra_options)[i] IN Option(k, c.extra_options[k])]

ToConnectionString(options) ==
    FlattenSeq([i \in DOMAIN options |->
        (IF i = 1 THEN <<>> ELSE <<"sp">>) \o <<options[i][1], "eq">> \o options[i][2]])

\* libpq's own reading of one value, from position i: quoted up to the closing
\* quote, or plain up to white space, with backslash escapes in both.
RECURSIVE ReadValue(_, _, _, _)
ReadValue(s, i, quoted, out) ==
    IF i > Len(s) THEN [out |-> out, next |-> i]
    ELSE IF s[i] = "bs" THEN ReadValue(s, i + 2, quoted, IF i < Len(s) THEN Append(out, s[i + 1]) ELSE out)
    ELSE IF (IF quoted THEN s[i] = "q" ELSE s[i] \in {"sp", "tab"}) THEN [out |-> out, next |-> i + 1]
    ELSE ReadValue(s, i + 1, quoted, Append(out, s[i]))

\* All options of a connection string, in order.
RECURSIVE ReadOptions(_, _)
ReadOptions(s, i) ==
    IF i > Len(s) THEN <<>>
    ELSE IF s[i] \in {"sp", "tab"} THEN ReadOptions(s, i + 1)
    ELSE IF i = Len(s) \/ s[i + 1] # "eq" THEN <<<<"error", <<>>>>>>
    ELSE LET quoted == i + 2 <= Len(s) /\ s[i + 2] = "q"
             v == ReadValue(s, IF quoted THEN i + 3 ELSE i + 2, quoted, <<>>)
         IN  <<<<s[i], v.out>>>> \o ReadOptions(s, v.next)

-----------------------------------------------------------------------------
(* Properties *)

\* What a document can carry: secrets and excluded members are at their
\* defaults, in nested configurations too.
RECURSIVE Public(_, _)
Public(c, v) ==
    [f \in DOMAIN v |->
        LET codec == Fields(c)[f].codec IN
        IF Fields(c)[f].policy # "Normal" THEN Defaults(c)[f]
        ELSE CASE codec.kind = "nested" -> Public(codec.of, v[f])
               [] codec.kind = "optional" /\ codec.of.kind = "nested" ->
                    [i \in DOMAIN v[f] |-> Public(codec.of.of, v[f][i])]
               [] codec.kind = "vector" /\ codec.of.kind = "nested" ->
                    [i \in DOMAIN v[f] |-> Public(codec.of.of, v[f][i])]
               [] OTHER -> v[f]]

\* The JSON types that a field accepts, and the values that it may then have.
RECURSIVE Accepts(_)
Accepts(codec) ==
    CASE codec.kind \in {"num", "size", "u16", "enumInt", "bool"} -> {"null", "bool", "num", "real"}
      [] codec.kind = "text" -> {"null", "bool", "num", "real", "str"}
      [] codec.kind = "enumText" -> {"str"}
      [] codec.kind \in {"map", "nested"} -> {"null", "obj"}
      [] codec.kind = "vector" -> {"arr"}
      [] codec.kind = "optional" -> Accepts(codec.of)

RECURSIVE HasType(_, _)
HasType(codec, v) ==
    CASE codec.kind = "num" -> v \in Int
      [] codec.kind = "size" -> v \in Nat
      [] codec.kind = "u16" -> v \in 0 .. 65535
      [] codec.kind = "text" -> v \in STRING
      [] codec.kind = "enumText" -> v \in codec.of
      [] codec.kind = "enumInt" -> v \in Range(codec.of)
      [] codec.kind = "bool" -> v \in BOOLEAN
      [] codec.kind = "map" -> \A k \in DOMAIN v : v[k] \in STRING
      [] codec.kind \in {"optional", "vector"} -> \A i \in DOMAIN v : HasType(codec.of, v[i])
      [] codec.kind = "nested" -> \A f \in DOMAIN v : HasType(Fields(codec.of)[f].codec, v[f])

\* The number of an enumerator is not checked against the enumeration.
Unnamed(codec, j) == codec.kind = "enumInt" /\ AsInteger(j)[1] + 1 \notin DOMAIN codec.of

\* Every configuration that its builder accepts survives serialize() and
\* deserialize() up to the members that must not be written, which leave the
\* process in no document, at no depth.  A missing key means the default, an
\* unknown one nothing.  A value replaced by hand changes its own field only:
\* it is refused, a string for a number or a Boolean and an array or object
\* for a scalar always, or read as a value of the field's type (but for the
\* number of an enumerator, which is cast unchecked); whatever is loaded is
\* valid.
ConfigSurvives ==
    LET public == Public(class, cfg)
        f == edit[2]
        codec == Fields(class)[f].codec
        without == [public EXCEPT ![f] = Defaults(class)[f]]
    IN
    /\ phase = "saved" /\ edit[1] = "none" => doc = AutoSerialize(class, public)
                                           /\ \A g \in DOMAIN doc : Fields(class)[g].policy = "Normal"
    /\ phase = "loaded" =>
        /\ Validate(class, loaded[1])
        /\ edit[1] \in {"none", "unknown"} => loaded[1] = public
        /\ edit[1] = "dropped" => loaded[1] = without
        /\ edit[1] = "replaced" =>
            /\ doc[f][1] \in Accepts(codec)
            /\ \A g \in DOMAIN public \ {f} : loaded[1][g] = public[g]
            /\ HasType(codec, loaded[1][f]) \/ Unnamed(codec, doc[f])
    /\ phase = "refused" => edit[1] = "replaced" \/ (edit[1] = "dropped" /\ ~Validate(class, without))

\* libpq reads from the connection string exactly the options that were set,
\* with their values, whatever quotes, blanks, backslashes and equal signs the
\* values hold, and no other.  White space other than a blank is not covered:
\* it is written without quotes.  Of the members, search_path and those that
\* the documentation calls not applied are not written at all.
ConnectionStringExact ==
    phase = "built" /\ class = "ConnectionConfig" =>
        LET c == cfg.credentials
            plain(t) == "tab" \notin Range(Chars[t])
            texts == {c.host, c.port, c.dbname, c.user, c.password, cfg.application_name}
                        \union Range(cfg.ssl_cert) \union Range(cfg.ssl_key) \union Range(cfg.ssl_root_cert)
                        \union {cfg.extra_options[k] : k \in DOMAIN cfg.extra_options}
            read == ReadOptions(ToConnectionString(ConnectionOptions(cfg)), 1)
            value(key) == {read[i][2] : i \in {j \in DOMAIN read : read[j][1] = key}}
            given(t) == IF t = "" THEN {} ELSE {Chars[t]}
        IN  (\A t \in texts : plain(t)) =>
                /\ \A f \in DOMAIN c : value(f) = given(c[f])
                /\ \A k \in DOMAIN cfg.extra_options : value(k) = {Chars[cfg.extra_options[k]]}
                /\ value("sslmode") = {<<cfg.ssl_mode>>}
                /\ value("sslcert") = {Chars[t] : t \in Range(cfg.ssl_cert)}
                /\ value("sslkey") = {Chars[t] : t \in Range(cfg.ssl_key)}
                /\ value("sslrootcert") = {Chars[t] : t \in Range(cfg.ssl_root_cert)}
                /\ value("connect_timeout") =
                        IF cfg.connect_timeout = 0 THEN {} ELSE {<<ToString(cfg.connect_timeout)>>}
                /\ value("application_name") = given(cfg.application_name)
                /\ {read[i][1] : i \in DOMAIN read} \subseteq
                        DOMAIN c \union DOMAIN cfg.extra_options \union
                        {"sslmode", "sslcert", "sslkey", "sslrootcert", "connect_timeout", "application_name"}

\* attach_one() dereferences the TLS material only where validate() has made
\* sure of it, and gives every listener its protocols in the configured order.
AttachedAsConfigured ==
    \A i \in DOMAIN attached :
        LET l == cfg.listeners[i] IN
        /\ attached[i].drivers = EffectiveProtocols(l)
        /\ attached[i].tls = l.tls
        /\ l.transport # "tcp" => l.tls # None

\* A configuration means the same wherever it goes: to a document and back
\* (ConfigSurvives), to libpq (ConnectionStringExact), to the listeners of the
\* server (AttachedAsConfigured).
ConfigSound == ConfigSurvives /\ ConnectionStringExact /\ AttachedAsConfigured

==============================================================================
