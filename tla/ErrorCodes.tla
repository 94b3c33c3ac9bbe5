---------------------------- MODULE ErrorCodes ----------------------------
(***************************************************************************)
(* How savanna names failures and how the PostgreSQL provider maps what    *)
(* libpq reports to those names: the ErrorCode enumerations and            *)
(* is_retryable of base/errors, map_sqlstate, map_exec_status and the      *)
(* extraction of errors/, and the checks the synchronous executor makes    *)
(* around one statement.  The texts of names, descriptions and diagnostics *)
(* are left out.                                                           *)
(***************************************************************************)
EXTENDS Integers, Sequences, TLC

VARIABLES
    connection, \* PQstatus of the executor's connection, "null" without one
    answer,     \* what libpq returned for the statement
    outcome     \* what execute() answered

errorVars == <<connection, answer, outcome>>

None == <<>>
Some(x) == <<x>>

(* ----------------------------- error codes ------------------------------ *)

ClientErrorCode ==
    [Success |-> 0,
     InvalidArgument |-> 100, SyntaxError |-> 101, InvalidParameter |-> 102, TypeMismatch |-> 103,
     NullConversion |-> 104, InvalidCast |-> 105, OutOfRange |-> 106,
     ConfigurationError |-> 200, ConnectionStringError |-> 201, AuthenticationError |-> 202,
     InvalidOption |-> 203, MissingParameter |-> 204,
     InvalidState |-> 300, NotConnected |-> 301, AlreadyConnected |-> 302, TransactionActive |-> 303,
     NoActiveTransaction |-> 304, PoolExhausted |-> 310, PoolShutdown |-> 311, WaitTimeout |-> 312]

ServerErrorCode ==
    [Success |-> 0,
     RuntimeError |-> 100, ConnectionError |-> 110, ConnectionLost |-> 111, ConnectionTimeout |-> 112,
     ConnectionRefused |-> 113, DeadlockDetected |-> 120, LockTimeout |-> 121, StatementTimeout |-> 122,
     SerializationFailure |-> 123,
     ConstraintViolation |-> 200, UniqueViolation |-> 201, ForeignKeyViolation |-> 202,
     CheckViolation |-> 203, NotNullViolation |-> 204, ExclusionViolation |-> 205,
     DataError |-> 300, DataTooLong |-> 301, NumericOverflow |-> 302, DivisionByZero |-> 303,
     InvalidDatetime |-> 304, InvalidEncoding |-> 305, InvalidTextFormat |-> 306,
     AccessError |-> 400, PermissionDenied |-> 401, ObjectNotFound |-> 402, DatabaseNotFound |-> 403,
     TableNotFound |-> 404, ColumnNotFound |-> 405, SchemaNotFound |-> 406, FunctionNotFound |-> 407,
     ResourceError |-> 500, OutOfMemory |-> 501, DiskFull |-> 502, TooManyConnections |-> 503,
     ConfigurationLimit |-> 504, QueryTooComplex |-> 505,
     TransactionError |-> 600, TransactionRollback |-> 601, TransactionAborted |-> 602,
     InvalidIsolationLevel |-> 603]

FatalErrorCode ==
    [InternalError |-> 1, CorruptionDetected |-> 2, ProtocolViolation |-> 3, AssertionFailure |-> 4,
     UnexpectedState |-> 5]

(* The class ErrorCode: a category and the number of the enumerator. *)
Success == [category |-> "success", code |-> 0]
Client(name) == [category |-> "client", code |-> ClientErrorCode[name]]
Server(name) == [category |-> "server", code |-> ServerErrorCode[name]]
Fatal(name) == [category |-> "fatal", code |-> FatalErrorCode[name]]

IsRetryable(e) ==
    /\ e.category = "server"
    /\ \/ e.code \in 100 .. 199
       \/ e.code \in 500 .. 599
       \/ e.code \in {601, 602}

(* ---------------------------- what libpq says --------------------------- *)

SuccessStatuses == {"COMMAND_OK", "TUPLES_OK", "COPY_OUT", "COPY_IN", "COPY_BOTH", "SINGLE_TUPLE",
                    "PIPELINE_SYNC"}
ErrorStatuses == {"EMPTY_QUERY", "PIPELINE_ABORTED", "BAD_RESPONSE", "NONFATAL_ERROR", "FATAL_ERROR"}
ExecStatus == SuccessStatuses \cup {"TUPLES_CHUNK"} \cup ErrorStatuses

(* A SQLSTATE is its class and the rest; "other" is any code of a class     *)
(* that the mapping does not name.                                         *)
ByClass ==
    ("08" :> Server("ConnectionError")) @@ ("0A" :> Client("InvalidOption")) @@
    ("20" :> Server("ObjectNotFound")) @@ ("21" :> Server("DataError")) @@
    ("22" :> Server("DataError")) @@ ("23" :> Server("ConstraintViolation")) @@
    ("24" :> Client("InvalidState")) @@ ("25" :> Client("InvalidState")) @@
    ("26" :> Client("InvalidArgument")) @@ ("28" :> Client("AuthenticationError")) @@
    ("2B" :> Server("ConstraintViolation")) @@ ("2D" :> Server("TransactionError")) @@
    ("2F" :> Server("RuntimeError")) @@ ("34" :> Client("InvalidArgument")) @@
    ("38" :> Server("RuntimeError")) @@ ("39" :> Server("RuntimeError")) @@
    ("3B" :> Server("TransactionError")) @@ ("3D" :> Server("DatabaseNotFound")) @@
    ("3F" :> Server("SchemaNotFound")) @@ ("40" :> Server("TransactionRollback")) @@
    ("42" :> Client("SyntaxError")) @@ ("44" :> Server("CheckViolation")) @@
    ("53" :> Server("ResourceError")) @@ ("54" :> Server("ConfigurationLimit")) @@
    ("55" :> Client("InvalidState")) @@ ("57" :> Server("RuntimeError")) @@
    ("58" :> Fatal("InternalError")) @@ ("F0" :> Client("ConfigurationError")) @@
    ("HV" :> Server("RuntimeError")) @@ ("P0" :> Server("RuntimeError")) @@
    ("XX" :> Fatal("InternalError"))

ConnectionAndDataCodes ==
    (<<"08", "003">> :> Client("NotConnected")) @@ (<<"08", "006">> :> Server("ConnectionLost")) @@
    (<<"08", "P01">> :> Fatal("ProtocolViolation")) @@
    (<<"22", "001">> :> Server("DataTooLong")) @@ (<<"22", "003">> :> Server("NumericOverflow")) @@
    (<<"22", "007">> :> Server("InvalidDatetime")) @@ (<<"22", "008">> :> Server("InvalidDatetime")) @@
    (<<"22", "012">> :> Server("DivisionByZero")) @@ (<<"22", "P02">> :> Server("InvalidTextFormat")) @@
    (<<"22", "P03">> :> Server("InvalidEncoding")) @@ (<<"22", "P04">> :> Server("InvalidTextFormat")) @@
    (<<"23", "502">> :> Server("NotNullViolation")) @@ (<<"23", "503">> :> Server("ForeignKeyViolation")) @@
    (<<"23", "505">> :> Server("UniqueViolation")) @@ (<<"23", "514">> :> Server("CheckViolation")) @@
    (<<"23", "P01">> :> Server("ExclusionViolation"))

TransactionAndAccessCodes ==
    (<<"25", "001">> :> Client("TransactionActive")) @@ (<<"25", "P01">> :> Client("NoActiveTransaction")) @@
    (<<"25", "P02">> :> Client("TransactionActive")) @@ (<<"25", "P03">> :> Client("NoActiveTransaction")) @@
    (<<"40", "001">> :> Server("SerializationFailure")) @@ (<<"40", "002">> :> Server("TransactionAborted")) @@
    (<<"40", "003">> :> Server("TransactionAborted")) @@ (<<"40", "P01">> :> Server("DeadlockDetected")) @@
    (<<"42", "501">> :> Server("PermissionDenied")) @@ (<<"42", "703">> :> Server("ColumnNotFound")) @@
    (<<"42", "704">> :> Server("ObjectNotFound")) @@ (<<"42", "804">> :> Client("TypeMismatch")) @@
    (<<"42", "846">> :> Client("TypeMismatch")) @@ (<<"42", "P18">> :> Client("TypeMismatch")) @@
    (<<"42", "830">> :> Server("PermissionDenied")) @@ (<<"42", "883">> :> Server("FunctionNotFound")) @@
    (<<"42", "P01">> :> Server("TableNotFound")) @@ (<<"42", "P02">> :> Client("InvalidParameter")) @@
    (<<"42", "P04">> :> Server("DatabaseNotFound")) @@ (<<"42", "P06">> :> Server("SchemaNotFound")) @@
    (<<"42", "P15">> :> Server("SchemaNotFound"))

ResourceAndSystemCodes ==
    (<<"53", "100">> :> Server("DiskFull")) @@ (<<"53", "200">> :> Server("OutOfMemory")) @@
    (<<"53", "300">> :> Server("TooManyConnections")) @@ (<<"53", "400">> :> Server("ConfigurationLimit")) @@
    (<<"54", "001">> :> Server("QueryTooComplex")) @@ (<<"54", "011">> :> Server("TooManyConnections")) @@
    (<<"54", "023">> :> Server("TooManyConnections")) @@
    (<<"55", "P02">> :> Server("LockTimeout")) @@ (<<"55", "P03">> :> Server("LockTimeout")) @@
    (<<"57", "014">> :> Server("StatementTimeout")) @@
    [s \in {"57"} \X {"P01", "P02", "P03", "P04", "P05"} |-> Server("ConnectionError")] @@
    (<<"58", "030">> :> Fatal("CorruptionDetected")) @@
    (<<"P0", "002">> :> Server("ObjectNotFound")) @@ (<<"P0", "003">> :> Server("DataError")) @@
    (<<"P0", "004">> :> Client("InvalidParameter")) @@
    (<<"XX", "001">> :> Fatal("CorruptionDetected")) @@ (<<"XX", "002">> :> Fatal("CorruptionDetected"))

ByCode == ConnectionAndDataCodes @@ TransactionAndAccessCodes @@ ResourceAndSystemCodes
Sqlstates == DOMAIN ByCode \cup ((DOMAIN ByClass \cup {"00", "01"}) \X {"000", "other"})

\* Bug: the class alone decides.
MapSqlstateByClass(s) ==
    IF s[1] = "00" THEN None
    ELSE IF s[1] \in DOMAIN ByClass THEN Some(ByClass[s[1]])
    ELSE Some(Fatal("UnexpectedState"))

MapSqlstate(s) ==
    IF s[1] = "00" THEN None
    ELSE IF s \in DOMAIN ByCode THEN Some(ByCode[s])
    ELSE IF s[1] \in DOMAIN ByClass THEN Some(ByClass[s[1]])
    ELSE Some(Fatal("UnexpectedState"))

MapExecStatus(status) ==
    CASE status \in SuccessStatuses \cup {"TUPLES_CHUNK"} -> None
      [] status = "EMPTY_QUERY" -> Some(Client("InvalidArgument"))
      [] status = "PIPELINE_ABORTED" -> Some(Server("TransactionAborted"))
      [] status = "BAD_RESPONSE" -> Some(Fatal("ProtocolViolation"))
      [] OTHER -> Some(Server("RuntimeError"))

IsSuccessStatus(status) == status \in SuccessStatuses

(* extract_error(): the code, None for a success; the SQLSTATE field, when  *)
(* the result has one, decides.                                            *)
ExtractError(r) ==
    IF r = None THEN Some(Fatal("UnexpectedState"))
    ELSE IF IsSuccessStatus(r[1].status) THEN None
    ELSE IF r[1].sqlstate # None THEN MapSqlstate(r[1].sqlstate[1])
    ELSE MapExecStatus(r[1].status)

(* PQstatus: the states of a connection that is being established count as  *)
(* one.                                                                    *)
ConnStatus == {"null", "OK", "BAD", "pending"}
CheckConnection(c) ==
    CASE c = "null" -> Client("NotConnected")
      [] c = "OK" -> Success
      [] c = "BAD" -> Server("ConnectionLost")
      [] OTHER -> Client("InvalidState")
ExtractConnectionError(c) ==
    CASE c = "null" -> Client("NotConnected")
      [] c = "BAD" -> Server("ConnectionLost")
      [] OTHER -> Server("RuntimeError")

(* libpq gives an error result its SQLSTATE when the server sent one; it    *)
(* gives none to other results.                                            *)
Answers ==
    {[status |-> s, sqlstate |-> None] : s \in ExecStatus} \cup
    {[status |-> s, sqlstate |-> Some(q)] : s \in {"NONFATAL_ERROR", "FATAL_ERROR"}, q \in Sqlstates}

(* -------------------------------- execute ------------------------------- *)

ErrorsInit ==
    /\ connection \in ConnStatus
    /\ answer = None
    /\ outcome = [kind |-> "none", code |-> Success]

ProcessResult(r) ==
    LET e == ExtractError(r) IN
    IF e = None THEN [kind |-> "rows", code |-> Success] ELSE [kind |-> "error", code |-> e[1]]

(* SyncExecutor::execute_impl: a connection that is not usable is not       *)
(* asked; without a result the connection tells why, and it may have been   *)
(* lost in the meantime.                                                   *)
ExecuteImpl ==
    IF CheckConnection(connection) # Success
    THEN /\ outcome' = [kind |-> "error", code |-> CheckConnection(connection)]
         /\ UNCHANGED <<connection, answer>>
    ELSE \/ /\ connection' \in {"OK", "BAD"}
            /\ answer' = None
            /\ outcome' = [kind |-> "error", code |-> ExtractConnectionError(connection')]
         \/ \E r \in Answers :
                /\ answer' = Some(r)
                /\ outcome' = ProcessResult(Some(r))
                /\ UNCHANGED connection

(* The caller tries again after a retryable error, on a new connection when *)
(* the old one is gone.                                                    *)
Retry ==
    /\ outcome.kind = "error" /\ IsRetryable(outcome.code)
    /\ connection' = IF connection = "BAD" THEN "OK" ELSE connection
    /\ answer' = None
    /\ outcome' = [kind |-> "none", code |-> Success]

ErrorsNext == (outcome.kind = "none" /\ ExecuteImpl) \/ Retry
ErrorsSpec == ErrorsInit /\ [][ErrorsNext]_errorVars

(* ------------------------------ properties ------------------------------ *)

(* What the appendix of error codes in PostgreSQL's manual, the reference  *)
(* sqlstate_mapping.inl cites, says of a SQLSTATE, for the codes of the     *)
(* mapping.  First the condition it names, for the conditions that          *)
(* ErrorCode has an enumerator of its own for.                              *)
Whole(class) == {<<class, "000">>, <<class, "other">>}

Appendix ==
    [UniqueViolation |-> {<<"23", "505">>}, ForeignKeyViolation |-> {<<"23", "503">>},
     NotNullViolation |-> {<<"23", "502">>}, ExclusionViolation |-> {<<"23", "P01">>},
     CheckViolation |-> {<<"23", "514">>} \cup Whole("44"),
     SerializationFailure |-> {<<"40", "001">>}, DeadlockDetected |-> {<<"40", "P01">>},
     StatementTimeout |-> {<<"57", "014">>}, LockTimeout |-> {<<"55", "P03">>},
     DiskFull |-> {<<"53", "100">>}, OutOfMemory |-> {<<"53", "200">>}, TooManyConnections |-> {<<"53", "300">>},
     DataTooLong |-> {<<"22", "001">>}, NumericOverflow |-> {<<"22", "003">>}, DivisionByZero |-> {<<"22", "012">>},
     PermissionDenied |-> {<<"42", "501">>}, TableNotFound |-> {<<"42", "P01">>},
     ColumnNotFound |-> {<<"42", "703">>}, FunctionNotFound |-> {<<"42", "883">>},
     SchemaNotFound |-> Whole("3F"), DatabaseNotFound |-> Whole("3D")]

(* The codes that stand for another condition than the enumerator they get: *)
(* cant_change_runtime_param, too_many_columns and too_many_arguments,      *)
(* invalid_foreign_key, duplicate_schema and invalid_schema_definition,     *)
(* duplicate_database.                                                     *)
Misnamed ==
    [n \in DOMAIN Appendix |->
        CASE n = "LockTimeout" -> {<<"55", "P02">>}
          [] n = "TooManyConnections" -> {<<"54", "011">>, <<"54", "023">>}
          [] n = "PermissionDenied" -> {<<"42", "830">>}
          [] n = "SchemaNotFound" -> {<<"42", "P06">>, <<"42", "P15">>}
          [] n = "DatabaseNotFound" -> {<<"42", "P04">>}
          [] OTHER -> {}]

(* Then whether the condition passes by itself: connections, rollbacks,     *)
(* resources, locks and the interventions of an operator.                   *)
PassesByItself(s) ==
    \/ s[1] \in {"08", "40", "53", "57"} /\ s # <<"40", "002">>
    \/ s = <<"55", "P03">>

(* The advice differs where a routine of the user fails or raises, where a  *)
(* program limit is met or a parameter cannot change, after a violated      *)
(* constraint at commit: none of these goes away by itself; and where the   *)
(* connection is gone or talks another protocol.                            *)
RetriedInVain(s) ==
    \/ s[1] \in {"2F", "38", "39", "HV", "54"}
    \/ s[1] = "P0" /\ s[2] \notin {"002", "003", "004"}
    \/ s \in {<<"55", "P02">>, <<"40", "002">>}
NotRetried(s) == s \in {<<"08", "003">>, <<"08", "P01">>}

(* A result reaches the caller as rows exactly when neither its SQLSTATE    *)
(* nor, without one, its status is an error's; an enumerator is reported    *)
(* for the conditions the appendix gives its name to, and for no others     *)
(* than the misnamed ones; and is_retryable() advises a retry exactly when  *)
(* the condition passes by itself, the cases above apart.  A connection     *)
(* that is lost is always worth a retry.                                    *)
ErrorsClassified ==
    /\ outcome.kind # "none" /\ answer # None =>
        LET r == answer[1] IN
        /\ (outcome.kind = "rows") =
              IF r.sqlstate = None THEN r.status \notin ErrorStatuses ELSE r.sqlstate[1][1] = "00"
        /\ outcome.kind = "error" /\ r.sqlstate # None =>
              LET s == r.sqlstate[1] IN
              /\ \A n \in DOMAIN Appendix :
                    (outcome.code = Server(n)) = (s \in Appendix[n] \cup Misnamed[n])
              /\ IsRetryable(outcome.code) =
                    ((PassesByItself(s) /\ ~NotRetried(s)) \/ RetriedInVain(s))
    /\ outcome.kind = "error" /\ answer = None /\ connection = "BAD" => IsRetryable(outcome.code)
=============================================================================
