SPECIFICATION TxSpec
CONSTANTS
    Conns = {c1}
    Txs = {t1}
    Sps = {s1, s2}
    MaxSavepoints = 2
    Execs = {e1}
    NoConn = NoConn
    CleanupSql = FALSE
    MaxUnits = 1
    MaxWrites = 1
INVARIANTS ReportedWorkKept
CHECK_DEADLOCK FALSE
