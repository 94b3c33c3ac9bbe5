SPECIFICATION Spec
CONSTANTS
    Listeners = {tls, quic}
    TlsListeners = {tls}
    QuicListeners = {quic}
    Conns = {c1}
    Stoppers = {s1}
    Observers = 1
    MaxErrors = 3
    NoListener = NoListener
    NoConn = NoConn
INVARIANT LastTouch
CHECK_DEADLOCK FALSE
