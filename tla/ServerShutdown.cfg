\* A server from startup to exit, with a Sonix application or any other: a
\* connection with two pipelined requests and a handshake behind them, against
\* everything that may end it.
SPECIFICATION FairSpec
CONSTANTS
    Modes = {"auto", "on", "off"}
    Apps = {"sonix", "foreign"}
    Habits = {"misconfigured", "startup_fails", "shutdown_fails", "lingers"}
    Conn = {c1}
    MaxRequests = 2
    Disturbances = {"bind_fails", "slow_client", "lost", "hangs_up", "upgrade", "asks_close", "raises"}
INVARIANTS
    TypeOK
    OnlyCancelledOutlive
    NothingLeftOpen
PROPERTIES
    
    NobodyHangs
