\* Two fair threads that touch the flag only with the stop signals blocked.
SPECIFICATION FairSpec
CONSTANTS
    Threads = {t1, t2}
    Main = t1
    Signals = {SIGINT, SIGQUIT, SIGUSR1}
    StopSignals = {SIGINT, SIGQUIT}
    Masked = TRUE
    MaxOpen = 1
    MaxRaise = 2
    NULL = null
INVARIANTS
    TypeOK
    NoSelfDeadlock
    NoStopLost
PROPERTIES
    SignalStops
    CallsReturn
