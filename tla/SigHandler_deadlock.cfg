\* One thread, no discipline: a stop signal arrives while the thread holds the
\* mutex, here at the end of establish_sig_handler.
SPECIFICATION Spec
CONSTANTS
    Threads = {t1}
    Main = t1
    Signals = {SIGINT}
    StopSignals = {SIGINT}
    Masked = FALSE
    MaxOpen = 1
    MaxRaise = 1
    NULL = null
\* The thread that deadlocks with itself is what the run shows.
CHECK_DEADLOCK FALSE
INVARIANTS
    NoSelfDeadlock
