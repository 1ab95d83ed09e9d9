\* The command port may be in use.
CONSTANTS
    Signals = {SIGINT, SIGTERM}
    Handled = {SIGINT, SIGTERM}
    QueueCap = 2
    MaxSignals = 2
SPECIFICATION FairSpec
INVARIANTS BothListening
\* The server may have exited, failed to start, or be stuck in the library.
CHECK_DEADLOCK FALSE
