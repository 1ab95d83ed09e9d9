\* Two signals with handlers, up to two datagrams waiting on each socket.
CONSTANTS
    Signals = {SIGINT, SIGTERM}
    Handled = {SIGINT, SIGTERM}
    QueueCap = 2
    MaxSignals = 2
SPECIFICATION FairSpec
INVARIANTS TypeOK BoundedWorkAfterStop
PROPERTIES NoSocketStarves SignalStops
\* The server may have exited, failed to start, or be stuck in the library.
CHECK_DEADLOCK FALSE
