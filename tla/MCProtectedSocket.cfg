SPECIFICATION Spec
CONSTANTS
    Calls <- MCCalls
    Kinds = {"dial", "dialudp", "listen", "listenudp", "resolve", "probe"}
    NumFds = 3
INVARIANTS
    OwnSockets
    NoFdLeak
PROPERTY
    CallEnds
CHECK_DEADLOCK FALSE
