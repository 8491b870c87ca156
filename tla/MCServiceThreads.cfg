SPECIFICATION Spec
CONSTANTS
    Main = main
    Services = {s1}
    AutoReload = {s1}
    Daemons = {}
    Signals = {sig1, sig2}
    MainWaits = TRUE
    Timed = TRUE
    Free = free
INVARIANTS NoLostWakeup LeavingIsReported
PROPERTY
    ShutdownEnds
CHECK_DEADLOCK FALSE
