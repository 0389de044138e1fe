CONSTANTS
    Main = Main
    Listener = Listener
    Workers = {w1}
    SentSignals = {"SIGINT", "SIGTERM", "SIGHUP"}
    MaxSignals = 3
    FaultThreads = {Listener, w1}
SPECIFICATION Spec
INVARIANTS
    OneSigintIsGraceful
PROPERTIES
    TerminationWakesMain
    ShutdownCompletes
CHECK_DEADLOCK FALSE
