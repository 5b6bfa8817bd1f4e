SPECIFICATION FairSpec
CONSTANTS
    u1 = u1
    u2 = u2
    l1 = l1
    daemon = daemon
    NoCall = NoCall
    Calls <- DaemonCalls
    Loads <- OneLoad
    Procs <- OneProc
    ProcOf <- AllDaemon
INVARIANTS
    StoreTypeOK
    NeverTorn
    AcknowledgedDurable
PROPERTIES
    ImplementsAtomicState
    CallsReturn
    LostOnlyByRemoval
CHECK_DEADLOCK FALSE
