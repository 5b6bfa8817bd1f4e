SPECIFICATION Spec
CONSTANTS
    d1 = d1
    d2 = d2
    app1 = app1
    pair1 = pair1
    NoDaemon = NoDaemon
    NoCommand = NoCommand
    Daemons <- TwoDaemons
    Commands <- TwoCommands
    AppCommands <- OneApp
INVARIANTS
    ReachableUnlessOverlapped
    OutdatedOnlyByDirectWrite
    SocketChangeNotUndone
SYMMETRY Symmetry
CHECK_DEADLOCK FALSE
