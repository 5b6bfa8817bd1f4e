SPECIFICATION Spec
CONSTANTS
    d1 = d1
    d2 = d2
    app1 = app1
    pair1 = pair1
    NoDaemon = NoDaemon
    NoCommand = NoCommand
    Daemons <- OneDaemon
    Commands <- TwoCommands
    AppCommands <- OneApp
INVARIANTS
    RefusedSocketFallsBack
CHECK_DEADLOCK FALSE
