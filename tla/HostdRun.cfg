SPECIFICATION FairSpec
CONSTANTS
    t1 = t1
    h1 = h1
    NoToken = NoToken
    Tokens <- OneToken
    Handlers <- OneHandler
    MinBackoff = 2
    MaxBackoff = 3
    MaxRestarts = 1
INVARIANTS
    TypeOK
    TokenChangeNeverForgotten
    StatusTellsSession
    HeartbeatTimerMatches
    OnlyShutdownEndsRun
    SessionShowsNoError
PROPERTIES
    TokenAdopted
    SilenceEndsSession
    ShutdownCompletes
    KeepsTrying
    ImplementsHandoff
