SPECIFICATION Spec
CONSTANTS
    daemon = daemon
    cli = cli
    short = short
    long = long
    NoBuild = NoBuild
    Builds <- TwoBuilds
    Length <- Blocks12
    MaxLength = 2
    Updaters <- OneUpdater
INVARIANT
    FailedCommandIsReported
