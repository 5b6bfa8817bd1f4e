SPECIFICATION FairSpec
CONSTANTS
    daemon = daemon
    cli = cli
    short = short
    long = long
    NoBuild = NoBuild
    Builds <- TwoBuilds
    Length <- Blocks12
    MaxLength = 2
    Updaters <- TwoUpdaters
INVARIANTS
    CommandFindsWhatWasVerified
PROPERTY
    UpdateEnds
