SPECIFICATION ConfigSpec
CONSTANTS
    Unparsable = Unparsable
    NoMethods = NoMethods
    FileSettings <- MCFileSettings
    ServiceSettings <- MCServiceSettings
    FlagSettings <- MCFlagSettings
    ShellSettings <- MCShellSettings
    MaxSettings = 3
INVARIANTS
    SourcesInOrder
    SavedConfigReadsBack
    ClaimKeepsLists
    ClaimedHostStarts
PROPERTIES
    NoStartFromTornFile
