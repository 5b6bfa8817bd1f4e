SPECIFICATION ConfigSpec
CONSTANTS
    Unparsable = Unparsable
    NoMethods = NoMethods
    FileSettings <- DisabledSettings
    ServiceSettings <- NoSettings
    FlagSettings <- NoSettings
    ShellSettings <- NoSettings
    MaxSettings = 2
INVARIANTS
    DisabledHostHasNoComponent
