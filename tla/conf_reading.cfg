SPECIFICATION Spec
CONSTANTS
    public = public
    absent = absent
    cwd = cwd
    name = name
    other = other
    Lines <- AllLines
    Files <- MixedFiles
    Dirs <- JustPublic
    DefaultPort = 7070
    Cwd = cwd
    Name = name
    OptionPorts <- SomeOptions
INVARIANTS
    TypeOK
    FileDecides
    
PROPERTY ReloadKeepsTheRest
CHECK_DEADLOCK FALSE
