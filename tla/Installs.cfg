CONSTANTS
    Command = {c1, c2}
    MaxRelease = 2
    MaxCuts = 1
    None = None
    Partial = Partial
    Whole = Whole
    Bare = Bare
SPECIFICATION FairSpec
INVARIANTS
    TypeOK
    LauncherStays
    StampNamesRuntime
    CommandsRunTheirRelease
PROPERTIES
    RetriesHeal
