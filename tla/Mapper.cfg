SPECIFICATION FairSpec
CONSTANTS
    core = core
    apps = apps
    loop1 = loop1
    caller1 = caller1
    caller2 = caller2
    Main = Main
    Nil = Nil
    GroupVersions <- TwoGroups
    Legacy <- CoreGroup
    Loops <- OneLoop
    Callers <- TwoCallers
    MaxClock = 2
    MaxFaults = 1
INVARIANTS
    TypeOK
    LookupFindsDelegate
    LookupIsCurrent
    KnownUnlessFailed
PROPERTIES
    NoRollback
    MonotonicLookups
    LookupReturns
    RoundsEnd
    Converges
    StopEndsLoops
