SPECIFICATION FairSpec
CONSTANTS
    core = core
    apps = apps
    loop1 = loop1
    caller1 = caller1
    caller2 = caller2
    Main = Main
    Nil = Nil
    GroupVersions <- TwoGroups
    Legacy <- CoreGroup
    Loops <- NoLoops
    Callers <- OneCaller
    MaxClock = 2
    MaxFaults = 1
PROPERTIES
    PeriodicallyRepopulated
