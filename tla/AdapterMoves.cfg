SPECIFICATION FairSpec
CONSTANTS
    c1 = c1
    c2 = c2
    apps = apps
    extensions = extensions
    loop1 = loop1
    Main = Main
    Nil = Nil
    NoMatch = NoMatch
    NoRequest = NoRequest
    NoValue = NoValue
    GroupVersions <- TwoGroups
    Legacy = {}
    Loops = {loop1}
    MaxClock = 2
    MaxFaults = 0
    Clients = {c1}
    WritePaths <- OneObject
    ReadPaths <- OneObjectAndAll
    ExternalPaths <- NoExternal
    Selectors <- NoSelectors
    Values = {1}
    Names = {"a"}
    Spellings <- MCSpellings
    Core <- MCCore
    HasPrefix <- MCHasPrefix
    Order <- TwoGroupsInOrder
    GroupOf <- MCGroupOf
    ResourcesOf <- MCResourcesOf
    Parsed <- MCParsed
PROPERTIES
    ImplementsProvider
    AnswersConverge
