SPECIFICATION FairSpec
CONSTANTS
    c1 = c1
    c2 = c2
    apps = apps
    extensions = extensions
    loop1 = loop1
    Main = Main
    Nil = Nil
    NoMatch = NoMatch
    NoRequest = NoRequest
    NoValue = NoValue
    GroupVersions <- OneGroup
    Legacy = {}
    Loops = {loop1}
    MaxClock = 1
    MaxFaults = 0
    Clients = {c1, c2}
    WritePaths <- OneObject
    ReadPaths <- OneObject
    ExternalPaths <- NoExternal
    Selectors <- NoSelectors
    Values = {1}
    Names = {"a"}
    Spellings <- MCSpellings
    Core <- MCCore
    HasPrefix <- MCHasPrefix
    Order <- OneGroupInOrder
    GroupOf <- MCGroupOf
    ResourcesOf <- MCResourcesOf
    Parsed <- MCParsed
INVARIANTS
    NoCircularWait
PROPERTIES
    RequestsAnswered
