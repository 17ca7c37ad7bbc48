SPECIFICATION FairSpec
CONSTANTS
    c1 = c1
    c2 = c2
    NoMatch = NoMatch
    NoRequest = NoRequest
    NoValue = NoValue
    Clients = {c1, c2}
    WritePaths <- OneObject
    ReadPaths <- OneObjectAndAll
    ExternalPaths <- External
    Selectors <- MCSelectors
    Values = {1}
    Names = {"a"}
    Spellings <- MCSpellings
    Bare <- MCBare
    Delegates <- Failing
PROPERTIES
    EveryRequestAnswered
