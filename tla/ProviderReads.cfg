SPECIFICATION HSpec
CONSTANTS
    c1 = c1
    c2 = c2
    NoMatch = NoMatch
    NoRequest = NoRequest
    NoValue = NoValue
    Clients = {c1, c2}
    WritePaths <- TwoSpellings
    ReadPaths <- TwoSpellings
    ExternalPaths <- External
    Selectors <- MCSelectors
    Values = {1, 2}
    Names = {}
    Spellings <- MCSpellings
    Bare <- MCBare
    Delegates <- Moving
INVARIANTS
    ListedIsAvailable
PROPERTIES
    ReadYourWrites
    RequestsAreAtomic
SYMMETRY ClientSymmetry
