SPECIFICATION Spec
CONSTANTS
    c1 = c1
    c2 = c2
    NoMatch = NoMatch
    NoRequest = NoRequest
    NoValue = NoValue
    Clients = {c1, c2}
    WritePaths <- TwoObjects
    ReadPaths <- TwoObjectsAndAll
    ExternalPaths <- External
    Selectors <- MCSelectors
    Values = {1, 2}
    Names = {"a", "b"}
    Spellings <- MCSpellings
    Bare <- MCBare
    Delegates <- Failing
INVARIANTS
    TypeOK
    ItemsAreCurrent
    WriterIsAlone
PROPERTIES
    RequestsAreAtomic
SYMMETRY ClientSymmetry
