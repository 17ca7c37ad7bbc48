SPECIFICATION Spec
CONSTANTS
    Core <- MCCore
    HasPrefix <- MCHasPrefix
    NoMatch = NoMatch
    GroupNames <- TwoNames
    Given <- ThreeGiven
    Versions <- TwoVersions
    Lists <- OneOrTwoVersions
    Contents <- ThreeContents
    MaxGroups = 2
INVARIANTS
    ResolvesByPreference
    ResolutionsAgree
    NormalizedIsCanonical
    SingularizerKnows
