SPECIFICATION FairSpec
CONSTANTS
    NoProvider = NoProvider
    Provider = Provider
    Called = {"restMapper", "dynamicClient", "informers", "server", "run"}
    MaxFaults = 2
    MaxSerial = 7
INVARIANTS
    TypeOK
    FlagsAreSafe
    OneOfEach
    ServerIsWhole
PROPERTIES
    InformersStarted
    RunRecovers
