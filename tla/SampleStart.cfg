SPECIFICATION SampleFairSpec
CONSTANTS
    NoProvider = NoProvider
    Provider = Provider
    Called = {"dynamicClient", "restMapper", "run"}
    MaxFaults = 2
    MaxSerial = 7
INVARIANTS
    ServesBoth
    FirstErrorIsFatal
PROPERTIES
    StartsOrExits
