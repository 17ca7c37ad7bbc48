SPECIFICATION Spec
CONSTANTS
    Segments = {"namespaces", "metrics", "status", "watch", "proxy", "pods", "a", "*"}
    MaxLen = 5
INVARIANTS
    ReadPathIsExact
    ExternalPathIsExact
    WritePathIsReadPath
