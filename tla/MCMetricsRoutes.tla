-------------------------- MODULE MCMetricsRoutes --------------------------
(* Every path of 3 to MaxLen segments over a small alphabet, one per state. *)
EXTENDS MetricsRoutes

CONSTANTS
    Segments,   \* path segments, with the words that have a special meaning
    MaxLen      \* bound: no route has more segments than this

\* Paths are in normal form: "//" does not occur in them.
ASSUME SegmentsAssumption == Missing \notin Segments /\ MaxLen \in Nat

VARIABLES path, field

Init ==
    /\ path \in UNION {[1 .. n -> Segments] : n \in 3 .. MaxLen}
    /\ field \in {Missing, "a"}

Next == UNCHANGED <<path, field>>

Spec == Init /\ [][Next]_<<path, field>>

Read == ReadCall(path, field)
Answerable == ReadRouted(path) /\ ~Reserved(path) /\ Read # BadRequest

\* A read reaches the provider as a call for exactly the metric that is
\* documented under its path: no two paths read the same metric, and neither
\* the wildcard, the field selector nor the second parsing changes it.
ReadPathIsExact == Answerable => PathOf(Read) = path

\* What is written at a path is what is read at it, for metrics on anything
\* but namespaces ("the write paths match the same URL structure as the read
\* paths"); the wildcard is a name only a read gives a meaning to.
WritePathIsReadPath ==
    Answerable /\ ~NamespaceSpecificPath(path) /\ Read.op = "byName"
      => SameMetric(WriteCall(path), Read)

\* An external metric is asked for by the last segment of its path.
ExternalPathIsExact ==
    ExternalCall(path) # NotRouted /\ path[3] \notin NamespaceSubresources
      => ExternalCall(path) = [op |-> "external", namespace |-> path[2],
                               metric |-> path[3]]
=============================================================================
