------------------------ MODULE MetricsRoutesProofs ------------------------
(* The properties of the routing, for any set of segments. *)
EXTENDS MCMetricsRoutes, RoutingLemmas

\* The paths that requests are made to.
Paths == UNION {[1 .. n -> Segments] : n \in 3 .. MaxLen}

\* A path is a sequence of segments that are not empty.
LEMMA PathType ==
    ASSUME NEW p \in Paths
    PROVE  p \in Seq(Segments) /\ Missing \notin Segments
<1>1. PICK n \in 3 .. MaxLen : p \in [1 .. n -> Segments]
  BY DEF Paths
<1>2. p \in Seq(Segments) /\ Len(p) = n
  BY <1>1, SegmentsAssumption
<1> QED BY <1>1, <1>2, SegmentsAssumption

-----------------------------------------------------------------------------
\* The state of the run is one path.
LEMMA PathStays == Spec => [](path \in Paths)
<1>1. Init => path \in Paths
  BY DEF Init, Paths
<1>2. path \in Paths /\ [Next]_<<path, field>> => (path \in Paths)'
  BY DEF Next
<1> QED BY <1>1, <1>2, PTL DEF Spec

\* For paths of any length over any segments: a read that is answered names
\* exactly the metric that is documented under its path.
THEOREM ReadPathsAreExact == Spec => []ReadPathIsExact
<1>1. path \in Paths => ReadPathIsExact
  BY PathType, ReadExact DEF ReadPathIsExact, Answerable, Read
<1> QED BY <1>1, PathStays, PTL

\* For all of them, what is written at a path is what is read at it.
THEOREM WritePathsAreReadPaths == Spec => []WritePathIsReadPath
<1>1. path \in Paths => WritePathIsReadPath
  BY PathType, WriteExact DEF WritePathIsReadPath, Answerable, Read
<1> QED BY <1>1, PathStays, PTL

\* For all of them, an external metric is asked for by the last segment of
\* its path.
THEOREM ExternalPathsAreExact == Spec => []ExternalPathIsExact
<1>1. path \in Paths => ExternalPathIsExact
  BY PathType, ExternalExact DEF ExternalPathIsExact, ExternalCall, NotRouted
<1> QED BY <1>1, PathStays, PTL
=============================================================================
