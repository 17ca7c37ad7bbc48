--------------------------- MODULE RoutingLemmas ---------------------------
(***************************************************************************)
(* What the routing makes of a path, for paths over any set of segments:   *)
(* the router, RequestInfo's second parsing and the list storage together  *)
(* agree with the documented form of a path.                               *)
(***************************************************************************)
EXTENDS MetricsRoutes, TLAPS

-----------------------------------------------------------------------------
(* What RequestInfo makes of the three kinds of path that are routed. *)

\* A path that does not begin with a special verb is parsed as it stands.
LEMMA PlainInfo ==
    ASSUME NEW p, p[1] \notin SpecialVerbs
    PROVE  NewRequestInfo(p) =
             [namespace   |-> IF p[1] = "namespaces" /\ Len(p) > 1
                              THEN p[2] ELSE Missing,
              resource    |-> Parts(p)[1],
              name        |-> IF Len(Parts(p)) >= 2 THEN Parts(p)[2] ELSE Missing,
              subresource |-> IF Len(Parts(p)) >= 3 THEN Parts(p)[3] ELSE Missing]
BY DEF NewRequestInfo

\* A path of three segments is read as resource, name and subresource.
LEMMA RootInfo ==
    ASSUME NEW S, NEW p \in Seq(S), Missing \notin S,
           RootScopedPath(p), ~Reserved(p)
    PROVE  NewRequestInfo(p) = [namespace |-> Missing, resource |-> p[1],
                                name |-> p[2], subresource |-> p[3]]
<1>1. /\ p[1] \notin SpecialVerbs /\ p[1] # "namespaces" /\ Len(p) = 3
  BY DEF Reserved, RootScopedPath
<1>2. Parts(p) = p
  BY <1>1 DEF Parts
<1>3. /\ (IF p[1] = "namespaces" /\ Len(p) > 1 THEN p[2] ELSE Missing) = Missing
      /\ (IF Len(Parts(p)) >= 2 THEN Parts(p)[2] ELSE Missing) = p[2]
      /\ (IF Len(Parts(p)) >= 3 THEN Parts(p)[3] ELSE Missing) = p[3]
  <2>1. Len(Parts(p)) = 3 /\ Parts(p)[2] = p[2] /\ Parts(p)[3] = p[3]
    BY <1>1, <1>2
  <2> QED BY <1>1, <2>1
<1> QED BY <1>1, <1>2, <1>3, PlainInfo

\* A path of five segments is read relative to its namespace.
LEMMA NamespacedInfo ==
    ASSUME NEW S, NEW p \in Seq(S), Missing \notin S,
           NamespacedPath(p), ~Reserved(p)
    PROVE  NewRequestInfo(p) = [namespace |-> p[2], resource |-> p[3],
                                name |-> p[4], subresource |-> p[5]]
<1>1. /\ p[1] \notin SpecialVerbs /\ p[1] = "namespaces" /\ Len(p) = 5
      /\ p[3] \notin NamespaceSubresources
  BY DEF Reserved, NamespacedPath, SpecialVerbs
<1>2. Parts(p) = SubSeq(p, 3, 5)
  BY <1>1 DEF Parts
<1>3. /\ Len(Parts(p)) = 3 /\ Parts(p)[1] = p[3] /\ Parts(p)[2] = p[4]
      /\ Parts(p)[3] = p[5]
  BY <1>1, <1>2
<1>4. /\ (IF p[1] = "namespaces" /\ Len(p) > 1 THEN p[2] ELSE Missing) = p[2]
      /\ (IF Len(Parts(p)) >= 2 THEN Parts(p)[2] ELSE Missing) = p[4]
      /\ (IF Len(Parts(p)) >= 3 THEN Parts(p)[3] ELSE Missing) = p[5]
  BY <1>1, <1>3
<1> QED BY <1>1, <1>3, <1>4, PlainInfo

\* Of a path for a metric of a namespace, "metrics" is taken for a resource.
LEMMA NamespaceSpecificInfo ==
    ASSUME NEW S, NEW p \in Seq(S), Missing \notin S, NamespaceSpecificPath(p)
    PROVE  NewRequestInfo(p) = [namespace |-> p[2], resource |-> "metrics",
                                name |-> p[4], subresource |-> Missing]
<1>1. /\ p[1] \notin SpecialVerbs /\ p[1] = "namespaces" /\ Len(p) = 4
      /\ p[3] = "metrics" /\ p[3] \notin NamespaceSubresources
  BY DEF NamespaceSpecificPath, SpecialVerbs, NamespaceSubresources
<1>2. Parts(p) = SubSeq(p, 3, 4)
  BY <1>1 DEF Parts
<1>3. Len(Parts(p)) = 2 /\ Parts(p)[1] = p[3] /\ Parts(p)[2] = p[4]
  BY <1>1, <1>2
<1>4. /\ (IF p[1] = "namespaces" /\ Len(p) > 1 THEN p[2] ELSE Missing) = p[2]
      /\ (IF Len(Parts(p)) >= 2 THEN Parts(p)[2] ELSE Missing) = p[4]
      /\ (IF Len(Parts(p)) >= 3 THEN Parts(p)[3] ELSE Missing) = Missing
  BY <1>1, <1>3
<1> QED BY <1>1, <1>3, <1>4, PlainInfo

\* The call that a routed read becomes, unless it is refused: the name in the
\* path wins over the field selector, which has to agree with it.
LEMMA ReadCallIs ==
    ASSUME NEW S, NEW p \in Seq(S), Missing \notin S, NEW f,
           ~Reserved(p), ReadRouted(p), ReadCall(p, f) # BadRequest
    PROVE  ReadCall(p, f) =
             IF RootScopedPath(p) THEN MetricCall(Missing, p[1], p[2], p[3])
             ELSE IF NamespacedPath(p) THEN MetricCall(p[2], p[3], p[4], p[5])
             ELSE MetricCall(Missing, "namespaces", p[2], p[4])
<1>0. \A i \in 1 .. Len(p) : p[i] # Missing
  OBVIOUS
<1>1. CASE RootScopedPath(p)
  <2>1. p[2] # Missing
    BY <1>0, <1>1 DEF RootScopedPath
  <2> QED BY <1>1, <2>1, RootInfo DEF ReadCall, ListResource, List
<1>2. CASE NamespacedPath(p)
  <2>1. p[4] # Missing /\ p[3] # "metrics" /\ ~RootScopedPath(p)
    BY <1>0, <1>2 DEF NamespacedPath, RootScopedPath, Reserved
  <2> QED BY <1>2, <2>1, NamespacedInfo DEF ReadCall, ListResource, List
<1>3. CASE NamespaceSpecificPath(p)
  <2>1. p[4] # Missing /\ p[2] # Missing /\ ~NamespacedPath(p) /\ ~RootScopedPath(p)
    BY <1>0, <1>3 DEF NamespacedPath, RootScopedPath, NamespaceSpecificPath
  <2> QED BY <1>3, <2>1, NamespaceSpecificInfo DEF ReadCall, ListResource, List
<1> QED BY <1>1, <1>2, <1>3 DEF ReadRouted

-----------------------------------------------------------------------------
\* The documented path of a call: its flag follows from the namespace.
LEMMA PathOfCall ==
    ASSUME NEW ns, NEW r, NEW n, NEW m
    PROVE  PathOf(MetricCall(ns, r, n, m)) =
             IF ns # Missing THEN <<"namespaces", ns, r, n, m>>
             ELSE IF r = "namespaces" THEN <<"namespaces", n, "metrics", m>>
             ELSE <<r, n, m>>
<1> DEFINE call == MetricCall(ns, r, n, m)
<1>1. /\ call.namespace = ns /\ call.resource = r /\ call.name = n
      /\ call.metric = m
  BY DEF MetricCall
<1>2. call.namespaced <=> ns # Missing
  BY Zenon DEF MetricCall
<1> HIDE DEF call
<1>3. PathOf(call) =
        IF ns # Missing THEN <<"namespaces", ns, r, n, m>>
        ELSE IF r = "namespaces" THEN <<"namespaces", n, "metrics", m>>
        ELSE <<r, n, m>>
  BY <1>1, <1>2 DEF PathOf
<1> QED BY <1>3 DEF call

\* A write and a read of the same metric.
LEMMA SameCall ==
    ASSUME NEW ns, NEW r, NEW n, NEW m, NEW flag, flag = (ns # Missing)
    PROVE  SameMetric([op |-> "update", namespace |-> ns, resource |-> r,
                       name |-> n, metric |-> m, namespaced |-> flag],
                      MetricCall(ns, r, n, m))
BY Zenon DEF SameMetric, MetricCall

\* A read for a metric is answered under the path that names it, and no other.
LEMMA ReadExact ==
    ASSUME NEW S, NEW p \in Seq(S), Missing \notin S, NEW f,
           ~Reserved(p), ReadRouted(p), ReadCall(p, f) # BadRequest
    PROVE  PathOf(ReadCall(p, f)) = p
<1>0. \A i \in 1 .. Len(p) : p[i] # Missing
  OBVIOUS
<1>1. CASE RootScopedPath(p)
  <2>1. Len(p) = 3 /\ p[1] # "namespaces"
    BY <1>1 DEF RootScopedPath, Reserved
  <2>2. PathOf(ReadCall(p, f)) = <<p[1], p[2], p[3]>>
    <3>1. ReadCall(p, f) = MetricCall(Missing, p[1], p[2], p[3])
      BY <1>1, <2>1, ReadCallIs
    <3> QED BY <2>1, <3>1, PathOfCall
  <2> QED BY <1>0, <2>1, <2>2
<1>2. CASE NamespacedPath(p)
  <2>1. Len(p) = 5 /\ p[1] = "namespaces" /\ p[2] # Missing /\ ~RootScopedPath(p)
    BY <1>0, <1>2 DEF NamespacedPath, RootScopedPath
  <2>2. PathOf(ReadCall(p, f)) = <<"namespaces", p[2], p[3], p[4], p[5]>>
    <3>1. ReadCall(p, f) = MetricCall(p[2], p[3], p[4], p[5])
      BY <1>2, <2>1, ReadCallIs
    <3> QED BY <2>1, <3>1, PathOfCall
  <2> QED BY <1>0, <2>1, <2>2
<1>3. CASE NamespaceSpecificPath(p)
  <2>1. /\ Len(p) = 4 /\ p[1] = "namespaces" /\ p[3] = "metrics"
        /\ ~RootScopedPath(p) /\ ~NamespacedPath(p)
    BY <1>3 DEF NamespacedPath, RootScopedPath, NamespaceSpecificPath
  <2>2. PathOf(ReadCall(p, f)) = <<"namespaces", p[2], "metrics", p[4]>>
    <3>1. ReadCall(p, f) = MetricCall(Missing, "namespaces", p[2], p[4])
      BY <1>3, <2>1, ReadCallIs
    <3> QED BY <2>1, <3>1, PathOfCall
  <2> QED BY <1>0, <2>1, <2>2
<1> QED BY <1>1, <1>2, <1>3 DEF ReadRouted

\* A write to such a path goes to the metric that is read there.
LEMMA WriteExact ==
    ASSUME NEW S, NEW p \in Seq(S), Missing \notin S, NEW f,
           ~Reserved(p), ReadRouted(p), ReadCall(p, f) # BadRequest, ~NamespaceSpecificPath(p)
    PROVE  SameMetric(WriteCall(p), ReadCall(p, f))
<1>0. \A i \in 1 .. Len(p) : p[i] # Missing
  OBVIOUS
<1>1. CASE RootScopedPath(p)
  <2>1. Len(p) = 3 /\ p[1] # "namespaces"
    BY <1>1 DEF RootScopedPath, Reserved
  <2>2. WriteCall(p) = [op |-> "update", namespace |-> Missing, resource |-> p[1],
                        name |-> p[2], metric |-> p[3], namespaced |-> FALSE]
    <3>1. PathParameters(p) = [namespace |-> Missing, resourceType |-> p[1],
                               name |-> p[2], metric |-> p[3]]
      BY <2>1 DEF PathParameters
    <3>2. WriteCall(p) = UpdateMetricCall(p)
      BY <2>1 DEF WriteCall, WriteRouted
    <3>3. /\ PathParameters(p).namespace = Missing
          /\ PathParameters(p).resourceType = p[1]
          /\ PathParameters(p).name = p[2] /\ PathParameters(p).metric = p[3]
      BY <3>1
    <3>4. (\/ PathParameters(p).namespace # Missing
           \/ PathParameters(p).resourceType = "namespaces") = FALSE
      BY <2>1, <3>3
    <3> QED BY <3>2, <3>3, <3>4, Zenon DEF UpdateMetricCall
  <2>3. ReadCall(p, f) = MetricCall(Missing, p[1], p[2], p[3])
    BY <1>1, ReadCallIs
  <2> QED BY <2>2, <2>3, SameCall
<1>2. CASE NamespacedPath(p)
  <2>1. Len(p) = 5 /\ p[1] = "namespaces" /\ p[2] # Missing /\ ~RootScopedPath(p)
    BY <1>0, <1>2 DEF NamespacedPath, RootScopedPath
  <2>2. WriteCall(p) = [op |-> "update", namespace |-> p[2], resource |-> p[3],
                        name |-> p[4], metric |-> p[5], namespaced |-> TRUE]
    BY <2>1 DEF WriteCall, WriteRouted, UpdateMetricCall, PathParameters
  <2>3. ReadCall(p, f) = MetricCall(p[2], p[3], p[4], p[5])
    BY <1>2, <2>1, ReadCallIs
  <2> QED BY <2>1, <2>2, <2>3, SameCall
<1> QED BY <1>1, <1>2 DEF ReadRouted

\* RequestInfo takes the last segment for the resource, unless it stands for
\* a subresource of the namespace.
LEMMA ExternalExact ==
    ASSUME NEW S, NEW p \in Seq(S), Missing \notin S,
           ExternalRouted(p), p[3] \notin NamespaceSubresources
    PROVE  ExternalCall(p) = [op |-> "external", namespace |-> p[2],
                              metric |-> p[3]]
<1>1. p[1] \notin SpecialVerbs /\ p[1] = "namespaces" /\ Len(p) = 3
  BY DEF ExternalRouted, SpecialVerbs
<1>2. Parts(p) = SubSeq(p, 3, 3)
  BY <1>1 DEF Parts
<1>3. Parts(p)[1] = p[3]
  BY <1>1, <1>2
<1>4. /\ NewRequestInfo(p).namespace = p[2]
      /\ NewRequestInfo(p).resource = p[3]
  BY <1>1, <1>3 DEF NewRequestInfo
<1> QED BY <1>4 DEF ExternalCall, ExternalList

-----------------------------------------------------------------------------
\* The other way round: reading at the documented path of a metric, without a
\* field selector, asks for that metric.
LEMMA ReadBack ==
    ASSUME NEW ns, NEW r, NEW n, NEW m, n # Missing, r # Missing, m # Missing,
           ~Reserved(PathOf(MetricCall(ns, r, n, m)))
    PROVE  ReadCall(PathOf(MetricCall(ns, r, n, m)), Missing)
             = MetricCall(ns, r, n, m)
<1> DEFINE q == PathOf(MetricCall(ns, r, n, m))
<1>0. "namespaces" # Missing /\ "metrics" # Missing
  BY Zenon DEF Missing
<1>1. ASSUME NEW p, ReadRouted(p) PROVE ReadCall(p, Missing) # BadRequest
  <2>1. PICK a, b, d, e : ReadCall(p, Missing) = MetricCall(a, b, d, e)
    BY <1>1 DEF ReadCall, ListResource, List
  <2>2. MetricCall(a, b, d, e).op # "badRequest"
    BY DEF MetricCall
  <2> QED BY <2>1, <2>2 DEF BadRequest
<1>2. CASE ns # Missing
  <2> DEFINE S == {"namespaces", ns, r, n, m}
  <2>1. q = <<"namespaces", ns, r, n, m>>
    BY <1>2, PathOfCall
  <2>2. q \in Seq(S) /\ Missing \notin S
    BY <1>0, <1>2, <2>1
  <2>3. /\ Len(q) = 5 /\ q[1] = "namespaces" /\ q[2] = ns /\ q[3] = r
        /\ q[4] = n /\ q[5] = m
    BY <2>1
  <2>4. NamespacedPath(q) /\ ReadRouted(q) /\ ~RootScopedPath(q)
    BY <2>3 DEF NamespacedPath, ReadRouted, RootScopedPath
  <2> HIDE DEF q, S
  <2>5. ReadCall(q, Missing) = MetricCall(q[2], q[3], q[4], q[5])
    <3>1. ~Reserved(q)
      BY DEF q
    <3> QED BY <1>1, <2>2, <2>4, <3>1, ReadCallIs
  <2> QED BY <2>3, <2>5 DEF q
<1>3. CASE ns = Missing /\ r = "namespaces"
  <2> DEFINE S == {"namespaces", "metrics", n, m}
  <2>1. q = <<"namespaces", n, "metrics", m>>
    BY <1>3, PathOfCall
  <2>2. q \in Seq(S) /\ Missing \notin S
    <3>1. Missing \notin S
      BY <1>0
    <3>2. \A i \in 1 .. 4 : <<"namespaces", n, "metrics", m>>[i] \in S
      OBVIOUS
    <3> QED BY <2>1, <3>1, <3>2
  <2>3. /\ Len(q) = 4 /\ q[1] = "namespaces" /\ q[2] = n /\ q[3] = "metrics"
        /\ q[4] = m
    BY <2>1
  <2>4. /\ NamespaceSpecificPath(q) /\ ReadRouted(q) /\ ~RootScopedPath(q)
        /\ ~NamespacedPath(q)
    BY <2>3 DEF NamespacedPath, ReadRouted, RootScopedPath, NamespaceSpecificPath
  <2> HIDE DEF q, S
  <2>5. ReadCall(q, Missing) = MetricCall(Missing, "namespaces", q[2], q[4])
    <3>1. ~Reserved(q)
      BY DEF q
    <3> QED BY <1>1, <2>2, <2>4, <3>1, ReadCallIs
  <2> QED BY <1>3, <2>3, <2>5 DEF q
<1>4. CASE ns = Missing /\ r # "namespaces"
  <2> DEFINE S == {r, n, m}
  <2>1. q = <<r, n, m>>
    BY <1>4, PathOfCall
  <2>2. q \in Seq(S) /\ Missing \notin S
    BY <2>1
  <2>3. Len(q) = 3 /\ q[1] = r /\ q[2] = n /\ q[3] = m
    BY <2>1
  <2>4. RootScopedPath(q) /\ ReadRouted(q)
    BY <2>3 DEF ReadRouted, RootScopedPath
  <2> HIDE DEF q, S
  <2>5. ReadCall(q, Missing) = MetricCall(Missing, q[1], q[2], q[3])
    <3>1. ~Reserved(q)
      BY DEF q
    <3> QED BY <1>1, <2>2, <2>4, <3>1, ReadCallIs
  <2> QED BY <1>4, <2>3, <2>5 DEF q
<1> QED BY <1>2, <1>3, <1>4
=============================================================================
