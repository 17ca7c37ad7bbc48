--------------------------- MODULE MetricsRoutes ---------------------------
(***************************************************************************)
(* From URLs to provider calls.                                            *)
(*                                                                         *)
(* A path is the sequence of segments after the version of the custom      *)
(* metrics API (reads) or after /write-metrics (writes of the testing      *)
(* provider).  A read is routed by go-restful, parsed a second time by the *)
(* API server's RequestInfo, and turned into a provider call by the list   *)
(* storage; a write is routed and handled by the testing provider.  A call *)
(* names the metric: resource as spelled in the URL, namespace ("" if      *)
(* none), name ("*" for all), metric and the Namespaced flag.              *)
(***************************************************************************)
EXTENDS Naturals, Sequences

SpecialVerbs == {"proxy", "watch"}
SpecialVerbsNoSubresources == {"proxy"}
NamespaceSubresources == {"status", "finalize"}

\* A part of a path that is missing, or that is not asked for.
Missing == ""

BadRequest == [op |-> "badRequest"]
NotRouted == [op |-> "notRouted"]

-----------------------------------------------------------------------------
(* Reading *)

RootScopedPath(path) == Len(path) = 3
NamespacedPath(path) == Len(path) = 5 /\ path[1] = "namespaces"
NamespaceSpecificPath(path) ==
    Len(path) = 4 /\ path[1] = "namespaces" /\ path[3] = "metrics"

ReadRouted(path) ==
    RootScopedPath(path) \/ NamespacedPath(path) \/ NamespaceSpecificPath(path)

\* Mutant: the parts are not moved past the namespace.
PartsUnmoved(rel) == rel

\* The parts of a path, relative to the resource.
Parts(rel) ==
    IF /\ rel[1] = "namespaces" /\ Len(rel) > 2
       /\ rel[3] \notin NamespaceSubresources
    THEN SubSeq(rel, 3, Len(rel))
    ELSE rel

\* NewRequestInfo; a missing part is "".
NewRequestInfo(path) ==
    LET special == path[1] \in SpecialVerbs
        rel     == IF special THEN Tail(path) ELSE path
        inNs    == rel[1] = "namespaces" /\ Len(rel) > 1
        parts   == Parts(rel)
        noSub   == special /\ path[1] \in SpecialVerbsNoSubresources
    IN  [namespace   |-> IF inNs THEN rel[2] ELSE Missing,
         resource    |-> parts[1],
         name        |-> IF Len(parts) >= 2 THEN parts[2] ELSE Missing,
         subresource |-> IF Len(parts) >= 3 /\ ~noSub THEN parts[3] ELSE Missing]

MetricCall(namespace, resource, name, metric) ==
    [op         |-> IF name = "*" THEN "bySelector" ELSE "byName",
     namespace  |-> namespace,
     resource   |-> resource,
     name       |-> name,
     metric     |-> metric,
     namespaced |-> namespace # Missing]

\* Mutant: the namespace is not moved into the name.
ListKeepsNamespace(info, name) ==
    LET which == IF name = Missing THEN "*" ELSE name
    IN  IF info.namespace # Missing /\ info.resource = "metrics"
        THEN MetricCall(info.namespace, "namespaces", info.namespace, which)
        ELSE MetricCall(info.namespace, info.resource, which, info.subresource)

(***************************************************************************)
(* REST.List with handleIndividualOp and handleWildcardOp.  name is the    *)
(* exact match of the field selector on metadata.name, "" if there is none.*)
(***************************************************************************)
List(info, name) ==
    LET which == IF name = Missing THEN "*" ELSE name
    IN  IF info.namespace # Missing /\ info.resource = "metrics"
        THEN MetricCall(Missing, "namespaces", info.namespace, which)
        ELSE MetricCall(info.namespace, info.resource, which, info.subresource)

\* ListResource: the name in the path becomes a field selector on
\* metadata.name; one in the query has to agree with it.
ListResource(path, field) ==
    LET info == NewRequestInfo(path)
    IN  IF info.name # Missing /\ field # Missing /\ field # info.name
        THEN BadRequest
        ELSE List(info, IF info.name # Missing THEN info.name ELSE field)

ReadCall(path, field) ==
    IF ReadRouted(path) THEN ListResource(path, field) ELSE NotRouted

-----------------------------------------------------------------------------
(* Writing: the routes of webService and what updateMetric makes of them *)

WriteRouted(path) ==
    \/ Len(path) = 5 /\ path[1] = "namespaces"
    \/ Len(path) = 3
    \/ Len(path) = 4 /\ path[3] = "metrics"

PathParameters(path) ==
    IF Len(path) = 5
    THEN [namespace |-> path[2], resourceType |-> path[3], name |-> path[4],
          metric |-> path[5]]
    ELSE [namespace |-> Missing, resourceType |-> path[1], name |-> path[2],
          metric |-> path[Len(path)]]

\* Mutant: name and metric are taken in the wrong order.
UpdateMetricCallSwapped(path) ==
    LET q == PathParameters(path)
    IN  [op         |-> "update",
         namespace  |-> q.namespace,
         resource   |-> q.resourceType,
         name       |-> q.metric,
         metric     |-> q.name,
         namespaced |-> q.namespace # Missing \/ q.resourceType = "namespaces"]

UpdateMetricCall(path) ==
    LET q == PathParameters(path)
    IN  [op         |-> "update",
         namespace  |-> q.namespace,
         resource   |-> q.resourceType,
         name       |-> q.name,
         metric     |-> q.metric,
         namespaced |-> q.namespace # Missing \/ q.resourceType = "namespaces"]

WriteCall(path) ==
    IF WriteRouted(path) THEN UpdateMetricCall(path) ELSE NotRouted

-----------------------------------------------------------------------------
(* External metrics: namespaces/{namespace}/{resource} *)

ExternalRouted(path) == Len(path) = 3 /\ path[1] = "namespaces"

\* REST.List of the external metrics: the resource is the metric.
ExternalList(info) ==
    [op |-> "external", namespace |-> info.namespace, metric |-> info.resource]

ExternalCall(path) ==
    IF ExternalRouted(path) THEN ExternalList(NewRequestInfo(path)) ELSE NotRouted

-----------------------------------------------------------------------------
(* Reference definitions, from the three forms of path the API documents *)

\* The path at which the API documents the metric that a call names.
PathOf(call) ==
    IF call.namespaced
    THEN <<"namespaces", call.namespace, call.resource, call.name, call.metric>>
    ELSE IF call.resource = "namespaces"
    THEN <<"namespaces", call.name, "metrics", call.metric>>
    ELSE <<call.resource, call.name, call.metric>>

\* Resource names that RequestInfo gives a meaning of their own, at the place
\* where they stand in the path: no metric can be read for them.
Reserved(path) ==
    \/ RootScopedPath(path) /\ path[1] \in SpecialVerbs \cup {"namespaces"}
    \/ NamespacedPath(path) /\ path[3] \in NamespaceSubresources \cup {"metrics"}

\* Two calls address the same value.
SameMetric(c, d) ==
    /\ c.namespace = d.namespace /\ c.resource = d.resource
    /\ c.name = d.name /\ c.metric = d.metric /\ c.namespaced = d.namespaced
=============================================================================
