---------------------------- MODULE MetricKeys -----------------------------
(***************************************************************************)
(* The names under which values of metrics are kept (CustomMetricResource: *)
(* a CustomMetricInfo and a NamespacedName) and maps indexed by them.      *)
(***************************************************************************)
EXTENDS MetricsRoutes

\* The metric of a call, on the named object, under the given resource.
KeyOf(call, resource, name) ==
    [resource   |-> resource,
     namespaced |-> call.namespaced,
     metric     |-> call.metric,
     namespace  |-> call.namespace,
     name       |-> name]

\* The CustomMetricInfo of a key: what ListAllMetrics tells of it.
InfoOf(key) ==
    [resource |-> key.resource, namespaced |-> key.namespaced,
     metric |-> key.metric]

\* ListAPIResources: the name is "<resource>/<metric>"; neither part of it
\* has a slash, so a pair says the same.
APIResource(info) ==
    [name |-> <<info.resource, info.metric>>, namespaced |-> info.namespaced]

\* The map f after f[key] = value.
Put(f, key, value) ==
    [k \in DOMAIN f \cup {key} |-> IF k = key THEN value ELSE f[k]]

EmptyMap == [k \in {} |-> k]
=============================================================================
