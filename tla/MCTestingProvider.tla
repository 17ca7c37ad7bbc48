------------------------- MODULE MCTestingProvider -------------------------
(* The testing provider on small instances: deployments, served by one or  *)
(* by two API groups, and namespaces.                                      *)
EXTENDS TestingProvider, TLC

CONSTANTS c1, c2

\* The metric m of deployment a in namespace ns, under two spellings.
Plural == <<"namespaces", "ns", "deployments", "a", "m">>
Singular == <<"namespaces", "ns", "deployment", "a", "m">>
\* The same metric of all deployments that match a selector.
Matching == <<"namespaces", "ns", "deployments", "*", "m">>
\* The metric m of the node a, and of the namespace ns.
Node == <<"nodes", "a", "m">>
OfNamespace == <<"namespaces", "ns", "metrics", "m">>

MCSpellings ==
    {"deployments", "deployment", "deployments.apps", "deployments.extensions",
     "nodes", "namespaces"}

MCBare == [s \in MCSpellings |->
             IF s \in {"nodes", "namespaces"} THEN s ELSE "deployments"]

\* Deployments are served by extensions only, then by apps as well.
Extensions ==
    [s \in MCSpellings |->
       CASE s \in {"nodes", "namespaces"} -> s
         [] s = "deployments.apps" -> NoMatch
         [] OTHER -> "deployments.extensions"]
Apps ==
    [s \in MCSpellings |->
       CASE s \in {"nodes", "namespaces", "deployments.extensions"} -> s
         [] OTHER -> "deployments.apps"]

\* Discovery of every group of deployments failed.
Unserved ==
    [s \in MCSpellings |-> IF s \in {"nodes", "namespaces"} THEN s ELSE NoMatch]

PluralB == <<"namespaces", "ns", "deployments", "b", "m">>
TwoObjects == {Plural, PluralB}
TwoObjectsAndAll == TwoObjects \cup {Matching}
TwoSpellings == {Plural, Singular}
NamespaceOnly == {OfNamespace}

ClientSymmetry == Permutations({c1, c2})
OneObject == {Plural}
OneObjectAndAll == {Plural, Matching}

Stable == {Apps}
Failing == {Apps, Unserved}
Moving == {Extensions, Apps}

\* An external metric, asked for without a selector and with foo=bar.
External == {<<"namespaces", "ns", "my-external-metric">>}
NoExternal == {}
LabelSets == SUBSET {"foo=bar", "foo=baz"}
MCSelectors == {LabelSets, {l \in LabelSets : "foo=bar" \in l}}
=============================================================================
