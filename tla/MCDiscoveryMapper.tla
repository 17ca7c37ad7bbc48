------------------------- MODULE MCDiscoveryMapper -------------------------
(* A resource in the core group and in two groups of which one's name      *)
(* begins with the other's, one of them with a singular of its own.        *)
EXTENDS Resolution

LOCAL INSTANCE SequencesExt

MCCore == << >>
MCHasPrefix(g, h) == IsPrefix(h, g)
Apps == <<"apps">>
AppsKruise == <<"apps", "kruise", "io">>
TwoNames == {Apps, AppsKruise}
ThreeGiven == TwoNames \cup {<<"apps", "kruise">>}

Set == [plural |-> "statefulsets", singular |-> "statefulset", kind |-> "StatefulSet"]
Variant == [plural |-> "statefulsets", singular |-> "set", kind |-> "Set"]
Other == [plural |-> "daemonsets", singular |-> "daemonset", kind |-> "DaemonSet"]

TwoVersions == {"v1", "v2"}
OneOrTwoVersions == {<<"v1">>, <<"v1", "v2">>}
ThreeContents == {{Other}, {Set, Other}, {Variant}}
=============================================================================
