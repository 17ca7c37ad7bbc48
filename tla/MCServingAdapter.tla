-------------------------- MODULE MCServingAdapter -------------------------
(* Deployments, served by two groups that come and go. *)
EXTENDS ServingAdapter, TLC

LOCAL INSTANCE SequencesExt

CONSTANTS c1, c2, apps, extensions, loop1

\* Values for the constants.
MCCore == << >>
MCHasPrefix(g, h) == IsPrefix(h, g)
TwoGroups == {apps, extensions}
TwoGroupsInOrder == <<apps, extensions>>
OneGroup == {apps}
OneGroupInOrder == <<apps>>
MCGroupOf == (apps :> <<"apps">>) @@ (extensions :> <<"extensions">>)
Deployments ==
    [plural |-> "deployments", singular |-> "deployment", kind |-> "Deployment"]
MCResourcesOf == [g \in {apps, extensions} |-> {Deployments}]

MCParsed ==
    "deployments" :> [group |-> MCCore, resource |-> "deployments"]
      @@ "deployments.apps" :> [group |-> <<"apps">>, resource |-> "deployments"]
      @@ "deployments.extensions" :>
           [group |-> <<"extensions">>, resource |-> "deployments"]
MCSpellings == DOMAIN MCParsed

Plural == <<"namespaces", "ns", "deployments", "a", "m">>
Matching == <<"namespaces", "ns", "deployments", "*", "m">>
OneObject == {Plural}
OneObjectAndAll == {Plural, Matching}
NoExternal == {}
NoSelectors == {}
=============================================================================
