----------------------------- MODULE Resolution ----------------------------
(***************************************************************************)
(* What resolving a resource comes to, for everything that discovery may   *)
(* find: one discovery per state.                                          *)
(***************************************************************************)
EXTENDS DiscoveryMapper

CONSTANTS
    GroupNames,     \* the names of groups under /apis
    Given,          \* the groups that are given in requests
    Versions,
    Lists,          \* the lists of versions that a group may have
    Contents,       \* the sets of resources that a version may serve
    MaxGroups       \* bound: groups under /apis

Resources == UNION Contents

ASSUME PrefixAssumption ==
    Core \notin GroupNames /\ PrefixOrder(GroupNames \cup {Core}, Given)

ASSUME DiscoveryAssumption ==
    /\ Lists \subseteq Seq(Versions) /\ AnyVersion \notin Versions
    /\ MaxGroups \in Nat

\* An error is no resource, no kind and no singular.
ASSUME NoMatchAssumption ==
    /\ NoMatch \notin [group : GroupNames \cup {Core}, version : Versions,
                       resource : {r.plural : r \in Resources}]
    /\ NoMatch \notin [group : GroupNames \cup {Core}, version : Versions,
                       kind : {r.kind : r \in Resources}]
    /\ NoMatch \notin {r.singular : r \in Resources}

VARIABLES legacy, groups

-----------------------------------------------------------------------------
\* Any of the listed versions may not have been fetched.
DiscoveredGroups(names) ==
    UNION {LET listed == {list[j] : j \in DOMAIN list}
           IN  [name : names, versions : {list}, preferred : listed,
                resources : UNION {[V -> Contents] : V \in SUBSET listed}] :
             list \in Lists}

Discovered == ServerGroups(legacy, groups)

\* The core group has one version, and no two groups have the same name.
Init ==
    /\ legacy \in {<< >>} \cup {<<g>> : g \in {h \in DiscoveredGroups({Core}) :
                                                 Len(h.versions) = 1}}
    /\ \E n \in 0 .. MaxGroups : groups \in [1 .. n -> DiscoveredGroups(GroupNames)]
    /\ \A i, j \in DOMAIN groups : groups[i].name = groups[j].name => i = j
    /\ NamesAgree(Discovered)

Next == UNCHANGED <<legacy, groups>>

Spec == Init /\ [][Next]_<<legacy, groups>>

-----------------------------------------------------------------------------
(* Properties *)

Mapper == NewDiscoveryRESTMapper(Discovered)

Spelled == [group : Given \cup {Core}, resource : {r.plural : r \in Resources}
                                         \cup {r.singular : r \in Resources}]

\* A resource is resolved to the first group, in the order of discovery with
\* the core group in front, that serves it under this group or under a
\* longer name, and in it to the preferred version if that has it, else to
\* the first listed one that does.
ResolvesByPreference ==
    LET mapper == Mapper IN \A gr \in Spelled :
      IF Able(Discovered, gr) = {} THEN ResourceFor(mapper, gr) = NoMatch
      ELSE LET g == Discovered[Min(Able(Discovered, gr))]
               v == Best(g, gr.resource)
           IN  \E r \in g.resources[v] :
                 /\ Named(r, gr.resource)
                 /\ ResourceFor(mapper, gr) =
                      [group |-> g.name, version |-> v, resource |-> r.plural]

\* The three resolutions that one request makes of its resource (the key of
\* the value, the kind of the described object, the resource that objects
\* are listed from) agree on the group, although the last one takes the
\* first match instead of the preferred one; they fail together.
ResolutionsAgree ==
    LET mapper == Mapper IN \A gr \in Spelled :
      LET key == ResourceFor(mapper, gr)
          kind == KindFor(mapper, gr)
          listed == ListedFrom(mapper, gr)
      IN  \/ key = NoMatch /\ kind = NoMatch /\ listed = NoMatch
          \/ /\ NoMatch \notin {key, kind, listed}
             /\ key.group = kind.group /\ key.version = kind.version
             /\ key.group = listed.group /\ key.resource = listed.resource

\* "to ensure consistent pluralization, etc, for use when looking up or
\* comparing the MetricInfo": a normalized info, and the singular of it, is
\* normalized to itself, so that all spellings of a resource share a key.
NormalizedIsCanonical ==
    LET mapper == Mapper IN \A gr \in Spelled :
      LET n == Normalized(mapper, gr)
      IN  n.ok => /\ Normalized(mapper, n.info) = n
                  /\ \A i \in DOMAIN Discovered :
                       Discovered[i].name = n.info.group =>
                         \A r \in Served(Discovered[i]) :
                           r.plural = n.info.resource =>
                             Normalized(mapper, [n.info EXCEPT !.resource = r.singular]) = n

\* Within one delegate, Normalized fails only if ResourceFor does: whatever
\* resource was found, ResourceSingularizer knows it.
SingularizerKnows ==
    LET mapper == Mapper IN \A gr \in Spelled :
      ResourceFor(mapper, gr) # NoMatch => Normalized(mapper, gr).ok
=============================================================================
