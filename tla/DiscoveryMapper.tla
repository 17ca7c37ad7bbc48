-------------------------- MODULE DiscoveryMapper --------------------------
(***************************************************************************)
(* How a delegate of the REST mapper resolves a resource: the mapper that  *)
(* NewDiscoveryRESTMapper builds from the groups that were discovered, and *)
(* what the adapter asks it.                                               *)
(*                                                                         *)
(* A discovered group has a name, the versions it lists, its preferred     *)
(* version, and the resources of every version that could be fetched, each *)
(* with its plural, its singular and its kind.  A group-resource has a     *)
(* group, which is Core if none is given, and a name.  Within a version    *)
(* no name belongs to two resources.                                       *)
(***************************************************************************)
EXTENDS Naturals, Sequences, FiniteSetsExt

CONSTANTS
    Core,               \* the name of the group under /api: no name
    HasPrefix(_, _),    \* the first group's name begins with the second's
    NoMatch             \* an error: no resource, or more than one

AnyVersion == "*"

-----------------------------------------------------------------------------
(* ServerGroups and NewDiscoveryRESTMapper *)

\* Mutant: the group found under /api is put at the end.
ServerGroupsAppended(legacy, groups) == groups \o legacy

\* The group found under /api, if any, is put in front.
ServerGroups(legacy, groups) == legacy \o groups

Fetched(group, version) == version \in DOMAIN group.resources

\* What the iterations of a loop append to a list, one after the other.
Appended(parts) ==
    LET list[i \in 0 .. Len(parts)] ==
          IF i = 0 THEN << >> ELSE list[i - 1] \o parts[i]
    IN  list[Len(parts)]

\* One DefaultRESTMapper for each version that was fetched.
VersionMapper(group, version) ==
    [group |-> group.name, version |-> version, resources |-> group.resources[version]]

GroupMappers(g) ==
    Appended([j \in DOMAIN g.versions |->
                IF Fetched(g, g.versions[j]) THEN <<VersionMapper(g, g.versions[j])>>
                                            ELSE << >>])

VersionMappers(groups) == Appended([i \in DOMAIN groups |-> GroupMappers(groups[i])])

Pattern(group, version) == [group |-> group, version |-> version]

\* Mutant: the versions of a group are tried as they are listed.
GroupPatternsAsListed(g) ==
    Appended([j \in DOMAIN g.versions |->
                IF Fetched(g, g.versions[j]) THEN <<Pattern(g.name, g.versions[j])>>
                                            ELSE << >>])

\* The versions of a group that were fetched, its preferred one first.
GroupPatterns(g) ==
    (IF Fetched(g, g.preferred) THEN <<Pattern(g.name, g.preferred)>> ELSE << >>)
      \o Appended([j \in DOMAIN g.versions |->
                     IF Fetched(g, g.versions[j]) /\ g.versions[j] # g.preferred
                     THEN <<Pattern(g.name, g.versions[j])>> ELSE << >>])

\* The core group, every version of the groups, then any version of them.
Priority(groups) ==
    <<Pattern(Core, "v1")>>
      \o Appended([i \in DOMAIN groups |-> GroupPatterns(groups[i])])
      \o [i \in DOMAIN groups |-> Pattern(groups[i].name, AnyVersion)]

NewDiscoveryRESTMapper(groups) ==
    [mappers |-> VersionMappers(groups), priority |-> Priority(groups)]

-----------------------------------------------------------------------------
(* Lookups *)

\* Mutant: a resource is not known by its singular.
NamedPlural(resource, name) == resource.plural = name

Named(resource, name) == resource.plural = name \/ resource.singular = name

\* Mutant: no group is taken for the name of a group.
OffersExact(version, gr) ==
    /\ gr.group = version.group
    /\ \E r \in version.resources : Named(r, gr.resource)

\* A group that is given may be the beginning of the group that is meant.
\* Each version decides for itself: an exact match elsewhere does not count.
Offers(version, gr) ==
    /\ gr.group = Core \/ HasPrefix(version.group, gr.group)
    /\ \E r \in version.resources : Named(r, gr.resource)

\* The places of the versions that have an answer; the first of them.
Hits(mapper, gr) == {k \in DOMAIN mapper.mappers : Offers(mapper.mappers[k], gr)}
FirstHit(mapper, gr) == mapper.mappers[Min(Hits(mapper, gr))]

Hit(version, gr) == CHOOSE r \in version.resources : Named(r, gr.resource)

ResourceIn(version, gr) ==
    [group |-> version.group, version |-> version.version,
     resource |-> Hit(version, gr).plural]
KindIn(version, gr) ==
    [group |-> version.group, version |-> version.version,
     kind |-> Hit(version, gr).kind]

\* All answers, each once.
ResourcesFor(mapper, gr) ==
    {ResourceIn(mapper.mappers[k], gr) : k \in Hits(mapper, gr)}
KindsFor(mapper, gr) == {KindIn(mapper.mappers[k], gr) : k \in Hits(mapper, gr)}

Fits(pattern, c) ==
    pattern.group = c.group /\ pattern.version \in {AnyVersion, c.version}

\* The candidates that fit the pattern, unless there are none.
Narrow(pattern, remaining) ==
    LET matched == {c \in remaining : Fits(pattern, c)}
    IN  IF matched = {} THEN remaining ELSE matched

\* The patterns narrow the candidates down until one is left.
Preferred(mapper, candidates) ==
    LET left[k \in 0 .. Len(mapper.priority)] ==
          IF k = 0 THEN candidates ELSE Narrow(mapper.priority[k], left[k - 1])
        chosen == left[Len(mapper.priority)]
    IN  IF \E c \in chosen : chosen = {c} THEN CHOOSE c \in chosen : TRUE ELSE NoMatch

ResourceFor(mapper, gr) == Preferred(mapper, ResourcesFor(mapper, gr))
KindFor(mapper, gr) == Preferred(mapper, KindsFor(mapper, gr))

\* Mutant: only the first version is asked.
ResourceSingularizerFirst(mapper, name) ==
    LET gr == [group |-> Core, resource |-> name]
    IN  IF 1 \in Hits(mapper, gr) THEN Hit(mapper.mappers[1], gr).singular ELSE NoMatch

\* The first version that knows the name.
ResourceSingularizer(mapper, name) ==
    LET gr == [group |-> Core, resource |-> name]
    IN  IF Hits(mapper, gr) = {} THEN NoMatch
        ELSE Hit(FirstHit(mapper, gr), gr).singular

-----------------------------------------------------------------------------
(* pkg/provider: Normalized, and the helpers *)

\* The group-resource of the result, and whether there was no error.
Normalized(mapper, gr) ==
    LET found == ResourceFor(mapper, gr)
    IN  IF found = NoMatch THEN [info |-> gr, ok |-> FALSE]
        ELSE [info |-> [group |-> found.group, resource |-> found.resource],
              ok   |-> ResourceSingularizer(mapper, found.resource) # NoMatch]

\* helpers.ResourceFor: what the objects of a selector are listed from.
ListedFrom(mapper, gr) ==
    IF Hits(mapper, gr) = {} THEN NoMatch ELSE ResourceIn(FirstHit(mapper, gr), gr)

-----------------------------------------------------------------------------
(* What it comes to: the reference for the resolution of a resource *)

Listed(g) == {g.versions[j] : j \in DOMAIN g.versions}

Has(g, v, name) == Fetched(g, v) /\ \E r \in g.resources[v] : Named(r, name)

\* The groups that serve a resource under this group or under a longer name.
Able(groups, gr) ==
    {i \in DOMAIN groups :
       /\ gr.group = Core \/ HasPrefix(groups[i].name, gr.group)
       /\ \E v \in Listed(groups[i]) : Has(groups[i], v, gr.resource)}

\* The preferred version if that has it, else the first listed one.
Best(g, name) ==
    IF Has(g, g.preferred, name) THEN g.preferred
    ELSE g.versions[Min({j \in DOMAIN g.versions : Has(g, g.versions[j], name)})]

-----------------------------------------------------------------------------
(* What is taken for granted about the names *)

\* A name that begins with a name also begins with what that begins with.
PrefixOrder(names, given) ==
    /\ \A g \in names \ {Core} : HasPrefix(g, g)
    /\ \A g \in names, h \in names \ {Core}, p \in given :
         HasPrefix(g, h) /\ HasPrefix(h, p) => HasPrefix(g, p)

Served(g) == UNION {g.resources[v] : v \in DOMAIN g.resources}

\* Groups that may be taken for each other, and the versions of a group,
\* agree on the names of a resource that both of them serve.
NamesAgree(groups) ==
    \A i, j \in DOMAIN groups :
      (i = j \/ (groups[i].name # Core /\ HasPrefix(groups[j].name, groups[i].name)))
      => \A r \in Served(groups[i]), s \in Served(groups[j]) :
           {r.plural, r.singular} \cap {s.plural, s.singular} # {}
             => r.plural = s.plural /\ r.singular = s.singular
=============================================================================
