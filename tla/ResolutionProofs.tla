-------------------------- MODULE ResolutionProofs -------------------------
(***************************************************************************)
(* The properties of Resolution hold for every discovery: for any number   *)
(* of groups, with any names, versions and resources.                      *)
(***************************************************************************)
EXTENDS Resolution, DiscoveryMapperProofs

Names == GroupNames \cup {Core}
Groups == DiscoveredGroups({Core}) \cup DiscoveredGroups(GroupNames)

LEMMA GroupType ==
    ASSUME NEW names, NEW g \in DiscoveredGroups(names)
    PROVE  /\ g.name \in names /\ g.versions \in Seq(Versions)
           /\ DOMAIN g.resources \subseteq Listed(g)
           /\ \A v \in DOMAIN g.resources : g.resources[v] \in Contents
<1> DEFINE listed(list) == {list[j] : j \in DOMAIN list}
           maps(list) == UNION {[V -> Contents] : V \in SUBSET listed(list)}
<1>1. PICK list \in Lists :
        g \in [name : names, versions : {list}, preferred : listed(list),
               resources : maps(list)]
  BY Zenon DEF DiscoveredGroups
<1>2. g.name \in names /\ g.versions = list /\ g.resources \in maps(list)
  <2> HIDE DEF listed, maps
  <2> QED BY <1>1
<1>3. PICK V \in SUBSET listed(list) : g.resources \in [V -> Contents]
  BY <1>2, Zenon
<1>4. Listed(g) = listed(list)
  BY <1>2, Zenon DEF Listed
<1>5. list \in Seq(Versions)
  BY DiscoveryAssumption
<1>6. DOMAIN g.resources = V /\ \A v \in V : g.resources[v] \in Contents
  BY <1>3
<1> HIDE DEF listed
<1> QED BY <1>2, <1>3, <1>4, <1>5, <1>6

\* What the discovery of a state is.
LEMMA DiscoveredIs ==
    ASSUME Init
    PROVE  /\ Discovered \in Seq(Groups)
           /\ WellFormed(Discovered, Versions)
           /\ \A i \in 1 .. Len(Discovered) :
                /\ Discovered[i].name \in Names
                /\ \A v \in DOMAIN Discovered[i].resources :
                     Discovered[i].resources[v] \in Contents
<1> DEFINE D == Discovered
<1>1. PICK n \in 0 .. MaxGroups : groups \in [1 .. n -> DiscoveredGroups(GroupNames)]
  BY DEF Init
<1>2. n \in Nat
  BY DiscoveryAssumption
<1>3. groups \in Seq(DiscoveredGroups(GroupNames)) /\ Len(groups) = n /\ DOMAIN groups = 1 .. n
  BY <1>1, <1>2
<1>4. \/ legacy = << >>
      \/ \E g \in DiscoveredGroups({Core}) : Len(g.versions) = 1 /\ legacy = <<g>>
  BY DEF Init
<1>5. ASSUME NEW i \in 1 .. n
      PROVE  groups[i] \in DiscoveredGroups(GroupNames) /\ groups[i].name # Core
  <2>1. groups[i] \in DiscoveredGroups(GroupNames)
    BY <1>1
  <2>2. groups[i].name \in GroupNames
    BY <2>1, GroupType
  <2> QED BY <2>1, <2>2, PrefixAssumption
<1>6. /\ D \in Seq(Groups)
      /\ \A i \in 1 .. Len(D) :
           \/ /\ i = 1 /\ D[i] \in DiscoveredGroups({Core})
              /\ Len(D[i].versions) = 1
           \/ \E j \in 1 .. n : /\ i = j + Len(legacy) /\ D[i] = groups[j]
                                /\ D[i] \in DiscoveredGroups(GroupNames)
                                /\ D[i].name # Core
      /\ Len(legacy) \in Nat
  <2>1. CASE legacy = << >>
    <3>1. D = groups /\ Len(legacy) = 0
      BY <1>3, <2>1 DEF Discovered, ServerGroups
    <3> HIDE DEF D
    <3> QED BY <1>2, <1>3, <1>5, <3>1 DEF Groups
  <2>2. CASE legacy # << >>
    <3>1. PICK g \in DiscoveredGroups({Core}) : Len(g.versions) = 1 /\ legacy = <<g>>
      BY <1>4, <2>2
    <3>2. D = <<g>> \o groups
      BY <3>1 DEF Discovered, ServerGroups
    <3> HIDE DEF D
    <3>3. <<g>> \in Seq(Groups) /\ groups \in Seq(Groups)
      BY <1>3 DEF Groups
    <3>4. D \in Seq(Groups) /\ Len(D) = 1 + n /\ D[1] = g
      BY <1>2, <1>3, <3>2, <3>3
    <3>5. \A i \in 2 .. 1 + n : D[i] = groups[i - 1] /\ i - 1 \in 1 .. n /\ i = (i - 1) + 1
      BY <1>2, <1>3, <3>2, <3>3
    <3>6. Len(legacy) = 1
      BY <3>1
    <3>7. ASSUME NEW i \in 1 .. Len(D)
          PROVE  \/ /\ i = 1 /\ D[i] \in DiscoveredGroups({Core})
                    /\ Len(D[i].versions) = 1
                 \/ \E j \in 1 .. n : /\ i = j + Len(legacy) /\ D[i] = groups[j]
                                      /\ D[i] \in DiscoveredGroups(GroupNames)
                                      /\ D[i].name # Core
      <4>1. CASE i = 1
        BY <3>1, <3>4, <4>1
      <4>2. CASE i # 1
        <5>1. i \in 2 .. 1 + n
          BY <1>2, <3>4, <4>2
        <5>2. i - 1 \in 1 .. n /\ D[i] = groups[i - 1] /\ i = (i - 1) + Len(legacy)
          BY <3>5, <3>6, <5>1
        <5>3. D[i] \in DiscoveredGroups(GroupNames) /\ D[i].name # Core
          BY <1>5, <5>2
        <5> QED BY <5>2, <5>3
      <4> QED BY <4>1, <4>2
    <3> QED BY <3>4, <3>6, <3>7
  <2> QED BY <2>1, <2>2
<1> HIDE DEF D
<1>7. ASSUME NEW i \in 1 .. Len(D)
      PROVE  /\ D[i].name \in Names
             /\ \A v \in DOMAIN D[i].resources : D[i].resources[v] \in Contents
             /\ D[i].versions \in Seq(Versions)
             /\ DOMAIN D[i].resources \subseteq Listed(D[i])
             /\ D[i].name = Core => i = 1 /\ Len(D[i].versions) = 1
  <2>1. CASE D[i] \in DiscoveredGroups(GroupNames) /\ D[i].name # Core
    BY <2>1, GroupType DEF Names
  <2>2. CASE i = 1 /\ D[i] \in DiscoveredGroups({Core}) /\ Len(D[i].versions) = 1
    <3>1. D[i].name \in {Core}
      BY <2>2, GroupType
    <3> QED BY <2>2, <3>1, GroupType DEF Names
  <2> QED BY <1>6, <2>1, <2>2
<1>8. ASSUME NEW i \in 1 .. Len(D), NEW j \in 1 .. Len(D), D[i].name = D[j].name
      PROVE  i = j
  <2>1. CASE D[i].name = Core
    BY <1>7, <1>8, <2>1
  <2>2. CASE D[i].name # Core
    <3>1. ASSUME NEW k \in 1 .. Len(D), D[k] \in DiscoveredGroups({Core})
          PROVE  D[k].name = Core
      <4>1. D[k].name \in {Core}
        BY <3>1, GroupType
      <4> QED BY <4>1
    <3>2. PICK a \in 1 .. n : i = a + Len(legacy) /\ D[i] = groups[a]
      BY <1>6, <2>2, <3>1
    <3>3. PICK c \in 1 .. n : j = c + Len(legacy) /\ D[j] = groups[c]
      BY <1>6, <1>8, <2>2, <3>1
    <3>4. a = c
      BY <1>3, <1>8, <3>2, <3>3 DEF Init
    <3> QED BY <3>2, <3>3, <3>4
  <2> QED BY <2>1, <2>2
<1>9. AnyVersion \notin Versions
  BY DiscoveryAssumption
<1>10. WellFormed(D, Versions)
  BY <1>7, <1>8, <1>9 DEF WellFormed
<1> QED BY <1>6, <1>7, <1>10 DEF D

-----------------------------------------------------------------------------
(* The answers of a discovery *)

LEMMA ResourcesServed ==
    ASSUME Init, NEW i \in 1 .. Len(Discovered)
    PROVE  Served(Discovered[i]) \subseteq Resources
BY DiscoveredIs, Zenon DEF Served, Resources

\* An answer is no error.
LEMMA AnswerIsFound ==
    ASSUME Init, NEW gr, Able(Discovered, gr) # {}, NEW m, NEW b, NEW h,
           Answer(Discovered, gr, m, b, h)
    PROVE  /\ m \in 1 .. Len(Discovered) /\ h \in Served(Discovered[m])
           /\ h \in Discovered[m].resources[b] /\ Named(h, gr.resource)
           /\ ResourceFor(Mapper, gr) =
                [group |-> Discovered[m].name, version |-> b, resource |-> h.plural]
           /\ KindFor(Mapper, gr) =
                [group |-> Discovered[m].name, version |-> b, kind |-> h.kind]
           /\ NoMatch \notin {ResourceFor(Mapper, gr), KindFor(Mapper, gr)}
<1>1. Discovered \in Seq(Groups) /\ WellFormed(Discovered, Versions)
  BY DiscoveredIs
<1>2. /\ m \in 1 .. Len(Discovered) /\ h \in Served(Discovered[m]) /\ b \in Versions
      /\ h \in Discovered[m].resources[b] /\ Named(h, gr.resource)
      /\ ResourceFor(Mapper, gr) =
           [group |-> Discovered[m].name, version |-> b, resource |-> h.plural]
      /\ KindFor(Mapper, gr) =
           [group |-> Discovered[m].name, version |-> b, kind |-> h.kind]
  BY <1>1, AnswerIs DEF Mapper
<1>3. Discovered[m].name \in GroupNames \cup {Core}
  BY <1>2, DiscoveredIs DEF Names
<1>4. h \in Resources
  BY <1>2, ResourcesServed
<1>5. h.plural \in {r.plural : r \in Resources} /\ h.kind \in {r.kind : r \in Resources}
  BY <1>4
<1>6. NoMatch # ResourceFor(Mapper, gr) /\ NoMatch # KindFor(Mapper, gr)
  BY <1>2, <1>3, <1>5, NoMatchAssumption
<1> QED BY <1>2, <1>6

LEMMA NoAnswer ==
    ASSUME Init, NEW gr, Able(Discovered, gr) = {}
    PROVE  /\ ResourceFor(Mapper, gr) = NoMatch
           /\ KindFor(Mapper, gr) = NoMatch
           /\ ListedFrom(Mapper, gr) = NoMatch
BY DiscoveredIs, NothingFound DEF Mapper

LEMMA ListedIsFound ==
    ASSUME Init, NEW gr, Able(Discovered, gr) # {}, NEW m, NEW b, NEW h,
           Answer(Discovered, gr, m, b, h)
    PROVE  /\ ListedFrom(Mapper, gr) # NoMatch
           /\ ListedFrom(Mapper, gr).group = Discovered[m].name
           /\ ListedFrom(Mapper, gr).resource = h.plural
<1>1. Discovered \in Seq(Groups) /\ WellFormed(Discovered, Versions)
  BY DiscoveredIs
<1>2. NamesAgree(Discovered)
  BY DEF Init
<1>3. PICK v \in Versions : ListedFrom(Mapper, gr) =
        [group |-> Discovered[m].name, version |-> v, resource |-> h.plural]
  BY <1>1, <1>2, ListedIs DEF Mapper
<1>4. m \in 1 .. Len(Discovered) /\ h \in Served(Discovered[m])
  BY AnswerIsFound
<1>5. Discovered[m].name \in GroupNames \cup {Core}
  BY <1>4, DiscoveredIs DEF Names
<1>6. h.plural \in {r.plural : r \in Resources}
  BY <1>4, ResourcesServed
<1> QED BY <1>3, <1>5, <1>6, NoMatchAssumption

\* What is found is a group-resource that ResourceSingularizer knows.
LEMMA NormalizedIs ==
    ASSUME Init, NEW gr, Able(Discovered, gr) # {}, NEW m, NEW b, NEW h,
           Answer(Discovered, gr, m, b, h)
    PROVE  Normalized(Mapper, gr) =
             [info |-> [group |-> Discovered[m].name, resource |-> h.plural], ok |-> TRUE]
<1> DEFINE plain == [group |-> Core, resource |-> h.plural]
<1>1. /\ m \in 1 .. Len(Discovered) /\ h \in Served(Discovered[m])
      /\ ResourceFor(Mapper, gr) =
           [group |-> Discovered[m].name, version |-> b, resource |-> h.plural]
      /\ ResourceFor(Mapper, gr) # NoMatch
  BY AnswerIsFound
<1>2. Discovered \in Seq(Groups) /\ WellFormed(Discovered, Versions) /\ NamesAgree(Discovered)
  BY DiscoveredIs DEF Init
<1>3. Able(Discovered, plain) # {}
  BY <1>1, <1>2, ServedPlain
<1>4. Hits(Mapper, plain) # {} /\ Hit(FirstHit(Mapper, plain), plain) \in Resources
  <2> HIDE DEF plain
  <2>1. PICK k, c, f : Answer(Discovered, plain, k, c, f)
    BY Answered
  <2>2. /\ Hits(Mapper, plain) # {}
        /\ Hit(FirstHit(Mapper, plain), plain) \in Served(Discovered[k])
    BY <1>2, <1>3, <2>1, ListedIs DEF Mapper
  <2>3. k \in 1 .. Len(Discovered)
    BY <1>3, <2>1, AnswerIsFound
  <2> QED BY <2>2, <2>3, ResourcesServed
<1>5. ResourceSingularizer(Mapper, h.plural) = Hit(FirstHit(Mapper, plain), plain).singular
  BY <1>4 DEF ResourceSingularizer
<1>6. ResourceSingularizer(Mapper, h.plural) # NoMatch
  <2> HIDE DEF plain
  <2> QED BY <1>4, <1>5, NoMatchAssumption
<1> DEFINE found == ResourceFor(Mapper, gr)
<1>7. Normalized(Mapper, gr) =
        [info |-> [group |-> found.group, resource |-> found.resource],
         ok   |-> ResourceSingularizer(Mapper, found.resource) # NoMatch]
  BY <1>1, Zenon DEF Normalized
<1>8. found.group = Discovered[m].name /\ found.resource = h.plural
  BY <1>1
<1>9. (ResourceSingularizer(Mapper, found.resource) # NoMatch) = TRUE
  BY <1>6, <1>8, Zenon
<1> HIDE DEF found
<1> QED BY <1>7, <1>8, <1>9

\* A group-resource that was found is normalized to itself.
LEMMA NormalizedAgain ==
    ASSUME Init, NEW gr, gr.group \in Given \cup {Core}, Able(Discovered, gr) # {},
           NEW m, NEW b, NEW h, Answer(Discovered, gr, m, b, h),
           NEW r \in Served(Discovered[m]), r.plural = h.plural, NEW name, Named(r, name)
    PROVE  Normalized(Mapper, [group |-> Discovered[m].name, resource |-> name]) =
             [info |-> [group |-> Discovered[m].name, resource |-> h.plural], ok |-> TRUE]
<1> DEFINE same == [group |-> Discovered[m].name, resource |-> name]
<1>1. Discovered \in Seq(Groups) /\ WellFormed(Discovered, Versions) /\ NamesAgree(Discovered)
  BY DiscoveredIs DEF Init
<1>2. /\ PrefixOrder(Names, Given)
      /\ \A i \in 1 .. Len(Discovered) : Discovered[i].name \in Names
  BY DiscoveredIs, PrefixAssumption DEF Names
<1>3. /\ Able(Discovered, same) # {}
      /\ \E c, s : Answer(Discovered, same, m, c, s) /\ s.plural = h.plural
  BY <1>1, <1>2, Canonical
<1>4. PICK c, s : Answer(Discovered, same, m, c, s) /\ s.plural = h.plural
  BY <1>3
<1> HIDE DEF same
<1>5. Normalized(Mapper, same) =
        [info |-> [group |-> Discovered[m].name, resource |-> s.plural], ok |-> TRUE]
  BY <1>3, <1>4, NormalizedIs
<1> QED BY <1>4, <1>5 DEF same

-----------------------------------------------------------------------------
(* The theorems: every state is a discovery *)

LEMMA StateIsDiscovery == Spec => []Init
<1>1. Init /\ UNCHANGED <<legacy, groups>> => Init'
  <2> SUFFICES ASSUME Init, legacy' = legacy, groups' = groups
               PROVE  Init'
    OBVIOUS
  <2>1. Discovered' = Discovered
    BY DEF Discovered, ServerGroups
  <2>2. NamesAgree(Discovered)'
    BY <2>1 DEF Init, NamesAgree, Served
  <2> QED BY <2>2 DEF Init
<1> QED BY <1>1, PTL DEF Spec, Next

\* For everything that discovery may find, ResourceFor answers from the
\* first group that serves the resource, and there from the preferred
\* version if that has it, else from the first listed one.
THEOREM ResolutionByPreference == Spec => []ResolvesByPreference
<1>1. ASSUME Init PROVE ResolvesByPreference
  <2>1. SUFFICES ASSUME NEW gr \in Spelled
        PROVE  IF Able(Discovered, gr) = {} THEN ResourceFor(Mapper, gr) = NoMatch
               ELSE LET g == Discovered[Min(Able(Discovered, gr))]
                        v == Best(g, gr.resource)
                    IN  \E r \in g.resources[v] :
                          /\ Named(r, gr.resource)
                          /\ ResourceFor(Mapper, gr) =
                               [group |-> g.name, version |-> v, resource |-> r.plural]
    BY Zenon DEF ResolvesByPreference
  <2>2. CASE Able(Discovered, gr) = {}
    BY <1>1, <2>2, NoAnswer
  <2>3. CASE Able(Discovered, gr) # {}
    <3>1. PICK m, b, h : Answer(Discovered, gr, m, b, h)
      BY Answered
    <3>2. /\ h \in Discovered[m].resources[b] /\ Named(h, gr.resource)
          /\ ResourceFor(Mapper, gr) =
               [group |-> Discovered[m].name, version |-> b, resource |-> h.plural]
      BY <1>1, <2>3, <3>1, AnswerIsFound
    <3> QED BY <2>3, <3>1, <3>2 DEF Answer
  <2> QED BY <2>2, <2>3
<1> QED BY <1>1, StateIsDiscovery, PTL

\* For everything that discovery may find, the key of a value, the kind of
\* the described object and the resource that objects are listed from are
\* of the same group and the same resource.
THEOREM ResolutionAgreement == Spec => []ResolutionsAgree
<1>1. ASSUME Init PROVE ResolutionsAgree
  <2>1. ASSUME NEW gr \in Spelled
        PROVE  LET key == ResourceFor(Mapper, gr)
                   kind == KindFor(Mapper, gr)
                   listed == ListedFrom(Mapper, gr)
               IN  \/ key = NoMatch /\ kind = NoMatch /\ listed = NoMatch
                   \/ /\ NoMatch \notin {key, kind, listed}
                      /\ key.group = kind.group /\ key.version = kind.version
                      /\ key.group = listed.group /\ key.resource = listed.resource
    <3>1. CASE Able(Discovered, gr) = {}
      BY <1>1, <3>1, NoAnswer
    <3>2. CASE Able(Discovered, gr) # {}
      <4>1. PICK m, b, h : Answer(Discovered, gr, m, b, h)
        BY Answered
      <4>2. /\ ResourceFor(Mapper, gr) =
                 [group |-> Discovered[m].name, version |-> b, resource |-> h.plural]
            /\ KindFor(Mapper, gr) =
                 [group |-> Discovered[m].name, version |-> b, kind |-> h.kind]
            /\ NoMatch \notin {ResourceFor(Mapper, gr), KindFor(Mapper, gr)}
        BY <1>1, <3>2, <4>1, AnswerIsFound
      <4>3. /\ ListedFrom(Mapper, gr) # NoMatch
            /\ ListedFrom(Mapper, gr).group = Discovered[m].name
            /\ ListedFrom(Mapper, gr).resource = h.plural
        BY <1>1, <3>2, <4>1, ListedIsFound
      <4> QED BY <4>2, <4>3
    <3> QED BY <3>1, <3>2
  <2> QED BY <2>1, Zenon DEF ResolutionsAgree
<1> QED BY <1>1, StateIsDiscovery, PTL

\* For everything that discovery may find, Normalized fails only if
\* ResourceFor does.
THEOREM SingularizerComplete == Spec => []SingularizerKnows
<1>1. ASSUME Init PROVE SingularizerKnows
  <2>1. ASSUME NEW gr \in Spelled, ResourceFor(Mapper, gr) # NoMatch
        PROVE  Normalized(Mapper, gr).ok
    <3>1. Able(Discovered, gr) # {}
      BY <1>1, <2>1, NoAnswer
    <3>2. PICK m, b, h : Answer(Discovered, gr, m, b, h)
      BY Answered
    <3>3. Normalized(Mapper, gr) =
            [info |-> [group |-> Discovered[m].name, resource |-> h.plural], ok |-> TRUE]
      BY <1>1, <3>1, <3>2, NormalizedIs
    <3> QED BY <3>3
  <2> QED BY <2>1, Zenon DEF SingularizerKnows
<1> QED BY <1>1, StateIsDiscovery, PTL

\* For everything that discovery may find, a normalized group-resource and
\* its singular are normalized to itself.
THEOREM NormalizationCanonical == Spec => []NormalizedIsCanonical
<1>1. ASSUME Init PROVE NormalizedIsCanonical
  <2>1. ASSUME NEW gr \in Spelled, Normalized(Mapper, gr).ok
        PROVE  /\ Normalized(Mapper, Normalized(Mapper, gr).info) = Normalized(Mapper, gr)
               /\ \A i \in DOMAIN Discovered :
                    Discovered[i].name = Normalized(Mapper, gr).info.group =>
                      \A r \in Served(Discovered[i]) :
                        r.plural = Normalized(Mapper, gr).info.resource =>
                          Normalized(Mapper, [Normalized(Mapper, gr).info
                                                EXCEPT !.resource = r.singular])
                            = Normalized(Mapper, gr)
    <3>1. Able(Discovered, gr) # {}
      <4>1. CASE Able(Discovered, gr) = {}
        <5>1. ResourceFor(Mapper, gr) = NoMatch
          BY <1>1, <4>1, NoAnswer
        <5>2. Normalized(Mapper, gr) = [info |-> gr, ok |-> FALSE]
          BY <5>1, Zenon DEF Normalized
        <5> QED BY <2>1, <5>2
      <4> QED BY <4>1
    <3>2. PICK m, b, h : Answer(Discovered, gr, m, b, h)
      BY Answered
    <3> DEFINE info == [group |-> Discovered[m].name, resource |-> h.plural]
    <3>3. Normalized(Mapper, gr) = [info |-> info, ok |-> TRUE]
      BY <1>1, <3>1, <3>2, NormalizedIs
    <3>4. gr.group \in Given \cup {Core}
      BY DEF Spelled
    <3>5. m \in 1 .. Len(Discovered) /\ h \in Served(Discovered[m])
      BY <1>1, <3>1, <3>2, AnswerIsFound
    <3>6. ASSUME NEW r \in Served(Discovered[m]), r.plural = h.plural,
                 NEW name, Named(r, name)
          PROVE  Normalized(Mapper, [group |-> Discovered[m].name, resource |-> name]) =
                   [info |-> info, ok |-> TRUE]
      BY <1>1, <3>1, <3>2, <3>4, <3>6, NormalizedAgain
    <3>7. Normalized(Mapper, info) = [info |-> info, ok |-> TRUE]
      BY <3>5, <3>6 DEF Named
    <3>8. ASSUME NEW i \in DOMAIN Discovered, Discovered[i].name = info.group,
                 NEW r \in Served(Discovered[i]), r.plural = info.resource
          PROVE  Normalized(Mapper, [info EXCEPT !.resource = r.singular])
                   = [info |-> info, ok |-> TRUE]
      <4>1. i = m
        BY <1>1, <3>5, <3>8, DiscoveredIs DEF WellFormed
      <4>2. [info EXCEPT !.resource = r.singular] =
              [group |-> Discovered[m].name, resource |-> r.singular]
        OBVIOUS
      <4>3. r \in Served(Discovered[m]) /\ r.plural = h.plural
        BY <3>8, <4>1
      <4> QED BY <3>6, <4>2, <4>3 DEF Named
    <3>9. Normalized(Mapper, gr).info = info
      BY <3>3
    <3> HIDE DEF info
    <3> QED BY <3>3, <3>7, <3>8, <3>9
  <2> QED BY <2>1, Zenon DEF NormalizedIsCanonical
<1> QED BY <1>1, StateIsDiscovery, PTL
=============================================================================
