--------------------------- MODULE ServingAdapter --------------------------
(***************************************************************************)
(* The adapter at work: the testing provider's requests, served while the  *)
(* REST mapper that they share is regenerated.                             *)
(*                                                                         *)
(* The parts are DynamicMapper and TestingProvider.  A goroutine that      *)
(* serves a request is a caller of the mapper: each time the provider asks *)
(* the mapper, it goes through the three steps of a lookup, of which the   *)
(* last one is also the step of the provider that uses the answer.  What a *)
(* delegate answers is computed by DiscoveryMapper from the group-versions *)
(* that it was built from.                                                 *)
(***************************************************************************)
EXTENDS DiscoveryMapper

CONSTANTS
    GroupVersions, Legacy, Main, Loops, Nil, MaxClock, MaxFaults,
    Clients, WritePaths, ReadPaths, ExternalPaths, Selectors, Values, NoValue,
    Names, Spellings, NoRequest,
    Order,              \* the group-versions in the order they are listed in
    GroupOf,            \* the group of each, which has no other version
    ResourcesOf,        \* the resources of each, if it is served
    Parsed              \* ParseGroupResource: from spellings to group-resources

\* A goroutine of the mapper serves no requests.
ASSUME GoroutinesAssumption == Clients \cap ({Main} \cup Loops) = {}

VARIABLES
    cluster, changed, clock, faults, stopped, delegate, mu, lookup, todo, snap,
    got,                                                    \* of the mapper
    values, valuesLock, stage, req, names, cur, items, reply  \* of the provider

mapperVars ==
    <<cluster, changed, clock, faults, stopped, delegate, mu, lookup, todo,
      snap, got>>
providerVars == <<values, valuesLock, stage, req, names, cur, items, reply>>
vars == <<mapperVars, providerVars>>

-----------------------------------------------------------------------------
(* What a delegate resolves *)

\* What discovery finds when these group-versions can be fetched.  A group
\* that has no version with resources answers nothing, as if not listed.
GroupsOf(served) ==
    [i \in DOMAIN Order |->
       [name |-> GroupOf[Order[i]], versions |-> <<"v1">>, preferred |-> "v1",
        resources |-> [v \in {w \in {"v1"} : Order[i] \in served}
                         |-> ResourcesOf[Order[i]]]]]

\* GroupResource.String, the inverse of ParseGroupResource.
Spell(gr) == CHOOSE s \in Spellings : Parsed[s] = gr

Bare == [s \in Spellings |->
           Spell([group |-> Core, resource |-> Parsed[s].resource])]

ResolveServed(served) ==
    LET mapper == NewDiscoveryRESTMapper(GroupsOf(served))
    IN  [s \in Spellings |->
           LET found == ResourceFor(mapper, Parsed[s])
           IN  IF found = NoMatch THEN NoMatch
               ELSE Spell([group |-> found.group, resource |-> found.resource])]

\* Each mapping with the group-versions that it comes from.
Resolutions == {<<ResolveServed(served), served>> : served \in SUBSET GroupVersions}
ResolutionOf(served) == (CHOOSE r \in Resolutions : r[2] = served)[1]

\* Nobody asks the mapper before there is a delegate.
Resolve(d) == ResolutionOf({g \in GroupVersions : d # Nil /\ d[g].rev # 0})

\* What the provider relies on: a resource that was found is found again
\* under its full name, and by the name alone.
SoundDelegates ==
    {d \in [Spellings -> Spellings \cup {NoMatch}] :
       \A s \in Spellings :
         d[s] # NoMatch => d[d[s]] = d[s] /\ d[Bare[d[s]]] # NoMatch}

\* No two groups have the same name, and the core group is in front.
ASSUME GroupsAssumption ==
    /\ Order \in Seq(GroupVersions)
    /\ \A i, j \in DOMAIN Order : GroupOf[Order[i]] = GroupOf[Order[j]] => i = j
    /\ \A i \in DOMAIN Order : GroupOf[Order[i]] = Core => i = 1
    /\ PrefixOrder({GroupOf[g] : g \in GroupVersions}, {Parsed[s].group : s \in Spellings})
    /\ NamesAgree(GroupsOf(GroupVersions))

\* What is found has a spelling, and so has its name alone; an error is
\* neither a spelling nor a resource.
ASSUME SpellingsAssumption ==
    /\ NoMatch \notin Spellings
    /\ \A s \in Spellings : \E t \in Spellings :
         Parsed[t] = [group |-> Core, resource |-> Parsed[s].resource]
    /\ \A g \in GroupVersions : \A r \in ResourcesOf[g] :
         /\ \E t \in Spellings : Parsed[t] = [group |-> GroupOf[g], resource |-> r.plural]
         /\ NoMatch # [group |-> GroupOf[g], version |-> "v1", resource |-> r.plural]

-----------------------------------------------------------------------------
M == INSTANCE DynamicMapper WITH Callers <- Clients, pc <- lookup

P == INSTANCE TestingProvider WITH
    pc <- stage, mapping <- Resolve(delegate), Delegates <- SoundDelegates

Init == M!Init /\ P!Init

\* The cluster, the constructor and the refresh goroutines.
MapperAlone ==
    /\ \/ \E g \in GroupVersions : M!ClusterChange(g)
       \/ M!CloseStop
       \/ \E p \in M!Regens : M!Regenerate(p)
       \/ \E p \in Loops : M!Refresh(p)
       \/ M!Exited
    /\ UNCHANGED providerVars

\* The provider is made from the mapper, so that requests come after it.
Request(c) ==
    /\ M!Built
    /\ UNCHANGED mapperVars
    /\ P!Post(c) \/ P!Get(c)

\* The steps of a request that ask nobody.
ProviderAlone(c) ==
    /\ stage[c] # "idle" /\ lookup[c] = "idle"
    /\ UNCHANGED mapperVars
    /\ \/ P!PostLock(c) \/ P!PostBody(c) \/ P!PostStore(c)
       \/ P!ListAllMetrics(c) \/ P!ListAllExternalMetrics(c)
       \/ P!GetExternalMetric(c) \/ P!GetMetricByName(c) \/ P!ReturnItems(c)

\* The next thing that a request does is to ask the mapper.
AsksMapper(c) ==
    \/ stage[c] \in {"resolve", "singular", "value", "metric"}
    \/ stage[c] = "next" /\ names[c] # {}
    \/ P!Granted(c) /\ req[c].verb = "get" /\ P!CallOf(c).op = "bySelector"

Ask(c) == AsksMapper(c) /\ M!LookupRLock(c) /\ UNCHANGED providerVars

AskDelegate(c) == M!LookupDelegate(c) /\ UNCHANGED providerVars

\* The answer is used while the deferred RUnlock lets go of the mapper.
UseAnswer(c) ==
    /\ M!LookupRUnlock(c)
    /\ \/ P!PostResolve(c) \/ P!PostSingular(c) \/ P!ListObjectNames(c)
       \/ P!ResourceFor(c) \/ P!ValueFor(c) \/ P!MetricFor(c)

Serve(c) == ProviderAlone(c) \/ Ask(c) \/ AskDelegate(c) \/ UseAnswer(c)

\* The channel that stops the refresh is the one that ends Run, and with it
\* the process, whatever is being served.
Exited == stopped /\ UNCHANGED vars

Next == MapperAlone \/ Exited \/ \E c \in Clients : Request(c) \/ Serve(c)

Spec == Init /\ [][Next]_vars

\* The steps of a regeneration, and of the goroutine it runs in.
Regeneration(p) ==
    /\ \/ M!ListLegacy(p) \/ M!ListGroups(p) \/ M!FetchVersion(p) \/ M!Replace(p)
       \/ p \in Loops /\ M!Refresh(p)
    /\ UNCHANGED providerVars

\* The fairness of the parts, where a step of a request may be a lookup.
Fairness ==
    /\ \A p \in M!Regens :
         /\ WF_vars(Regeneration(p))
         /\ SF_vars(M!LockForReplace(p) /\ UNCHANGED providerVars)
    /\ \A c \in Clients :
         /\ WF_vars(Serve(c))
         /\ SF_vars(UNCHANGED mapperVars /\ P!PostLock(c))

FairSpec == Spec /\ Fairness

-----------------------------------------------------------------------------
(* Properties *)

Goroutines == M!Procs

\* Those that p cannot go on without, at a lock that it wants or waits for.
Awaits(p, lock, wants) ==
    IF p \in lock.waiting \/ (wants /\ lock.writer # {}) THEN lock.writer
    ELSE IF lock.writer = {p} THEN lock.readers ELSE {}

AwaitedBy(p) ==
    Awaits(p, mu, lookup[p] = "fetch" /\ todo[p] = {})
      \cup IF p \in Clients THEN Awaits(p, valuesLock, stage[p] = "lock") ELSE {}

\* No goroutines wait for each other in a circle, over valuesLock and mu
\* together: requests take mu while they hold valuesLock, readers of mu
\* queue behind a regeneration that waits for other readers of mu, and those
\* may be behind a writer of valuesLock.
NoCircularWait ==
    \A circle \in (SUBSET Goroutines) \ {{}} :
      \E p \in circle : AwaitedBy(p) \cap circle = {}

\* The composition implements the provider's specification, with the
\* mapper's Replace as its ReplaceDelegate: in particular every delegate
\* that discovery can produce meets what the provider assumes of one.
ImplementsProvider == P!Spec

\* Every request is answered, although it waits for two locks, of which a
\* regeneration and other requests hold one each.
RequestsAnswered == \A c \in Clients : []<>(stage[c] = "idle")

\* Once the cluster and the network are quiet, every answer is about the
\* resource that its request names in what the cluster serves, unless the
\* mapper was never built or was stopped.
AnswersConverge ==
    \/ <>(lookup[Main] = "failed" \/ stopped)
    \/ <>[][\A c \in Clients :
              stage[c] # "idle" /\ stage'[c] = "idle" /\ req[c].verb = "get" =>
                \A i \in reply'[c].items :
                  i.key.resource =
                    ResolutionOf({g \in GroupVersions : cluster[g] # 0})
                      [P!CallOf(c).resource]]_vars
=============================================================================
