# A verification project for custom-metrics-apiserver

The repository is a library for building Kubernetes *custom metrics* and
*external metrics* API servers ("adapters"), with a testing adapter that stores
metrics posted to it. This directory holds TLA+ models of its concurrent and
its error-prone parts, the TLC configurations that check them on small
instances, and TLAPS proofs of their main invariants for every instance.

`PROJECT.json` is the machine-readable index: runs, mutants, the map from
definitions to source lines, findings, hazards and theorems.

## 1. The system

| part | state it keeps | operations | interacts with |
|---|---|---|---|
| `pkg/dynamicmapper` `RegeneratingDiscoveryRESTMapper` | `delegate`, `mu` | `NewRESTMapper`, `RegenerateMappings`, `RunUntil`, seven lookups | API server (discovery requests); called from every request |
| `test-adapter/provider` `testingProvider` | `values`, `valuesLock` | `updateMetric`, `GetMetricByName`, `GetMetricBySelector`, `ListAllMetrics`, two external-metrics reads | mapper (several calls per request), API server (`List`) |
| `pkg/provider`, `pkg/provider/helpers` | none | `Normalized`, `ResourceFor`, `ReferenceFor`, `ListObjectNames` | mapper, dynamic client |
| `pkg/registry/*`, `pkg/apiserver/installer` | none | routes, `REST.List` | go-restful and `RequestInfo` before it, provider after it |
| `pkg/cmd` `AdapterBase`, `pkg/cmd/server` | lazily built clients, config, server | `ClientConfig` ... `Server`, `Run` | builds everything above |
| `pkg/apiserver` | the generic server | `Config.Complete`, `New`, `Install*API` | installer |
| `test-adapter/main.go` | none of its own | `main`, `makeProviderOrDie`, the goroutine of the writing port | `AdapterBase`, testing provider |

Every HTTP request runs in a goroutine of its own; a refresh goroutine may run
beside them. What is hard to test:

* a regeneration is a sequence of HTTP requests outside the lock, and the
  cluster, other regenerations and lookups run between them;
* any of those requests can fail, some failures are swallowed;
* a provider request calls the mapper several times, and the mapper may have
  been replaced in between;
* `valuesLock` is held across the arrival of a body and across a call to the
  API server;
* a URL is parsed twice by different code, and written metrics are keyed by a
  third piece of code;
* requests wait for the mapper's lock while they hold `valuesLock`;
* one request resolves its resource three times, by code that need not agree;
* the methods of `AdapterBase` call one another, fail, and may be called again
  with what a failed attempt left behind.

What makes each part correct: lookups never see a missing or half-replaced
delegate, and the mapper is never wrong about what it has read; the store's
requests are atomic and all answered; a path names one metric, the same one for
reads and writes; all spellings of a resource are normalized to one, and the
resolutions of one request agree; provider and mapper together neither block
each other nor stay behind the cluster; the adapter's objects are built once, and a server is whole
and starts its informers. The hazards in `PROJECT.json` list these at their lines.

## 2. Modules

| module | models | remarks |
|---|---|---|
| `RWMutex` | Go's `sync.RWMutex` (external) | a lock is a value; a waiting writer keeps new readers out |
| `DynamicMapper` | `mapper.go`, with `ServerGroups`, `GetAPIGroupResources` and `wait.Until` as it uses them | one action per request, lock operation and loop step |
| `MetricsRoutes` | the read routes, `RequestInfo`, `ListResource`, both `REST.List`, the write routes and `updateMetric`'s reading of them | pure operators, with a reference definition of the documented paths |
| `MetricKeys` | `CustomMetricResource`, `CustomMetricInfo`, the map, the custom metrics lister | |
| `ExternalMetrics` | the hard-coded external metrics and their lister | |
| `MetricStore` | nothing: the abstract specification of an atomic metric store | refined by `TestingProvider` |
| `TestingProvider` | `provider.go`, with `Normalized` and the helpers | one action per lock operation and per mapper call |
| `ProviderHistory` | nothing of its own: `TestingProvider` with a history of the accepted writes | what `ReadYourWrites` is stated with |
| `DiscoveryMapper` | how a delegate resolves: `NewDiscoveryRESTMapper` and the lookups of the vendored mappers, `Normalized`, `helpers.ResourceFor` | pure operators, with a reference definition (`Able`, `Best`) |
| `Resolution` | what discovery may find, one discovery per state | extends `DiscoveryMapper` with what resolution must come to |
| `ServingAdapter` | provider and mapper at work together | composes `DynamicMapper` and `TestingProvider`, extends `DiscoveryMapper` |
| `AdapterBase` | `pkg/cmd/builder.go`, `pkg/cmd/server/start.go`, `pkg/apiserver`, with `SecureServingOptions` as they use it | one action per method, or per stage of a method that can fail in several places |
| `SampleAdapter` | `test-adapter/main.go` | extends `AdapterBase` |
| `MC*` | instances | values for the constants |
| `RoutingLemmas` | nothing: lemmas about the operators of `MetricsRoutes` | used by the proofs of the routes and of the provider |
| `DiscoveryMapperProofs` | nothing: lemmas about the operators of `DiscoveryMapper` | used by the proofs of the resolution and of the composition |
| `DynamicMapperProofs`, `MetricsRoutesProofs`, `TestingProviderProofs`, `AdapterBaseProofs` (with the sample adapter), `ResolutionProofs`, `ServingAdapterProofs` | nothing: theorems | section 4 |

### DynamicMapper

Goroutines: `Main` runs the constructor, `Loops` are the `RunUntil` calls,
`Callers` run lookups. `pc` says where each is. A regeneration goes
`listLegacy` (GET /api) -> `listGroups` (GET /apis) -> `fetch` (one step per
listed version, in any order) -> `LockForReplace` -> `Replace`. `snap[p]` is the
delegate being built, `todo[p]` what is still to be fetched.

The content of a mapping is abstracted to one number per group-version, the
revision of the resource list that was read (0: none). The fields `at` and `ok`
of an entry and the variables `clock`, `changed` and `got` are history, used by
properties only. Errors: 403 and 404 of a group list count as an empty list;
any other error of it fails the round; a failed version is skipped. A failed
constructor ends the process (`Exited`), a failed round of a loop is logged.

`Replace` merges the assignment with the deferred `Unlock`: nobody can observe
what is between them. The seven lookups have the same body and are one action
sequence; that a delegate's own lookup is computed from immutable data makes
it a single read.

### TestingProvider

A client is one request goroutine after another. `mapping` is the delegate of
the shared mapper, as a function from the spellings of resources to what they
resolve to; `ReplaceDelegate` may replace it at any moment. A write takes
`lock -> body -> resolve -> singular -> store`, a read
`rlock -> next -> value -> metric -> next ...`.

* On the write path `Normalized` calls the mapper twice; an error of either call
  is only logged. If `ResourceFor` fails the value goes under the spelling of the
  URL, if `ResourceSingularizer` does, under the resource that was found.
* On the read path `ResourceFor`, `ResourceSingularizer` and `KindFor` are
  steps of their own; the last two may fail or differ after a replacement.
* The API server's list is any subset of `Names`, or an error.
* `convertible` stands for whether the request's label selector survives
  `ParseToLabelSelector`.
* The names of a list are a set: duplicates and order of the answer are not
  distinguished. `Timestamp` and selector of an item are left out.
* The answers of the two list requests are those of the resource listers. The
  external metrics never change: a selector is the set of label sets it matches.

### MetricsRoutes

A path is a sequence of segments, none of them empty (`SegmentsAssumption`: paths
are modelled in the normal form in which the API documents them, without double
slashes); `Missing`, the empty string, is the part of a request that its path
does not have. `ReadCall` composes the route table, the
second parsing by `NewRequestInfo`, `ListResource`'s injection of the name as a
field selector and `REST.List`; `WriteCall` composes the write routes and
`updateMetric`. The reference definition `PathOf` goes the other way, from a
metric to the path that the API documents for it. `Reserved` lists the
resource names that `RequestInfo` gives another meaning (`proxy/...`,
`watch/...`, a resource called `metrics`, `status` or `finalize` in a
namespace): no metric can be read for those.

### DiscoveryMapper

A discovered group has a name, a list of versions, a preferred one, and the
resources of the versions that were fetched. `NewDiscoveryRESTMapper` makes a
list of version mappers and a list of patterns; `ResourceFor` and `KindFor`
narrow the candidates of all version mappers down with the patterns, while
`ListedFrom` (`helpers.ResourceFor`) takes the first candidate. A Go loop that
appends to a list is `Appended`, a function that is recursive in the number of
iterations. `HasPrefix` is `strings.HasPrefix` on the names of groups; in the
instances they are sequences of labels and are compared as such. Left out: the
`List` kinds, lower-casing, names that belong to two resources of a version, and
guessed singulars.

### Resolution

A state is a discovery: the core group, found or not, and any number of other
groups, each with any list of versions, of which any may not have been fetched.
`NamesAgree` is taken for granted: the versions of a group, and groups one of
whose names begins with the other's, agree on the plural and the singular of a
resource that both serve. An unrelated group need not (`Variant` in
`MCDiscoveryMapper`). Without it a normalized resource need not be canonical: the
singular of one group's resource would name another resource in the other.

### ServingAdapter

The variables are those of both parts; the goroutines that serve requests are
the mapper's callers. `Ask -> AskDelegate -> UseAnswer` are the steps of a
lookup, and the last one is joint: the provider uses the answer while the
mapper's deferred `RUnlock` runs. The provider's `mapping` is no variable here,
it is `Resolve(delegate)`: what `DiscoveryMapper` computes from the
group-versions that the delegate was built from. `SoundDelegates` is what the
provider's specification assumes of a mapping; `ImplementsProvider` shows that
discovery keeps to it. Each group has one version here. `GroupsAssumption` and
`SpellingsAssumption` are the assumptions on the data: names of groups are
distinct, `NamesAgree`, and what is resolved to has a spelling. When the stop
channel is closed the process may end at
any moment (`Exited`).

### SampleAdapter

`main` goes through `AdapterBase`'s methods in its fixed order and calls
`glog.Fatalf` on the first error; the goroutine of the writing port runs beside
it from `GoListen` on, and ends the process if the port cannot be served.

### AdapterBase

One goroutine calls the methods (the struct is documented as not safe for
several). `calls` is the stack of methods in progress: a frame has the
method, where it is (`at`) and what the method it called returned (`arg`). An
error empties the stack, since every method passes it on. Cached fields hold
the serial number of the object, 0 for nil: the numbers are the identities that
`OneOfEach` compares, and their order is the order of construction.

* `ClientConfig` is built from nothing. The four other client methods have one
  shape (`Lazy`): return what is there, else get the object it is built from,
  then construct it or fail.
* `Config` goes `certs -> listen -> load -> auth`. The options it works on
  are shared by all attempts (the receiver is a copy, its fields are
  pointers), so `bindPort`, `certNamed`, `certsOnDisk` and `listening` are
  variables. `ApplyTo` assigns the port of the listener it found or made; a
  failed `CreateListener` returns port 0, which is assigned too.
* `Server` goes `start -> custom -> external -> end`. `Complete` calls
  `glog.Fatalf` if the config has no secure port: phase `dead`.
* `Run` descends into `Server`, then the process is `running` until `Stop`; the
  informers are started by a hook in another goroutine. Errors of starting the
  HTTP server on an open listener are left out.
* `flags` counts the registrations of the flags (`flagOnce`), and says whether
  there are options and whether they were parsed. `Config` installs the flags
  if nobody has. `Parse` may come at any moment between two calls, once.

## 3. Runs

| run | instance | what it shows |
|---|---|---|
| `mapper` | 1 loop, 2 callers, 2 group-versions (one legacy), 1 change, 1 fault, with fairness; 370 K states | `LookupFindsDelegate`, `LookupIsCurrent`, `KnownUnlessFailed`, `NoRollback`, `MonotonicLookups`, `TypeOK`; `LookupReturns`, `RoundsEnd`, `Converges`, `StopEndsLoops` |
| `adapter_mapper` | as the adapter uses the mapper: no loop | **violated**: `PeriodicallyRepopulated` |
| `metrics_routes` | all 37,376 paths of 3 to 5 segments over 8 words, with and without a field selector | `ReadPathIsExact`, `WritePathIsReadPath`, `ExternalPathIsExact` |
| `provider_replaced` | 2 clients, 2 objects, 2 values, a mapping that fails and recovers at will; 441 K states | `ItemsAreCurrent`, `WriterIsAlone`, `RequestsAreAtomic` (refinement of `MetricStore`), `TypeOK` |
| `provider_reads` | 2 clients, 2 spellings of one metric, a group that moves at will | `ReadYourWrites`, `ListedIsAvailable`, `RequestsAreAtomic` |
| `provider_liveness` | 2 clients, a mapping that comes and goes, with fairness | `EveryRequestAnswered` |
| `provider_namespace` | 1 client, a metric on a namespace | **violated**: `ReadYourWrites` |
| `resolution` | all 8,145 discoveries of a resource in the core group and up to two groups of up to 2 versions, in any order, fetched or not | `ResolvesByPreference`, `ResolutionsAgree`, `NormalizedIsCanonical`, `SingularizerKnows` |
| `adapter_locks` | composition: 2 clients, 1 loop, 1 group, with fairness | `NoCircularWait`, `RequestsAnswered` |
| `adapter_moves` | composition: 1 client, 1 loop, 2 groups, 1 change, with fairness | `ImplementsProvider` (refinement of `TestingProvider`), `AnswersConverge` |
| `adapter_start` | `RESTMapper`, `DynamicClient`, `Informers`, `Server`, `Run` and the providers, 2 failures, with fairness; 974 K states | `FlagsAreSafe`, `OneOfEach`, `ServerIsWhole`, `TypeOK`; `InformersStarted`, `RunRecovers` |
| `sample_start` | the sample adapter, 2 failures, with fairness | `ServesBoth`, `FirstErrorIsFatal`, `StartsOrExits` |

**Bounds.** `MaxClock` bounds the changes of the cluster (two clock values: a
change before, during or after a round), `MaxFaults` the failing requests.
Two callers are enough for a reader to queue behind a writer that waits for
another reader. Two clients are enough for every pair of requests of the
provider to interleave; two objects for a selector read to be interrupted
between values; in the composition, two clients let one read `mu` under
`valuesLock` while the regeneration waits for it and the other waits to write
`valuesLock`, or queues behind the regeneration. Two groups, one of which is
removed from the cluster or added to it, let a resource move while a request is
half way. In `adapter_start` the author does not call `ClientConfig`,
`DiscoveryClient` and `Config` himself; the other methods do. No route has more
than five segments. `AdapterBase` has seven objects, so `MaxSerial` = 7 never
stops a construction; two failures let an attempt fail, the next one fail on
what was left behind, and a third succeed. All actors other than the bounded
environment run for ever: no run disables the deadlock check.

**Fairness.** Weak fairness of a goroutine's own steps: Go schedules runnable
goroutines, the discovery and list requests of client-go end (with an answer or
an error), the body of a POST arrives or its connection breaks, timers fire.
Strong fairness of entering `Lock`: Go's mutex hands itself to a starving
waiter. Nothing makes the environment act: no change, no fault, no request, no
closing of the stop channel is fair. That a body ends is an assumption on the
client which no code enforces: `http.ListenAndServe` (`test-adapter/main.go:73`)
sets no `ReadTimeout`, so a client that stalls its upload on an open connection
would hold `valuesLock` and every request behind it. `EveryRequestAnswered`
and `RequestsAnswered` show that the lock is released after a malformed body or a
broken connection, and say nothing of a stalled upload.
`ServingAdapter` has the fairness of its
parts, with a lookup as part of the request that makes it. `RunRecovers` takes as its premise that
the author keeps calling `Run`; a call that was made is executed.

**Symmetry** (of the clients) is used in `provider_replaced` and `provider_reads`,
which check no liveness.

**Mutants.** For each property, `PROJECT.json` names a mutant of a modelled
definition (an operator defined beside it, marked "Mutant") under which TLC
finds it violated.

### Findings

1. `AdapterBase.RESTMapper` says "The discovery information will be
   periodically repopulated according to DiscoveryInterval"
   (`pkg/cmd/builder.go:166`), but no code outside the tests calls `RunUntil`.
   In the run `adapter_mapper` the mapper stays out of date for ever after a
   change of the cluster. With one `RunUntil` goroutine (`mapper`) the same
   property holds.
2. The testing provider stores a metric on a namespace with `Namespaced` true
   (`provider.go:151`), the API reads it with `Namespaced` false
   (`custom_metrics/reststorage.go:95`): the value is accepted and never found,
   although the write routes are "identical to the format of routes which
   metrics are read from" (`provider.go:121`). For all other paths
   `ReadYourWrites` and `WritePathIsReadPath` hold.

Two more behaviours are worth knowing, and are the reason why two properties are
stated as they are:

* A metric that is written while its resource cannot be resolved is accepted,
  stored under the spelling of the URL and listed (`provider.go:173` only logs the
  error); once the resource is discovered, no read finds it. `ListedIsAvailable`
  is therefore checked with mappers that resolve every written resource, also
  differently from one moment to the next (`provider_reads`).
* `Normalized` may change a fully given group into one with a longer name: with
  `apps.kruise.io` listed before `apps`, `statefulsets.apps` becomes
  `statefulsets.apps.kruise.io`. Each version has a mapper of its own, so "given a
  group, prefer an exact match" (vendored `restmapper.go:216`) only holds within
  a version. `ResolvesByPreference` states the rule that results.

`RunRecovers` has two exceptions, `Wedged`, that no documentation speaks of and
that are therefore no findings: after a failure to listen, the port is zero and
the next `Run` ends the process with "cannot derive external address port";
after a failure to make the self-signed certificate, its file names are set
and every later `Config` fails to load them. `RunRecovers` thus speaks of the
retries after every other failure. The sample adapter exits on the first error
and meets neither.

`NoRollback` is stated for at most one `RunUntil` goroutine and needs it: with
two, a slow regeneration can install what it read before a faster one
(discovery happens before `mu.Lock`). Nothing in the repository starts two.

## 4. Proofs

All theorems are proved for every value of the constants that satisfies the
named assumptions of the modules (`ConstantsAssumption` of `DynamicMapper`;
`PathsAssumption`, `MapperAssumption`, `SentinelAssumption` of
`TestingProvider`; `SegmentsAssumption` of `MCMetricsRoutes`: no segment is
empty; `GoroutinesAssumption` of `ServingAdapter`: a request runs in a goroutine
of its own, neither the main one nor a refresh loop, and `GroupsAssumption`,
`SpellingsAssumption` on its data; `PrefixAssumption`, `DiscoveryAssumption`,
`NoMatchAssumption` of `Resolution`: "begins with" is reflexive and transitive,
`*` is no version, and an error is not a resource), which TLC evaluates in
the runs. Two theorems, and the two about at most one loop, have hypotheses
beside them, stated in the theorem and explained below. Each inductive invariant
was checked by TLC on the instance of a
run before it was proved.

| theorem | property |
|---|---|
| `DynamicMapperProofs!TypeCorrect`, `LookupsFindDelegate`, `LookupsAreCurrent`, `MapperIsFaithful` | `TypeOK`, `LookupFindsDelegate`, `LookupIsCurrent`, `KnownUnlessFailed` |
| `DynamicMapperProofs!DelegateNeverRollsBack`, `LookupsAreMonotonic` (at most one loop) | `NoRollback`, `MonotonicLookups` |
| `MetricsRoutesProofs!ReadPathsAreExact`, `WritePathsAreReadPaths`, `ExternalPathsAreExact` | `ReadPathIsExact`, `WritePathIsReadPath`, `ExternalPathIsExact` |
| `TestingProviderProofs!TypeCorrect`, `ReadsAreSnapshots`, `WritersAreAlone` | `TypeOK`, `ItemsAreCurrent`, `WriterIsAlone` |
| `TestingProviderProofs!ListedMetricsAreAvailable` (hypotheses) | `ListedIsAvailable` |
| `TestingProviderProofs!ProviderIsAtomic` | `RequestsAreAtomic` |
| `TestingProviderProofs!ReadsFindWrites` (hypotheses) | `ReadYourWrites` |
| `AdapterBaseProofs!AdapterTypeCorrect`, `AdapterObjectsAreUnique`, `AdapterFlagsAreSafe`, `AdapterServerIsWhole` | `TypeOK`, `OneOfEach`, `FlagsAreSafe`, `ServerIsWhole` |
| `AdapterBaseProofs!AdapterObjectsStay` | no step replaces a built object (`Grows`) |
| `AdapterBaseProofs!SampleServesBoth`, `SampleFirstErrorIsFatal` | `ServesBoth`, `FirstErrorIsFatal` |
| `ServingAdapterProofs!AdapterNeverDeadlocks` | `NoCircularWait` |
| `ServingAdapterProofs!AdapterImplementsMapper` | the composition implements `DynamicMapper` |
| `ServingAdapterProofs!AdapterImplementsProvider` | `ImplementsProvider` |
| `ServingAdapterProofs!DelegatesAreSound` | every delegate that discovery yields is in `SoundDelegates` |
| `ResolutionProofs!ResolutionByPreference`, `ResolutionAgreement`, `NormalizationCanonical`, `SingularizerComplete` | `ResolvesByPreference`, `ResolutionsAgree`, `NormalizedIsCanonical`, `SingularizerKnows` |

**DynamicMapperProofs.**
* `TypeCorrect`: one step per action.
* `LookupsFindDelegate`, `LookupsAreCurrent`: the properties do not mention the
  lock, so the invariant `LookupInv` adds who holds it: a caller past `RLock` is
  among the readers, a goroutine about to replace is the writer, and once
  the constructor has returned the delegate is not nil.
* `MapperIsFaithful`: `KnownUnlessFailed` speaks of the installed delegate only;
  `StampInv`, `SnapInv` and `KnownInv` say the same of every delegate that is
  being built, and that no entry is stamped later than the clock.
* `DelegateNeverRollsBack`, `LookupsAreMonotonic`, assuming at most one loop:
  `RollInv` says that every entry a running regeneration has read is at least
  as new as the installed one, and that every caller's last delegate is at
  most as new.

**RoutingLemmas, MetricsRoutesProofs.** The run enumerates paths over eight
words; the theorems hold for any words and any length. `RootInfo`,
`NamespacedInfo` and `NamespaceSpecificInfo` say what `RequestInfo` makes of a path
of each routed form that is not reserved; `ReadCallIs` composes them with
`REST.List`; `PathOfCall` goes back to the documented path. `ReadBack` is the
converse, that a read at the documented path of a metric asks for that metric.

**TestingProviderProofs.**
* `ExclusionInv`: a goroutine that reads is among the lock's readers, one that
  writes is its writer, no reader is left when a value is stored, and only
  readers have collected items. It is inductive only together with `TypeOK` and
  `ItemsAreCurrent` (the type of a collected item comes from the map it was found
  in), and gives `TypeCorrect`, `ReadsAreSnapshots` and `WritersAreAlone`.
* `ListedMetricsAreAvailable`: `ListedIsAvailable` says of every stored key that the
  path the API documents for it leads back to it. `ListedInv` adds where keys come
  from: every key in the map is the one that some path was given by some
  delegate, and so is the key of a writer between `Normalized` and the store,
  whatever the delegate is by then. The hypotheses are those under which the
  property is true of the code: every delegate resolves what is
  written (`WritesResolve`; without it see "two more behaviours" above), a full
  name means the same to all delegates that know it (`FullNamesStay`), and a
  written metric has a documented path, which leaves out the metrics of
  namespaces (`KeysHavePaths`; finding 2). The instance of `provider_reads`, whose delegates
  move a resource from one group to another, satisfies them.
* `ProviderIsAtomic` is the refinement of `MetricStore`: initial states map to
  initial states, every step to a step or a stutter. A write maps to its step at
  `store`, a read to the one at its return; `LinearInv` says of a request in the
  middle that what it has resolved so far was resolved by some delegate and that
  the items it has collected are those that the abstract read would find for
  the names it is through with. With `ItemsAreCurrent`, the return of a read then
  answers from one state of the store, though the delegate may have been
  replaced at each of its steps.
* `ReadsFindWrites`: `ReadYourWrites` compares the answer of a read with the
  history of accepted writes, which the read does not look at. `HistoryInv` says
  that the history and the map agree (`acked = values`), that a writer that has
  asked the mapper keeps the resource, name and value that it will be told it
  stored (`WritesAsTold`), and that a read at a written path looks up and collects
  the metric of that path under the resource it has resolved, and no other
  (`ReadsAsTold`). The hypotheses are those under which the property
  is true of the code: the written paths are those of objects, not of namespaces
  (finding 2), and every delegate resolves what is written (`WritesResolve`).

**AdapterBaseProofs.** `AdapterInv` has four parts. `StackInv`: only the
innermost method is past its start, and its object does not exist yet, while the options
do (`Config`) and the APIs of the stages it has passed are installed (`Server`);
what a method was given is the cached object. `CacheInv`: every handed out object is the cached one, and every
object's parent is. `FlagsInv`: the flags are registered at most once, and with
them the options exist. `ServerIsWhole` itself. None of the properties is
inductive alone: `OneOfEach` needs the stack (a method that builds has found no
object, and what it builds from is the cached one), `ServerIsWhole` the
stages of `Server`. `Grows`, that no object is replaced, is shown along with every step.

The sample adapter, in the same module. `SampleInv`: the methods in progress are those of the call that main
waits for (`OneCall`); the objects and providers of the passed places are there and
the later ones are not (`Progress`); after a failure main is about to find
out, or the process is gone (`Noticed`); and a server that is built or being built was given both
providers (`Complete`). Steps inside a method are first reduced to a few kinds
(`Kinds`: an object returned, a call entered, a stage passed, the process
dying, a failure), which is all that matters to main.

**ServingAdapterProofs.**
* `AdapterNeverDeadlocks`, for any number of requests and refresh goroutines.
  `LocksInv` says of both locks who reads, writes and waits, and relates
  them (`OrderInv`): a goroutine that is at `mu` for a request is through with
  acquiring `valuesLock`. Hence readers of `mu` wait for nobody, so the writer of `mu` is
  in no circle, so nobody is in a circle over `mu`; then the same for
  `valuesLock`.
* `AdapterImplementsMapper`: every step of the composition is one of `DynamicMapper`
  or leaves its variables alone, so that its theorems hold in the adapter.
* `AdapterImplementsProvider`: every step is one of `TestingProvider`, with
  `Resolve(delegate)` as its mapping and `Replace` as its `ReplaceDelegate`.
  It rests on `DelegatesAreSound`: whichever group-versions a regeneration could
  fetch, the mapper that is built from them finds what it resolves to again, under
  the full name and by the name alone. That is a fact about `DiscoveryMapper`
  (`Canonical`, below), for groups of one version.

**DiscoveryMapperProofs, ResolutionProofs.** What a delegate answers is
computed by loops over lists of groups, versions and patterns of any length.
* The library's induction theorems cannot be used, but the well-foundedness of
  the naturals as a statement about sets of numbers can (`Least`,
  `Induction`), and with it that a function which is recursive in a number exists
  and takes the expected values (`Recursion`). The loops (`Appended`, `Preferred`)
  are such functions.
* Of a list only two things matter: that it has no element of some kind
  (`Absent`), and what its first element of a kind is (`FirstIn`). Both are
  shown for concatenations and for what a loop appends, then for the version
  mappers of a group and of all groups, and for the patterns.
* `PreferredIs`: if the first pattern that fits any candidate fits exactly one,
  that one is chosen. `PriorityFirst`: the first pattern that fits an
  answer is the one of the best version of the first able group, whether
  the core group's pattern in front applies or not. Together they
  give `ResourceForIs`, that `ResourceFor` and `KindFor` answer from `Best` of the
  least of `Able`. `FirstHitIs`: the first answer of all, which `ListedFrom` and
  the singularizer use, comes from the same group.
* `Canonical`: asked for the full name of what it found, the mapper finds
  it in the same group again. A group before it would have to have a name that
  begins with the found one's, hence with the given one, and to serve a resource
  of the same names (`NamesAgree`), so that it would have been found at first.
* The four theorems follow for each discovery; the state of `Resolution` never
  changes.

Only model-checked:
* all liveness properties (fairness and ENABLED are outside the prover):
  `LookupReturns`, `RoundsEnd`, `Converges`, `StopEndsLoops`,
  `EveryRequestAnswered`, `RequestsAnswered`, `AnswersConverge`, `InformersStarted`,
  `RunRecovers`, `StartsOrExits`;
* that finding 1 and finding 2 occur: they are counterexamples.

## 5. Not modelled

* go-restful's own route selection, media types and documentation parameters
  (`addObjectParams`, `typeToJSON`): formatting of documentation by reflection.
* Self links: `GenerateLink` runs for every item of a list, but metric values have
  no `ObjectMeta`, its error is dropped and the answer is unchanged.
* The error constructors (`errors.go`): the provider's model has the status they
  make. The fake discovery client: a test double without behaviour.
* Of the resolution: the `List` kinds, guessed singulars and lower-casing, and two
  resources of one version that share a name. `helpers.ResourceFor` may list
  objects from another version than the preferred one; the objects are the same.
* The generic API server, its scheme registration and its HTTP server.

## 6. Plan

1. (done) mapper, routes, provider, abstract store; their runs; type and safety
   theorems.
2. (done) `AdapterBase` with the server options and the construction of the
   server, in any order of calls and with retries; the flags; the sample adapter.
3. (done) the composition of mapper and provider with both locks; the resolution
   of resources; external metrics and the listers.
4. (done) proofs: the invariants of `AdapterBase`, the sample adapter and the
   routes; `ListedIsAvailable`; the refinements of `MetricStore` by the provider
   and of provider and mapper by the composition; no deadlock.
5. (done) proofs: `ReadYourWrites` from a history of accepted writes; the
   resolution of resources for every discovery, and from it the refinement of the
   provider by the composition without a hypothesis on the delegates. Every
   invariant and every safety property that a passing run checks has a theorem.
6. Left: groups of several versions in `ServingAdapter`.
