-------------------------- MODULE TestingProvider --------------------------
(***************************************************************************)
(* test-adapter/provider/provider.go: values written over HTTP, kept in a  *)
(* map under an RWMutex and served through the custom metrics API.         *)
(*                                                                         *)
(* Every request runs in a goroutine of its own; a client is one such      *)
(* goroutine after another.  The REST mapper is shared and is replaced     *)
(* under the requests' feet: mapping is its current delegate, and each     *)
(* call of the mapper within a request is a step of its own.               *)
(***************************************************************************)
EXTENDS MetricKeys, ExternalMetrics, RWMutex

CONSTANTS
    Clients,        \* goroutines that serve requests
    WritePaths,     \* paths that are posted to
    ReadPaths,      \* paths that are read
    ExternalPaths,  \* paths of external metrics that are read
    Selectors,      \* label selectors of external metrics
    Values,         \* quantities
    NoValue,        \* no quantity
    Names,          \* names of the objects that a selector may match
    Spellings,      \* the ways resources are written in paths and keys
    Delegates,      \* mappings the REST mapper may hold: from a spelling to
                    \* the resource it resolves to, or to NoMatch
    NoMatch,        \* the mapper's error: no such resource
    Bare,           \* the spelling of a resource without its group
    NoRequest       \* a goroutine between two requests

\* Only a read by a selector has one that may not be convertible.
SelectorPaths == {p \in ReadPaths : ReadCall(p, Missing).op = "bySelector"}

Requests ==
    [verb : {"post"}, path : WritePaths, value : Values]
      \cup [verb : {"get"}, path : ReadPaths, convertible : {TRUE}]
      \cup [verb : {"get"}, path : SelectorPaths, convertible : {FALSE}]
      \cup [verb : {"external"}, path : ExternalPaths, selector : Selectors]
      \cup [verb : {"list", "listExternal"}]

(***************************************************************************)
(* Written paths are also read paths, and a read that reaches the provider *)
(* was routed.  A delegate knows every resource it resolves to.            *)
(***************************************************************************)
ASSUME PathsAssumption ==
    /\ WritePaths \subseteq ReadPaths
    /\ \A p \in WritePaths :
         WriteRouted(p) /\ WriteCall(p).resource \in Spellings
    /\ \A p \in ReadPaths :
         ReadRouted(p) /\ ReadCall(p, Missing).resource \in Spellings
    /\ \A p \in ExternalPaths : ExternalRouted(p)

ASSUME MapperAssumption ==
    /\ Bare \in [Spellings -> Spellings]
    /\ NoMatch \notin Spellings
    /\ Delegates \subseteq [Spellings -> Spellings \cup {NoMatch}]
    /\ \A d \in Delegates, s \in Spellings :
         d[s] # NoMatch => d[Bare[d[s]]] # NoMatch

ASSUME SentinelAssumption == NoValue \notin Values /\ NoRequest \notin Requests

VARIABLES
    values,         \* p.values, from keys to quantities
    valuesLock,     \* p.valuesLock
    mapping,        \* the delegate of p.mapper
    pc,             \* where each goroutine is
    req,            \* the request it serves
    names,          \* metricsFor: the names still to be looked up
    cur,            \* the name being looked up, its resource and value
    items,          \* res, the metrics found so far
    reply           \* the answer to the last request

vars == <<values, valuesLock, mapping, pc, req, names, cur, items, reply>>
locals == <<names, cur, items>>

Nobody == [name |-> Missing, resource |-> Missing, value |-> NoValue]
NoReply == [status |-> "none", items |-> {}]

Init ==
    /\ values = EmptyMap
    /\ valuesLock = Free
    /\ mapping \in Delegates
    /\ pc = [c \in Clients |-> "idle"]
    /\ req = [c \in Clients |-> NoRequest]
    /\ names = [c \in Clients |-> {}]
    /\ cur = [c \in Clients |-> Nobody]
    /\ items = [c \in Clients |-> {}]
    /\ reply = [c \in Clients |-> NoReply]

GoTo(c, label) == pc' = [pc EXCEPT ![c] = label]

\* The handler returns this answer; its deferred call releases the lock.
Return(c, status, found, lock) ==
    /\ reply' = [reply EXCEPT ![c] = [status |-> status, items |-> found]]
    /\ valuesLock' = lock
    /\ GoTo(c, "idle")
    /\ req' = [req EXCEPT ![c] = NoRequest]
    /\ names' = [names EXCEPT ![c] = {}]
    /\ cur' = [cur EXCEPT ![c] = Nobody]
    /\ items' = [items EXCEPT ![c] = {}]

ReturnRead(c, status, found) == Return(c, status, found, RUnlock(valuesLock, c))

-----------------------------------------------------------------------------
(* The REST mapper *)

\* RegenerateMappings replaces the delegate.
ReplaceDelegate ==
    /\ mapping' \in Delegates \ {mapping}
    /\ UNCHANGED <<values, valuesLock, pc, req, locals, reply>>

\* The answers of ResourceFor, KindFor and ResourcesFor to a spelling, and
\* whether ResourceSingularizer knows the resource.
Matches(spelling) == mapping[spelling] # NoMatch
Singularizes(resource) == mapping[Bare[resource]] # NoMatch

-----------------------------------------------------------------------------
(* updateMetric *)

Post(c) ==
    /\ pc[c] = "idle"
    /\ \E r \in Requests :
         r.verb = "post" /\ req' = [req EXCEPT ![c] = r]
    /\ reply' = [reply EXCEPT ![c] = NoReply]
    /\ GoTo(c, "lock")
    /\ UNCHANGED <<values, valuesLock, mapping, locals>>

PostLock(c) ==
    /\ pc[c] = "lock"
    /\ CanLock(valuesLock)
    /\ valuesLock' = Lock(valuesLock, c)
    /\ GoTo(c, "body")
    /\ UNCHANGED <<values, mapping, req, locals, reply>>

\* Mutants: Lock does not wait for the readers; a bad body leaves it locked.
PostBodyEarly(c) ==
    /\ pc[c] = "body"
    /\ GoTo(c, "resolve")
    /\ UNCHANGED <<values, valuesLock, mapping, req, locals, reply>>

PostBodyNoUnlock(c) ==
    /\ pc[c] = "body"
    /\ HoldsW(valuesLock, c)
    /\ \/ /\ GoTo(c, "resolve")
          /\ UNCHANGED <<valuesLock, req, locals, reply>>
       \/ Return(c, "error", {}, valuesLock)
    /\ UNCHANGED <<values, mapping>>

\* ReadEntity waits for the body, with the lock held.
PostBody(c) ==
    /\ pc[c] = "body"
    /\ HoldsW(valuesLock, c)
    /\ \/ /\ GoTo(c, "resolve")
          /\ UNCHANGED <<valuesLock, req, locals, reply>>
       \/ Return(c, "error", {}, Unlock(valuesLock))
    /\ UNCHANGED <<values, mapping>>

\* Mutant: the mapper's error is stored as if it were a resource.
NormalizedUnchecked(spelling) == mapping[spelling]

\* The resource of Normalized, which is the spelling if ResourceFor fails.
Normalized(spelling) == IF Matches(spelling) THEN mapping[spelling] ELSE spelling

\* Normalized calls ResourceFor.  An error of it is logged, and the value
\* will be stored under the spelling.
PostResolve(c) ==
    LET call == WriteCall(req[c].path)
    IN  /\ pc[c] = "resolve"
        /\ cur' = [cur EXCEPT ![c] = [name     |-> call.name,
                                      resource |-> Normalized(call.resource),
                                      value    |-> req[c].value]]
        /\ GoTo(c, IF Matches(call.resource) THEN "singular" ELSE "store")
        /\ UNCHANGED <<values, valuesLock, mapping, req, names, items, reply>>

\* Normalized calls ResourceSingularizer: an error of it is logged as well,
\* and leaves the resource that ResourceFor found.
PostSingular(c) ==
    /\ pc[c] = "singular"
    /\ GoTo(c, "store")
    /\ UNCHANGED <<values, valuesLock, mapping, req, locals, reply>>

\* Mutant: the normalized info is dropped.
StoredKeyRaw(c) ==
    LET call == WriteCall(req[c].path)
    IN  KeyOf(call, call.resource, call.name)

StoredKey(c) == KeyOf(WriteCall(req[c].path), cur[c].resource, cur[c].name)

PostStore(c) ==
    /\ pc[c] = "store"
    /\ values' = Put(values, StoredKey(c), cur[c].value)
    /\ Return(c, "ok", {}, Unlock(valuesLock))
    /\ UNCHANGED mapping

-----------------------------------------------------------------------------
(* GetMetricByName, GetMetricBySelector, ListAllMetrics, GetExternalMetric *)
(* and ListAllExternalMetrics                                              *)

\* Every read begins with RLock.
Get(c) ==
    /\ pc[c] = "idle"
    /\ \E r \in Requests :
         r.verb # "post" /\ req' = [req EXCEPT ![c] = r]
    /\ reply' = [reply EXCEPT ![c] = NoReply]
    /\ valuesLock' = RLock(valuesLock, c)
    /\ GoTo(c, "rlock")
    /\ UNCHANGED <<values, mapping, locals>>

\* Mutant: RLock does not wait for the writer.
GrantedEarly(c) == pc[c] = "rlock"

Granted(c) == pc[c] = "rlock" /\ HoldsR(valuesLock, c)
CallOf(c) == ReadCall(req[c].path, Missing)

\* Discovery of the custom metrics API: ListAPIResources of its lister.
ListAllMetrics(c) ==
    /\ Granted(c) /\ req[c].verb = "list"
    /\ ReturnRead(c, "ok", {APIResource(InfoOf(key)) : key \in DOMAIN values})
    /\ UNCHANGED <<values, mapping>>

ListAllExternalMetrics(c) ==
    /\ Granted(c) /\ req[c].verb = "listExternal"
    /\ ReturnRead(c, "ok", ExternalResources)
    /\ UNCHANGED <<values, mapping>>

GetExternalMetric(c) ==
    /\ Granted(c) /\ req[c].verb = "external"
    /\ ReturnRead(c, "ok", MatchingExternal(ExternalCall(req[c].path).metric,
                                            req[c].selector))
    /\ UNCHANGED <<values, mapping>>

GetMetricByName(c) ==
    /\ Granted(c) /\ req[c].verb = "get" /\ CallOf(c).op = "byName"
    /\ names' = [names EXCEPT ![c] = {CallOf(c).name}]
    /\ GoTo(c, "next")
    /\ UNCHANGED <<values, valuesLock, mapping, req, cur, items, reply>>

\* ListObjectNames asks the mapper, then the API server, with the lock held.
ListObjectNames(c) ==
    /\ Granted(c) /\ req[c].verb = "get" /\ CallOf(c).op = "bySelector"
    /\ \/ /\ Matches(CallOf(c).resource)
          /\ \E listed \in SUBSET Names :
               names' = [names EXCEPT ![c] = listed]
          /\ GoTo(c, "next")
          /\ UNCHANGED <<valuesLock, req, cur, items, reply>>
       \/ ReturnRead(c, "error", {})
    /\ UNCHANGED <<values, mapping>>

\* valueFor, first half: Normalized calls ResourceFor.
ResourceFor(c) ==
    /\ pc[c] = "next"
    /\ names[c] # {}
    /\ IF Matches(CallOf(c).resource)
       THEN /\ \E n \in names[c] :
                 /\ names' = [names EXCEPT ![c] = @ \ {n}]
                 /\ cur' = [cur EXCEPT ![c] =
                              [name |-> n, resource |-> mapping[CallOf(c).resource],
                               value |-> NoValue]]
            /\ GoTo(c, "value")
            /\ UNCHANGED <<valuesLock, req, items, reply>>
       ELSE ReturnRead(c, "error", {})
    /\ UNCHANGED <<values, mapping>>

CurKey(c) == KeyOf(CallOf(c), cur[c].resource, cur[c].name)

\* Mutant: metricsFor does not skip a name without a value.
NotFoundAlways(c) == ReturnRead(c, "notFound", {})

\* A name without a value: NotFound for GetMetricByName, skipped by metricsFor.
NotFound(c) ==
    IF CallOf(c).op = "byName"
    THEN ReturnRead(c, "notFound", {})
    ELSE GoTo(c, "next") /\ UNCHANGED <<valuesLock, req, locals, reply>>

\* valueFor, second half: ResourceSingularizer, then the map.
ValueFor(c) ==
    /\ pc[c] = "value"
    /\ \/ /\ ~Singularizes(cur[c].resource)
          /\ ReturnRead(c, "error", {})
       \/ /\ Singularizes(cur[c].resource)
          /\ CurKey(c) \in DOMAIN values
          /\ cur' = [cur EXCEPT ![c].value = values[CurKey(c)]]
          /\ GoTo(c, "metric")
          /\ UNCHANGED <<valuesLock, req, names, items, reply>>
       \/ /\ Singularizes(cur[c].resource)
          /\ CurKey(c) \notin DOMAIN values
          /\ NotFound(c)
    /\ UNCHANGED <<values, mapping>>

\* metricFor: KindFor for the reference, on the resource as it was spelled;
\* then the selector, if there is one, is converted.
MetricFor(c) ==
    /\ pc[c] = "metric"
    /\ IF /\ Matches(CallOf(c).resource)
          /\ CallOf(c).op = "bySelector" => req[c].convertible
       THEN /\ items' = [items EXCEPT ![c] = @ \cup
                           {[key   |-> CurKey(c), value |-> cur[c].value,
                             kind  |-> mapping[CallOf(c).resource]]}]
            /\ GoTo(c, "next")
            /\ UNCHANGED <<valuesLock, req, names, cur, reply>>
       ELSE ReturnRead(c, "error", {})
    /\ UNCHANGED <<values, mapping>>

ReturnItems(c) ==
    /\ pc[c] = "next"
    /\ names[c] = {}
    /\ ReturnRead(c, "ok", items[c])
    /\ UNCHANGED <<values, mapping>>

-----------------------------------------------------------------------------
Serve(c) ==
    \/ PostLock(c) \/ PostBody(c) \/ PostResolve(c) \/ PostSingular(c)
    \/ PostStore(c) \/ ListAllMetrics(c) \/ ListAllExternalMetrics(c)
    \/ GetExternalMetric(c) \/ GetMetricByName(c) \/ ListObjectNames(c)
    \/ ResourceFor(c) \/ ValueFor(c) \/ MetricFor(c) \/ ReturnItems(c)

Next ==
    \/ ReplaceDelegate
    \/ \E c \in Clients : Post(c) \/ Get(c) \/ Serve(c)

Spec == Init /\ [][Next]_vars

(***************************************************************************)
(* Fairness: goroutines are scheduled, the body of a POST arrives or the   *)
(* connection breaks, the API server answers a list or refuses it, and a   *)
(* waiter for the writers' mutex gets it when it is free often enough.     *)
(* Nobody has to make a request, and the mapper need not be replaced.      *)
(* That a body ends is an assumption on the client: the server that takes  *)
(* the writes has no ReadTimeout, so an upload that stalls on an open      *)
(* connection would hold valuesLock, and is not covered.                   *)
(***************************************************************************)
Fairness ==
    \A c \in Clients : SF_vars(PostLock(c)) /\ WF_vars(Serve(c))

FairSpec == Spec /\ Fairness

-----------------------------------------------------------------------------
(* Properties *)

ReadingPC == {"next", "value", "metric"}

\* A writer past its body has the map for itself.
AlonePC == {"resolve", "singular", "store"}
WritingPC == {"lock", "body"} \cup AlonePC

Keys ==
    {KeyOf(WriteCall(p), s, WriteCall(p).name) : p \in WritePaths, s \in Spellings}
AllNames == Names \cup {ReadCall(p, Missing).name : p \in ReadPaths}
              \cup {WriteCall(p).name : p \in WritePaths}
Lookups == [name : AllNames \cup {Missing}, resource : Spellings \cup {Missing},
            value : Values \cup {NoValue}]
MetricValues == [key : Keys, value : Values, kind : Spellings]

\* Every variable of the provider keeps its type: in particular the map holds
\* quantities under keys that a write path can produce, and each stage of a
\* handler serves the kind of request it was written for.
TypeOK ==
    /\ DOMAIN values \subseteq Keys
    /\ \A key \in DOMAIN values : values[key] \in Values
    /\ valuesLock \in RWLocks(Clients)
    /\ mapping \in Delegates
    /\ pc \in [Clients -> {"idle", "rlock"} \cup WritingPC \cup ReadingPC]
    /\ req \in [Clients -> Requests \cup {NoRequest}]
    /\ \A c \in Clients :
         /\ pc[c] = "idle" <=> req[c] = NoRequest
         /\ pc[c] \in WritingPC => req[c].verb = "post"
         /\ pc[c] \in ReadingPC => req[c].verb = "get"
         /\ pc[c] \in {"value", "metric"} => cur[c].resource \in Spellings
         /\ pc[c] = "metric" => cur[c].value \in Values
         /\ pc[c] \in {"singular", "store"} =>
              StoredKey(c) \in Keys /\ cur[c].value \in Values
    /\ names \in [Clients -> SUBSET AllNames]
    /\ cur \in [Clients -> Lookups]
    /\ items \in [Clients -> SUBSET MetricValues]
    /\ DOMAIN reply = Clients

\* The answer that a selector read is putting together is a snapshot: at
\* every step, all the items collected so far, and the value just found, are
\* what the map holds now, however long the API server takes to list.
ItemsAreCurrent ==
    \A c \in Clients :
      /\ \A i \in items[c] : i.key \in DOMAIN values /\ values[i.key] = i.value
      /\ pc[c] = "metric" =>
           CurKey(c) \in DOMAIN values /\ values[CurKey(c)] = cur[c].value

\* One goroutine that is about to store a value excludes every other one
\* that reads the map, has the read lock and may read it next (a lister ranges
\* over the map as soon as it has the lock), or is about to store into it.
WriterIsAlone ==
    \A c, d \in Clients :
      pc[c] \in AlonePC /\ c # d =>
        pc[d] \notin ReadingPC \cup AlonePC /\ ~Granted(d)

\* Whatever is stored is listed ("a list of all available metrics at the
\* current time"), and what is listed can be read: at the path made of the
\* listed resource and the object's name, whenever the mapper knows that
\* resource, also if the preferred group of its short name has moved (with
\* mappers that resolve every written resource).
ListedIsAvailable ==
    \A key \in DOMAIN values :
      Matches(key.resource) =>
        LET call == ReadCall(PathOf(key), Missing)
        IN  /\ call.op = "byName"
            /\ KeyOf(call, mapping[call.resource], call.name) \in DOMAIN values

\* The resources that some delegate resolves a spelling to; a write keeps the
\* spelling if the delegate has no match for it.
Resolutions(s) == {d[s] : d \in Delegates} \ {NoMatch}
WriteResolutions(s) ==
    Resolutions(s) \cup {t \in {s} : \E d \in Delegates : d[s] = NoMatch}

Store == INSTANCE MetricStore WITH
    store <- values, request <- req, answer <- reply,
    WriteResources <- WriteResolutions, ReadResources <- Resolutions

\* Every request takes effect at one moment between its call and its answer,
\* or fails without effect: the provider implements MetricStore.
RequestsAreAtomic == Store!StoreSpec

\* Every request is answered, although writers hold the lock while the body
\* arrives and readers hold it while the API server lists.
EveryRequestAnswered == \A c \in Clients : []<>(pc[c] = "idle")
=============================================================================
