----------------------- MODULE TestingProviderProofs -----------------------
(***************************************************************************)
(* Proofs about the testing provider, for any clients, paths, values and   *)
(* delegates of the REST mapper: its invariants, and what its clients see. *)
(* It implements MetricStore, that is, every request takes effect at one   *)
(* moment; and reads find what was written.                                *)
(***************************************************************************)
EXTENDS ProviderHistory, RoutingLemmas

\* Operations on the lock keep it a lock of the same goroutines.
LEMMA LockType ==
    ASSUME NEW P, NEW l \in RWLocks(P), NEW p \in P
    PROVE  /\ Free \in RWLocks(P)
           /\ RLock(l, p) \in RWLocks(P)
           /\ RUnlock(l, p) \in RWLocks(P)
           /\ Lock(l, p) \in RWLocks(P)
           /\ Unlock(l) \in RWLocks(P)
BY DEF RWLocks, Free, RLock, RUnlock, Lock, Unlock

\* A path that is written gives a resource the mapper can be asked about.
LEMMA PostType ==
    ASSUME NEW r \in Requests, r.verb = "post"
    PROVE  /\ r.path \in WritePaths
           /\ r.value \in Values
           /\ WriteCall(r.path).resource \in Spellings
BY PathsAssumption DEF Requests

\* A path that is read gives such a resource, and a name.
LEMMA GetType ==
    ASSUME NEW r \in Requests, r.verb = "get"
    PROVE  /\ ReadCall(r.path, Missing).resource \in Spellings
           /\ ReadCall(r.path, Missing).name \in AllNames
<1>1. r.path \in ReadPaths
  BY DEF Requests, SelectorPaths
<1> QED BY <1>1, PathsAssumption DEF AllNames

\* A spelling that has a match resolves to a spelling.
LEMMA MatchType ==
    ASSUME mapping \in Delegates, NEW s \in Spellings, Matches(s)
    PROVE  mapping[s] \in Spellings
BY MapperAssumption DEF Matches

\* A value is stored under a key of the right type.
LEMMA StoredKeyType ==
    ASSUME mapping \in Delegates, NEW p \in WritePaths
    PROVE  /\ Normalized(WriteCall(p).resource) \in Spellings
           /\ WriteCall(p).name \in AllNames
           /\ KeyOf(WriteCall(p), Normalized(WriteCall(p).resource),
                    WriteCall(p).name) \in Keys
<1>1. WriteCall(p).resource \in Spellings
  BY PathsAssumption
<1>2. Normalized(WriteCall(p).resource) \in Spellings
  BY <1>1, MatchType DEF Normalized
<1>3. \A r \in Spellings : KeyOf(WriteCall(p), r, WriteCall(p).name) \in Keys
  BY DEF Keys
<1> QED BY <1>2, <1>3 DEF AllNames

\* The value that stands for no lookup has the type of a lookup.
LEMMA NobodyType == Nobody \in Lookups
BY DEF Nobody, Lookups

\* Returning from a handler preserves types, whatever it answers.
LEMMA ReturnType ==
    ASSUME TypeOK, NEW c \in Clients, NEW status, NEW found,
           NEW lock \in RWLocks(Clients), Return(c, status, found, lock),
           mapping' \in Delegates, DOMAIN values' \subseteq Keys,
           \A key \in DOMAIN values' : values'[key] \in Values
    PROVE  TypeOK'
<1> USE DEF TypeOK, Return, GoTo
<1>1. names' \in [Clients -> SUBSET AllNames]
  OBVIOUS
<1>2. cur' \in [Clients -> Lookups]
  BY NobodyType
<1>3. items' \in [Clients -> SUBSET MetricValues]
  OBVIOUS
<1>4. /\ pc' \in [Clients -> {"idle", "rlock"} \cup WritingPC \cup ReadingPC]
      /\ req' \in [Clients -> Requests \cup {NoRequest}]
      /\ DOMAIN reply' = Clients /\ valuesLock' \in RWLocks(Clients)
  OBVIOUS
<1>5. /\ pc'[c] = "idle" /\ req'[c] = NoRequest
      /\ \A d \in Clients \ {c} :
           pc'[d] = pc[d] /\ req'[d] = req[d] /\ cur'[d] = cur[d]
  OBVIOUS
<1>6. \A d \in Clients :
         /\ pc'[d] = "idle" <=> req'[d] = NoRequest
         /\ pc'[d] \in WritingPC => req'[d].verb = "post"
         /\ pc'[d] \in ReadingPC => req'[d].verb = "get"
         /\ pc'[d] \in {"value", "metric"} => cur'[d].resource \in Spellings
         /\ pc'[d] = "metric" => cur'[d].value \in Values
         /\ pc'[d] \in {"singular", "store"} =>
              StoredKey(d)' \in Keys /\ cur'[d].value \in Values
  BY <1>5 DEF WritingPC, AlonePC, ReadingPC, StoredKey
<1> QED BY <1>1, <1>2, <1>3, <1>4, <1>6

\* Moving on within a handler preserves types, if the goroutine fits the
\* stage that it enters.
LEMMA MoveType ==
    ASSUME TypeOK, NEW c \in Clients, NEW label, GoTo(c, label),
           label \in {"rlock"} \cup WritingPC \cup ReadingPC,
           UNCHANGED <<values, mapping>>,
           valuesLock' \in RWLocks(Clients),
           req' \in [Clients -> Requests \cup {NoRequest}],
           names' \in [Clients -> SUBSET AllNames],
           cur' \in [Clients -> Lookups],
           items' \in [Clients -> SUBSET MetricValues],
           DOMAIN reply' = Clients,
           \A d \in Clients \ {c} : req'[d] = req[d] /\ cur'[d] = cur[d],
           req'[c] # NoRequest,
           label \in WritingPC => req'[c].verb = "post",
           label \in ReadingPC => req'[c].verb = "get",
           label \in {"value", "metric"} => cur'[c].resource \in Spellings,
           label = "metric" => cur'[c].value \in Values,
           label \in {"singular", "store"} =>
             StoredKey(c)' \in Keys /\ cur'[c].value \in Values
    PROVE  TypeOK'
<1> USE DEF TypeOK, GoTo
<1>1. pc' \in [Clients -> {"idle", "rlock"} \cup WritingPC \cup ReadingPC]
  OBVIOUS
<1>2. /\ pc'[c] = label /\ label # "idle"
      /\ \A d \in Clients \ {c} : pc'[d] = pc[d]
  BY DEF WritingPC, ReadingPC, AlonePC
<1>3. \A d \in Clients :
         /\ pc'[d] = "idle" <=> req'[d] = NoRequest
         /\ pc'[d] \in WritingPC => req'[d].verb = "post"
         /\ pc'[d] \in ReadingPC => req'[d].verb = "get"
         /\ pc'[d] \in {"value", "metric"} => cur'[d].resource \in Spellings
         /\ pc'[d] = "metric" => cur'[d].value \in Values
         /\ pc'[d] \in {"singular", "store"} =>
              StoredKey(d)' \in Keys /\ cur'[d].value \in Values
  BY <1>2 DEF StoredKey
<1> QED BY <1>1, <1>3

\* A read that returns, with whatever answer, preserves types.
LEMMA ReturnReadType ==
    ASSUME TypeOK, NEW c \in Clients, NEW status, NEW found,
           ReturnRead(c, status, found), UNCHANGED <<values, mapping>>
    PROVE  TypeOK'
<1>1. RUnlock(valuesLock, c) \in RWLocks(Clients)
  BY LockType DEF TypeOK
<1> QED BY <1>1, ReturnType DEF ReturnRead, TypeOK

\* Every step keeps the types; a collected item gets its type from the map.
LEMMA TypeStep == TypeOK /\ ItemsAreCurrent /\ [Next]_vars => TypeOK'
<1> SUFFICES ASSUME TypeOK, ItemsAreCurrent, [Next]_vars PROVE TypeOK'
  OBVIOUS
<1>T. /\ valuesLock \in RWLocks(Clients)
      /\ mapping \in Delegates
      /\ pc \in [Clients -> {"idle", "rlock"} \cup WritingPC \cup ReadingPC]
      /\ req \in [Clients -> Requests \cup {NoRequest}]
      /\ names \in [Clients -> SUBSET AllNames]
      /\ cur \in [Clients -> Lookups]
      /\ items \in [Clients -> SUBSET MetricValues]
      /\ DOMAIN reply = Clients
  BY DEF TypeOK
<1>G. \A c \in Clients :
        pc[c] # "idle" => req[c] \in Requests /\ req[c] # NoRequest
  BY <1>T DEF TypeOK
<1>1. CASE ReplaceDelegate
  BY <1>1 DEF ReplaceDelegate, TypeOK, locals, StoredKey
<1>2. ASSUME NEW c \in Clients, Post(c) PROVE TypeOK'
  <2>1. PICK r \in Requests : r.verb = "post" /\ req' = [req EXCEPT ![c] = r]
    BY <1>2 DEF Post
  <2>2. /\ GoTo(c, "lock") /\ UNCHANGED <<values, mapping, valuesLock, names, cur, items>>
        /\ DOMAIN reply' = Clients
    BY <1>2, <1>T DEF Post, locals
  <2>3. r # NoRequest
    BY SentinelAssumption
  <2> QED BY <1>T, <2>1, <2>2, <2>3, MoveType DEF WritingPC, AlonePC, ReadingPC
<1>3. ASSUME NEW c \in Clients, Get(c) PROVE TypeOK'
  <2>1. PICK r \in Requests : r.verb # "post" /\ req' = [req EXCEPT ![c] = r]
    BY <1>3 DEF Get
  <2>2. /\ GoTo(c, "rlock") /\ UNCHANGED <<values, mapping, names, cur, items>>
        /\ DOMAIN reply' = Clients
        /\ valuesLock' \in RWLocks(Clients)
    BY <1>3, <1>T, LockType DEF Get, locals
  <2>3. r # NoRequest
    BY SentinelAssumption
  <2> QED BY <1>T, <2>1, <2>2, <2>3, MoveType DEF WritingPC, AlonePC, ReadingPC
<1>4. ASSUME NEW c \in Clients, PostLock(c) PROVE TypeOK'
  <2>1. /\ GoTo(c, "body") /\ UNCHANGED <<values, mapping, req, names, cur, items, reply>>
        /\ pc[c] = "lock" /\ valuesLock' \in RWLocks(Clients)
    BY <1>4, <1>T, LockType DEF PostLock, locals
  <2>2. req[c].verb = "post"
    BY <2>1 DEF TypeOK, WritingPC
  <2> QED BY <1>T, <1>G, <2>1, <2>2, MoveType DEF WritingPC, AlonePC, ReadingPC
<1>5. ASSUME NEW c \in Clients, PostBody(c) PROVE TypeOK'
  <2>1. UNCHANGED <<values, mapping>> /\ pc[c] = "body"
    BY <1>5 DEF PostBody
  <2>2. CASE GoTo(c, "resolve") /\ UNCHANGED <<valuesLock, req, locals, reply>>
    <3>1. req[c].verb = "post"
      BY <2>1 DEF TypeOK, WritingPC
    <3> QED BY <1>T, <1>G, <2>1, <2>2, <3>1, MoveType
      DEF WritingPC, AlonePC, ReadingPC, locals
  <2>3. CASE Return(c, "error", {}, Unlock(valuesLock))
    <3>1. Unlock(valuesLock) \in RWLocks(Clients)
      BY <1>T, LockType
    <3> QED BY <2>1, <2>3, <3>1, ReturnType DEF TypeOK
  <2> QED BY <1>5, <2>2, <2>3 DEF PostBody
<1>6. ASSUME NEW c \in Clients, PostStore(c) PROVE TypeOK'
  <2>1. StoredKey(c) \in Keys /\ cur[c].value \in Values
    BY <1>6 DEF PostStore, TypeOK
  <2>3. /\ DOMAIN values' \subseteq Keys
        /\ \A key \in DOMAIN values' : values'[key] \in Values
    BY <1>6, <2>1 DEF PostStore, Put, TypeOK
  <2>4. Unlock(valuesLock) \in RWLocks(Clients)
    BY <1>T, LockType
  <2>5. Return(c, "ok", {}, Unlock(valuesLock)) /\ mapping' \in Delegates
    BY <1>6, <1>T DEF PostStore
  <2> QED BY <2>3, <2>4, <2>5, ReturnType
<1>61. ASSUME NEW c \in Clients, PostResolve(c) PROVE TypeOK'
  <2> DEFINE call == WriteCall(req[c].path)
             found == [name |-> call.name, resource |-> Normalized(call.resource),
                       value |-> req[c].value]
             label == IF Matches(call.resource) THEN "singular" ELSE "store"
  <2>1. req[c] \in Requests /\ req[c].verb = "post"
    BY <1>61, <1>G DEF PostResolve, TypeOK, WritingPC, AlonePC
  <2>2. req[c].path \in WritePaths /\ req[c].value \in Values
    BY <2>1, PostType
  <2>3. /\ pc[c] = "resolve" /\ GoTo(c, label) /\ label \in {"singular", "store"}
        /\ cur' = [cur EXCEPT ![c] = found]
        /\ UNCHANGED <<values, valuesLock, mapping, req, names, items, reply>>
    BY <1>61 DEF PostResolve
  <2>4. found \in Lookups /\ KeyOf(call, found.resource, found.name) \in Keys
    BY <1>T, <2>2, StoredKeyType DEF Lookups
  <2>5. /\ cur' \in [Clients -> Lookups] /\ cur'[c] = found
        /\ \A d \in Clients \ {c} : cur'[d] = cur[d]
    BY <1>T, <2>3, <2>4
  <2>6. StoredKey(c)' \in Keys /\ cur'[c].value \in Values
    BY <2>2, <2>3, <2>4, <2>5 DEF StoredKey
  <2> HIDE DEF label, found
  <2> QED BY <1>T, <1>G, <2>1, <2>3, <2>5, <2>6, MoveType
    DEF WritingPC, AlonePC, ReadingPC
<1>62. ASSUME NEW c \in Clients, PostSingular(c) PROVE TypeOK'
  <2>1. /\ pc[c] = "singular" /\ GoTo(c, "store")
        /\ UNCHANGED <<values, valuesLock, mapping, req, names, cur, items, reply>>
    BY <1>62 DEF PostSingular, locals
  <2>2. req[c].verb = "post" /\ StoredKey(c) \in Keys /\ cur[c].value \in Values
    BY <2>1 DEF TypeOK, WritingPC, AlonePC
  <2>3. StoredKey(c)' = StoredKey(c)
    BY <2>1 DEF StoredKey
  <2> QED BY <1>T, <1>G, <2>1, <2>2, <2>3, MoveType DEF WritingPC, AlonePC, ReadingPC
<1>7. ASSUME NEW c \in Clients, ListAllMetrics(c) PROVE TypeOK'
  BY <1>7, ReturnReadType DEF ListAllMetrics
<1>71. ASSUME NEW c \in Clients, ListAllExternalMetrics(c) \/ GetExternalMetric(c)
       PROVE  TypeOK'
  BY <1>71, ReturnReadType DEF ListAllExternalMetrics, GetExternalMetric
<1>8. ASSUME NEW c \in Clients, GetMetricByName(c) PROVE TypeOK'
  <2>1. /\ GoTo(c, "next") /\ UNCHANGED <<values, valuesLock, mapping, req, cur, items, reply>>
        /\ pc[c] = "rlock" /\ req[c].verb = "get"
        /\ names' = [names EXCEPT ![c] = {CallOf(c).name}]
    BY <1>8 DEF GetMetricByName, Granted
  <2>2. CallOf(c).name \in AllNames
    BY <1>G, <2>1, GetType DEF CallOf
  <2>3. names' \in [Clients -> SUBSET AllNames]
    BY <1>T, <2>1, <2>2
  <2> QED BY <1>T, <1>G, <2>1, <2>3, MoveType DEF WritingPC, ReadingPC, AlonePC
<1>9. ASSUME NEW c \in Clients, ListObjectNames(c) PROVE TypeOK'
  <2>1. /\ pc[c] = "rlock" /\ req[c].verb = "get"
        /\ UNCHANGED <<values, mapping>>
    BY <1>9 DEF ListObjectNames, Granted
  <2>2. CASE /\ \E listed \in SUBSET Names :
                  names' = [names EXCEPT ![c] = listed]
             /\ GoTo(c, "next")
             /\ UNCHANGED <<valuesLock, req, cur, items, reply>>
    <3>1. names' \in [Clients -> SUBSET AllNames]
      BY <1>T, <2>2 DEF AllNames
    <3> QED BY <1>T, <1>G, <2>1, <2>2, <3>1, MoveType DEF WritingPC, ReadingPC, AlonePC
  <2>3. CASE ReturnRead(c, "error", {})
    BY <2>1, <2>3, ReturnReadType
  <2> QED BY <1>9, <2>2, <2>3 DEF ListObjectNames
<1>10. ASSUME NEW c \in Clients, ResourceFor(c) PROVE TypeOK'
  <2>1. /\ pc[c] = "next" /\ req[c].verb = "get" /\ req[c] \in Requests
        /\ UNCHANGED <<values, mapping>>
    BY <1>10, <1>G DEF ResourceFor, TypeOK, ReadingPC, AlonePC
  <2>2. CASE Matches(CallOf(c).resource)
    <3>1. PICK n \in names[c] :
            /\ names' = [names EXCEPT ![c] = @ \ {n}]
            /\ cur' = [cur EXCEPT ![c] =
                         [name |-> n, resource |-> mapping[CallOf(c).resource],
                          value |-> NoValue]]
      BY <1>10, <2>2 DEF ResourceFor
    <3>2. mapping[CallOf(c).resource] \in Spellings
      BY <1>T, <2>1, <2>2, GetType, MatchType DEF CallOf
    <3>3. n \in AllNames /\ names' \in [Clients -> SUBSET AllNames]
      BY <1>T, <3>1
    <3>4. /\ cur' \in [Clients -> Lookups] /\ cur'[c].resource \in Spellings
          /\ \A d \in Clients \ {c} : cur'[d] = cur[d]
      BY <1>T, <3>1, <3>2, <3>3 DEF Lookups
    <3>5. GoTo(c, "value") /\ UNCHANGED <<valuesLock, req, items, reply>>
      BY <1>10, <2>2 DEF ResourceFor
    <3> QED BY <1>T, <1>G, <2>1, <3>3, <3>4, <3>5, MoveType
      DEF WritingPC, ReadingPC, AlonePC
  <2>3. CASE ~Matches(CallOf(c).resource)
    BY <1>10, <2>1, <2>3, ReturnReadType DEF ResourceFor
  <2> QED BY <2>2, <2>3
<1>11. ASSUME NEW c \in Clients, ValueFor(c) PROVE TypeOK'
  <2>1. /\ pc[c] = "value" /\ req[c].verb = "get"
        /\ UNCHANGED <<values, mapping>> /\ cur[c].resource \in Spellings
    BY <1>11 DEF ValueFor, TypeOK, ReadingPC, AlonePC
  <2>2. CASE ReturnRead(c, "error", {}) \/ ReturnRead(c, "notFound", {})
    BY <2>1, <2>2, ReturnReadType
  <2>3. CASE /\ CurKey(c) \in DOMAIN values
             /\ cur' = [cur EXCEPT ![c].value = values[CurKey(c)]]
             /\ GoTo(c, "metric")
             /\ UNCHANGED <<valuesLock, req, names, items, reply>>
    <3>1. values[CurKey(c)] \in Values
      BY <2>3 DEF TypeOK
    <3>2. /\ cur' \in [Clients -> Lookups] /\ cur'[c].value \in Values
          /\ cur'[c].resource \in Spellings
          /\ \A d \in Clients \ {c} : cur'[d] = cur[d]
      BY <1>T, <2>1, <2>3, <3>1 DEF Lookups
    <3> QED BY <1>T, <1>G, <2>1, <2>3, <3>2, MoveType DEF WritingPC, ReadingPC, AlonePC
  <2>4. CASE GoTo(c, "next") /\ UNCHANGED <<valuesLock, req, locals, reply>>
    BY <1>T, <1>G, <2>1, <2>4, MoveType DEF WritingPC, ReadingPC, AlonePC, locals
  <2> QED BY <1>11, <2>2, <2>3, <2>4 DEF ValueFor, NotFound
<1>12. ASSUME NEW c \in Clients, MetricFor(c) PROVE TypeOK'
  <2>1. /\ pc[c] = "metric" /\ req[c].verb = "get" /\ req[c] \in Requests
        /\ UNCHANGED <<values, mapping>> /\ cur[c].value \in Values
        /\ CurKey(c) \in Keys
    BY <1>12, <1>G DEF MetricFor, TypeOK, ReadingPC, AlonePC, ItemsAreCurrent
  <2>2. CASE /\ Matches(CallOf(c).resource)
             /\ items' = [items EXCEPT ![c] = @ \cup
                            {[key   |-> CurKey(c), value |-> cur[c].value,
                              kind  |-> mapping[CallOf(c).resource]]}]
             /\ GoTo(c, "next")
             /\ UNCHANGED <<valuesLock, req, names, cur, reply>>
    <3>1. mapping[CallOf(c).resource] \in Spellings
      BY <1>T, <2>1, <2>2, GetType, MatchType DEF CallOf
    <3>2. [key |-> CurKey(c), value |-> cur[c].value,
           kind |-> mapping[CallOf(c).resource]] \in MetricValues
      BY <2>1, <3>1 DEF MetricValues
    <3>3. items' \in [Clients -> SUBSET MetricValues]
      BY <1>T, <2>2, <3>2
    <3> QED BY <1>T, <1>G, <2>1, <2>2, <3>3, MoveType DEF WritingPC, ReadingPC, AlonePC
  <2>3. CASE ReturnRead(c, "error", {})
    BY <2>1, <2>3, ReturnReadType
  <2> QED BY <1>12, <2>2, <2>3 DEF MetricFor
<1>13. ASSUME NEW c \in Clients, ReturnItems(c) PROVE TypeOK'
  BY <1>13, ReturnReadType DEF ReturnItems
<1>14. CASE UNCHANGED vars
  BY <1>14 DEF vars, TypeOK, StoredKey
<1> QED
  BY <1>1, <1>2, <1>3, <1>4, <1>5, <1>6, <1>61, <1>62, <1>7, <1>71, <1>8,
     <1>9, <1>10, <1>11, <1>12, <1>13, <1>14 DEF Next, Serve

-----------------------------------------------------------------------------
(***************************************************************************)
(* Who holds valuesLock.  WriterIsAlone and ItemsAreCurrent are not        *)
(* inductive: they say nothing of the lock.  A reader is among the lock's  *)
(* readers, a writer is its writer, no reader is left once a writer has    *)
(* read its body, and only a reader has collected anything.                *)
(***************************************************************************)
ReadersHold == \A c \in Clients : pc[c] \in ReadingPC => c \in valuesLock.readers
WritersHold ==
    \A c \in Clients : pc[c] \in {"body"} \cup AlonePC => valuesLock.writer = {c}
StoresAlone == \A c \in Clients : pc[c] \in AlonePC => valuesLock.readers = {}
OnlyReadersCollect == \A c \in Clients : pc[c] \notin ReadingPC => items[c] = {}

ExclusionInv ==
    ReadersHold /\ WritersHold /\ StoresAlone /\ OnlyReadersCollect

\* The snapshot of one goroutine.
Current(c) ==
    /\ \A i \in items[c] : i.key \in DOMAIN values /\ values[i.key] = i.value
    /\ pc[c] = "metric" =>
         CurKey(c) \in DOMAIN values /\ values[CurKey(c)] = cur[c].value

\* A read that returns leaves the exclusion and the other snapshots as they
\* are: it only takes itself out of the readers.
LEMMA ReturnReadSafe ==
    ASSUME TypeOK, ExclusionInv, ItemsAreCurrent, NEW c \in Clients,
           pc[c] \notin {"body"} \cup AlonePC, NEW status, NEW found,
           ReturnRead(c, status, found), UNCHANGED <<values, mapping>>
    PROVE  ExclusionInv' /\ ItemsAreCurrent'
<1> USE DEF TypeOK, ReturnRead, Return, GoTo
<1>1. /\ pc'[c] = "idle" /\ items'[c] = {}
      /\ \A d \in Clients \ {c} : /\ pc'[d] = pc[d] /\ req'[d] = req[d]
                                  /\ cur'[d] = cur[d] /\ items'[d] = items[d]
  OBVIOUS
<1>2. /\ valuesLock'.readers = valuesLock.readers \ {c}
      /\ valuesLock'.writer = valuesLock.writer
  BY DEF RUnlock, RWLocks
<1>3. ExclusionInv'
  BY <1>1, <1>2 DEF ExclusionInv, ReadersHold, WritersHold, StoresAlone,
                    OnlyReadersCollect, ReadingPC, AlonePC
<1>4. \A d \in Clients \ {c} : CurKey(d)' = CurKey(d)
  BY <1>1 DEF CurKey, CallOf
<1>5. ItemsAreCurrent'
  BY <1>1, <1>4 DEF ItemsAreCurrent
<1> QED BY <1>3, <1>5

\* A write that returns, whatever it stored: nobody was reading, so nobody
\* has a snapshot that the new value could spoil.
LEMMA ReturnWriteSafe ==
    ASSUME TypeOK, ExclusionInv, NEW c \in Clients,
           valuesLock.writer = {c}, valuesLock.readers = {},
           NEW status, Return(c, status, {}, Unlock(valuesLock))
    PROVE  ExclusionInv' /\ ItemsAreCurrent'
<1> USE DEF TypeOK, Return, GoTo
<1>1. /\ pc'[c] = "idle" /\ items'[c] = {}
      /\ \A d \in Clients \ {c} : pc'[d] = pc[d] /\ items'[d] = items[d]
  OBVIOUS
<1>2. \A d \in Clients \ {c} : pc[d] \notin {"body"} \cup AlonePC \cup ReadingPC
  BY DEF ExclusionInv, ReadersHold, WritersHold
<1>3. \A d \in Clients : /\ pc'[d] \notin {"body"} \cup AlonePC \cup ReadingPC
                         /\ items'[d] = {}
  BY <1>1, <1>2 DEF ExclusionInv, OnlyReadersCollect, ReadingPC, AlonePC
<1>4. ExclusionInv'
  BY <1>3 DEF ExclusionInv, ReadersHold, WritersHold, StoresAlone, AlonePC,
              OnlyReadersCollect
<1>5. ItemsAreCurrent'
  BY <1>3 DEF ItemsAreCurrent, ReadingPC, AlonePC
<1> QED BY <1>4, <1>5

\* A reader that moves on keeps what holds of the others, and has to show
\* only that its own snapshot is current.
LEMMA ReadSafe ==
    ASSUME TypeOK, ExclusionInv, ItemsAreCurrent, NEW c \in Clients,
           c \in valuesLock.readers, NEW label \in ReadingPC, GoTo(c, label),
           UNCHANGED <<values, valuesLock, mapping, req>>,
           \A d \in Clients \ {c} : cur'[d] = cur[d] /\ items'[d] = items[d],
           Current(c)'
    PROVE  ExclusionInv' /\ ItemsAreCurrent'
<1> USE DEF TypeOK, GoTo
<1>1. pc'[c] = label /\ \A d \in Clients \ {c} : pc'[d] = pc[d]
  OBVIOUS
<1>2. ExclusionInv'
  BY <1>1 DEF ExclusionInv, ReadersHold, WritersHold, StoresAlone,
              OnlyReadersCollect, ReadingPC, AlonePC
<1>3. \A d \in Clients \ {c} : CurKey(d)' = CurKey(d)
  BY DEF CurKey, CallOf
<1>4. \A d \in Clients \ {c} : Current(d)'
  BY <1>1, <1>3 DEF ItemsAreCurrent, Current
<1> QED BY <1>2, <1>4 DEF ItemsAreCurrent, Current

\* A goroutine that starts a request or waits for the lock: it neither
\* reads nor stores yet, and nothing that the others rely on changes.
LEMMA EnterSafe ==
    ASSUME TypeOK, ExclusionInv, ItemsAreCurrent, NEW c \in Clients,
           pc[c] \notin ReadingPC, NEW label, GoTo(c, label),
           UNCHANGED <<values, cur, items>>,
           \A d \in Clients \ {c} : req'[d] = req[d],
           label \notin ReadingPC,
           ReadersHold', WritersHold', StoresAlone'
    PROVE  ExclusionInv' /\ ItemsAreCurrent'
<1> USE DEF TypeOK, GoTo
<1>1. pc'[c] = label /\ \A d \in Clients \ {c} : pc'[d] = pc[d]
  OBVIOUS
<1>2. OnlyReadersCollect'
  BY <1>1 DEF ExclusionInv, OnlyReadersCollect
<1>3. items[c] = {} /\ label # "metric"
  BY DEF ExclusionInv, OnlyReadersCollect, ReadingPC, AlonePC
<1>4. \A d \in Clients \ {c} : CurKey(d)' = CurKey(d)
  BY DEF CurKey, CallOf
<1>5. ItemsAreCurrent'
  BY <1>1, <1>3, <1>4 DEF ItemsAreCurrent
<1> QED BY <1>2, <1>5 DEF ExclusionInv

\* A writer that moves on with the lock held disturbs nobody.
LEMMA WriteMoveSafe ==
    ASSUME TypeOK, ExclusionInv, ItemsAreCurrent, NEW c \in Clients,
           pc[c] \in AlonePC, NEW label \in AlonePC, GoTo(c, label),
           UNCHANGED <<values, valuesLock, req, items>>,
           \A d \in Clients \ {c} : cur'[d] = cur[d]
    PROVE  ExclusionInv' /\ ItemsAreCurrent'
<1> USE DEF TypeOK, GoTo
<1>1. pc'[c] = label /\ \A d \in Clients \ {c} : pc'[d] = pc[d]
  OBVIOUS
<1>2. ExclusionInv'
  BY <1>1 DEF ExclusionInv, ReadersHold, WritersHold, StoresAlone,
              OnlyReadersCollect, ReadingPC, AlonePC
<1>3. items[c] = {} /\ label # "metric"
  BY DEF ExclusionInv, OnlyReadersCollect, ReadingPC, AlonePC
<1>4. \A d \in Clients \ {c} : CurKey(d)' = CurKey(d)
  BY DEF CurKey, CallOf
<1>5. ItemsAreCurrent'
  BY <1>1, <1>3, <1>4 DEF ItemsAreCurrent
<1> QED BY <1>2, <1>5

\* Every step keeps the exclusion of readers and writer, and the collected
\* items current.
LEMMA SafeStep ==
    TypeOK /\ ExclusionInv /\ ItemsAreCurrent /\ [Next]_vars
      => ExclusionInv' /\ ItemsAreCurrent'
<1> SUFFICES ASSUME TypeOK, ExclusionInv, ItemsAreCurrent, [Next]_vars
             PROVE  ExclusionInv' /\ ItemsAreCurrent'
  OBVIOUS
<1> DEFINE Goal == ExclusionInv' /\ ItemsAreCurrent'
<1>T. /\ valuesLock \in RWLocks(Clients)
      /\ pc \in [Clients -> {"idle", "rlock"} \cup WritingPC \cup ReadingPC]
      /\ req \in [Clients -> Requests \cup {NoRequest}]
      /\ cur \in [Clients -> Lookups]
      /\ items \in [Clients -> SUBSET MetricValues]
  BY DEF TypeOK
<1>R. ASSUME NEW c \in Clients, pc[c] \in ReadingPC
      PROVE  c \in valuesLock.readers /\ Current(c)
  BY <1>R DEF ExclusionInv, ReadersHold, ItemsAreCurrent, Current
<1>1. CASE ReplaceDelegate
  BY <1>1 DEF ReplaceDelegate, locals, ExclusionInv, ReadersHold, WritersHold,
       StoresAlone, AlonePC, OnlyReadersCollect, ItemsAreCurrent, CurKey, CallOf
<1>2. ASSUME NEW c \in Clients, Post(c) PROVE Goal
  <2>1. /\ pc[c] = "idle" /\ GoTo(c, "lock")
        /\ UNCHANGED <<values, valuesLock, cur, items>>
        /\ \A d \in Clients \ {c} : req'[d] = req[d]
    BY <1>2, <1>T DEF Post, locals
  <2>2. pc'[c] = "lock" /\ \A d \in Clients \ {c} : pc'[d] = pc[d]
    BY <1>T, <2>1 DEF GoTo
  <2>3. ReadersHold' /\ WritersHold' /\ StoresAlone'
    BY <2>1, <2>2 DEF ExclusionInv, ReadersHold, WritersHold, StoresAlone, ReadingPC, AlonePC
  <2> QED BY <2>1, <2>3, EnterSafe DEF ReadingPC, AlonePC
<1>3. ASSUME NEW c \in Clients, Get(c) PROVE Goal
  <2>1. /\ pc[c] = "idle" /\ GoTo(c, "rlock")
        /\ UNCHANGED <<values, cur, items>>
        /\ \A d \in Clients \ {c} : req'[d] = req[d]
        /\ valuesLock' = RLock(valuesLock, c)
    BY <1>3, <1>T DEF Get, locals
  <2>2. pc'[c] = "rlock" /\ \A d \in Clients \ {c} : pc'[d] = pc[d]
    BY <1>T, <2>1 DEF GoTo
  <2>3. /\ valuesLock'.writer = valuesLock.writer
        /\ valuesLock.readers \subseteq valuesLock'.readers
        /\ valuesLock.writer # {} => valuesLock'.readers = valuesLock.readers
    BY <1>T, <2>1 DEF RLock, RWLocks
  <2>4. ReadersHold' /\ WritersHold' /\ StoresAlone'
    BY <2>2, <2>3 DEF ExclusionInv, ReadersHold, WritersHold, StoresAlone, ReadingPC, AlonePC
  <2> QED BY <2>1, <2>4, EnterSafe DEF ReadingPC, AlonePC
<1>4. ASSUME NEW c \in Clients, PostLock(c) PROVE Goal
  <2>1. /\ pc[c] = "lock" /\ GoTo(c, "body")
        /\ UNCHANGED <<values, req, cur, items>>
        /\ valuesLock.writer = {} /\ valuesLock' = Lock(valuesLock, c)
    BY <1>4 DEF PostLock, locals, CanLock
  <2>2. pc'[c] = "body" /\ \A d \in Clients \ {c} : pc'[d] = pc[d]
    BY <1>T, <2>1 DEF GoTo
  <2>3. /\ valuesLock'.writer = {c}
        /\ valuesLock'.readers = valuesLock.readers
    BY <1>T, <2>1 DEF Lock, RWLocks
  <2>4. \A d \in Clients \ {c} : pc[d] \notin {"body"} \cup AlonePC
    BY <2>1 DEF ExclusionInv, WritersHold
  <2>5. ReadersHold' /\ WritersHold' /\ StoresAlone'
    BY <2>2, <2>3, <2>4 DEF ExclusionInv, ReadersHold, WritersHold, StoresAlone, ReadingPC, AlonePC
  <2> QED BY <2>1, <2>5, EnterSafe DEF ReadingPC, AlonePC
<1>5. ASSUME NEW c \in Clients, PostBody(c) PROVE Goal
  <2>1. /\ pc[c] = "body" /\ UNCHANGED <<values, mapping>>
        /\ valuesLock.writer = {c} /\ valuesLock.readers = {}
    BY <1>5 DEF PostBody, HoldsW
  <2>2. CASE GoTo(c, "resolve") /\ UNCHANGED <<valuesLock, req, locals, reply>>
    <3>1. pc'[c] = "resolve" /\ \A d \in Clients \ {c} : pc'[d] = pc[d]
      BY <1>T, <2>2 DEF GoTo
    <3>2. ReadersHold' /\ WritersHold' /\ StoresAlone'
      BY <2>1, <2>2, <3>1 DEF ExclusionInv, ReadersHold, WritersHold, StoresAlone, ReadingPC, AlonePC
    <3> QED BY <2>1, <2>2, <3>2, EnterSafe DEF ReadingPC, AlonePC, locals
  <2>3. CASE Return(c, "error", {}, Unlock(valuesLock))
    BY <2>1, <2>3, ReturnWriteSafe
  <2> QED BY <1>5, <2>2, <2>3 DEF PostBody
<1>6. ASSUME NEW c \in Clients, PostStore(c) PROVE Goal
  <2>1. valuesLock.writer = {c} /\ valuesLock.readers = {}
    BY <1>6 DEF PostStore, ExclusionInv, WritersHold, StoresAlone, AlonePC
  <2> QED BY <1>6, <2>1, ReturnWriteSafe DEF PostStore
<1>61. ASSUME NEW c \in Clients, PostResolve(c) PROVE Goal
  <2> DEFINE label == IF Matches(WriteCall(req[c].path).resource)
                      THEN "singular" ELSE "store"
  <2>1. /\ pc[c] = "resolve" /\ GoTo(c, label) /\ label \in AlonePC
        /\ UNCHANGED <<values, valuesLock, req, items>>
        /\ \A d \in Clients \ {c} : cur'[d] = cur[d]
    BY <1>61, <1>T DEF PostResolve, AlonePC
  <2> HIDE DEF label
  <2> QED BY <2>1, WriteMoveSafe DEF AlonePC
<1>62. ASSUME NEW c \in Clients, PostSingular(c) PROVE Goal
  <2>1. /\ pc[c] = "singular" /\ GoTo(c, "store")
        /\ UNCHANGED <<values, valuesLock, req, cur, items>>
    BY <1>62 DEF PostSingular, locals
  <2> QED BY <2>1, WriteMoveSafe DEF AlonePC
<1>7. ASSUME NEW c \in Clients, ListAllMetrics(c) PROVE Goal
  BY <1>7, ReturnReadSafe DEF ListAllMetrics, Granted, AlonePC
<1>71. ASSUME NEW c \in Clients, ListAllExternalMetrics(c) \/ GetExternalMetric(c)
       PROVE  Goal
  BY <1>71, ReturnReadSafe DEF ListAllExternalMetrics, GetExternalMetric, Granted, AlonePC
<1>8. ASSUME NEW c \in Clients, GetMetricByName(c) PROVE Goal
  <2>1. /\ pc[c] = "rlock" /\ c \in valuesLock.readers /\ GoTo(c, "next")
        /\ UNCHANGED <<values, valuesLock, mapping, req, cur, items>>
    BY <1>8 DEF GetMetricByName, Granted, HoldsR
  <2>2. Current(c)'
    BY <1>T, <2>1 DEF Current, GoTo, ExclusionInv, OnlyReadersCollect, ReadingPC, AlonePC
  <2> QED BY <2>1, <2>2, ReadSafe DEF ReadingPC, AlonePC
<1>9. ASSUME NEW c \in Clients, ListObjectNames(c) PROVE Goal
  <2>1. /\ pc[c] = "rlock" /\ c \in valuesLock.readers
        /\ UNCHANGED <<values, mapping>>
    BY <1>9 DEF ListObjectNames, Granted, HoldsR
  <2>2. CASE GoTo(c, "next") /\ UNCHANGED <<valuesLock, req, cur, items, reply>>
    <3>1. Current(c)'
      BY <1>T, <2>1, <2>2 DEF Current, GoTo, ExclusionInv, OnlyReadersCollect, ReadingPC, AlonePC
    <3> QED BY <2>1, <2>2, <3>1, ReadSafe DEF ReadingPC, AlonePC
  <2>3. CASE ReturnRead(c, "error", {})
    BY <2>1, <2>3, ReturnReadSafe DEF AlonePC
  <2> QED BY <1>9, <2>2, <2>3 DEF ListObjectNames
<1>10. ASSUME NEW c \in Clients, ResourceFor(c) PROVE Goal
  <2>1. /\ pc[c] = "next" /\ c \in valuesLock.readers /\ Current(c)
        /\ UNCHANGED <<values, mapping>>
    BY <1>10, <1>R DEF ResourceFor, ReadingPC, AlonePC
  <2>2. CASE Matches(CallOf(c).resource)
    <3>1. /\ GoTo(c, "value") /\ UNCHANGED <<valuesLock, req, items, reply>>
          /\ \A d \in Clients \ {c} : cur'[d] = cur[d]
      BY <1>10, <1>T, <2>2 DEF ResourceFor
    <3>2. Current(c)'
      BY <1>T, <2>1, <3>1 DEF Current, GoTo
    <3> QED BY <2>1, <3>1, <3>2, ReadSafe DEF ReadingPC, AlonePC
  <2>3. CASE ~Matches(CallOf(c).resource)
    BY <1>10, <2>1, <2>3, ReturnReadSafe DEF ResourceFor, AlonePC
  <2> QED BY <2>2, <2>3
<1>11. ASSUME NEW c \in Clients, ValueFor(c) PROVE Goal
  <2>1. /\ pc[c] = "value" /\ c \in valuesLock.readers /\ Current(c)
        /\ UNCHANGED <<values, mapping>>
    BY <1>11, <1>R DEF ValueFor, ReadingPC, AlonePC
  <2>2. CASE ReturnRead(c, "error", {}) \/ ReturnRead(c, "notFound", {})
    BY <2>1, <2>2, ReturnReadSafe DEF AlonePC
  <2>3. CASE /\ CurKey(c) \in DOMAIN values
             /\ cur' = [cur EXCEPT ![c].value = values[CurKey(c)]]
             /\ GoTo(c, "metric")
             /\ UNCHANGED <<valuesLock, req, names, items, reply>>
    <3>1. /\ cur'[c].value = values[CurKey(c)]
          /\ cur'[c].resource = cur[c].resource /\ cur'[c].name = cur[c].name
          /\ \A d \in Clients \ {c} : cur'[d] = cur[d]
      BY <1>T, <2>3 DEF Lookups
    <3>2. CurKey(c)' = CurKey(c)
      BY <2>3, <3>1 DEF CurKey, CallOf
    <3>3. Current(c)'
      BY <2>1, <2>3, <3>1, <3>2 DEF Current
    <3> QED BY <2>1, <2>3, <3>1, <3>3, ReadSafe DEF ReadingPC, AlonePC
  <2>4. CASE GoTo(c, "next") /\ UNCHANGED <<valuesLock, req, locals, reply>>
    <3>1. Current(c)'
      BY <1>T, <2>1, <2>4 DEF Current, GoTo, locals
    <3> QED BY <2>1, <2>4, <3>1, ReadSafe DEF ReadingPC, AlonePC, locals
  <2> QED BY <1>11, <2>2, <2>3, <2>4 DEF ValueFor, NotFound
<1>12. ASSUME NEW c \in Clients, MetricFor(c) PROVE Goal
  <2>1. /\ pc[c] = "metric" /\ c \in valuesLock.readers /\ Current(c)
        /\ UNCHANGED <<values, mapping>>
    BY <1>12, <1>R DEF MetricFor, ReadingPC, AlonePC
  <2>2. CASE /\ items' = [items EXCEPT ![c] = @ \cup
                            {[key   |-> CurKey(c), value |-> cur[c].value,
                              kind  |-> mapping[CallOf(c).resource]]}]
             /\ GoTo(c, "next")
             /\ UNCHANGED <<valuesLock, req, names, cur, reply>>
    <3>1. /\ items'[c] = items[c] \cup
               {[key   |-> CurKey(c), value |-> cur[c].value,
                 kind  |-> mapping[CallOf(c).resource]]}
          /\ \A d \in Clients \ {c} : items'[d] = items[d]
      BY <1>T, <2>2
    <3>2. \A i \in items'[c] : i.key \in DOMAIN values /\ values[i.key] = i.value
      BY <2>1, <3>1 DEF Current
    <3>3. Current(c)'
      BY <1>T, <2>1, <2>2, <3>2 DEF Current, GoTo
    <3> QED BY <2>1, <2>2, <3>1, <3>3, ReadSafe DEF ReadingPC, AlonePC
  <2>3. CASE ReturnRead(c, "error", {})
    BY <2>1, <2>3, ReturnReadSafe DEF AlonePC
  <2> QED BY <1>12, <2>2, <2>3 DEF MetricFor
<1>13. ASSUME NEW c \in Clients, ReturnItems(c) PROVE Goal
  BY <1>13, ReturnReadSafe DEF ReturnItems, AlonePC
<1>14. CASE UNCHANGED vars
  BY <1>14 DEF vars, ExclusionInv, ReadersHold, WritersHold, StoresAlone, AlonePC,
       OnlyReadersCollect, ItemsAreCurrent, CurKey, CallOf
<1> QED
  BY <1>1, <1>2, <1>3, <1>4, <1>5, <1>6, <1>61, <1>62, <1>7, <1>71, <1>8,
     <1>9, <1>10, <1>11, <1>12, <1>13, <1>14 DEF Next, Serve

\* The three parts are inductive together: the type of a collected item
\* needs ItemsAreCurrent, which needs the exclusion, which needs the types.
LEMMA InvHolds == Spec => [](TypeOK /\ ExclusionInv /\ ItemsAreCurrent)
<1>1. Init => TypeOK /\ ExclusionInv /\ ItemsAreCurrent
  <2> SUFFICES ASSUME Init PROVE TypeOK /\ ExclusionInv /\ ItemsAreCurrent
    OBVIOUS
  <2> USE DEF Init
  <2>1. DOMAIN values = {}
    BY DEF EmptyMap
  <2>2. valuesLock \in RWLocks(Clients)
    BY DEF Free, RWLocks
  <2>3. cur \in [Clients -> Lookups]
    BY NobodyType
  <2>4. TypeOK
    BY <2>1, <2>2, <2>3 DEF TypeOK, WritingPC, ReadingPC, AlonePC
  <2>5. ExclusionInv /\ ItemsAreCurrent
    BY DEF ExclusionInv, ReadersHold, WritersHold, StoresAlone,
           OnlyReadersCollect, ItemsAreCurrent, ReadingPC, AlonePC
  <2> QED BY <2>4, <2>5
<1> QED BY <1>1, TypeStep, SafeStep, PTL DEF Spec

-----------------------------------------------------------------------------
\* Every variable keeps its type, whatever paths are posted to and however
\* often the mapper is replaced.
THEOREM TypeCorrect == Spec => []TypeOK
BY InvHolds, PTL

\* A selector read answers with a snapshot of the map: no write slips in
\* between the values that metricsFor collects one by one.
THEOREM ReadsAreSnapshots == Spec => []ItemsAreCurrent
BY InvHolds, PTL

\* No goroutine stores a value while another one reads the map, has the read
\* lock, or stores.
THEOREM WritersAreAlone == Spec => []WriterIsAlone
<1>1. ExclusionInv => WriterIsAlone
  BY DEF ExclusionInv, ReadersHold, WritersHold, StoresAlone, AlonePC, Granted, HoldsR,
         WriterIsAlone
<1> QED BY <1>1, InvHolds, PTL

-----------------------------------------------------------------------------
(***************************************************************************)
(* What is stored can be read.  The property needs the paths and the       *)
(* delegates to be of the kind it speaks about: every delegate resolves    *)
(* what is written; the full name of a resource, to which a delegate has   *)
(* resolved something, means the same resource to every delegate that      *)
(* knows it; and a written metric has a path of its own at which the API   *)
(* documents it (which the metrics of namespaces have not, see             *)
(* WritePathIsReadPath).                                                   *)
(***************************************************************************)
WrittenKey(p, d) ==
    KeyOf(WriteCall(p), d[WriteCall(p).resource], WriteCall(p).name)

WritesResolve ==
    \A p \in WritePaths, d \in Delegates : d[WriteCall(p).resource] # NoMatch

FullNamesStay ==
    \A d, e \in Delegates, s \in Spellings :
      d[s] # NoMatch /\ e[d[s]] # NoMatch => e[d[s]] = d[s]

KeysHavePaths ==
    \A p \in WritePaths, d \in Delegates :
      LET key == WrittenKey(p, d)
      IN  /\ key.namespaced = (key.namespace # Missing)
          /\ key.name \notin {"*", Missing} /\ key.metric # Missing
          /\ key.resource # Missing /\ ~Reserved(PathOf(key))

(***************************************************************************)
(* The inductive invariant: every key was made by some delegate, and so is *)
(* the one that a writer is about to store, whatever the current delegate. *)
(***************************************************************************)
KeysAreWritten ==
    \A key \in DOMAIN values :
      \E p \in WritePaths, d \in Delegates : key = WrittenKey(p, d)

Resolved(c) ==
    /\ cur[c].name = WriteCall(req[c].path).name
    /\ \E d \in Delegates : cur[c].resource = d[WriteCall(req[c].path).resource]

ListedInv ==
    /\ KeysAreWritten
    /\ \A c \in Clients : pc[c] \in {"singular", "store"} => Resolved(c)

\* Only the actor moves, and it is not about to store anything.
Elsewhere(c) ==
    /\ values' = values /\ pc'[c] \notin {"singular", "store"}
    /\ \A d \in Clients \ {c} :
         pc'[d] = pc[d] /\ req'[d] = req[d] /\ cur'[d] = cur[d]

\* A return is such a step.
LEMMA ReturnElsewhere ==
    ASSUME TypeOK, NEW c \in Clients, NEW status, NEW found, NEW lock,
           Return(c, status, found, lock), values' = values
    PROVE  Elsewhere(c)
BY DEF Return, GoTo, TypeOK, Elsewhere

\* So is a move to a stage at which nothing is about to be stored.
LEMMA MoveElsewhere ==
    ASSUME TypeOK, NEW c \in Clients, NEW label, label \notin {"singular", "store"},
           GoTo(c, label), values' = values,
           \A d \in Clients \ {c} : req'[d] = req[d] /\ cur'[d] = cur[d]
    PROVE  Elsewhere(c)
BY DEF GoTo, TypeOK, Elsewhere

\* All steps but three are.
LEMMA MostElsewhere ==
    ASSUME TypeOK, NEW c \in Clients,
           \/ Post(c) \/ Get(c) \/ PostLock(c) \/ PostBody(c)
           \/ ListAllMetrics(c) \/ ListAllExternalMetrics(c)
           \/ GetExternalMetric(c) \/ GetMetricByName(c) \/ ListObjectNames(c)
           \/ ResourceFor(c) \/ ValueFor(c) \/ MetricFor(c) \/ ReturnItems(c)
    PROVE  Elsewhere(c)
<1>T. /\ req \in [Clients -> Requests \cup {NoRequest}]
      /\ cur \in [Clients -> Lookups]
  BY DEF TypeOK
<1>1. CASE Post(c) \/ Get(c)
  <2>1. /\ GoTo(c, "lock") \/ GoTo(c, "rlock")
        /\ values' = values
        /\ \A d \in Clients \ {c} : req'[d] = req[d] /\ cur'[d] = cur[d]
    BY <1>1, <1>T DEF Post, Get, locals
  <2> QED BY <2>1, MoveElsewhere
<1>2. CASE PostLock(c)
  BY <1>2, MoveElsewhere DEF PostLock, locals
<1>3. CASE PostBody(c)
  BY <1>3, MoveElsewhere, ReturnElsewhere DEF PostBody, locals
<1>4. CASE ListAllMetrics(c) \/ ListAllExternalMetrics(c) \/ GetExternalMetric(c)
           \/ ReturnItems(c)
  BY <1>4, ReturnElsewhere DEF ListAllMetrics, ListAllExternalMetrics,
       GetExternalMetric, ReturnItems, ReturnRead
<1>5. CASE GetMetricByName(c)
  BY <1>5, MoveElsewhere DEF GetMetricByName
<1>6. CASE ListObjectNames(c)
  BY <1>6, MoveElsewhere, ReturnElsewhere DEF ListObjectNames, ReturnRead
<1>7. CASE ResourceFor(c)
  <2>1. CASE ReturnRead(c, "error", {})
    BY <1>7, <2>1, ReturnElsewhere DEF ResourceFor, ReturnRead
  <2>2. CASE ~ReturnRead(c, "error", {})
    <3>1. /\ GoTo(c, "value") /\ values' = values /\ req' = req
          /\ \A d \in Clients \ {c} : cur'[d] = cur[d]
      BY <1>7, <1>T, <2>2 DEF ResourceFor
    <3> QED BY <3>1, MoveElsewhere
  <2> QED BY <2>1, <2>2
<1>8. CASE ValueFor(c)
  <2>1. CASE ReturnRead(c, "error", {}) \/ ReturnRead(c, "notFound", {})
    BY <1>8, <2>1, ReturnElsewhere DEF ValueFor, ReturnRead
  <2>2. CASE ~(ReturnRead(c, "error", {}) \/ ReturnRead(c, "notFound", {}))
    <3>1. /\ GoTo(c, "metric") \/ GoTo(c, "next")
          /\ values' = values /\ req' = req
          /\ \A d \in Clients \ {c} : cur'[d] = cur[d]
      BY <1>8, <1>T, <2>2 DEF ValueFor, NotFound, locals
    <3> QED BY <3>1, MoveElsewhere
  <2> QED BY <2>1, <2>2
<1>9. CASE MetricFor(c)
  BY <1>9, MoveElsewhere, ReturnElsewhere DEF MetricFor, ReturnRead
<1> QED BY <1>1, <1>2, <1>3, <1>4, <1>5, <1>6, <1>7, <1>8, <1>9

\* Whatever the mapper resolves to now, what is stored was resolved once.
LEMMA ListedStep ==
    ASSUME WritesResolve, TypeOK, ListedInv, [Next]_vars
    PROVE  ListedInv'
<1>T. /\ mapping \in Delegates
      /\ pc \in [Clients -> {"idle", "rlock"} \cup WritingPC \cup ReadingPC]
      /\ req \in [Clients -> Requests \cup {NoRequest}]
      /\ cur \in [Clients -> Lookups]
  BY DEF TypeOK
<1>1. ASSUME NEW c \in Clients, Elsewhere(c) PROVE ListedInv'
  BY <1>1 DEF Elsewhere, ListedInv, KeysAreWritten, Resolved
<1>2. CASE ReplaceDelegate \/ UNCHANGED vars
  BY <1>2 DEF ReplaceDelegate, vars, locals, ListedInv, KeysAreWritten, Resolved
<1>P. ASSUME NEW c \in Clients, pc[c] \in {"resolve", "singular", "store"}
      PROVE  req[c].path \in WritePaths
  <2>1. req[c] \in Requests /\ req[c].verb = "post"
    BY <1>P DEF TypeOK, WritingPC, AlonePC
  <2> QED BY <2>1, PostType
<1>3. ASSUME NEW c \in Clients, PostResolve(c) PROVE ListedInv'
  <2> DEFINE call == WriteCall(req[c].path)
  <2>1. /\ pc[c] = "resolve" /\ values' = values /\ req' = req
        /\ cur' = [cur EXCEPT ![c] = [name     |-> call.name,
                                      resource |-> Normalized(call.resource),
                                      value    |-> req[c].value]]
        /\ \E label : GoTo(c, label)
    BY <1>3 DEF PostResolve
  <2>2. Normalized(call.resource) = mapping[call.resource]
    BY <1>P, <1>T, <2>1 DEF WritesResolve, Normalized, Matches
  <2>3. Resolved(c)'
    BY <1>T, <2>1, <2>2 DEF Resolved
  <2>4. \A d \in Clients \ {c} : pc'[d] = pc[d] /\ cur'[d] = cur[d]
    BY <1>T, <2>1 DEF GoTo
  <2> QED BY <2>1, <2>3, <2>4 DEF ListedInv, KeysAreWritten, Resolved
<1>4. ASSUME NEW c \in Clients, PostSingular(c) PROVE ListedInv'
  <2>1. /\ pc[c] = "singular" /\ UNCHANGED <<values, req, cur>>
        /\ GoTo(c, "store")
    BY <1>4 DEF PostSingular, locals
  <2>2. \A d \in Clients \ {c} : pc'[d] = pc[d]
    BY <1>T, <2>1 DEF GoTo
  <2> QED BY <2>1, <2>2 DEF ListedInv, KeysAreWritten, Resolved
<1>5. ASSUME NEW c \in Clients, PostStore(c) PROVE ListedInv'
  <2>1. /\ pc[c] = "store" /\ values' = Put(values, StoredKey(c), cur[c].value)
        /\ Return(c, "ok", {}, Unlock(valuesLock))
    BY <1>5 DEF PostStore
  <2>2. Resolved(c)
    BY <2>1 DEF ListedInv
  <2>3. \E p \in WritePaths, d \in Delegates : StoredKey(c) = WrittenKey(p, d)
    BY <1>P, <2>1, <2>2 DEF Resolved, StoredKey, WrittenKey
  <2>4. DOMAIN values' = DOMAIN values \cup {StoredKey(c)}
    BY <2>1 DEF Put
  <2>5. KeysAreWritten'
    BY <2>3, <2>4 DEF ListedInv, KeysAreWritten
  <2>6. /\ pc'[c] = "idle"
        /\ \A d \in Clients \ {c} : /\ pc'[d] = pc[d] /\ req'[d] = req[d]
                                    /\ cur'[d] = cur[d]
    BY <1>T, <2>1 DEF Return, GoTo
  <2> QED BY <2>5, <2>6 DEF ListedInv, Resolved
<1> QED
  BY <1>1, <1>2, <1>3, <1>4, <1>5, MostElsewhere DEF Next, Serve

\* A key that some delegate made is found again at its path by any delegate
\* that knows its resource.
LEMMA WrittenIsRead ==
    ASSUME WritesResolve, FullNamesStay, KeysHavePaths,
           mapping \in Delegates, NEW p \in WritePaths, NEW d \in Delegates,
           Matches(WrittenKey(p, d).resource)
    PROVE  LET key  == WrittenKey(p, d)
               call == ReadCall(PathOf(key), Missing)
           IN  /\ call.op = "byName"
               /\ KeyOf(call, mapping[call.resource], call.name) = key
<1> DEFINE key == WrittenKey(p, d)
           call == MetricCall(key.namespace, key.resource, key.name, key.metric)
<1>1. /\ key.resource = d[WriteCall(p).resource]
      /\ WriteCall(p).resource \in Spellings
  BY PathsAssumption DEF WrittenKey, KeyOf
<1>2. mapping[key.resource] = key.resource
  BY <1>1 DEF WritesResolve, FullNamesStay, Matches
<1>3. /\ key.namespaced = (key.namespace # Missing)
      /\ key.name # "*" /\ key.name # Missing /\ key.metric # Missing
      /\ key.resource # Missing /\ ~Reserved(PathOf(key))
  BY DEF KeysHavePaths
<1>4. key = [resource |-> key.resource, namespaced |-> key.namespaced,
             metric |-> key.metric, namespace |-> key.namespace,
             name |-> key.name]
  BY DEF WrittenKey, KeyOf
<1> HIDE DEF key
<1>5. /\ call.op = "byName" /\ call.namespace = key.namespace
      /\ call.resource = key.resource /\ call.name = key.name
      /\ call.metric = key.metric
  BY <1>3 DEF MetricCall
<1>6. call.namespaced = key.namespaced
  BY <1>3, Zenon DEF MetricCall
<1>7. PathOf(call) = PathOf(key)
  BY <1>5, <1>6 DEF PathOf
<1>8. ReadCall(PathOf(key), Missing) = call
  BY <1>3, <1>7, ReadBack
<1>9. KeyOf(call, key.resource, key.name) = key
  BY <1>4, <1>5, <1>6, Zenon DEF KeyOf
<1> HIDE DEF call
<1>10. /\ call.op = "byName"
       /\ KeyOf(call, mapping[call.resource], call.name) = key
  BY <1>2, <1>5, <1>9
<1> QED BY <1>8, <1>10 DEF key

\* For any clients, paths and delegates of the kind described above: what is
\* listed can be read at its path, whenever the mapper knows its resource,
\* although the mapper may have been replaced since it was written.
THEOREM ListedMetricsAreAvailable ==
    ASSUME WritesResolve, FullNamesStay, KeysHavePaths
    PROVE  Spec => []ListedIsAvailable
<1>1. Init => ListedInv
  BY DEF Init, ListedInv, KeysAreWritten, EmptyMap
<1>2. TypeOK /\ ListedInv /\ [Next]_vars => ListedInv'
  BY ListedStep
<1>3. TypeOK /\ ListedInv => ListedIsAvailable
  <2> SUFFICES ASSUME TypeOK, ListedInv, NEW key \in DOMAIN values,
                      Matches(key.resource)
               PROVE  LET call == ReadCall(PathOf(key), Missing)
                      IN  /\ call.op = "byName"
                          /\ KeyOf(call, mapping[call.resource], call.name)
                               \in DOMAIN values
    BY DEF ListedIsAvailable
  <2>1. PICK p \in WritePaths, d \in Delegates : key = WrittenKey(p, d)
    BY DEF ListedInv, KeysAreWritten
  <2>2. mapping \in Delegates
    BY DEF TypeOK
  <2> QED BY <2>1, <2>2, WrittenIsRead
<1> QED BY <1>1, <1>2, <1>3, TypeCorrect, PTL DEF Spec

-----------------------------------------------------------------------------
(* MetricStore has the same keys and calls *)

\* The keys, and the maps indexed by them.
LEMMA SameKeys ==
    /\ \A call, resource, name :
         Store!KeyOf(call, resource, name) = KeyOf(call, resource, name)
    /\ \A f, key, value : Store!Put(f, key, value) = Put(f, key, value)
    /\ \A key : Store!APIResource(Store!InfoOf(key)) = APIResource(InfoOf(key))
BY DEF Store!KeyOf, KeyOf, Store!Put, Put, Store!APIResource, APIResource,
       Store!InfoOf, InfoOf

\* The calls that writes become.
LEMMA SameWrites == \A path : Store!WriteCall(path) = WriteCall(path)
BY DEF Store!WriteCall, WriteCall, Store!WriteRouted, WriteRouted,
       Store!UpdateMetricCall, UpdateMetricCall, Store!PathParameters,
       PathParameters, Store!NotRouted, NotRouted, Store!Missing, Missing

\* What RequestInfo makes of a path.
LEMMA SameInfo == \A path : Store!NewRequestInfo(path) = NewRequestInfo(path)
BY DEF Store!NewRequestInfo, NewRequestInfo, Store!Parts, Parts,
       Store!SpecialVerbs, SpecialVerbs, Store!SpecialVerbsNoSubresources,
       SpecialVerbsNoSubresources, Store!NamespaceSubresources,
       NamespaceSubresources, Store!Missing, Missing

\* The calls that reads become.
LEMMA SameReads == \A path : Store!ReadCall(path, Store!Missing) = ReadCall(path, Missing)
<1>1. \A path : Store!ReadRouted(path) = ReadRouted(path)
  BY DEF Store!ReadRouted, ReadRouted, Store!RootScopedPath, RootScopedPath,
         Store!NamespacedPath, NamespacedPath, Store!NamespaceSpecificPath,
         NamespaceSpecificPath
<1>2. \A info, name : Store!List(info, name) = List(info, name)
  BY DEF Store!List, List, Store!MetricCall, MetricCall, Store!Missing, Missing
<1>3. \A path : Store!ListResource(path, Store!Missing) = ListResource(path, Missing)
  BY <1>2, SameInfo DEF Store!ListResource, ListResource, Store!BadRequest,
                        BadRequest, Store!Missing, Missing
<1> QED BY <1>1, <1>3 DEF Store!ReadCall, ReadCall, Store!NotRouted, NotRouted

\* The external metrics, and what a read of them finds.
LEMMA SameExternals ==
    /\ Store!ExternalResources = ExternalResources
    /\ \A path, selector :
         Store!MatchingExternal(Store!ExternalCall(path).metric, selector)
           = MatchingExternal(ExternalCall(path).metric, selector)
<1>1. Store!externalMetrics = externalMetrics
  BY DEF Store!externalMetrics, externalMetrics
<1>2. \A path : Store!ExternalCall(path) = ExternalCall(path)
  BY SameInfo DEF Store!ExternalCall, ExternalCall, Store!ExternalRouted,
       ExternalRouted, Store!ExternalList, ExternalList, Store!NotRouted, NotRouted
<1>3. \A metric, selector :
        Store!MatchingExternal(metric, selector) = MatchingExternal(metric, selector)
  BY <1>1 DEF Store!MatchingExternal, MatchingExternal
<1> QED BY <1>1, <1>2, <1>3 DEF Store!ExternalResources, ExternalResources

-----------------------------------------------------------------------------
(* The inductive invariant *)

\* The metrics that a read finds in f of some objects, once it is known how the
\* mapper has resolved the resource for each of them.
FoundIn(f, call, objects, resource, kind) ==
    {[key   |-> KeyOf(call, resource[n], n),
      value |-> f[KeyOf(call, resource[n], n)],
      kind  |-> kind[n]] :
       n \in {m \in objects : KeyOf(call, resource[m], m) \in DOMAIN f}}

\* The metric under a key, if there is a value.
FoundUnder(f, key, kind) ==
    {i \in {[key |-> key, value |-> f[key], kind |-> kind]} : key \in DOMAIN f}

\* The objects that a read still has to look up.
Pending(c) ==
    names[c] \cup {n \in {cur[c].name} : pc[c] \in {"value", "metric"}}

\* The objects that a request may be about.
Asked(call, objects) ==
    IF call.op = "byName" THEN objects = {call.name} ELSE objects \in SUBSET Names

\* The read c has looked up the objects in done, with these resolutions.
Collected(c, done, resource, kind) ==
    /\ done \cap Pending(c) = {}
    /\ Asked(CallOf(c), done \cup Pending(c))
    /\ items[c] = FoundIn(values, CallOf(c), done, resource, kind)
    /\ CallOf(c).op = "byName" =>
         \A n \in done : KeyOf(CallOf(c), resource[n], n) \in DOMAIN values

\* A read under way: what it has collected is the answer of MetricStore for
\* the objects that it has looked up, each with the resolutions that it met.
ReadSoFar(c) ==
    pc[c] \in ReadingPC =>
      /\ CallOf(c).op \in {"byName", "bySelector"}
      /\ pc[c] \in {"value", "metric"} =>
           /\ cur[c].resource \in Resolutions(CallOf(c).resource)
           /\ cur[c].name \notin names[c]
      /\ \E done \in SUBSET AllNames :
           \E resource, kind \in [done -> Resolutions(CallOf(c).resource)] :
             Collected(c, done, resource, kind)

\* A write under way stores its value, under a resource that the mapper gave.
WriteSoFar(c) ==
    pc[c] \in {"singular", "store"} =>
      LET call == WriteCall(req[c].path)
      IN  /\ cur[c].resource \in WriteResolutions(call.resource)
          /\ cur[c].name = call.name
          /\ cur[c].value = req[c].value

LinearInv == \A c \in Clients : ReadSoFar(c) /\ WriteSoFar(c)

-----------------------------------------------------------------------------
(* The invariant is kept *)

\* What the others are doing is not disturbed.
LEMMA OthersLinear ==
    ASSUME LinearInv, NEW d \in Clients, pc'[d] = pc[d], req'[d] = req[d],
           names'[d] = names[d], cur'[d] = cur[d], items'[d] = items[d],
           values' = values \/ pc[d] \notin ReadingPC
    PROVE  ReadSoFar(d)' /\ WriteSoFar(d)'
<1>1. ReadSoFar(d) /\ WriteSoFar(d)
  BY DEF LinearInv
<1>2. WriteSoFar(d)'
  BY <1>1 DEF WriteSoFar
<1>3. ReadSoFar(d)'
  <2>1. CASE pc[d] \notin ReadingPC
    BY <2>1 DEF ReadSoFar
  <2>2. CASE values' = values
    <3>1. CallOf(d)' = CallOf(d) /\ Pending(d)' = Pending(d)
      BY DEF CallOf, Pending
    <3>2. ASSUME NEW done, NEW resource, NEW kind, Collected(d, done, resource, kind)
          PROVE  Collected(d, done, resource, kind)'
      BY <2>2, <3>1, <3>2 DEF Collected
    <3> QED BY <1>1, <3>1, <3>2 DEF ReadSoFar
  <2> QED BY <2>1, <2>2
<1> QED BY <1>2, <1>3

\* Only the handler that moves has to show something.
LEMMA MoveLinear ==
    ASSUME TypeOK, LinearInv, NEW c \in Clients, NEW label, GoTo(c, label),
           UNCHANGED values,
           \A d \in Clients \ {c} :
             /\ req'[d] = req[d] /\ names'[d] = names[d]
             /\ cur'[d] = cur[d] /\ items'[d] = items[d],
           ReadSoFar(c)', WriteSoFar(c)'
    PROVE  LinearInv'
<1>1. \A d \in Clients \ {c} : pc'[d] = pc[d]
  BY DEF TypeOK, GoTo
<1>2. ASSUME NEW d \in Clients \ {c} PROVE ReadSoFar(d)' /\ WriteSoFar(d)'
  BY <1>1, OthersLinear
<1> QED BY <1>2 DEF LinearInv

\* A handler that returns has nothing left to show, and a write returns when
\* nobody is reading.
LEMMA ReturnLinear ==
    ASSUME TypeOK, ExclusionInv, LinearInv, NEW c \in Clients, NEW status, NEW found,
           NEW lock, Return(c, status, found, lock),
           UNCHANGED values \/ pc[c] \in AlonePC
    PROVE  LinearInv'
<1> USE DEF TypeOK, Return, GoTo
<1>1. /\ pc'[c] = "idle"
      /\ \A d \in Clients \ {c} :
           /\ pc'[d] = pc[d] /\ req'[d] = req[d] /\ names'[d] = names[d]
           /\ cur'[d] = cur[d] /\ items'[d] = items[d]
  OBVIOUS
<1>2. pc[c] \in AlonePC => \A d \in Clients : pc[d] \notin ReadingPC
  BY DEF ExclusionInv, ReadersHold, StoresAlone, AlonePC
<1>3. ASSUME NEW d \in Clients \ {c} PROVE ReadSoFar(d)' /\ WriteSoFar(d)'
  BY <1>1, <1>2, OthersLinear
<1>4. ReadSoFar(c)' /\ WriteSoFar(c)'
  BY <1>1 DEF ReadSoFar, WriteSoFar, ReadingPC
<1> QED BY <1>3, <1>4 DEF LinearInv

\* The mapper's answers are among its possible answers.
LEMMA MappedResolution ==
    ASSUME mapping \in Delegates, NEW s
    PROVE  /\ Matches(s) => mapping[s] \in Resolutions(s)
           /\ Normalized(s) \in WriteResolutions(s)
BY DEF Matches, Normalized, Resolutions, WriteResolutions

\* A read that begins has looked up nothing.
LEMMA StartRead ==
    ASSUME NEW c \in Clients, pc'[c] = "next", items'[c] = {},
           CallOf(c)'.op \in {"byName", "bySelector"},
           Asked(CallOf(c)', names'[c])
    PROVE  ReadSoFar(c)' /\ WriteSoFar(c)'
<1> DEFINE none == [x \in {} |-> x]
<1>1. none \in [{} -> Resolutions(CallOf(c)'.resource)]
  OBVIOUS
<1>2. Pending(c)' = names'[c]
  BY DEF Pending
<1>3. FoundIn(values', CallOf(c)', {}, none, none) = {}
  BY DEF FoundIn
<1>4. Collected(c, {}, none, none)'
  BY <1>2, <1>3 DEF Collected
<1>5. ReadSoFar(c)'
  <2> HIDE DEF none
  <2> QED BY <1>1, <1>4 DEF ReadSoFar
<1> QED BY <1>5 DEF WriteSoFar

\* A read that goes on with what it has collected, and the same objects to go.
LEMMA ContinueRead ==
    ASSUME NEW c \in Clients, ReadSoFar(c), pc[c] \in ReadingPC,
           UNCHANGED <<values, req>>, items'[c] = items[c],
           pc'[c] \in {"value", "metric"}, Pending(c)' = Pending(c),
           cur'[c].resource \in Resolutions(CallOf(c).resource),
           cur'[c].name \notin names'[c]
    PROVE  ReadSoFar(c)' /\ WriteSoFar(c)'
<1>1. CallOf(c)' = CallOf(c)
  BY DEF CallOf
<1>2. ASSUME NEW done, NEW resource, NEW kind, Collected(c, done, resource, kind)
      PROVE  Collected(c, done, resource, kind)'
  BY <1>1, <1>2 DEF Collected
<1>3. ReadSoFar(c)'
  BY <1>1, <1>2 DEF ReadSoFar
<1> QED BY <1>3 DEF WriteSoFar

\* A read that is done with one more object.
LEMMA FinishName ==
    ASSUME TypeOK, NEW c \in Clients, ReadSoFar(c), pc[c] \in {"value", "metric"},
           UNCHANGED <<values, req, names>>, pc'[c] = "next",
           cur[c].name \in AllNames,
           NEW k \in Resolutions(CallOf(c).resource),
           CallOf(c).op = "byName" => CurKey(c) \in DOMAIN values,
           items'[c] = items[c] \cup FoundUnder(values, CurKey(c), k)
    PROVE  ReadSoFar(c)' /\ WriteSoFar(c)'
<1>1. PICK call, n, r : call = CallOf(c) /\ n = cur[c].name /\ r = cur[c].resource
  OBVIOUS
<1> DEFINE answers == Resolutions(call.resource)
<1>2. /\ call.op \in {"byName", "bySelector"} /\ r \in answers /\ n \notin names[c]
      /\ \E done \in SUBSET AllNames : \E resource, kind \in [done -> answers] :
           Collected(c, done, resource, kind)
  BY <1>1 DEF ReadSoFar, ReadingPC
<1>3. PICK done \in SUBSET AllNames : \E resource, kind \in [done -> answers] :
             Collected(c, done, resource, kind)
  BY <1>2
<1>4. PICK resource \in [done -> answers], kind \in [done -> answers] :
             Collected(c, done, resource, kind)
  BY <1>3
<1>5. Pending(c) = names[c] \cup {n} /\ Pending(c)' = names[c] /\ CallOf(c)' = call
  BY <1>1 DEF Pending, CallOf
<1>6. /\ n \notin done /\ done \cap names[c] = {}
      /\ Asked(call, done \cup (names[c] \cup {n}))
      /\ items[c] = FoundIn(values, call, done, resource, kind)
      /\ call.op = "byName" =>
            \A m \in done : KeyOf(call, resource[m], m) \in DOMAIN values
  BY <1>1, <1>4, <1>5 DEF Collected
<1>7. CurKey(c) = KeyOf(call, r, n) /\ k \in answers /\ r \in answers
  BY <1>1, <1>2 DEF CurKey
<1> HIDE DEF answers
<1>8. n \notin done
  BY <1>6
<1> DEFINE res2 == Put(resource, n, r)
           kind2 == Put(kind, n, k)
<1>9. /\ res2 \in [done \cup {n} -> answers] /\ kind2 \in [done \cup {n} -> answers]
      /\ res2[n] = r /\ kind2[n] = k
      /\ \A m \in done : res2[m] = resource[m] /\ kind2[m] = kind[m]
  BY <1>7, <1>8 DEF Put
<1> HIDE DEF res2, kind2
<1>10. items'[c] = FoundIn(values, call, done \cup {n}, res2, kind2)
  <2>1. FoundIn(values, call, done \cup {n}, res2, kind2)
          = FoundIn(values, call, done, resource, kind)
              \cup FoundUnder(values, KeyOf(call, r, n), k)
    BY <1>9 DEF FoundIn, FoundUnder
  <2> QED BY <1>6, <1>7, <2>1
<1>11. (done \cup {n}) \cap names[c] = {}
       /\ (done \cup {n}) \cup names[c] = done \cup (names[c] \cup {n})
  BY <1>2, <1>6
<1>12. ASSUME call.op = "byName", NEW m \in done \cup {n}
       PROVE  KeyOf(call, res2[m], m) \in DOMAIN values
  <2>1. CASE m = n
    <3>1. CurKey(c) \in DOMAIN values
      BY <1>1, <1>12
    <3> QED BY <1>7, <1>9, <2>1, <3>1
  <2>2. CASE m \in done
    BY <1>6, <1>9, <1>12, <2>2
  <2> QED BY <2>1, <2>2
<1>13. Collected(c, done \cup {n}, res2, kind2)'
  BY <1>5, <1>6, <1>10, <1>11, <1>12 DEF Collected
<1>14. done \cup {n} \in SUBSET AllNames
  BY <1>1, <1>3
<1>15. ReadSoFar(c)'
  <2>1. CallOf(c)'.op \in {"byName", "bySelector"} /\ pc'[c] = "next"
        /\ Resolutions(CallOf(c)'.resource) = answers
    BY <1>2, <1>5 DEF answers
  <2> QED BY <1>9, <1>13, <1>14, <2>1 DEF ReadSoFar
<1> QED BY <1>15 DEF WriteSoFar

\* The name that is being looked up is one of those that were asked for.
LEMMA CurName ==
    ASSUME TypeOK, LinearInv, NEW c \in Clients, pc[c] \in {"value", "metric"}
    PROVE  cur[c].name \in AllNames
<1>1. PICK done : Asked(CallOf(c), done \cup Pending(c))
  BY DEF LinearInv, ReadSoFar, ReadingPC, Collected
<1>2. cur[c].name \in Pending(c)
  BY DEF Pending
<1>3. req[c] \in Requests /\ req[c].verb = "get"
  BY DEF TypeOK, ReadingPC
<1>4. CallOf(c).name \in AllNames
  BY <1>3, GetType DEF CallOf
<1> QED BY <1>1, <1>2, <1>4 DEF Asked, AllNames

\* Every step of the provider keeps LinearInv.
LEMMA LinearStep ==
    ASSUME TypeOK, ExclusionInv, ItemsAreCurrent, LinearInv, [Next]_vars
    PROVE  LinearInv'
<1>T. /\ mapping \in Delegates
      /\ pc \in [Clients -> {"idle", "rlock"} \cup WritingPC \cup ReadingPC]
      /\ req \in [Clients -> Requests \cup {NoRequest}]
      /\ names \in [Clients -> SUBSET AllNames]
      /\ cur \in [Clients -> Lookups]
      /\ items \in [Clients -> SUBSET MetricValues]
  BY DEF TypeOK
<1>I. \A c \in Clients : ReadSoFar(c) /\ WriteSoFar(c)
  BY DEF LinearInv
\* A step within a handler; its guard tells where it was.
<1>M. ASSUME NEW c \in Clients, NEW label, GoTo(c, label) PROVE pc'[c] = label
  BY <1>T, <1>M DEF GoTo
<1>R. ASSUME NEW c \in Clients, NEW status, NEW found, ReturnRead(c, status, found),
             UNCHANGED values
      PROVE  LinearInv'
  BY <1>R, ReturnLinear DEF ReturnRead
<1>1. CASE ReplaceDelegate \/ UNCHANGED vars
  <2>1. UNCHANGED <<values, pc, req, names, cur, items>>
    BY <1>1 DEF ReplaceDelegate, vars, locals
  <2> QED BY <2>1, OthersLinear DEF LinearInv
<1>2. ASSUME NEW c \in Clients, NEW label \in {"lock", "rlock", "body", "resolve"},
             GoTo(c, label), UNCHANGED <<values, names, cur, items>>,
             \A d \in Clients \ {c} : req'[d] = req[d]
      PROVE  LinearInv'
  <2>1. ReadSoFar(c)' /\ WriteSoFar(c)'
    BY <1>2, <1>M DEF ReadSoFar, WriteSoFar, ReadingPC
  <2> QED BY <1>2, <2>1, MoveLinear
<1>3. ASSUME NEW c \in Clients, Post(c) \/ Get(c) \/ PostLock(c) PROVE LinearInv'
  <2>1. PICK label \in {"lock", "rlock", "body", "resolve"} : GoTo(c, label)
    BY <1>3 DEF Post, Get, PostLock
  <2>2. UNCHANGED <<values, names, cur, items>>
    BY <1>3 DEF Post, Get, PostLock, locals
  <2>3. \A d \in Clients \ {c} : req'[d] = req[d]
    BY <1>3, <1>T DEF Post, Get, PostLock
  <2> QED BY <1>2, <2>1, <2>2, <2>3
<1>4. ASSUME NEW c \in Clients, PostBody(c) PROVE LinearInv'
  <2>1. CASE GoTo(c, "resolve") /\ UNCHANGED <<valuesLock, req, locals, reply>>
    BY <1>2, <1>4, <2>1 DEF PostBody, locals
  <2>2. CASE Return(c, "error", {}, Unlock(valuesLock))
    BY <1>4, <2>2, ReturnLinear DEF PostBody
  <2> QED BY <1>4, <2>1, <2>2 DEF PostBody
<1>5. ASSUME NEW c \in Clients, PostResolve(c) PROVE LinearInv'
  <2> DEFINE call == WriteCall(req[c].path)
             label == IF Matches(call.resource) THEN "singular" ELSE "store"
             entry == [name |-> call.name, resource |-> Normalized(call.resource),
                       value |-> req[c].value]
  <2>1. /\ GoTo(c, label) /\ label \in {"singular", "store"}
        /\ cur' = [cur EXCEPT ![c] = entry]
        /\ UNCHANGED <<values, req, names, items>>
    BY <1>5 DEF PostResolve
  <2>2. cur'[c] = entry /\ \A d \in Clients \ {c} : cur'[d] = cur[d]
    BY <1>T, <2>1
  <2>3. WriteSoFar(c)'
    BY <1>T, <2>1, <2>2, MappedResolution DEF WriteSoFar
  <2>4. ReadSoFar(c)'
    BY <1>M, <2>1 DEF ReadSoFar, ReadingPC
  <2> HIDE DEF label, entry
  <2> QED BY <2>1, <2>2, <2>3, <2>4, MoveLinear
<1>6. ASSUME NEW c \in Clients, PostSingular(c) PROVE LinearInv'
  <2>1. /\ pc[c] = "singular" /\ GoTo(c, "store")
        /\ UNCHANGED <<values, req, names, cur, items>>
    BY <1>6 DEF PostSingular, locals
  <2>2. ReadSoFar(c)' /\ WriteSoFar(c)'
    BY <1>I, <1>M, <2>1 DEF ReadSoFar, WriteSoFar, ReadingPC
  <2> QED BY <2>1, <2>2, MoveLinear
<1>7. ASSUME NEW c \in Clients, PostStore(c) PROVE LinearInv'
  BY <1>7, ReturnLinear DEF PostStore, AlonePC
<1>8. ASSUME NEW c \in Clients,
             ListAllMetrics(c) \/ ListAllExternalMetrics(c) \/ GetExternalMetric(c)
      PROVE  LinearInv'
  BY <1>8, <1>R DEF ListAllMetrics, ListAllExternalMetrics, GetExternalMetric
<1>9. ASSUME NEW c \in Clients, pc[c] = "rlock", GoTo(c, "next"), NEW objects,
             names' = [names EXCEPT ![c] = objects], Asked(CallOf(c), objects),
             CallOf(c).op \in {"byName", "bySelector"},
             UNCHANGED <<values, req, cur, items>>
      PROVE  LinearInv'
  <2>1. items[c] = {}
    BY <1>9 DEF ExclusionInv, OnlyReadersCollect, ReadingPC
  <2>2. names'[c] = objects /\ \A d \in Clients \ {c} : names'[d] = names[d]
    BY <1>T, <1>9
  <2>3. CallOf(c)' = CallOf(c)
    BY <1>9 DEF CallOf
  <2>4. ReadSoFar(c)' /\ WriteSoFar(c)'
    BY <1>9, <1>M, <2>1, <2>2, <2>3, StartRead
  <2> QED BY <1>9, <2>2, <2>4, MoveLinear
<1>10. ASSUME NEW c \in Clients, GetMetricByName(c) PROVE LinearInv'
  <2>1. Asked(CallOf(c), {CallOf(c).name})
    BY <1>10 DEF Asked, GetMetricByName
  <2> QED BY <1>9, <1>10, <2>1 DEF GetMetricByName, Granted
<1>11. ASSUME NEW c \in Clients, ListObjectNames(c) PROVE LinearInv'
  <2>1. /\ pc[c] = "rlock" /\ CallOf(c).op = "bySelector" /\ UNCHANGED values
    BY <1>11 DEF ListObjectNames, Granted
  <2>2. ASSUME NEW listed \in SUBSET Names, names' = [names EXCEPT ![c] = listed],
               GoTo(c, "next"), UNCHANGED <<valuesLock, req, cur, items, reply>>
        PROVE  LinearInv'
    <3>1. Asked(CallOf(c), listed)
      BY <2>1, <2>2 DEF Asked
    <3> QED BY <1>9, <2>1, <2>2, <3>1
  <2>3. CASE ReturnRead(c, "error", {})
    BY <1>R, <2>1, <2>3
  <2> QED BY <1>11, <2>2, <2>3 DEF ListObjectNames
<1>12. ASSUME NEW c \in Clients, ResourceFor(c) PROVE LinearInv'
  <2>1. pc[c] = "next" /\ UNCHANGED values
    BY <1>12 DEF ResourceFor
  <2>2. CASE Matches(CallOf(c).resource)
    <3>1. PICK n \in names[c] :
            /\ names' = [names EXCEPT ![c] = @ \ {n}]
            /\ cur' = [cur EXCEPT ![c] =
                         [name |-> n, resource |-> mapping[CallOf(c).resource],
                          value |-> NoValue]]
      BY <1>12, <2>2 DEF ResourceFor
    <3>2. GoTo(c, "value") /\ UNCHANGED <<valuesLock, req, items, reply>>
      BY <1>12, <2>2 DEF ResourceFor
    <3>3. /\ names'[c] = names[c] \ {n}
          /\ cur'[c].name = n /\ cur'[c].resource = mapping[CallOf(c).resource]
          /\ \A d \in Clients \ {c} : names'[d] = names[d] /\ cur'[d] = cur[d]
      BY <1>T, <3>1
    <3>4. pc'[c] = "value"
      BY <1>M, <3>2
    <3>5. Pending(c)' = Pending(c)
      BY <2>1, <3>1, <3>3, <3>4 DEF Pending
    <3>6. cur'[c].resource \in Resolutions(CallOf(c).resource)
      BY <1>T, <2>2, <3>3, MappedResolution
    <3>7. ReadSoFar(c)' /\ WriteSoFar(c)'
      BY <1>I, <2>1, <3>2, <3>3, <3>4, <3>5, <3>6, ContinueRead DEF ReadingPC
    <3> QED BY <2>1, <3>2, <3>3, <3>7, MoveLinear
  <2>3. CASE ~Matches(CallOf(c).resource)
    BY <1>R, <1>12, <2>3 DEF ResourceFor
  <2> QED BY <2>2, <2>3
<1>13. ASSUME NEW c \in Clients, ValueFor(c) PROVE LinearInv'
  <2>1. pc[c] = "value" /\ UNCHANGED values
    BY <1>13 DEF ValueFor
  <2>2. CASE ReturnRead(c, "error", {}) \/ ReturnRead(c, "notFound", {})
    BY <1>R, <2>1, <2>2
  <2>3. /\ cur[c].resource \in Resolutions(CallOf(c).resource)
        /\ cur[c].name \notin names[c]
    BY <1>I, <2>1 DEF ReadSoFar, ReadingPC
  <2>4. CASE /\ cur' = [cur EXCEPT ![c].value = values[CurKey(c)]]
             /\ GoTo(c, "metric")
             /\ UNCHANGED <<valuesLock, req, names, items, reply>>
    <3>1. /\ cur'[c].resource = cur[c].resource /\ cur'[c].name = cur[c].name
          /\ \A d \in Clients \ {c} : cur'[d] = cur[d]
      BY <1>T, <2>4 DEF Lookups
    <3>2. pc'[c] = "metric"
      BY <1>M, <2>4
    <3>3. Pending(c)' = Pending(c)
      BY <2>1, <2>4, <3>1, <3>2 DEF Pending
    <3>4. ReadSoFar(c)' /\ WriteSoFar(c)'
      BY <1>I, <2>1, <2>3, <2>4, <3>1, <3>2, <3>3, ContinueRead DEF ReadingPC
    <3> QED BY <2>1, <2>4, <3>1, <3>4, MoveLinear
  <2>5. CASE /\ CurKey(c) \notin DOMAIN values /\ CallOf(c).op # "byName"
             /\ GoTo(c, "next") /\ UNCHANGED <<valuesLock, req, locals, reply>>
    <3>1. pc'[c] = "next" /\ UNCHANGED <<req, names, cur, items>>
      BY <1>M, <2>5 DEF locals
    <3>2. cur[c].name \in AllNames
      BY <2>1, CurName
    <3>3. items'[c] = items[c] \cup FoundUnder(values, CurKey(c), cur[c].resource)
      BY <2>5, <3>1 DEF FoundUnder
    <3>4. ReadSoFar(c)' /\ WriteSoFar(c)'
      BY <1>I, <2>1, <2>3, <2>5, <3>1, <3>2, <3>3, FinishName
    <3> QED BY <2>1, <2>5, <3>1, <3>4, MoveLinear
  <2> QED BY <1>13, <2>2, <2>4, <2>5 DEF ValueFor, NotFound
<1>14. ASSUME NEW c \in Clients, MetricFor(c) PROVE LinearInv'
  <2>1. pc[c] = "metric" /\ UNCHANGED values
    BY <1>14 DEF MetricFor
  <2>2. CASE /\ Matches(CallOf(c).resource)
             /\ items' = [items EXCEPT ![c] = @ \cup
                            {[key   |-> CurKey(c), value |-> cur[c].value,
                              kind  |-> mapping[CallOf(c).resource]]}]
             /\ GoTo(c, "next")
             /\ UNCHANGED <<valuesLock, req, names, cur, reply>>
    <3>1. pc'[c] = "next" /\ UNCHANGED <<values, req, names>>
      BY <1>M, <2>1, <2>2
    <3>2. CurKey(c) \in DOMAIN values /\ values[CurKey(c)] = cur[c].value
      BY <2>1 DEF ItemsAreCurrent
    <3>3. cur[c].name \in AllNames
      BY <2>1, CurName
    <3>4. mapping[CallOf(c).resource] \in Resolutions(CallOf(c).resource)
      BY <1>T, <2>2, MappedResolution
    <3>5. /\ items'[c] = items[c] \cup
               {[key |-> CurKey(c), value |-> cur[c].value,
                 kind |-> mapping[CallOf(c).resource]]}
          /\ \A d \in Clients \ {c} : items'[d] = items[d]
      BY <1>T, <2>2
    <3>6. items'[c] = items[c] \cup FoundUnder(values, CurKey(c),
                                               mapping[CallOf(c).resource])
      BY <3>2, <3>5 DEF FoundUnder
    <3>7. ReadSoFar(c)' /\ WriteSoFar(c)'
      BY <1>I, <2>1, <3>1, <3>2, <3>3, <3>4, <3>6, FinishName
    <3> QED BY <2>1, <2>2, <3>5, <3>7, MoveLinear
  <2>3. CASE ReturnRead(c, "error", {})
    BY <1>R, <2>1, <2>3
  <2> QED BY <1>14, <2>2, <2>3 DEF MetricFor
<1>15. ASSUME NEW c \in Clients, ReturnItems(c) PROVE LinearInv'
  BY <1>15, <1>R DEF ReturnItems
<1> QED
  BY <1>1, <1>3, <1>4, <1>5, <1>6, <1>7, <1>8, <1>10, <1>11, <1>12, <1>13,
     <1>14, <1>15 DEF Next, Serve

\* The four parts hold together in every state.
LEMMA LinearHolds ==
    Spec => [](TypeOK /\ ExclusionInv /\ ItemsAreCurrent /\ LinearInv)
<1>1. Init => LinearInv
  BY DEF Init, LinearInv, ReadSoFar, WriteSoFar, ReadingPC
<1>2. TypeOK /\ ExclusionInv /\ ItemsAreCurrent /\ LinearInv /\ [Next]_vars => LinearInv'
  BY LinearStep
<1> QED BY <1>1, <1>2, InvHolds, PTL DEF Spec

-----------------------------------------------------------------------------
(* Every step is a step of MetricStore, or changes nothing that it sees *)

\* Returning from a handler is a reply of the abstract store.
LEMMA ReturnReplies ==
    ASSUME NEW c, NEW status, NEW found, NEW lock, Return(c, status, found, lock)
    PROVE  Store!Reply(c, status, found)
BY DEF Return, Store!Reply, Store!Answer

\* The answer of a read is that of MetricStore, for some resolutions.
LEMMA ReadAnswers ==
    ASSUME NEW c \in Clients, NEW objects,
           NEW resource \in [objects -> Resolutions(CallOf(c).resource)],
           NEW kind \in [objects -> Resolutions(CallOf(c).resource)],
           \/ /\ CallOf(c).op = "byName"
              /\ \A n \in objects : KeyOf(CallOf(c), resource[n], n) \notin DOMAIN values
              /\ Store!Reply(c, "notFound", {})
           \/ /\ CallOf(c).op = "byName" =>
                   \E n \in objects : KeyOf(CallOf(c), resource[n], n) \in DOMAIN values
              /\ Store!Reply(c, "ok", FoundIn(values, CallOf(c), objects, resource, kind))
    PROVE  Store!Read(c, objects)
<1>1. Store!ReadCall(req[c].path, Store!Missing) = CallOf(c)
  BY SameReads DEF CallOf
<1> DEFINE call == Store!ReadCall(req[c].path, Store!Missing)
           key(n) == Store!KeyOf(call, resource[n], n)
           found == {n \in objects : key(n) \in DOMAIN values}
           answer == {[key |-> key(n), value |-> values[key(n)], kind |-> kind[n]] :
                        n \in found}
<1>2. \A n : key(n) = KeyOf(CallOf(c), resource[n], n)
  BY <1>1, SameKeys
<1> HIDE DEF key
<1>3. answer = FoundIn(values, CallOf(c), objects, resource, kind)
  BY <1>2 DEF FoundIn
<1>4. found = {} <=> \A n \in objects :
                        KeyOf(CallOf(c), resource[n], n) \notin DOMAIN values
  BY <1>2
<1> HIDE DEF found, answer
<1>5. IF call.op = "byName" /\ found = {}
      THEN Store!Reply(c, "notFound", {})
      ELSE Store!Reply(c, "ok", answer)
  BY <1>1, <1>3, <1>4
<1> QED BY <1>1, <1>5 DEF Store!Read, answer, found, key

\* Every step of the provider is a step of the abstract store, or none.
LEMMA StoreStep ==
    ASSUME TypeOK, ExclusionInv, ItemsAreCurrent, LinearInv, [Next]_vars
    PROVE  [Store!StoreNext]_(Store!storeVars)
<1> DEFINE Goal == [Store!StoreNext]_(Store!storeVars)
<1>T. /\ mapping \in Delegates
      /\ pc \in [Clients -> {"idle", "rlock"} \cup WritingPC \cup ReadingPC]
      /\ req \in [Clients -> Requests \cup {NoRequest}]
  BY DEF TypeOK
<1>I. \A c \in Clients : ReadSoFar(c) /\ WriteSoFar(c)
  BY DEF LinearInv
<1>S. ASSUME UNCHANGED <<values, req, reply>> PROVE Goal
  BY <1>S DEF Store!storeVars
<1>N. \A c \in Clients : pc[c] # "idle" => req[c] # NoRequest
  BY DEF TypeOK
\* A read that is refused.
<1>E. ASSUME NEW c \in Clients, pc[c] # "idle", UNCHANGED values, NEW lock,
             Return(c, "error", {}, lock)
      PROVE  Goal
  <2>1. Store!Refuse(c)
    BY <1>E, <1>N, ReturnReplies DEF Store!Refuse
  <2> QED BY <2>1 DEF Store!StoreNext
\* A read that is answered: by MetricStore, with the same objects.
<1>R. ASSUME NEW c \in Clients, pc[c] \in ReadingPC, UNCHANGED values,
             NEW objects, Asked(CallOf(c), objects), Store!Read(c, objects)
      PROVE  Goal
  <2>1. req[c] # NoRequest /\ req[c].verb = "get"
    BY <1>R, <1>N DEF TypeOK, ReadingPC
  <2>2. Store!ReadCall(req[c].path, Store!Missing) = CallOf(c)
    BY SameReads DEF CallOf
  <2>3. CallOf(c).op \in {"byName", "bySelector"}
    BY <1>I, <1>R DEF ReadSoFar
  <2>4. CASE CallOf(c).op = "byName"
    <3>1. Store!ReadOne(c)
      BY <1>R, <2>1, <2>2, <2>4 DEF Store!ReadOne, Asked
    <3> QED BY <3>1 DEF Store!StoreNext
  <2>5. CASE CallOf(c).op = "bySelector"
    <3>1. Store!ReadMatching(c)
      BY <1>R, <2>1, <2>2, <2>5 DEF Store!ReadMatching, Asked
    <3> QED BY <3>1 DEF Store!StoreNext
  <2> QED BY <2>3, <2>4, <2>5
<1>1. CASE ReplaceDelegate \/ UNCHANGED vars
  BY <1>1, <1>S DEF ReplaceDelegate, vars
<1>2. ASSUME NEW c \in Clients, Post(c) \/ Get(c) PROVE Goal
  <2>1. PICK r \in Requests : req' = [req EXCEPT ![c] = r]
    BY <1>2 DEF Post, Get
  <2>2. /\ pc[c] = "idle" /\ UNCHANGED values
        /\ reply' = [reply EXCEPT ![c] = NoReply]
    BY <1>2 DEF Post, Get
  <2>3. req[c] = NoRequest
    BY <2>2 DEF TypeOK
  <2>4. Store!Call(c, r)
    BY <2>1, <2>2, <2>3 DEF Store!Call, Store!Answer, NoReply
  <2> QED BY <2>4 DEF Store!StoreNext
<1>3. ASSUME NEW c \in Clients,
             PostLock(c) \/ PostResolve(c) \/ PostSingular(c) \/ GetMetricByName(c)
      PROVE  Goal
  BY <1>3, <1>S DEF PostLock, PostResolve, PostSingular, GetMetricByName
<1>4. ASSUME NEW c \in Clients, PostBody(c) PROVE Goal
  BY <1>4, <1>S, <1>E DEF PostBody
<1>5. ASSUME NEW c \in Clients, PostStore(c) PROVE Goal
  <2>1. /\ pc[c] = "store" /\ values' = Put(values, StoredKey(c), cur[c].value)
        /\ Return(c, "ok", {}, Unlock(valuesLock))
    BY <1>5 DEF PostStore
  <2>2. req[c] # NoRequest /\ req[c].verb = "post"
    BY <1>N, <2>1 DEF TypeOK, WritingPC, AlonePC
  <2> DEFINE call == WriteCall(req[c].path)
  <2>3. /\ cur[c].resource \in WriteResolutions(call.resource)
        /\ cur[c].name = call.name /\ cur[c].value = req[c].value
    BY <1>I, <2>1 DEF WriteSoFar
  <2>4. values' = Put(values, KeyOf(call, cur[c].resource, call.name), req[c].value)
    BY <2>1, <2>3 DEF StoredKey
  <2>5. values' = Store!Put(values, Store!KeyOf(call, cur[c].resource, call.name),
                            req[c].value)
    BY <2>4, SameKeys
  <2>6. Store!Reply(c, "ok", {})
    BY <2>1, ReturnReplies
  <2>7. Store!WriteCall(req[c].path) = call
    BY SameWrites
  <2> HIDE DEF call
  <2>8. Store!Write(c)
    BY <2>2, <2>3, <2>5, <2>6, <2>7 DEF Store!Write
  <2> QED BY <2>8 DEF Store!StoreNext
<1>6. ASSUME NEW c \in Clients, ListAllMetrics(c) PROVE Goal
  <2>1. /\ pc[c] = "rlock" /\ req[c].verb = "list" /\ UNCHANGED values
        /\ Store!Reply(c, "ok", {APIResource(InfoOf(key)) : key \in DOMAIN values})
    BY <1>6, ReturnReplies DEF ListAllMetrics, Granted, ReturnRead
  <2>2. {Store!APIResource(Store!InfoOf(key)) : key \in DOMAIN values}
          = {APIResource(InfoOf(key)) : key \in DOMAIN values}
    BY SameKeys
  <2>3. Store!ListAll(c)
    BY <1>N, <2>1, <2>2 DEF Store!ListAll
  <2> QED BY <2>3 DEF Store!StoreNext
<1>7. ASSUME NEW c \in Clients, ListAllExternalMetrics(c) \/ GetExternalMetric(c)
      PROVE  Goal
  <2>1. pc[c] = "rlock" /\ UNCHANGED values
    BY <1>7 DEF ListAllExternalMetrics, GetExternalMetric, Granted
  <2>2. \/ req[c].verb = "listExternal" /\ Store!Reply(c, "ok", ExternalResources)
        \/ /\ req[c].verb = "external"
           /\ Store!Reply(c, "ok", MatchingExternal(ExternalCall(req[c].path).metric,
                                                    req[c].selector))
    BY <1>7, ReturnReplies DEF ListAllExternalMetrics, GetExternalMetric, ReturnRead
  <2>3. Store!External(c)
    BY <1>N, <2>1, <2>2, SameExternals DEF Store!External
  <2> QED BY <2>3 DEF Store!StoreNext
<1>8. ASSUME NEW c \in Clients, ListObjectNames(c) PROVE Goal
  BY <1>8, <1>S, <1>E DEF ListObjectNames, ReturnRead, Granted
<1>9. ASSUME NEW c \in Clients, ResourceFor(c) PROVE Goal
  <2>1. pc[c] = "next" /\ UNCHANGED values
    BY <1>9 DEF ResourceFor
  <2>2. CASE Matches(CallOf(c).resource)
    BY <1>9, <1>S, <2>1, <2>2 DEF ResourceFor
  <2>3. CASE ~Matches(CallOf(c).resource)
    BY <1>9, <1>E, <2>1, <2>3 DEF ResourceFor, ReturnRead
  <2> QED BY <2>2, <2>3
<1>10. ASSUME NEW c \in Clients, ValueFor(c) PROVE Goal
  <2>1. pc[c] = "value" /\ UNCHANGED values
    BY <1>10 DEF ValueFor
  <2>2. CASE ReturnRead(c, "error", {})
    BY <1>E, <2>1, <2>2 DEF ReturnRead
  <2>3. CASE UNCHANGED <<req, reply>>
    BY <1>S, <2>1, <2>3
  <2>4. CASE /\ CurKey(c) \notin DOMAIN values /\ CallOf(c).op = "byName"
             /\ ReturnRead(c, "notFound", {})
    <3>1. cur[c].resource \in Resolutions(CallOf(c).resource)
      BY <1>I, <2>1 DEF ReadSoFar, ReadingPC
    <3>2. cur[c].name = CallOf(c).name
      <4>1. PICK done : Asked(CallOf(c), done \cup Pending(c))
        BY <1>I, <2>1 DEF ReadSoFar, ReadingPC, Collected
      <4> QED BY <2>1, <2>4, <4>1 DEF Asked, Pending
    <3> DEFINE objects == {CallOf(c).name}
               resource == [n \in objects |-> cur[c].resource]
    <3>3. resource \in [objects -> Resolutions(CallOf(c).resource)]
      BY <3>1
    <3>4. \A n \in objects : KeyOf(CallOf(c), resource[n], n) \notin DOMAIN values
      BY <2>4, <3>2 DEF CurKey
    <3>5. Store!Reply(c, "notFound", {})
      BY <2>4, ReturnReplies DEF ReturnRead
    <3>6. Asked(CallOf(c), objects)
      BY <2>4 DEF Asked
    <3> HIDE DEF objects, resource
    <3>7. Store!Read(c, objects)
      BY <2>4, <3>3, <3>4, <3>5, ReadAnswers
    <3> QED BY <1>R, <2>1, <3>6, <3>7 DEF ReadingPC
  <2> QED BY <1>10, <2>2, <2>3, <2>4 DEF ValueFor, NotFound
<1>11. ASSUME NEW c \in Clients, MetricFor(c) PROVE Goal
  BY <1>11, <1>S, <1>E DEF MetricFor, ReturnRead
<1>12. ASSUME NEW c \in Clients, ReturnItems(c) PROVE Goal
  <2>1. /\ pc[c] = "next" /\ names[c] = {} /\ UNCHANGED values
        /\ Store!Reply(c, "ok", items[c])
    BY <1>12, ReturnReplies DEF ReturnItems, ReturnRead
  <2> DEFINE answers == Resolutions(CallOf(c).resource)
  <2>2. PICK done : \E resource, kind \in [done -> answers] :
               Collected(c, done, resource, kind)
    BY <1>I, <2>1 DEF ReadSoFar, ReadingPC
  <2>3. PICK resource \in [done -> answers], kind \in [done -> answers] :
               Collected(c, done, resource, kind)
    BY <2>2
  <2>4. Pending(c) = {}
    BY <2>1 DEF Pending
  <2>5. /\ Asked(CallOf(c), done)
        /\ items[c] = FoundIn(values, CallOf(c), done, resource, kind)
        /\ CallOf(c).op = "byName" =>
             \A n \in done : KeyOf(CallOf(c), resource[n], n) \in DOMAIN values
    BY <2>3, <2>4 DEF Collected
  <2>6. CallOf(c).op = "byName" =>
          \E n \in done : KeyOf(CallOf(c), resource[n], n) \in DOMAIN values
    BY <2>5 DEF Asked
  <2>7. Store!Read(c, done)
    BY <2>1, <2>3, <2>5, <2>6, ReadAnswers
  <2> QED BY <1>R, <2>1, <2>5, <2>7 DEF ReadingPC
<1> QED
  BY <1>1, <1>2, <1>3, <1>4, <1>5, <1>6, <1>7, <1>8, <1>9, <1>10, <1>11, <1>12
  DEF Next, Serve

\* The testing provider implements MetricStore: every request to it takes
\* effect at one moment between its call and its answer or fails without
\* effect, although a selector read asks the mapper, the API server and the
\* map object by object, and the mapper may be replaced in between.
THEOREM ProviderIsAtomic == Spec => RequestsAreAtomic
<1>1. Init => Store!StoreInit
  BY DEF Init, Store!StoreInit, Store!EmptyMap, EmptyMap, Store!Answer, NoReply
<1>2. TypeOK /\ ExclusionInv /\ ItemsAreCurrent /\ LinearInv /\ [Next]_vars
        => [Store!StoreNext]_(Store!storeVars)
  BY StoreStep
<1> QED BY <1>1, <1>2, LinearHolds, PTL DEF Spec, RequestsAreAtomic, Store!StoreSpec

-----------------------------------------------------------------------------
(***************************************************************************)
(* Reads find what was written.  The property is about metrics of objects: *)
(* a write path is one that the API reads a single object's metric from,   *)
(* not one of a namespace, whose writes and reads disagree (see            *)
(* WritePathIsReadPath), and every delegate resolves what is written, since *)
(* a value whose resource is unknown is stored under the spelling.         *)
(***************************************************************************)
ObjectPath(p) ==
    /\ ~Reserved(p) /\ ~NamespaceSpecificPath(p)
    /\ ReadCall(p, Missing).op = "byName"

(***************************************************************************)
(* The inductive invariant: the map holds what was accepted, under the     *)
(* metrics that the clients wrote, and a request under way keeps to what   *)
(* the mapper told it first, however often the mapper is replaced.         *)
(***************************************************************************)
WritesAsTold(c) ==
    pc[c] \in {"singular", "store"} =>
      /\ resolved[c] # NoMatch
      /\ cur[c].resource = resolved[c]
      /\ cur[c].name = WriteCall(req[c].path).name
      /\ cur[c].value = req[c].value

ReadsAsTold(c) ==
    pc[c] \in ReadingPC /\ req[c].path \in WritePaths =>
      LET metric == MetricAt(req[c].path, resolved[c])
      IN  /\ pc[c] \in {"value", "metric"} =>
               CurKey(c) = metric /\ items[c] = {} /\ names[c] = {}
          /\ pc[c] = "next" =>
               \/ names[c] = {CallOf(c).name} /\ items[c] = {}
               \/ /\ names[c] = {} /\ items[c] # {}
                  /\ \A i \in items[c] : i.key = metric

HistoryInv ==
    /\ acked = values
    /\ \A c \in Clients : WritesAsTold(c) /\ ReadsAsTold(c)

\* A write and a read of the same object's path are of the same metric.
LEMMA SamePath ==
    ASSUME NEW Segments, Missing \notin Segments, WritePaths \subseteq Seq(Segments),
           NEW p \in WritePaths, ObjectPath(p), NEW r
    PROVE  /\ MetricAt(p, r) = KeyOf(WriteCall(p), r, WriteCall(p).name)
           /\ WriteCall(p).resource = ReadCall(p, Missing).resource
<1>1. ReadRouted(p) /\ p \in Seq(Segments)
  BY PathsAssumption
<1>2. ReadCall(p, Missing) # BadRequest
  BY DEF ObjectPath, BadRequest
<1>3. SameMetric(WriteCall(p), ReadCall(p, Missing))
  BY <1>1, <1>2, WriteExact DEF ObjectPath
<1> QED BY <1>3 DEF SameMetric, MetricAt, KeyOf

\* What a step of one goroutine leaves alone.
Alone(c) ==
    \A d \in Clients \ {c} :
      /\ pc'[d] = pc[d] /\ req'[d] = req[d] /\ names'[d] = names[d]
      /\ cur'[d] = cur[d] /\ items'[d] = items[d]

\* The goroutines that do not move keep to what they were told.
LEMMA OthersAsTold ==
    ASSUME TypeOK, HistoryInv, HNext, NEW c \in Clients, Alone(c),
           acked' = values', WritesAsTold(c)', ReadsAsTold(c)'
    PROVE  HistoryInv'
<1>1. ASSUME NEW d \in Clients \ {c} PROVE WritesAsTold(d)' /\ ReadsAsTold(d)'
  <2>1. resolved'[d] = resolved[d]
    BY DEF HNext, Resolves, Alone
  <2> QED BY <2>1 DEF HistoryInv, Alone, WritesAsTold, ReadsAsTold, CurKey, CallOf
<1> QED BY <1>1 DEF HistoryInv

\* Only PostStore accepts a value.
LEMMA NothingAccepted ==
    ASSUME TypeOK, HNext, NEW c \in Clients, Alone(c), pc[c] # "store"
    PROVE  acked' = acked
<1>1. ASSUME NEW d \in Clients PROVE ~Stores(d)
  <2>1. CASE d = c
    BY <2>1 DEF Stores
  <2>2. CASE d # c
    BY <2>2 DEF Stores, Alone, TypeOK
  <2> QED BY <2>1, <2>2
<1> QED BY <1>1 DEF HNext

\* A request that returns is through with what it was told.
LEMMA ReturnAlone ==
    ASSUME TypeOK, NEW c \in Clients, NEW status, NEW found, NEW lock,
           Return(c, status, found, lock)
    PROVE  /\ Alone(c) /\ pc'[c] = "idle" /\ req'[c] = NoRequest
           /\ reply'[c] = [status |-> status, items |-> found]
BY DEF Return, GoTo, TypeOK, Alone

\* So is one that is at a stage where it has been told nothing.
LEMMA QuietStep ==
    ASSUME TypeOK, HistoryInv, HNext, NEW c \in Clients, Alone(c),
           pc[c] # "store", values' = values,
           pc'[c] \notin {"singular", "store"} \cup ReadingPC
    PROVE  HistoryInv'
<1>1. acked' = values'
  BY NothingAccepted DEF HistoryInv
<1>2. WritesAsTold(c)' /\ ReadsAsTold(c)'
  BY DEF WritesAsTold, ReadsAsTold
<1> QED BY <1>1, <1>2, OthersAsTold

\* A read that goes on, at an object's path.
LEMMA ReadGoesOn ==
    ASSUME TypeOK, HistoryInv, HNext, NEW c \in Clients, Alone(c),
           pc[c] # "store", values' = values, req' = req,
           pc'[c] \in ReadingPC, req[c].path \in WritePaths => ReadsAsTold(c)'
    PROVE  HistoryInv'
<1>1. acked' = values'
  BY NothingAccepted DEF HistoryInv
<1>2. WritesAsTold(c)' /\ ReadsAsTold(c)'
  BY DEF WritesAsTold, ReadsAsTold, ReadingPC
<1> QED BY <1>1, <1>2, OthersAsTold

\* Every step of a provider whose writes resolve keeps the history in line
\* with the map.
LEMMA HistoryStep ==
    ASSUME NEW Segments, Missing \notin Segments, WritePaths \subseteq Seq(Segments),
           \A p \in WritePaths : ObjectPath(p), WritesResolve,
           TypeOK, ExclusionInv, HistoryInv, [HNext]_hvars
    PROVE  HistoryInv'
<1>T. /\ mapping \in Delegates
      /\ pc \in [Clients -> {"idle", "rlock"} \cup WritingPC \cup ReadingPC]
      /\ req \in [Clients -> Requests \cup {NoRequest}]
      /\ names \in [Clients -> SUBSET AllNames]
      /\ cur \in [Clients -> Lookups]
      /\ items \in [Clients -> SUBSET MetricValues]
  BY DEF TypeOK
<1>0. CASE UNCHANGED hvars
  BY <1>0 DEF hvars, vars, HistoryInv, WritesAsTold, ReadsAsTold, CurKey, CallOf
<1> SUFFICES ASSUME HNext PROVE HistoryInv'
  BY <1>0
<1>R. DOMAIN resolved' = Clients /\ \A c \in Clients :
        Resolves(c) => resolved'[c] = mapping[CallOf(c).resource]
  BY DEF HNext, CallOf
<1>S. \A c \in Clients : ~Resolves(c) => resolved'[c] = resolved[c]
  BY DEF HNext
<1>W. ASSUME NEW c \in Clients, pc[c] \in AlonePC
      PROVE  req[c].path \in WritePaths /\ req[c] # NoRequest
  <2>1. req[c] \in Requests /\ req[c].verb = "post"
    BY <1>W DEF TypeOK, WritingPC, AlonePC
  <2> QED BY <2>1, PostType, SentinelAssumption
<1>1. CASE ReplaceDelegate
  <2>1. UNCHANGED <<values, pc, req, names, cur, items>>
    BY <1>1 DEF ReplaceDelegate, locals
  <2>2. \A c \in Clients : ~Stores(c) /\ ~Resolves(c)
    BY <2>1 DEF Stores, Resolves, TypeOK
  <2>3. acked' = acked /\ \A c \in Clients : resolved'[c] = resolved[c]
    BY <1>S, <2>2 DEF HNext
  <2> QED BY <2>1, <2>3 DEF HistoryInv, WritesAsTold, ReadsAsTold, CurKey, CallOf
<1>2. ASSUME NEW c \in Clients, Post(c) \/ Get(c) PROVE HistoryInv'
  <2>1. /\ GoTo(c, "lock") \/ GoTo(c, "rlock")
        /\ pc[c] = "idle" /\ UNCHANGED <<values, names, cur, items>>
        /\ \E r : req' = [req EXCEPT ![c] = r]
    BY <1>2 DEF Post, Get, locals
  <2>2. Alone(c) /\ pc'[c] \in {"lock", "rlock"}
    BY <1>T, <2>1 DEF Alone, GoTo
  <2> QED BY <2>1, <2>2, QuietStep DEF ReadingPC
<1>3. ASSUME NEW c \in Clients, NEW status, NEW found, NEW lock,
             Return(c, status, found, lock), values' = values, pc[c] # "store"
      PROVE  HistoryInv'
  BY <1>3, ReturnAlone, QuietStep DEF ReadingPC
<1>4. ASSUME NEW c \in Clients, PostLock(c) \/ PostBody(c) PROVE HistoryInv'
  <2>1. CASE Return(c, "error", {}, Unlock(valuesLock)) /\ PostBody(c)
    BY <1>3, <2>1 DEF PostBody
  <2>2. CASE ~(Return(c, "error", {}, Unlock(valuesLock)) /\ PostBody(c))
    <3>1. /\ GoTo(c, "body") \/ GoTo(c, "resolve")
          /\ pc[c] \in {"lock", "body"} /\ UNCHANGED <<values, req, names, cur, items>>
      BY <1>4, <2>2 DEF PostLock, PostBody, locals
    <3>2. Alone(c) /\ pc'[c] \in {"body", "resolve"}
      BY <1>T, <3>1 DEF Alone, GoTo
    <3> QED BY <3>1, <3>2, QuietStep DEF ReadingPC
  <2> QED BY <2>1, <2>2
<1>5. ASSUME NEW c \in Clients, PostResolve(c) PROVE HistoryInv'
  <2> DEFINE call == WriteCall(req[c].path)
  <2>1. /\ pc[c] = "resolve" /\ UNCHANGED <<values, req, names, items>>
        /\ cur' = [cur EXCEPT ![c] = [name     |-> call.name,
                                      resource |-> Normalized(call.resource),
                                      value    |-> req[c].value]]
        /\ GoTo(c, "singular") \/ GoTo(c, "store")
    BY <1>5 DEF PostResolve
  <2>2. /\ req[c].path \in WritePaths /\ req[c] # NoRequest
        /\ call.resource = CallOf(c).resource
    BY <1>W, <2>1, SamePath DEF AlonePC, CallOf
  <2>3. /\ Normalized(call.resource) = mapping[call.resource]
        /\ mapping[call.resource] # NoMatch
    BY <1>T, <2>2 DEF WritesResolve, Normalized, Matches
  <2>4. pc'[c] \in {"singular", "store"}
    BY <1>T, <2>1 DEF GoTo
  <2>5. resolved'[c] = mapping[call.resource]
    BY <1>R, <2>1, <2>2, <2>4 DEF Resolves
  <2>6. /\ cur'[c].resource = resolved'[c] /\ resolved'[c] # NoMatch
        /\ cur'[c].name = call.name /\ cur'[c].value = req[c].value
    BY <1>T, <2>1, <2>3, <2>5
  <2>7. WritesAsTold(c)' /\ ReadsAsTold(c)'
    BY <2>1, <2>4, <2>6 DEF WritesAsTold, ReadsAsTold, ReadingPC
  <2>8. Alone(c)
    BY <1>T, <2>1 DEF Alone, GoTo
  <2>9. acked' = values'
    BY <2>1, <2>8, NothingAccepted DEF HistoryInv
  <2> QED BY <2>7, <2>8, <2>9, OthersAsTold
<1>6. ASSUME NEW c \in Clients, PostSingular(c) PROVE HistoryInv'
  <2>1. /\ pc[c] = "singular" /\ UNCHANGED <<values, req, names, cur, items>>
        /\ GoTo(c, "store")
    BY <1>6 DEF PostSingular, locals
  <2>2. Alone(c) /\ pc'[c] = "store"
    BY <1>T, <2>1 DEF Alone, GoTo
  <2>3. resolved'[c] = resolved[c]
    BY <1>S, <2>1 DEF Resolves
  <2>4. WritesAsTold(c)' /\ ReadsAsTold(c)'
    BY <2>1, <2>2, <2>3 DEF HistoryInv, WritesAsTold, ReadsAsTold, ReadingPC
  <2>5. acked' = values'
    BY <2>1, <2>2, NothingAccepted DEF HistoryInv
  <2> QED BY <2>2, <2>4, <2>5, OthersAsTold
<1>7. ASSUME NEW c \in Clients, PostStore(c) PROVE HistoryInv'
  <2>1. /\ pc[c] = "store" /\ values' = Put(values, StoredKey(c), cur[c].value)
        /\ Return(c, "ok", {}, Unlock(valuesLock))
    BY <1>7 DEF PostStore
  <2>2. Alone(c) /\ pc'[c] = "idle" /\ req'[c] = NoRequest
    BY <2>1, ReturnAlone
  <2>3. \A d \in Clients : Stores(d) <=> d = c
    BY <2>1, <2>2 DEF Stores, Alone, TypeOK
  <2>4. /\ resolved[c] # NoMatch /\ cur[c].resource = resolved[c]
        /\ cur[c].name = WriteCall(req[c].path).name /\ cur[c].value = req[c].value
    BY <2>1 DEF HistoryInv, WritesAsTold
  <2>5. acked' = Put(acked, MetricAt(req[c].path, resolved[c]), req[c].value)
    BY <2>3, <2>4 DEF HNext
  <2>6. MetricAt(req[c].path, resolved[c]) = StoredKey(c)
    BY <1>W, <2>1, <2>4, SamePath DEF AlonePC, StoredKey
  <2>7. acked' = values'
    BY <2>1, <2>4, <2>5, <2>6 DEF HistoryInv
  <2>8. WritesAsTold(c)' /\ ReadsAsTold(c)'
    BY <2>2 DEF WritesAsTold, ReadsAsTold, ReadingPC
  <2> QED BY <2>2, <2>7, <2>8, OthersAsTold
<1>8. ASSUME NEW c \in Clients,
             \/ ListAllMetrics(c) \/ ListAllExternalMetrics(c)
             \/ GetExternalMetric(c) \/ ReturnItems(c)
      PROVE  HistoryInv'
  BY <1>3, <1>8 DEF ListAllMetrics, ListAllExternalMetrics, GetExternalMetric,
       ReturnItems, ReturnRead, Granted
<1>9. ASSUME NEW c \in Clients, GetMetricByName(c) PROVE HistoryInv'
  <2>1. /\ pc[c] = "rlock" /\ UNCHANGED <<values, req, cur, items>>
        /\ names' = [names EXCEPT ![c] = {CallOf(c).name}]
        /\ GoTo(c, "next")
    BY <1>9 DEF GetMetricByName, Granted
  <2>2. Alone(c) /\ pc'[c] = "next" /\ names'[c] = {CallOf(c).name}
    BY <1>T, <2>1 DEF Alone, GoTo
  <2>3. items'[c] = {}
    BY <2>1 DEF ExclusionInv, OnlyReadersCollect, ReadingPC
  <2>4. ReadsAsTold(c)'
    BY <2>1, <2>2, <2>3 DEF ReadsAsTold, CallOf
  <2> QED BY <2>1, <2>2, <2>4, ReadGoesOn DEF ReadingPC
<1>N. ASSUME NEW c \in Clients, req[c].path \in WritePaths
      PROVE  CallOf(c).op = "byName"
  BY <1>N DEF ObjectPath, CallOf
<1>10. ASSUME NEW c \in Clients, ListObjectNames(c) PROVE HistoryInv'
  <2>1. CASE ReturnRead(c, "error", {})
    BY <1>3, <1>10, <2>1 DEF ListObjectNames, ReturnRead, Granted
  <2>2. CASE ~ReturnRead(c, "error", {})
    <3>1. /\ pc[c] = "rlock" /\ UNCHANGED <<values, req, cur, items>>
          /\ \E listed : names' = [names EXCEPT ![c] = listed]
          /\ GoTo(c, "next") /\ CallOf(c).op = "bySelector"
      BY <1>10, <2>2 DEF ListObjectNames, Granted
    <3>2. Alone(c) /\ pc'[c] = "next"
      BY <1>T, <3>1 DEF Alone, GoTo
    <3> QED BY <1>N, <3>1, <3>2, ReadGoesOn DEF ReadingPC
  <2> QED BY <2>1, <2>2
<1>11. ASSUME NEW c \in Clients, ResourceFor(c) PROVE HistoryInv'
  <2>1. CASE ReturnRead(c, "error", {})
    BY <1>3, <1>11, <2>1 DEF ResourceFor, ReturnRead
  <2>2. CASE ~ReturnRead(c, "error", {})
    <3>1. /\ pc[c] = "next" /\ names[c] # {} /\ UNCHANGED <<values, req, items>>
          /\ GoTo(c, "value")
      BY <1>11, <2>2 DEF ResourceFor
    <3>2. PICK n \in names[c] :
            /\ names' = [names EXCEPT ![c] = @ \ {n}]
            /\ cur' = [cur EXCEPT ![c] =
                         [name |-> n, resource |-> mapping[CallOf(c).resource],
                          value |-> NoValue]]
      BY <1>11, <2>2 DEF ResourceFor
    <3>3. Alone(c) /\ pc'[c] = "value" /\ names'[c] = names[c] \ {n}
      BY <1>T, <3>1, <3>2 DEF Alone, GoTo
    <3>4. cur'[c].name = n /\ cur'[c].resource = mapping[CallOf(c).resource]
      BY <1>T, <3>2
    <3>5. resolved'[c] = mapping[CallOf(c).resource]
      BY <1>R, <3>1, <3>3 DEF Resolves
    <3>6. ASSUME req[c].path \in WritePaths PROVE ReadsAsTold(c)'
      <4>1. names[c] = {CallOf(c).name} /\ items[c] = {}
        BY <3>1, <3>6 DEF HistoryInv, ReadsAsTold, ReadingPC
      <4>2. names'[c] = {} /\ items'[c] = {} /\ cur'[c].name = CallOf(c).name
        BY <3>1, <3>3, <3>4, <4>1
      <4>3. CurKey(c)' = MetricAt(req[c].path, resolved[c])'
        BY <3>1, <3>4, <3>5, <4>2 DEF CurKey, CallOf, MetricAt
      <4> QED BY <3>3, <4>2, <4>3 DEF ReadsAsTold
    <3> QED BY <3>1, <3>3, <3>6, ReadGoesOn DEF ReadingPC
  <2> QED BY <2>1, <2>2
<1>12. ASSUME NEW c \in Clients, ValueFor(c) PROVE HistoryInv'
  <2>1. CASE ReturnRead(c, "error", {}) \/ ReturnRead(c, "notFound", {})
    BY <1>3, <1>12, <2>1 DEF ValueFor, ReturnRead
  <2>2. CASE ~(ReturnRead(c, "error", {}) \/ ReturnRead(c, "notFound", {}))
    <3>1. /\ pc[c] = "value" /\ UNCHANGED <<values, req, names, items>>
          /\ \/ /\ GoTo(c, "metric")
                /\ cur' = [cur EXCEPT ![c].value = values[CurKey(c)]]
             \/ GoTo(c, "next") /\ cur' = cur /\ CallOf(c).op # "byName"
      BY <1>12, <2>2 DEF ValueFor, NotFound, locals
    <3>2. /\ Alone(c) /\ pc'[c] \in {"metric", "next"}
          /\ cur'[c].name = cur[c].name /\ cur'[c].resource = cur[c].resource
      BY <1>T, <3>1 DEF Alone, GoTo, Lookups
    <3>3. resolved'[c] = resolved[c]
      BY <1>S, <3>1 DEF Resolves
    <3>4. ASSUME req[c].path \in WritePaths PROVE ReadsAsTold(c)'
      <4>1. pc'[c] = "metric"
        BY <1>T, <1>N, <3>1, <3>4 DEF GoTo
      <4>2. /\ CurKey(c) = MetricAt(req[c].path, resolved[c])
            /\ items[c] = {} /\ names[c] = {}
        BY <3>1, <3>4 DEF HistoryInv, ReadsAsTold, ReadingPC
      <4>3. CurKey(c)' = CurKey(c)
        BY <3>1, <3>2 DEF CurKey, CallOf
      <4> QED BY <3>1, <3>3, <4>1, <4>2, <4>3 DEF ReadsAsTold
    <3> QED BY <3>1, <3>2, <3>4, ReadGoesOn DEF ReadingPC
  <2> QED BY <2>1, <2>2
<1>13. ASSUME NEW c \in Clients, MetricFor(c) PROVE HistoryInv'
  <2>1. CASE ReturnRead(c, "error", {})
    BY <1>3, <1>13, <2>1 DEF MetricFor, ReturnRead
  <2>2. CASE ~ReturnRead(c, "error", {})
    <3>1. /\ pc[c] = "metric" /\ UNCHANGED <<values, req, names, cur>>
          /\ \E k : items' = [items EXCEPT ![c] = @ \cup
                      {[key |-> CurKey(c), value |-> cur[c].value, kind |-> k]}]
          /\ GoTo(c, "next")
      BY <1>13, <2>2 DEF MetricFor
    <3>2. /\ Alone(c) /\ pc'[c] = "next"
          /\ \E k : items'[c] = items[c] \cup
                      {[key |-> CurKey(c), value |-> cur[c].value, kind |-> k]}
      BY <1>T, <3>1 DEF Alone, GoTo
    <3>3. resolved'[c] = resolved[c]
      BY <1>S, <3>1 DEF Resolves
    <3>4. ASSUME req[c].path \in WritePaths PROVE ReadsAsTold(c)'
      <4>1. /\ CurKey(c) = MetricAt(req[c].path, resolved[c])
            /\ items[c] = {} /\ names[c] = {}
        BY <3>1, <3>4 DEF HistoryInv, ReadsAsTold, ReadingPC
      <4>2. items'[c] # {} /\ \A i \in items'[c] : i.key = CurKey(c)
        BY <3>2, <4>1
      <4> QED BY <3>1, <3>2, <3>3, <4>1, <4>2 DEF ReadsAsTold
    <3> QED BY <3>1, <3>2, <3>4, ReadGoesOn DEF ReadingPC
  <2> QED BY <2>1, <2>2
<1> QED
  BY <1>1, <1>2, <1>4, <1>5, <1>6, <1>7, <1>8, <1>9, <1>10, <1>11, <1>12, <1>13
  DEF HNext, Next, Serve

\* What a read by name at an object's path answers, when it does.
LEMMA AnswerStep ==
    ASSUME \A p \in WritePaths : ObjectPath(p),
           TypeOK, ItemsAreCurrent, HistoryInv, Next,
           NEW c \in Clients, req[c] # NoRequest, req'[c] = NoRequest,
           req[c].verb = "get", req[c].path \in WritePaths
    PROVE  LET metric == MetricAt(req[c].path, resolved[c])
               told   == reply'[c]
           IN  /\ told.status = "ok" =>
                    /\ metric \in DOMAIN acked
                    /\ \A i \in told.items : i.value = acked[metric]
               /\ told.status = "notFound" => metric \notin DOMAIN acked
<1> DEFINE metric == MetricAt(req[c].path, resolved[c])
           told   == reply'[c]
<1>T. /\ req \in [Clients -> Requests \cup {NoRequest}]
      /\ CallOf(c).op = "byName" /\ acked = values
      /\ pc[c] \notin WritingPC
  BY DEF TypeOK, HistoryInv, ObjectPath, CallOf
<1>1. ASSUME NEW d \in Clients, d # c, Post(d) \/ Get(d) \/ Serve(d)
      PROVE  req'[c] = req[c]
  <2>1. CASE Post(d) \/ Get(d)
    BY <1>1, <1>T, <2>1 DEF Post, Get
  <2>2. CASE Serve(d)
    <3>1. \/ req' = req \/ \E status, found, lock : Return(d, status, found, lock)
      BY <2>2 DEF Serve, PostLock, PostBody, PostResolve, PostSingular,
           PostStore, ListAllMetrics, ListAllExternalMetrics, GetExternalMetric,
           GetMetricByName, ListObjectNames, ResourceFor, ValueFor, NotFound,
           MetricFor, ReturnItems, ReturnRead
    <3> QED BY <1>1, <1>T, <3>1 DEF Return
  <2> QED BY <1>1, <2>1, <2>2
<1>2. Post(c) \/ Get(c) \/ Serve(c)
  BY <1>1 DEF Next, ReplaceDelegate
<1>3. ~(Post(c) \/ Get(c))
  BY DEF Post, Get, TypeOK
<1>4. \/ ListObjectNames(c) \/ ResourceFor(c) \/ ValueFor(c) \/ MetricFor(c)
      \/ ReturnItems(c) \/ GetMetricByName(c)
  BY <1>2, <1>3, <1>T DEF Serve, PostLock, PostBody, PostResolve, PostSingular,
       PostStore, WritingPC, AlonePC, ListAllMetrics, ListAllExternalMetrics,
       GetExternalMetric
<1>5. CASE ReturnRead(c, "error", {})
  <2>1. told = [status |-> "error", items |-> {}]
    BY <1>5, ReturnAlone DEF ReturnRead
  <2> QED BY <2>1
<1>6. CASE ReturnItems(c)
  <2>1. /\ pc[c] = "next" /\ names[c] = {} /\ ReturnRead(c, "ok", items[c])
    BY <1>6 DEF ReturnItems
  <2>2. told = [status |-> "ok", items |-> items[c]]
    BY <2>1, ReturnAlone DEF ReturnRead
  <2>3. items[c] # {} /\ \A i \in items[c] : i.key = metric
    BY <2>1 DEF HistoryInv, ReadsAsTold, ReadingPC
  <2>4. \A i \in items[c] : i.key \in DOMAIN values /\ values[i.key] = i.value
    BY DEF ItemsAreCurrent
  <2> QED BY <1>T, <2>2, <2>3, <2>4
<1>7. CASE ValueFor(c) /\ ReturnRead(c, "notFound", {})
  <2>1. pc[c] = "value" /\ told = [status |-> "notFound", items |-> {}]
    BY <1>7, ReturnAlone DEF ReturnRead, ValueFor
  <2>2. CurKey(c) = metric
    BY <2>1 DEF HistoryInv, ReadsAsTold, ReadingPC
  <2>3. CASE CurKey(c) \notin DOMAIN values
    BY <1>T, <2>1, <2>2, <2>3
  <2>4. CASE CurKey(c) \in DOMAIN values
    <3>1. \/ ReturnRead(c, "error", {})
          \/ req' = req
      BY <1>7, <2>4 DEF ValueFor
    <3> QED BY <1>5, <3>1
  <2> QED BY <2>3, <2>4
<1> QED
  BY <1>T, <1>4, <1>5, <1>6, <1>7 DEF ListObjectNames, ResourceFor, ValueFor,
     NotFound, MetricFor, GetMetricByName

\* For any clients, delegates that resolve every written resource, and paths
\* of objects' metrics: a read by name answers with the value that was last
\* accepted for the metric its path resolves to, or that there was none,
\* however often the mapper is replaced between the write and the read or
\* during one of them.
THEOREM ReadsFindWrites ==
    ASSUME NEW Segments, Missing \notin Segments, WritePaths \subseteq Seq(Segments),
           \A p \in WritePaths : ObjectPath(p), WritesResolve
    PROVE  HSpec => ReadYourWrites
<1> DEFINE Inv == TypeOK /\ ExclusionInv /\ ItemsAreCurrent
<1>1. HSpec => Spec
  <2>1. HInit => Init
    BY DEF HInit
  <2>2. [HNext]_hvars => [Next]_vars
    BY DEF HNext, hvars
  <2> QED BY <2>1, <2>2, PTL DEF HSpec, Spec
<1>2. HInit => HistoryInv
  BY DEF HInit, Init, HistoryInv, WritesAsTold, ReadsAsTold, ReadingPC
<1>3. TypeOK /\ ExclusionInv /\ HistoryInv /\ [HNext]_hvars => HistoryInv'
  BY HistoryStep
<1>4. TypeOK /\ ItemsAreCurrent /\ HistoryInv /\ [HNext]_hvars
      => [\A c \in Clients :
            /\ req[c] # NoRequest /\ req'[c] = NoRequest
            /\ req[c].verb = "get" /\ req[c].path \in WritePaths
            => LET metric == MetricAt(req[c].path, resolved[c])
                   told   == reply'[c]
               IN  /\ told.status = "ok" =>
                        /\ metric \in DOMAIN acked
                        /\ \A i \in told.items : i.value = acked[metric]
                   /\ told.status = "notFound" => metric \notin DOMAIN acked]_hvars
  BY AnswerStep DEF HNext
<1> QED BY <1>1, <1>2, <1>3, <1>4, InvHolds, PTL DEF HSpec, ReadYourWrites
=============================================================================
