--------------------------- MODULE DynamicMapper ---------------------------
(***************************************************************************)
(* pkg/dynamicmapper/mapper.go: a REST mapper that is rebuilt from the     *)
(* API server's discovery documents.                                       *)
(*                                                                         *)
(* The goroutines are the one that runs the constructor (Main), one per    *)
(* RunUntil call (Loops) and those that call a lookup method (Callers).    *)
(* The API server is the environment: it changes what it serves, and its   *)
(* answers can fail.  A regeneration is not atomic: it lists /api, then    *)
(* /apis, then fetches each group-version, then waits for the lock, and    *)
(* the cluster, the lookups and the other goroutines run in between.       *)
(***************************************************************************)
EXTENDS Naturals, RWMutex

CONSTANTS
    GroupVersions,  \* the group-versions the API server may serve
    Legacy,         \* those listed under /api; the others are under /apis
    Main,           \* the goroutine that calls NewRESTMapper
    Loops,          \* the goroutines started by RunUntil
    Callers,        \* the goroutines that look something up
    Nil,            \* the delegate before the first regeneration
    MaxClock,       \* bound: the cluster changes MaxClock - 1 times
    MaxFaults       \* bound: number of discovery requests that fail

Regens == {Main} \cup Loops
Procs == Regens \cup Callers

(***************************************************************************)
(* What is known of one group-version.  rev identifies the resource list   *)
(* that was served (0: none).  at and ok are history: the moment the       *)
(* answer was given, and whether it was an answer rather than an error.    *)
(***************************************************************************)
Entry == [rev : Nat, at : Nat, ok : BOOLEAN]
Mappings == [GroupVersions -> Entry]

ASSUME ConstantsAssumption ==
    /\ Legacy \subseteq GroupVersions
    /\ Main \notin Loops
    /\ Regens \cap Callers = {}
    /\ Nil \notin Mappings
    /\ MaxClock \in Nat
    /\ MaxFaults \in Nat

VARIABLES
    cluster,    \* what the API server serves: the revision of each, 0 if none
    changed,    \* history: when each group-version last changed
    clock,      \* history: counts the changes of the cluster
    faults,     \* number of failed discovery requests so far
    stopped,    \* the stop channel given to RunUntil is closed
    delegate,   \* m.delegate
    mu,         \* m.mu
    pc,         \* where each goroutine is
    todo,       \* the versions a regeneration has still to fetch
    snap,       \* the mapping a regeneration is building (newDelegate)
    got         \* the delegate that each caller's last lookup used

environment == <<cluster, changed, clock, stopped>>
vars == <<cluster, changed, clock, faults, stopped, delegate, mu, pc, todo,
          snap, got>>

Nothing == [g \in GroupVersions |-> [rev |-> 0, at |-> 0, ok |-> FALSE]]

Init ==
    /\ cluster \in [GroupVersions -> {0, 1}]
    /\ changed = [g \in GroupVersions |-> 1]
    /\ clock = 1
    /\ faults = 0
    /\ stopped = FALSE
    /\ delegate = Nil
    /\ mu = Free
    /\ pc = [p \in Procs |-> IF p = Main THEN "listLegacy"
                             ELSE IF p \in Loops THEN "off" ELSE "idle"]
    /\ todo = [p \in Regens |-> {}]
    /\ snap = [p \in Regens |-> Nothing]
    /\ got = [c \in Callers |-> Nil]

\* NewRESTMapper has returned a mapper; only then can anyone use it.
Built == pc[Main] = "returned"

-----------------------------------------------------------------------------
(* The environment *)

\* A CRD or an aggregated API is installed, changed or removed.
ClusterChange(g) ==
    /\ clock < MaxClock
    /\ \E rev \in {0, clock + 1} \ {cluster[g]} :
         cluster' = [cluster EXCEPT ![g] = rev]
    /\ changed' = [changed EXCEPT ![g] = clock + 1]
    /\ clock' = clock + 1
    /\ UNCHANGED <<faults, stopped, delegate, mu, pc, todo, snap, got>>

CloseStop ==
    /\ Built /\ ~stopped
    /\ stopped' = TRUE
    /\ UNCHANGED <<cluster, changed, clock, faults, delegate, mu, pc, todo,
                   snap, got>>

-----------------------------------------------------------------------------
(* RegenerateMappings *)

GoTo(p, label) == pc' = [pc EXCEPT ![p] = label]

\* A fault is possible while the bound allows another one.
Fault == faults < MaxFaults /\ faults' = faults + 1

\* RegenerateMappings returns nil: NewRESTMapper returns the mapper, the
\* loop goes to sleep.
Return(p) == GoTo(p, IF p = Main THEN "returned" ELSE "sleep")

\* Mutants: the constructor ignores the error; the loop ends on an error.
ReturnErrorIgnored(p) == GoTo(p, IF p = Main THEN "returned" ELSE "sleep")
ReturnErrorFatal(p) == GoTo(p, "failed")

\* RegenerateMappings returns an error: NewRESTMapper returns no mapper, the
\* loop logs it and goes to sleep.
ReturnError(p) == GoTo(p, IF p = Main THEN "failed" ELSE "sleep")

(***************************************************************************)
(* One of the two requests of ServerGroups, for the group-versions part.   *)
(* The answer names what is served; 403 and 404 count as an empty answer;  *)
(* any other error fails the regeneration.                                 *)
(***************************************************************************)
Listed(p, part, ok) ==
    snap' = [snap EXCEPT ![p] =
               [g \in GroupVersions |->
                  IF g \in part THEN [rev |-> 0, at |-> clock, ok |-> ok]
                                ELSE @[g]]]

\* Mutant: the group found under /api is not put in front of the list.
ToFetchOnly(p, part) == {g \in part : cluster[g] # 0}

\* The versions to fetch, once this part of the groups is listed as well.
ToFetch(p, part) == todo[p] \cup {g \in part : cluster[g] # 0}

ListPart(p, here, part, next) ==
    /\ pc[p] = here
    /\ \/ /\ todo' = [todo EXCEPT ![p] = ToFetch(p, part)]
          /\ Listed(p, part, TRUE)
          /\ GoTo(p, next)
          /\ UNCHANGED faults
       \/ /\ Fault
          /\ Listed(p, part, FALSE)
          /\ GoTo(p, next)
          /\ UNCHANGED todo
       \/ /\ Fault
          /\ ReturnError(p)
          /\ todo' = [todo EXCEPT ![p] = {}]
          /\ snap' = [snap EXCEPT ![p] = Nothing]
    /\ UNCHANGED <<environment, delegate, mu, got>>

ListLegacy(p) == ListPart(p, "listLegacy", Legacy, "listGroups")
ListGroups(p) == ListPart(p, "listGroups", GroupVersions \ Legacy, "fetch")

\* ServerResourcesForGroupVersion for one listed version; if it fails, the
\* version is left out ("continue as best we can").
FetchVersion(p) ==
    /\ pc[p] = "fetch"
    /\ \E g \in todo[p] :
         /\ todo' = [todo EXCEPT ![p] = @ \ {g}]
         /\ \/ /\ snap' = [snap EXCEPT ![p][g] =
                             [rev |-> cluster[g], at |-> clock, ok |-> TRUE]]
               /\ UNCHANGED faults
            \/ /\ Fault
               /\ snap' = [snap EXCEPT ![p][g] =
                             [rev |-> 0, at |-> clock, ok |-> FALSE]]
    /\ UNCHANGED <<environment, delegate, mu, pc, got>>

\* Everything is fetched: NewDiscoveryRESTMapper, then m.mu.Lock().
LockForReplace(p) ==
    /\ pc[p] = "fetch" /\ todo[p] = {}
    /\ CanLock(mu)
    /\ mu' = Lock(mu, p)
    /\ GoTo(p, "replace")
    /\ UNCHANGED <<environment, faults, delegate, todo, snap, got>>

\* Mutants: the delegate is replaced under the readers; no Unlock.
ReplaceUnderReaders(p) ==
    /\ pc[p] = "replace"
    /\ delegate' = snap[p]
    /\ mu' = [mu EXCEPT !.writer = {}]
    /\ Return(p)
    /\ snap' = [snap EXCEPT ![p] = Nothing]
    /\ UNCHANGED <<environment, faults, todo, got>>

ReplaceNoUnlock(p) ==
    /\ pc[p] = "replace"
    /\ HoldsW(mu, p)
    /\ delegate' = snap[p]
    /\ Return(p)
    /\ snap' = [snap EXCEPT ![p] = Nothing]
    /\ UNCHANGED <<environment, faults, mu, todo, got>>

\* Lock has returned: m.delegate = newDelegate, and the deferred Unlock.
Replace(p) ==
    /\ pc[p] = "replace"
    /\ HoldsW(mu, p)
    /\ delegate' = snap[p]
    /\ mu' = Unlock(mu)
    /\ Return(p)
    /\ snap' = [snap EXCEPT ![p] = Nothing]
    /\ UNCHANGED <<environment, faults, todo, got>>

-----------------------------------------------------------------------------
(* RunUntil: wait.Until in a goroutine *)

\* Mutant: the refresh is started before the constructor has finished.
RunUntilEarly(p) ==
    /\ pc[p] = "off"
    /\ GoTo(p, "top")
    /\ UNCHANGED <<environment, faults, delegate, mu, todo, snap, got>>

RunUntil(p) ==
    /\ Built
    /\ pc[p] = "off"
    /\ GoTo(p, "top")
    /\ UNCHANGED <<environment, faults, delegate, mu, todo, snap, got>>

\* Mutant: the stop channel is not looked at before another round.
LoopTopUnchecked(p) ==
    /\ pc[p] = "top"
    /\ GoTo(p, "listLegacy")
    /\ UNCHANGED <<environment, faults, delegate, mu, todo, snap, got>>

LoopTop(p) ==
    /\ pc[p] = "top"
    /\ GoTo(p, IF stopped THEN "ended" ELSE "listLegacy")
    /\ UNCHANGED <<environment, faults, delegate, mu, todo, snap, got>>

\* Mutant: the mappings are refreshed once instead of again and again.
WakeUpOnce(p) ==
    /\ pc[p] = "sleep"
    /\ GoTo(p, "ended")
    /\ UNCHANGED <<environment, faults, delegate, mu, todo, snap, got>>

\* The select after f(): the timer, or the stop channel once it is closed.
WakeUp(p) ==
    /\ pc[p] = "sleep"
    /\ \/ GoTo(p, "top")
       \/ stopped /\ GoTo(p, "ended")
    /\ UNCHANGED <<environment, faults, delegate, mu, todo, snap, got>>

-----------------------------------------------------------------------------
(* KindFor, KindsFor, ResourceFor, ResourcesFor, RESTMapping, RESTMappings *)
(* and ResourceSingularizer: all seven ask the delegate under RLock.       *)

LookupRLock(c) ==
    /\ Built
    /\ pc[c] = "idle"
    /\ mu' = RLock(mu, c)
    /\ GoTo(c, "lookup")
    /\ UNCHANGED <<environment, faults, delegate, todo, snap, got>>

LookupDelegate(c) ==
    /\ pc[c] = "lookup"
    /\ HoldsR(mu, c)
    /\ got' = [got EXCEPT ![c] = delegate]
    /\ GoTo(c, "return")
    /\ UNCHANGED <<environment, faults, delegate, mu, todo, snap>>

\* Mutant: the read lock is not released.
LookupNoRUnlock(c) ==
    /\ pc[c] = "return"
    /\ GoTo(c, "idle")
    /\ UNCHANGED <<environment, faults, delegate, mu, todo, snap, got>>

LookupRUnlock(c) ==
    /\ pc[c] = "return"
    /\ mu' = RUnlock(mu, c)
    /\ GoTo(c, "idle")
    /\ UNCHANGED <<environment, faults, delegate, todo, snap, got>>

\* NewRESTMapper failed: the adapter exits.
Exited == pc[Main] = "failed" /\ UNCHANGED vars
-----------------------------------------------------------------------------
Regenerate(p) ==
    \/ ListLegacy(p) \/ ListGroups(p) \/ FetchVersion(p)
    \/ LockForReplace(p) \/ Replace(p)

Refresh(p) == RunUntil(p) \/ LoopTop(p) \/ WakeUp(p)

Lookup(c) == LookupRLock(c) \/ LookupDelegate(c) \/ LookupRUnlock(c)

Next ==
    \/ \E g \in GroupVersions : ClusterChange(g)
    \/ CloseStop
    \/ \E p \in Regens : Regenerate(p)
    \/ \E p \in Loops : Refresh(p)
    \/ \E c \in Callers : Lookup(c)
    \/ Exited

Spec == Init /\ [][Next]_vars

(***************************************************************************)
(* Fairness: goroutines are scheduled, a discovery request is answered     *)
(* (well or badly), the timer fires, and whoever waits for a mutex that is *)
(* released again and again gets it (sync.Mutex hands itself over to a     *)
(* starving waiter).  Changes and faults of the cluster are not fair, and  *)
(* neither are CloseStop and the start of a lookup.                        *)
(***************************************************************************)
Fairness ==
    /\ \A p \in Regens :
         /\ WF_vars(ListLegacy(p) \/ ListGroups(p) \/ FetchVersion(p))
         /\ SF_vars(LockForReplace(p))
         /\ WF_vars(Replace(p))
    /\ \A p \in Loops : WF_vars(Refresh(p))
    /\ \A c \in Callers : WF_vars(LookupDelegate(c) \/ LookupRUnlock(c))

FairSpec == Spec /\ Fairness

-----------------------------------------------------------------------------
(* Properties *)

RegenPC == {"listLegacy", "listGroups", "fetch", "replace"}
MainPC == RegenPC \cup {"returned", "failed"}
LoopPC == RegenPC \cup {"off", "top", "sleep", "ended"}
CallerPC == {"idle", "lookup", "return"}

\* Every variable of the mapper and of its environment keeps its type.
TypeOK ==
    /\ cluster \in [GroupVersions -> Nat]
    /\ changed \in [GroupVersions -> Nat]
    /\ clock \in Nat
    /\ faults \in 0 .. MaxFaults
    /\ stopped \in BOOLEAN
    /\ delegate \in Mappings \cup {Nil}
    /\ mu \in RWLocks(Procs)
    /\ pc \in [Procs -> MainPC \cup LoopPC \cup CallerPC]
    /\ pc[Main] \in MainPC
    /\ \A p \in Loops : pc[p] \in LoopPC
    /\ \A c \in Callers : pc[c] \in CallerPC
    /\ todo \in [Regens -> SUBSET GroupVersions]
    /\ snap \in [Regens -> Mappings]
    /\ got \in [Callers -> Mappings \cup {Nil}]

\* No lookup ever runs against a mapper that was never populated: a method
\* call on the nil delegate would panic (NewRESTMapper must not return it).
LookupFindsDelegate ==
    \A c \in Callers : pc[c] \in {"lookup", "return"} => delegate # Nil

\* From the moment a lookup has taken its delegate to the moment it releases
\* the read lock, that delegate is the installed one: a regeneration never
\* replaces it under a reader.
LookupIsCurrent ==
    \A c \in Callers : pc[c] = "return" => got[c] = delegate

\* If nothing has changed for a group-version since it was read, and reading
\* it did not fail, the mapper knows exactly what the cluster serves of it.
KnownUnlessFailed ==
    delegate # Nil =>
      \A g \in GroupVersions :
        delegate[g].ok /\ changed[g] <= delegate[g].at
          => delegate[g].rev = cluster[g]

Older(d, e) == \A g \in GroupVersions : d[g].at <= e[g].at

\* Replacing the delegate never goes back to an older answer of the API
\* server, for any group-version (with at most one RunUntil goroutine).
NoRollback == [][delegate # Nil => Older(delegate, delegate')]_vars

\* Two lookups of one goroutine, one after the other, never see the mapper
\* go back in time, whatever was regenerated between them.
MonotonicLookups ==
    [][\A c \in Callers : got[c] # Nil => Older(got[c], got'[c])]_vars

\* Once the cluster and the network are quiet, the mapper ends up with
\* exactly what is served, unless it was never built or was stopped.
Converges ==
    <>[](\/ pc[Main] = "failed" \/ stopped
         \/ /\ delegate # Nil
            /\ \A g \in GroupVersions : delegate[g].rev = cluster[g])

\* Every lookup that is started returns, although lookups, writers waiting
\* for the lock and regenerations contend for it.
LookupReturns == \A c \in Callers : []<>(pc[c] = "idle")

\* Every regeneration that is started ends, although other regenerations
\* and a stream of lookups want the same lock.
RoundsEnd == \A p \in Regens : []<>(pc[p] \notin RegenPC)

\* Closing the stop channel ends every refresh goroutine.
StopEndsLoops == \A p \in Loops : []<>(stopped => pc[p] = "ended")
=============================================================================
