------------------------ MODULE DynamicMapperProofs ------------------------
(***************************************************************************)
(* Proofs about the regenerating REST mapper, for any number of groups,    *)
(* lookups, changes and faults.                                            *)
(***************************************************************************)
EXTENDS DynamicMapper, TLAPS

-----------------------------------------------------------------------------
(* Typing *)

\* The empty mapping that a regeneration starts from is a mapping.
LEMMA NothingType == Nothing \in Mappings
BY DEF Nothing, Mappings, Entry

\* Operations on the lock keep it a lock of the same goroutines.
LEMMA LockType ==
    ASSUME NEW P, NEW l \in RWLocks(P), NEW p \in P
    PROVE  /\ Free \in RWLocks(P)
           /\ RLock(l, p) \in RWLocks(P)
           /\ RUnlock(l, p) \in RWLocks(P)
           /\ Lock(l, p) \in RWLocks(P)
           /\ Unlock(l) \in RWLocks(P)
BY DEF RWLocks, Free, RLock, RUnlock, Lock, Unlock

\* Counting a fault never passes the bound.
LEMMA FaultType ==
    ASSUME faults \in 0 .. MaxFaults, Fault \/ UNCHANGED faults
    PROVE  faults' \in 0 .. MaxFaults
BY ConstantsAssumption DEF Fault

\* The versions to fetch are group-versions.
LEMMA ToFetchType ==
    ASSUME NEW p \in Regens, NEW part \in SUBSET GroupVersions,
           todo \in [Regens -> SUBSET GroupVersions]
    PROVE  ToFetch(p, part) \in SUBSET GroupVersions
BY DEF ToFetch

\* Listing a part of the groups leaves mappings.
LEMMA ListedType ==
    ASSUME NEW p \in Regens, NEW part \in SUBSET GroupVersions,
           NEW ok \in BOOLEAN, clock \in Nat, snap \in [Regens -> Mappings],
           Listed(p, part, ok)
    PROVE  snap' \in [Regens -> Mappings]
<1> DEFINE listed == [g \in GroupVersions |->
                        IF g \in part THEN [rev |-> 0, at |-> clock, ok |-> ok]
                                      ELSE snap[p][g]]
<1>1. snap' = [snap EXCEPT ![p] = listed]
  BY DEF Listed
<1>2. listed \in Mappings
  BY DEF Mappings, Entry
<1> QED BY <1>1, <1>2

\* Replacing one entry of one regeneration's mapping leaves mappings.
LEMMA EntryType ==
    ASSUME NEW p \in Regens, NEW g \in GroupVersions, NEW e \in Entry,
           snap \in [Regens -> Mappings]
    PROVE  [snap EXCEPT ![p][g] = e] \in [Regens -> Mappings]
BY DEF Mappings

\* Every step of the mapper and of its environment preserves the types.
LEMMA TypeStep == TypeOK /\ [Next]_vars => TypeOK'
<1> SUFFICES ASSUME TypeOK, [Next]_vars PROVE TypeOK'
  OBVIOUS
<1> USE ConstantsAssumption
<1> USE DEF TypeOK, RegenPC, MainPC, LoopPC, CallerPC, Procs, Regens
<1>1. ASSUME NEW g \in GroupVersions, ClusterChange(g) PROVE TypeOK'
  BY <1>1 DEF ClusterChange
<1>2. CASE CloseStop
  BY <1>2 DEF CloseStop
<1>3. ASSUME NEW p \in Regens, NEW here, NEW part \in SUBSET GroupVersions,
             NEW next \in {"listGroups", "fetch"}, ListPart(p, here, part, next)
      PROVE  TypeOK'
  <2> USE ToFetchType, ListedType
  <2>1. /\ UNCHANGED <<environment, delegate, mu, got>>
        /\ Fault \/ UNCHANGED faults
    BY <1>3 DEF ListPart
  <2>2. /\ todo' \in [Regens -> SUBSET GroupVersions]
        /\ snap' \in [Regens -> Mappings]
        /\ pc' \in [Procs -> MainPC \cup LoopPC \cup CallerPC]
        /\ pc'[Main] \in MainPC
        /\ \A q \in Loops : pc'[q] \in LoopPC
        /\ \A c \in Callers : pc'[c] \in CallerPC
    <3>1. CASE /\ todo' = [todo EXCEPT ![p] = ToFetch(p, part)]
               /\ Listed(p, part, TRUE)
               /\ GoTo(p, next)
      BY <3>1 DEF GoTo
    <3>2. CASE Listed(p, part, FALSE) /\ GoTo(p, next) /\ UNCHANGED todo
      BY <3>2 DEF GoTo
    <3>3. CASE /\ ReturnError(p)
               /\ todo' = [todo EXCEPT ![p] = {}]
               /\ snap' = [snap EXCEPT ![p] = Nothing]
      BY <3>3, NothingType DEF ReturnError, GoTo
    <3> QED BY <1>3, <3>1, <3>2, <3>3 DEF ListPart
  <2>3. faults' \in 0 .. MaxFaults
    BY <2>1, FaultType
  <2> QED BY <2>1, <2>2, <2>3 DEF environment
<1>4. ASSUME NEW p \in Regens, FetchVersion(p) PROVE TypeOK'
  <2>1. PICK g \in todo[p] :
          /\ todo' = [todo EXCEPT ![p] = @ \ {g}]
          /\ \/ /\ snap' = [snap EXCEPT ![p][g] =
                               [rev |-> cluster[g], at |-> clock, ok |-> TRUE]]
                /\ UNCHANGED faults
             \/ /\ Fault
                /\ snap' = [snap EXCEPT ![p][g] =
                              [rev |-> 0, at |-> clock, ok |-> FALSE]]
    BY <1>4 DEF FetchVersion
  <2>2. g \in GroupVersions
    BY <2>1
  <2>3. snap' \in [Regens -> Mappings]
    <3>1. /\ [rev |-> cluster[g], at |-> clock, ok |-> TRUE] \in Entry
          /\ [rev |-> 0, at |-> clock, ok |-> FALSE] \in Entry
      BY <2>2 DEF Entry
    <3>2. PICK e \in Entry : snap' = [snap EXCEPT ![p][g] = e]
      BY <2>1, <3>1
    <3> QED BY <2>2, <3>2, EntryType
  <2>4. faults' \in 0 .. MaxFaults
    BY <2>1, FaultType
  <2>5. UNCHANGED <<environment, delegate, mu, pc, got>>
    BY <1>4 DEF FetchVersion
  <2> QED BY <2>1, <2>3, <2>4, <2>5 DEF environment
<1>5. ASSUME NEW p \in Regens, LockForReplace(p) PROVE TypeOK'
  BY <1>5, LockType DEF LockForReplace, GoTo, environment
<1>6. ASSUME NEW p \in Regens, Replace(p) PROVE TypeOK'
  BY <1>6, LockType, NothingType DEF Replace, Return, GoTo, environment
<1>7. ASSUME NEW p \in Loops, Refresh(p) PROVE TypeOK'
  BY <1>7 DEF Refresh, RunUntil, LoopTop, WakeUp, GoTo, environment
<1>8. ASSUME NEW c \in Callers, Lookup(c) PROVE TypeOK'
  <2>1. CASE LookupRLock(c)
    BY <2>1, LockType DEF LookupRLock, GoTo, environment
  <2>2. CASE LookupDelegate(c)
    BY <2>2 DEF LookupDelegate, GoTo, environment
  <2>3. CASE LookupRUnlock(c)
    BY <2>3, LockType DEF LookupRUnlock, GoTo, environment
  <2> QED BY <1>8, <2>1, <2>2, <2>3 DEF Lookup
<1>9. CASE UNCHANGED vars
  BY <1>9 DEF vars
<1>10. ASSUME NEW p \in Regens, Regenerate(p) PROVE TypeOK'
  BY <1>10, <1>3, <1>4, <1>5, <1>6 DEF Regenerate, ListLegacy, ListGroups
<1> QED
  BY <1>1, <1>2, <1>7, <1>8, <1>9, <1>10 DEF Next, Exited

\* The mapper's variables keep their types in every behaviour.
THEOREM TypeCorrect == Spec => []TypeOK
<1>1. Init => TypeOK
  <2> SUFFICES ASSUME Init PROVE TypeOK
    OBVIOUS
  <2> USE ConstantsAssumption DEF Init
  <2>1. /\ pc \in [Procs -> MainPC \cup LoopPC \cup CallerPC]
        /\ pc[Main] \in MainPC
        /\ \A p \in Loops : pc[p] \in LoopPC
        /\ \A c \in Callers : pc[c] \in CallerPC
    BY DEF RegenPC, MainPC, LoopPC, CallerPC, Procs, Regens
  <2>2. mu \in RWLocks(Procs)
    BY DEF RWLocks, Free
  <2>3. /\ cluster \in [GroupVersions -> Nat]
        /\ changed \in [GroupVersions -> Nat]
        /\ todo \in [Regens -> SUBSET GroupVersions]
        /\ snap \in [Regens -> Mappings]
        /\ got \in [Callers -> Mappings \cup {Nil}]
    BY NothingType
  <2>4. clock \in Nat /\ faults \in 0 .. MaxFaults
    OBVIOUS
  <2>5. stopped \in BOOLEAN /\ delegate \in Mappings \cup {Nil}
    OBVIOUS
  <2> QED BY <2>1, <2>2, <2>3, <2>4, <2>5 DEF TypeOK
<1> QED BY <1>1, TypeStep, PTL DEF Spec

-----------------------------------------------------------------------------
(* Lookups *)

\* A lookup that has taken its delegate still holds the lock for reading, and
\* that delegate is the installed one.  Nobody looks anything up before the
\* constructor has returned, and then there is a delegate.
LookupInv ==
    /\ \A c \in Callers : pc[c] = "return" => c \in mu.readers
    /\ LookupIsCurrent
    /\ Built => delegate # Nil
    /\ \A c \in Callers : pc[c] # "idle" => Built

\* Steps that leave the lock, the delegate and the callers alone, and do not
\* complete the constructor, preserve LookupInv.
LEMMA LookupFrame ==
    ASSUME LookupInv, UNCHANGED <<mu, delegate, got>>, Built' <=> Built,
           \A c \in Callers : pc'[c] = pc[c]
    PROVE  LookupInv'
BY DEF LookupInv, LookupIsCurrent

\* A step of a regenerating goroutine that is not Main's return moves neither
\* a caller nor the constructor to its end.
LEMMA GoToFrame ==
    ASSUME TypeOK, NEW p \in Regens, NEW label, GoTo(p, label),
           p = Main => (pc[Main] # "returned" /\ label # "returned")
    PROVE  /\ Built' <=> Built
           /\ \A c \in Callers : pc'[c] = pc[c]
BY ConstantsAssumption DEF TypeOK, GoTo, Built, Procs, Regens

\* Every step keeps LookupInv.
LEMMA LookupStep == TypeOK /\ LookupInv /\ [Next]_vars => LookupInv'
<1> SUFFICES ASSUME TypeOK, LookupInv, [Next]_vars PROVE LookupInv'
  OBVIOUS
<1>1. ASSUME NEW g \in GroupVersions, ClusterChange(g) PROVE LookupInv'
  BY <1>1, LookupFrame DEF ClusterChange, Built
<1>2. CASE CloseStop
  BY <1>2, LookupFrame DEF CloseStop, Built
<1>3. ASSUME NEW p \in Regens, NEW here \in RegenPC, NEW part,
             NEW next \in RegenPC, ListPart(p, here, part, next)
      PROVE  LookupInv'
  <2>1. UNCHANGED <<mu, delegate, got>> /\ pc[p] = here
    BY <1>3 DEF ListPart
  <2>2. GoTo(p, next) \/ GoTo(p, IF p = Main THEN "failed" ELSE "sleep")
    BY <1>3 DEF ListPart, ReturnError
  <2>3. p = Main => pc[Main] # "returned"
    BY <2>1 DEF RegenPC
  <2>4. (Built' <=> Built) /\ \A c \in Callers : pc'[c] = pc[c]
    BY <2>2, <2>3, GoToFrame DEF RegenPC
  <2> QED BY <2>1, <2>4, LookupFrame
<1>4. ASSUME NEW p \in Regens, FetchVersion(p) PROVE LookupInv'
  BY <1>4, LookupFrame DEF FetchVersion, Built
<1>5. ASSUME NEW p \in Regens, LockForReplace(p) PROVE LookupInv'
  <2>1. (Built' <=> Built) /\ \A c \in Callers : pc'[c] = pc[c]
    BY <1>5, GoToFrame DEF LockForReplace
  <2>2. mu'.readers = mu.readers /\ UNCHANGED <<delegate, got>>
    BY <1>5 DEF LockForReplace, Lock, TypeOK, RWLocks
  <2> QED BY <2>1, <2>2 DEF LookupInv, LookupIsCurrent
<1>6. ASSUME NEW p \in Regens, Replace(p) PROVE LookupInv'
  <2>1. \A c \in Callers : pc[c] # "return"
    BY <1>6 DEF Replace, HoldsW, LookupInv
  <2>2. \A c \in Callers : pc'[c] = pc[c]
    BY <1>6, ConstantsAssumption
    DEF Replace, Return, GoTo, TypeOK, Procs, Regens
  <2>3. delegate' # Nil
    BY <1>6, ConstantsAssumption DEF Replace, TypeOK
  <2>4. Built => Built'
    BY <1>6 DEF Replace, Return, GoTo, Built, TypeOK, Procs, Regens
  <2> QED BY <2>1, <2>2, <2>3, <2>4 DEF LookupInv, LookupIsCurrent
<1>7. ASSUME NEW p \in Loops, Refresh(p) PROVE LookupInv'
  <2>1. p # Main /\ p \in Regens
    BY ConstantsAssumption DEF Regens
  <2>2. PICK label : GoTo(p, label)
    BY <1>7 DEF Refresh, RunUntil, LoopTop, WakeUp
  <2>3. UNCHANGED <<mu, delegate, got>>
    BY <1>7 DEF Refresh, RunUntil, LoopTop, WakeUp
  <2> QED BY <2>1, <2>2, <2>3, GoToFrame, LookupFrame
<1>8. ASSUME NEW c \in Callers, Lookup(c) PROVE LookupInv'
  <2>1. ASSUME NEW label, GoTo(c, label)
        PROVE  (Built' <=> Built) /\ pc' = [pc EXCEPT ![c] = label]
    BY <2>1, ConstantsAssumption DEF GoTo, Built, TypeOK, Procs, Regens
  <2> c \in Procs /\ pc \in [Procs -> MainPC \cup LoopPC \cup CallerPC]
    BY DEF Procs, TypeOK
  <2>2. CASE LookupRLock(c)
    <3>1. mu.readers \subseteq mu'.readers
      BY <2>2 DEF LookupRLock, RLock, TypeOK, RWLocks
    <3> QED BY <2>1, <2>2, <3>1
      DEF LookupRLock, LookupInv, LookupIsCurrent, Procs
  <2>3. CASE LookupDelegate(c)
    BY <2>1, <2>3 DEF LookupDelegate, LookupInv, LookupIsCurrent, HoldsR, TypeOK, Procs
  <2>4. CASE LookupRUnlock(c)
    <3>1. mu'.readers = mu.readers \ {c}
      BY <2>4 DEF LookupRUnlock, RUnlock, TypeOK, RWLocks
    <3> QED BY <2>1, <2>4, <3>1
      DEF LookupRUnlock, LookupInv, LookupIsCurrent, Procs
  <2> QED BY <1>8, <2>2, <2>3, <2>4 DEF Lookup
<1>9. CASE UNCHANGED vars
  BY <1>9, LookupFrame DEF vars, Built
<1>10. ASSUME NEW p \in Regens, Regenerate(p) PROVE LookupInv'
  BY <1>10, <1>3, <1>4, <1>5, <1>6
  DEF Regenerate, ListLegacy, ListGroups, RegenPC
<1> QED
  BY <1>1, <1>2, <1>7, <1>8, <1>9, <1>10 DEF Next, Exited

\* LookupInv holds before the constructor has run.
LEMMA LookupInit == Init => LookupInv
BY ConstantsAssumption DEF Init, LookupInv, LookupIsCurrent, Built, Procs, Regens

\* No lookup runs against a mapper that was never populated.
THEOREM LookupsFindDelegate == Spec => []LookupFindsDelegate
<1>1. LookupInv => LookupFindsDelegate
  BY DEF LookupInv, LookupFindsDelegate
<1> QED BY <1>1, TypeCorrect, LookupInit, LookupStep, PTL DEF Spec

\* A regeneration never replaces the delegate under a lookup.
THEOREM LookupsAreCurrent == Spec => []LookupIsCurrent
<1>1. LookupInv => LookupIsCurrent
  BY DEF LookupInv
<1> QED BY <1>1, TypeCorrect, LookupInit, LookupStep, PTL DEF Spec

-----------------------------------------------------------------------------
(* What the mapper knows *)

\* No answer of the API server carries a stamp from the future.
StampInv ==
    /\ \A g \in GroupVersions : changed[g] <= clock
    /\ \A p \in Regens, g \in GroupVersions : snap[p][g].at <= clock
    /\ delegate # Nil => \A g \in GroupVersions : delegate[g].at <= clock

\* A mapping under construction is right about every version that was read
\* and has not changed since, except for those still to be fetched.
SnapInv ==
    /\ \A p \in Regens : pc[p] = "replace" => todo[p] = {}
    /\ \A p \in Regens, g \in GroupVersions :
         snap[p][g].ok /\ changed[g] <= snap[p][g].at
           => snap[p][g].rev = cluster[g] \/ g \in todo[p]

KnownInv == StampInv /\ SnapInv /\ KnownUnlessFailed

(***************************************************************************)
(* With one refresh goroutine at most: regenerations do not overlap, what  *)
(* one has recorded is not older than the delegate, and the delegate is    *)
(* not older than what any lookup has seen.                                *)
(***************************************************************************)
Recorded(p, g) ==
    \/ pc[p] \in {"fetch", "replace"}
    \/ pc[p] = "listGroups" /\ g \in Legacy

RollInv ==
    /\ ~Built => \A p \in Loops : pc[p] = "off"
    /\ \A p \in Regens, g \in GroupVersions :
         Recorded(p, g) /\ delegate # Nil => delegate[g].at <= snap[p][g].at
    /\ \A c \in Callers :
         got[c] # Nil => delegate # Nil /\ Older(got[c], delegate)

OneRefresher == \A p, q \in Loops : p = q

-----------------------------------------------------------------------------
(* Effects of the steps of a regeneration *)

\* What a list request does: it records its part of the groups and goes on,
\* or it fails and the mapping under construction is dropped.
ListDone(p, here, part, next) ==
    /\ UNCHANGED <<cluster, changed, clock, delegate, got>>
    /\ pc[p] = here
    /\ \A q \in Regens \ {p} :
         snap'[q] = snap[q] /\ todo'[q] = todo[q] /\ pc'[q] = pc[q]
    /\ \/ /\ pc'[p] = next
          /\ todo[p] \subseteq todo'[p]
          /\ \A g \in part :
               /\ snap'[p][g].at = clock
               /\ snap'[p][g].rev = 0
               /\ snap'[p][g].ok /\ cluster[g] # 0 => g \in todo'[p]
          /\ \A g \in GroupVersions \ part : snap'[p][g] = snap[p][g]
       \/ /\ pc'[p] = IF p = Main THEN "failed" ELSE "sleep"
          /\ snap'[p] = Nothing

\* What a request for a list of groups does, on success and on failure.
LEMMA ListEffect ==
    ASSUME TypeOK, NEW p \in Regens, NEW here, NEW part \in SUBSET GroupVersions,
           NEW next, ListPart(p, here, part, next)
    PROVE  ListDone(p, here, part, next)
<1> USE DEF ListDone
<1>1. /\ UNCHANGED <<cluster, changed, clock, delegate, got>>
      /\ pc[p] = here
  BY DEF ListPart, environment
<1> /\ snap \in [Regens -> Mappings] /\ todo \in [Regens -> SUBSET GroupVersions]
    /\ pc \in [Procs -> MainPC \cup LoopPC \cup CallerPC]
    /\ Regens \subseteq Procs
  BY DEF TypeOK, Procs
<1>2. CASE /\ todo' = [todo EXCEPT ![p] = ToFetch(p, part)]
           /\ Listed(p, part, TRUE)
           /\ GoTo(p, next)
  BY <1>1, <1>2 DEF Listed, GoTo, ToFetch
<1>3. CASE Listed(p, part, FALSE) /\ GoTo(p, next) /\ UNCHANGED todo
  BY <1>1, <1>3 DEF Listed, GoTo
<1>4. CASE /\ ReturnError(p)
           /\ todo' = [todo EXCEPT ![p] = {}]
           /\ snap' = [snap EXCEPT ![p] = Nothing]
  BY <1>1, <1>4 DEF ReturnError, GoTo
<1> QED BY <1>2, <1>3, <1>4 DEF ListPart

\* What fetching a version does: it replaces one entry, by what is served now
\* or by nothing.
LEMMA FetchEffect ==
    ASSUME TypeOK, NEW p \in Regens, FetchVersion(p)
    PROVE  /\ UNCHANGED <<cluster, changed, clock, delegate, got, pc>>
           /\ \A q \in Regens \ {p} : snap'[q] = snap[q] /\ todo'[q] = todo[q]
           /\ \E g \in GroupVersions :
                /\ todo'[p] = todo[p] \ {g}
                /\ snap'[p][g].at = clock
                /\ snap'[p][g].ok => snap'[p][g].rev = cluster[g]
                /\ \A h \in GroupVersions \ {g} : snap'[p][h] = snap[p][h]
<1>1. PICK g \in todo[p] :
        /\ todo' = [todo EXCEPT ![p] = @ \ {g}]
        /\ \/ snap' = [snap EXCEPT ![p][g] =
                         [rev |-> cluster[g], at |-> clock, ok |-> TRUE]]
           \/ snap' = [snap EXCEPT ![p][g] =
                         [rev |-> 0, at |-> clock, ok |-> FALSE]]
  BY DEF FetchVersion
<1> g \in GroupVersions
  BY <1>1 DEF TypeOK
<1> /\ snap \in [Regens -> [GroupVersions -> Entry]]
    /\ todo \in [Regens -> SUBSET GroupVersions]
  BY DEF TypeOK, Mappings
<1>2. UNCHANGED <<cluster, changed, clock, delegate, got, pc>>
  BY DEF FetchVersion, environment
<1>3. \A q \in Regens \ {p} : snap'[q] = snap[q] /\ todo'[q] = todo[q]
  BY <1>1
<1>4. /\ todo'[p] = todo[p] \ {g}
      /\ \A h \in GroupVersions \ {g} : snap'[p][h] = snap[p][h]
  BY <1>1
<1>5. /\ snap'[p][g].at = clock
      /\ snap'[p][g].ok => snap'[p][g].rev = cluster[g]
  BY <1>1
<1> QED BY <1>2, <1>3, <1>4, <1>5

\* What the replacement does: the mapping that was built becomes the delegate.
LEMMA ReplaceEffect ==
    ASSUME TypeOK, NEW p \in Regens, Replace(p)
    PROVE  /\ UNCHANGED <<cluster, changed, clock, todo, got>>
           /\ pc[p] = "replace"
           /\ delegate' = snap[p]
           /\ snap'[p] = Nothing
           /\ pc'[p] = IF p = Main THEN "returned" ELSE "sleep"
           /\ \A q \in Regens \ {p} : snap'[q] = snap[q] /\ pc'[q] = pc[q]
BY DEF Replace, Return, GoTo, environment, TypeOK, Procs

-----------------------------------------------------------------------------
(* KnownInv is inductive *)

\* Every step keeps StampInv.
LEMMA StampStep == TypeOK /\ StampInv /\ [Next]_vars => StampInv'
<1> SUFFICES ASSUME TypeOK, StampInv, [Next]_vars PROVE StampInv'
  OBVIOUS
<1> USE DEF StampInv
<1>1. ASSUME NEW g \in GroupVersions, ClusterChange(g) PROVE StampInv'
  <2>1. /\ clock \in Nat /\ changed \in [GroupVersions -> Nat]
        /\ \A h \in GroupVersions, p \in Regens : snap[p][h].at \in Nat
        /\ delegate # Nil => \A h \in GroupVersions : delegate[h].at \in Nat
    BY DEF TypeOK, Mappings, Entry
  <2> QED BY <1>1, <2>1 DEF ClusterChange
<1>2. ASSUME NEW p \in Regens, NEW here, NEW part \in SUBSET GroupVersions,
             NEW next, ListPart(p, here, part, next)
      PROVE  StampInv'
  <2>1. clock \in Nat
    BY DEF TypeOK
  <2>2. ListDone(p, here, part, next)
    BY <1>2, ListEffect
  <2>3. \A g \in GroupVersions : snap'[p][g].at <= clock
    BY <2>1, <2>2 DEF Nothing, ListDone
  <2> QED BY <2>2, <2>3 DEF ListDone
<1>3. ASSUME NEW p \in Regens, FetchVersion(p) PROVE StampInv'
  <2>1. clock \in Nat
    BY DEF TypeOK
  <2>2. \A g \in GroupVersions : snap'[p][g].at <= clock
    BY <1>3, <2>1, FetchEffect
  <2> QED BY <1>3, <2>2, FetchEffect
<1>4. ASSUME NEW p \in Regens, Replace(p) PROVE StampInv'
  <2>1. clock \in Nat
    BY DEF TypeOK
  <2>2. \A g \in GroupVersions : snap'[p][g].at <= clock
    BY <1>4, <2>1, ReplaceEffect DEF Nothing
  <2> QED BY <1>4, <2>2, ReplaceEffect
<1>5. CASE UNCHANGED <<changed, clock, delegate, snap>>
  BY <1>5
<1>6. ASSUME NEW p \in Regens, Regenerate(p) PROVE StampInv'
  <2>1. Legacy \in SUBSET GroupVersions
    BY ConstantsAssumption
  <2>2. LockForReplace(p) => UNCHANGED <<changed, clock, delegate, snap>>
    BY DEF LockForReplace, environment
  <2> QED BY <1>2, <1>3, <1>4, <1>5, <1>6, <2>1, <2>2
    DEF Regenerate, ListLegacy, ListGroups
<1>7. ASSUME \/ CloseStop \/ Exited \/ UNCHANGED vars
             \/ \E p \in Loops : Refresh(p)
             \/ \E c \in Callers : Lookup(c)
      PROVE  UNCHANGED <<changed, clock, delegate, snap>>
  BY <1>7 DEF CloseStop, Exited, vars, Refresh, RunUntil, LoopTop, WakeUp,
     Lookup, LookupRLock, LookupDelegate, LookupRUnlock, environment
<1> QED BY <1>1, <1>5, <1>6, <1>7 DEF Next

\* Steps that touch neither the cluster nor a mapping preserve the rest.
LEMMA KnownFrame ==
    ASSUME SnapInv, KnownUnlessFailed,
           UNCHANGED <<cluster, changed, delegate, snap, todo>>,
           \A p \in Regens : pc'[p] = "replace" => todo[p] = {}
    PROVE  SnapInv' /\ KnownUnlessFailed'
BY DEF SnapInv, KnownUnlessFailed

\* Every step keeps what is said of delegates being built and of the installed one.
LEMMA KnownStep ==
    TypeOK /\ KnownInv /\ [Next]_vars => SnapInv' /\ KnownUnlessFailed'
<1> SUFFICES ASSUME TypeOK, StampInv, SnapInv, KnownUnlessFailed, [Next]_vars
             PROVE  SnapInv' /\ KnownUnlessFailed'
  BY DEF KnownInv
<1>1. ASSUME NEW g \in GroupVersions, ClusterChange(g)
      PROVE  SnapInv' /\ KnownUnlessFailed'
  <2>1. /\ clock \in Nat /\ changed \in [GroupVersions -> Nat]
        /\ cluster \in [GroupVersions -> Nat]
        /\ \A h \in GroupVersions, p \in Regens : snap[p][h].at \in Nat
        /\ delegate # Nil => \A h \in GroupVersions : delegate[h].at \in Nat
    BY DEF TypeOK, Mappings, Entry
  <2>2. /\ UNCHANGED <<delegate, snap, todo, pc>>
        /\ changed'[g] = clock + 1
        /\ \A h \in GroupVersions \ {g} :
             changed'[h] = changed[h] /\ cluster'[h] = cluster[h]
    BY <1>1, <2>1 DEF ClusterChange
  <2>3. \A p \in Regens : ~(changed'[g] <= snap'[p][g].at)
    BY <2>1, <2>2 DEF StampInv
  <2>4. delegate # Nil => ~(changed'[g] <= delegate'[g].at)
    BY <2>1, <2>2 DEF StampInv
  <2> QED BY <2>2, <2>3, <2>4 DEF SnapInv, KnownUnlessFailed
<1>2. ASSUME NEW p \in Regens, NEW here, NEW part \in SUBSET GroupVersions,
             NEW next, next # "replace", ListPart(p, here, part, next)
      PROVE  SnapInv' /\ KnownUnlessFailed'
  <2>0. ListDone(p, here, part, next)
    BY <1>2, ListEffect
  <2>1. \A g \in GroupVersions :
          snap'[p][g].ok /\ changed[g] <= snap'[p][g].at
            => snap'[p][g].rev = cluster[g] \/ g \in todo'[p]
    BY <2>0 DEF Nothing, SnapInv, ListDone
  <2>2. pc'[p] # "replace"
    BY <1>2, <2>0 DEF ListDone
  <2> QED BY <2>0, <2>1, <2>2 DEF SnapInv, KnownUnlessFailed, ListDone
<1>3. ASSUME NEW p \in Regens, FetchVersion(p)
      PROVE  SnapInv' /\ KnownUnlessFailed'
  <2>1. \A g \in GroupVersions :
          snap'[p][g].ok /\ changed[g] <= snap'[p][g].at
            => snap'[p][g].rev = cluster[g] \/ g \in todo'[p]
    BY <1>3, FetchEffect DEF SnapInv
  <2>2. pc[p] # "replace"
    BY <1>3 DEF FetchVersion
  <2> QED BY <1>3, <2>1, <2>2, FetchEffect DEF SnapInv, KnownUnlessFailed
<1>4. ASSUME NEW p \in Regens, LockForReplace(p)
      PROVE  SnapInv' /\ KnownUnlessFailed'
  <2>1. \A q \in Regens : pc'[q] = "replace" => todo[q] = {}
    BY <1>4 DEF LockForReplace, GoTo, SnapInv, TypeOK, Procs
  <2> QED BY <1>4, <2>1, KnownFrame DEF LockForReplace, environment
<1>5. ASSUME NEW p \in Regens, Replace(p)
      PROVE  SnapInv' /\ KnownUnlessFailed'
  <2>1. todo[p] = {}
    BY <1>5 DEF Replace, SnapInv
  <2>2. pc'[p] # "replace"
    BY <1>5, ReplaceEffect
  <2> QED BY <1>5, <2>1, <2>2, ReplaceEffect
    DEF Nothing, SnapInv, KnownUnlessFailed
<1>6. ASSUME NEW p \in Regens, Regenerate(p)
      PROVE  SnapInv' /\ KnownUnlessFailed'
  <2>1. Legacy \in SUBSET GroupVersions
    BY ConstantsAssumption
  <2> QED BY <1>2, <1>3, <1>4, <1>5, <1>6, <2>1
    DEF Regenerate, ListLegacy, ListGroups
<1>7. ASSUME NEW p \in Loops, Refresh(p)
      PROVE  SnapInv' /\ KnownUnlessFailed'
  <2>1. \A q \in Regens : pc'[q] = "replace" => todo[q] = {}
    BY <1>7 DEF Refresh, RunUntil, LoopTop, WakeUp, GoTo, SnapInv, TypeOK,
       Procs, Regens
  <2> QED BY <1>7, <2>1, KnownFrame
    DEF Refresh, RunUntil, LoopTop, WakeUp, environment
<1>8. ASSUME NEW c \in Callers, Lookup(c)
      PROVE  SnapInv' /\ KnownUnlessFailed'
  <2>1. \A q \in Regens : pc'[q] = pc[q]
    BY <1>8, ConstantsAssumption
    DEF Lookup, LookupRLock, LookupDelegate, LookupRUnlock, GoTo, TypeOK, Procs
  <2> QED BY <1>8, <2>1, KnownFrame
    DEF Lookup, LookupRLock, LookupDelegate, LookupRUnlock, environment, SnapInv
<1>9. CASE CloseStop \/ Exited \/ UNCHANGED vars
  BY <1>9, KnownFrame DEF CloseStop, Exited, vars, SnapInv
<1> QED BY <1>1, <1>6, <1>7, <1>8, <1>9 DEF Next

\* KnownInv holds before the constructor has run.
LEMMA KnownInit == Init => KnownInv
<1> SUFFICES ASSUME Init PROVE KnownInv
  OBVIOUS
<1>1. \A p \in Regens : pc[p] # "replace"
  BY ConstantsAssumption DEF Init, Procs, Regens
<1> QED BY <1>1
  DEF Init, KnownInv, StampInv, SnapInv, KnownUnlessFailed, Nothing

\* Whatever the interleaving of changes, requests, faults and refreshes: if a
\* version was read without an error and has not changed since, the delegate
\* has it exactly as the cluster serves it.
THEOREM MapperIsFaithful == Spec => []KnownUnlessFailed
<1>1. KnownInv <=> StampInv /\ SnapInv /\ KnownUnlessFailed
  BY DEF KnownInv
<1> QED BY <1>1, TypeCorrect, KnownInit, StampStep, KnownStep, PTL DEF Spec

-----------------------------------------------------------------------------
(* RollInv is inductive, with one refresh goroutine at most *)

\* A mapping is not older than itself.
LEMMA OlderReflexive ==
    ASSUME NEW d \in Mappings PROVE Older(d, d)
BY DEF Older, Mappings, Entry

\* Steps that touch no mapping, and take no goroutine into a later stage of a
\* regeneration, preserve RollInv.
LEMMA RollFrame ==
    ASSUME RollInv, UNCHANGED <<delegate, snap, got>>,
           ~Built' => ~Built /\ \A p \in Loops : pc'[p] = pc[p],
           \A p \in Regens : \/ pc'[p] = pc[p]
                              \/ pc'[p] \notin {"listGroups", "fetch", "replace"}
                              \/ pc[p] = "fetch"
    PROVE  RollInv'
BY DEF RollInv, Recorded, Older

\* While one goroutine regenerates, no other one does.
LEMMA Alone ==
    ASSUME OneRefresher, RollInv, NEW p \in Regens, pc[p] \in RegenPC,
           NEW q \in Regens \ {p}
    PROVE  pc[q] \notin RegenPC
BY DEF OneRefresher, RollInv, Regens, Built, RegenPC

\* With one refresh loop, every step keeps RollInv.
LEMMA RollStep ==
    ASSUME OneRefresher
    PROVE  TypeOK /\ StampInv /\ RollInv /\ [Next]_vars => RollInv'
<1> SUFFICES ASSUME TypeOK, StampInv, RollInv, [Next]_vars PROVE RollInv'
  OBVIOUS
<1>1. ASSUME NEW p \in Regens, ListLegacy(p) \/ ListGroups(p) PROVE RollInv'
  <2>1. /\ Legacy \in SUBSET GroupVersions
        /\ GroupVersions \ Legacy \in SUBSET GroupVersions
    BY ConstantsAssumption
  <2>2. \/ ListDone(p, "listLegacy", Legacy, "listGroups")
        \/ ListDone(p, "listGroups", GroupVersions \ Legacy, "fetch")
    BY <1>1, <2>1, ListEffect DEF ListLegacy, ListGroups
  <2>3. \A g \in GroupVersions :
          Recorded(p, g)' /\ delegate # Nil => delegate[g].at <= snap'[p][g].at
    BY <2>1, <2>2 DEF ListDone, Recorded, RollInv, StampInv
  <2>4. \A q \in Regens \ {p}, g \in GroupVersions :
          Recorded(q, g)' /\ delegate # Nil => delegate[g].at <= snap'[q][g].at
    BY <2>2 DEF ListDone, Recorded, RollInv
  <2>5. ~Built' => \A q \in Loops : pc'[q] = "off"
    BY <2>2, ConstantsAssumption DEF ListDone, RollInv, Built, Regens
  <2> QED BY <2>2, <2>3, <2>4, <2>5 DEF ListDone, RollInv, Older
<1>2. ASSUME NEW p \in Regens, FetchVersion(p) PROVE RollInv'
  <2>1. /\ UNCHANGED <<clock, delegate, got, pc>>
        /\ \A q \in Regens \ {p} : snap'[q] = snap[q]
        /\ \A g \in GroupVersions :
             snap'[p][g].at = clock \/ snap'[p][g] = snap[p][g]
    BY <1>2, FetchEffect
  <2> QED BY <2>1 DEF RollInv, Recorded, StampInv, Built, Older
<1>3. ASSUME NEW p \in Regens, LockForReplace(p) PROVE RollInv'
  <2>1. UNCHANGED <<delegate, snap, got>> /\ pc[p] = "fetch"
    BY <1>3 DEF LockForReplace
  <2>2. \A q \in Procs \ {p} : pc'[q] = pc[q]
    BY <1>3 DEF LockForReplace, GoTo, TypeOK
  <2>3. ~Built' => ~Built /\ \A q \in Loops : pc'[q] = pc[q]
    BY <2>1, <2>2 DEF Built, RollInv, Regens, Procs
  <2> QED BY <2>1, <2>2, <2>3, RollFrame DEF Procs
<1>4. ASSUME NEW p \in Regens, Replace(p) PROVE RollInv'
  <2>1. /\ UNCHANGED got
        /\ pc[p] = "replace" /\ delegate' = snap[p]
        /\ pc'[p] = IF p = Main THEN "returned" ELSE "sleep"
        /\ \A q \in Regens \ {p} : pc'[q] = pc[q]
    BY <1>4, ReplaceEffect
  <2>2. \A q \in Regens, g \in GroupVersions : ~Recorded(q, g)'
    BY <2>1, Alone DEF Recorded, RegenPC
  <2>3. delegate # Nil => Older(delegate, delegate')
    BY <2>1 DEF RollInv, Recorded, Older
  <2>4. delegate' \in Mappings /\ delegate' # Nil
    BY <2>1, ConstantsAssumption DEF TypeOK
  <2>5. \A c \in Callers : got[c] # Nil => Older(got[c], delegate')
    <3> SUFFICES ASSUME NEW c \in Callers, got[c] # Nil,
                        NEW g \in GroupVersions
                 PROVE  got[c][g].at <= delegate'[g].at
      BY DEF Older
    <3>1. /\ delegate # Nil
          /\ got[c][g].at <= delegate[g].at /\ delegate[g].at <= delegate'[g].at
      BY <2>3 DEF RollInv, Older
    <3>2. /\ got[c][g].at \in Nat /\ delegate[g].at \in Nat
          /\ delegate'[g].at \in Nat
      BY <2>4, <3>1 DEF TypeOK, Mappings, Entry
    <3> QED BY <3>1, <3>2
  <2>6. ~Built' => \A q \in Loops : pc'[q] = "off"
    BY <2>1, ConstantsAssumption DEF RollInv, Built, Regens
  <2> QED BY <2>1, <2>2, <2>4, <2>5, <2>6 DEF RollInv
<1>5. ASSUME NEW p \in Loops, Refresh(p) PROVE RollInv'
  <2>1. /\ UNCHANGED <<delegate, snap, got>>
        /\ \A q \in Procs \ {p} : pc'[q] = pc[q]
    BY <1>5 DEF Refresh, RunUntil, LoopTop, WakeUp, GoTo, TypeOK
  <2>2. Built /\ Built'
    BY <1>5, <2>1, ConstantsAssumption
    DEF Refresh, RunUntil, LoopTop, WakeUp, RollInv, Built, Procs, Regens
  <2>3. pc'[p] \notin {"listGroups", "fetch", "replace"}
    BY <1>5 DEF Refresh, RunUntil, LoopTop, WakeUp, GoTo, TypeOK, Procs, Regens
  <2> QED BY <2>1, <2>2, <2>3, RollFrame DEF Procs
<1>6. ASSUME NEW c \in Callers, Lookup(c) PROVE RollInv'
  <2>1. /\ UNCHANGED <<delegate, snap>>
        /\ \A q \in Regens : pc'[q] = pc[q]
    BY <1>6, ConstantsAssumption
    DEF Lookup, LookupRLock, LookupDelegate, LookupRUnlock, GoTo, TypeOK, Procs
  <2>2. UNCHANGED got \/ got' = [got EXCEPT ![c] = delegate]
    BY <1>6 DEF Lookup, LookupRLock, LookupDelegate, LookupRUnlock
  <2>3. \A d \in Callers :
          got'[d] # Nil => delegate' # Nil /\ Older(got'[d], delegate')
    BY <2>1, <2>2, OlderReflexive DEF RollInv, TypeOK
  <2> QED BY <2>1, <2>3 DEF RollInv, Recorded, Built, Regens
<1>7. ASSUME \/ CloseStop \/ Exited \/ UNCHANGED vars
             \/ \E g \in GroupVersions : ClusterChange(g)
      PROVE  RollInv'
  BY <1>7, RollFrame DEF CloseStop, Exited, vars, ClusterChange, Built
<1> QED BY <1>1, <1>2, <1>3, <1>4, <1>5, <1>6, <1>7 DEF Next, Regenerate

\* RollInv holds before the constructor has run.
LEMMA RollInit == Init => RollInv
BY ConstantsAssumption DEF Init, RollInv, Recorded, Built, Procs, Regens

\* What a step may do to the delegate and to what the lookups have seen.
LEMMA NoOlder ==
    ASSUME OneRefresher, TypeOK, RollInv, [Next]_vars
    PROVE  /\ delegate # Nil => Older(delegate, delegate')
           /\ \A c \in Callers : got[c] # Nil => Older(got[c], got'[c])
<1>1. ASSUME NEW p \in Regens, Replace(p)
      PROVE  UNCHANGED got /\ (delegate # Nil => Older(delegate, delegate'))
  BY <1>1, ReplaceEffect DEF RollInv, Recorded, Older
<1>2. ASSUME NEW c \in Callers, LookupDelegate(c)
      PROVE  /\ UNCHANGED delegate
             /\ \A d \in Callers :
                  got'[d] = got[d] \/ (got[d] # Nil => Older(got[d], got'[d]))
  BY <1>2 DEF LookupDelegate, RollInv, TypeOK
<1>3. \/ \E p \in Regens : Replace(p)
      \/ \E c \in Callers : LookupDelegate(c)
      \/ UNCHANGED <<delegate, got>>
  BY DEF Next, vars, CloseStop, Exited, ClusterChange, Regenerate, ListLegacy,
     ListGroups, ListPart, FetchVersion, LockForReplace, Refresh, RunUntil,
     LoopTop, WakeUp, Lookup, LookupRLock, LookupRUnlock
<1>4. /\ delegate # Nil => Older(delegate, delegate)
      /\ \A c \in Callers : got[c] # Nil => Older(got[c], got[c])
  BY OlderReflexive DEF TypeOK
<1> QED BY <1>1, <1>2, <1>3, <1>4

\* With one refresh goroutine, the delegate never goes back to an older answer
\* of the API server.
THEOREM DelegateNeverRollsBack ==
    ASSUME OneRefresher PROVE Spec => NoRollback
<1>1. TypeOK /\ RollInv /\ [Next]_vars
        => [delegate # Nil => Older(delegate, delegate')]_vars
  BY NoOlder
<1>2. TypeOK /\ StampInv /\ RollInv /\ [Next]_vars => RollInv'
  BY RollStep
<1>3. Init => StampInv
  BY KnownInit DEF KnownInv
<1> QED BY <1>1, <1>2, <1>3, RollInit, StampStep, TypeCorrect, PTL
  DEF Spec, NoRollback

\* With one refresh goroutine, successive lookups of a goroutine never see the
\* mapper go back in time.
THEOREM LookupsAreMonotonic ==
    ASSUME OneRefresher PROVE Spec => MonotonicLookups
<1>1. TypeOK /\ RollInv /\ [Next]_vars
        => [\A c \in Callers : got[c] # Nil => Older(got[c], got'[c])]_vars
  BY NoOlder
<1>2. TypeOK /\ StampInv /\ RollInv /\ [Next]_vars => RollInv'
  BY RollStep
<1>3. Init => StampInv
  BY KnownInit DEF KnownInv
<1> QED BY <1>1, <1>2, <1>3, RollInit, StampStep, TypeCorrect, PTL
  DEF Spec, MonotonicLookups
=============================================================================
