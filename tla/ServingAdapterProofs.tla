----------------------- MODULE ServingAdapterProofs ------------------------
(***************************************************************************)
(* Proofs about the adapter at work, for any number of requests, refresh   *)
(* goroutines and group-versions.                                          *)
(***************************************************************************)
EXTENDS ServingAdapter, DiscoveryMapperProofs

-----------------------------------------------------------------------------
\* Where a goroutine of the mapper may be.
Labels == M!MainPC \cup M!LoopPC

(***************************************************************************)
(* Who is at the two locks.  NoCircularWait is not inductive: it speaks of *)
(* the queues of the locks and not of where the goroutines are that stand  *)
(* in them.                                                                *)
(***************************************************************************)
MapperType ==
    /\ lookup \in [Goroutines -> Labels \cup M!CallerPC]
    /\ \A c \in Clients : lookup[c] \in M!CallerPC
    /\ mu \in [readers : SUBSET Clients, waiting : SUBSET Clients,
               writer : SUBSET M!Regens]

ProviderType ==
    /\ stage \in [Clients -> {"idle", "rlock"} \cup P!WritingPC \cup P!ReadingPC]
    /\ valuesLock \in P!RWLocks(Clients)

\* The goroutines at the mapper's lock: lookups read, regenerations write.
MuInv ==
    /\ mu.readers \cap mu.waiting = {}
    /\ \A c \in mu.readers : lookup[c] \in {"lookup", "return"}
    /\ \A c \in mu.waiting : lookup[c] = "lookup"
    /\ \A p \in mu.writer : lookup[p] = "replace"

\* The stages at which the provider's lock is held for writing.
HoldingPC == {"body"} \cup P!AlonePC

\* The goroutines at the provider's lock.
ValuesInv ==
    /\ valuesLock.readers \cap valuesLock.waiting = {}
    /\ \A c \in valuesLock.readers : stage[c] \in {"rlock"} \cup P!ReadingPC
    /\ \A c \in valuesLock.waiting : stage[c] = "rlock"
    /\ \A c \in valuesLock.writer : stage[c] \in HoldingPC
    /\ \A c \in Clients : stage[c] \in HoldingPC => valuesLock.writer = {c}
    /\ \A c \in Clients : stage[c] \in P!AlonePC => valuesLock.readers = {}

\* Past its wait for the provider's lock: reading, or writing alone.
Through(c) ==
    \/ stage[c] \in P!AlonePC \cup P!ReadingPC
    \/ stage[c] = "rlock" /\ c \in valuesLock.readers

\* A request asks the mapper only when it waits for the provider's lock no
\* more: this orders the two locks.
OrderInv == \A c \in Clients : lookup[c] # "idle" => Through(c)

LocksInv == MapperType /\ ProviderType /\ MuInv /\ ValuesInv /\ OrderInv

-----------------------------------------------------------------------------
(* What the steps of a request do to the provider's lock *)

MoveTo(c, label) == stage' = [stage EXCEPT ![c] = label]

\* A request that holds the provider's lock for reading, or for writing with
\* no reader left.
Reads(c) ==
    stage[c] \in P!ReadingPC \/ (stage[c] = "rlock" /\ c \in valuesLock.readers)
Writes(c) ==
    \/ stage[c] = "body" /\ valuesLock.writer = {c} /\ valuesLock.readers = {}
    \/ stage[c] \in P!AlonePC

Posted(c) ==
    stage[c] = "idle" /\ MoveTo(c, "lock") /\ UNCHANGED valuesLock
Queued(c) ==
    /\ stage[c] = "idle" /\ MoveTo(c, "rlock")
    /\ valuesLock' = P!RLock(valuesLock, c)
Announced(c) ==
    /\ stage[c] = "lock" /\ MoveTo(c, "body")
    /\ valuesLock.writer = {} /\ valuesLock' = P!Lock(valuesLock, c)
WroteOn(c) ==
    /\ Writes(c) /\ UNCHANGED valuesLock
    /\ \E label \in P!AlonePC : MoveTo(c, label)
Unlocked(c) ==
    Writes(c) /\ MoveTo(c, "idle") /\ valuesLock' = P!Unlock(valuesLock)
ReadOn(c) ==
    /\ Reads(c) /\ UNCHANGED valuesLock
    /\ \E label \in P!ReadingPC : MoveTo(c, label)
RUnlocked(c) ==
    Reads(c) /\ MoveTo(c, "idle") /\ valuesLock' = P!RUnlock(valuesLock, c)

ProviderStep(c) ==
    \/ Posted(c) \/ Queued(c) \/ Announced(c) \/ WroteOn(c) \/ Unlocked(c)
    \/ ReadOn(c) \/ RUnlocked(c)

\* A read that returns releases its lock.
LEMMA ReturnReadStep ==
    ASSUME NEW c \in Clients, NEW status, NEW found, Reads(c),
           P!ReturnRead(c, status, found)
    PROVE  RUnlocked(c)
BY DEF P!ReturnRead, P!Return, P!GoTo, RUnlocked, MoveTo

\* Every action of a request on the provider is one of these steps.
LEMMA RequestSteps ==
    ASSUME NEW c \in Clients, P!Post(c) \/ P!Get(c)
    PROVE  ProviderStep(c) /\ stage[c] = "idle"
<1>1. CASE P!Post(c)
  BY <1>1 DEF P!Post, P!GoTo, ProviderStep, Posted, MoveTo
<1>2. CASE P!Get(c)
  BY <1>2 DEF P!Get, P!GoTo, ProviderStep, Queued, MoveTo
<1> QED BY <1>1, <1>2

\* So are those that ask nobody.
LEMMA AloneSteps ==
    ASSUME NEW c \in Clients,
           \/ P!PostLock(c) \/ P!PostBody(c) \/ P!PostStore(c)
           \/ P!ListAllMetrics(c) \/ P!ListAllExternalMetrics(c)
           \/ P!GetExternalMetric(c) \/ P!GetMetricByName(c) \/ P!ReturnItems(c)
    PROVE  ProviderStep(c)
<1>1. CASE P!PostLock(c)
  BY <1>1 DEF P!PostLock, P!GoTo, P!CanLock, ProviderStep, Announced, MoveTo
<1>2. CASE P!PostBody(c)
  <2>1. Writes(c) /\ "resolve" \in P!AlonePC
    BY <1>2 DEF P!PostBody, P!HoldsW, Writes, P!AlonePC
  <2> QED BY <1>2, <2>1 DEF P!PostBody, P!GoTo, P!Return, ProviderStep,
                            WroteOn, Unlocked, MoveTo
<1>3. CASE P!PostStore(c)
  <2>1. Writes(c)
    BY <1>3 DEF P!PostStore, Writes, P!AlonePC
  <2> QED BY <1>3, <2>1 DEF P!PostStore, P!Return, P!GoTo, ProviderStep,
                            Unlocked, MoveTo
<1>4. CASE P!ListAllMetrics(c) \/ P!ListAllExternalMetrics(c)
           \/ P!GetExternalMetric(c)
  <2>1. Reads(c)
    BY <1>4 DEF P!ListAllMetrics, P!ListAllExternalMetrics,
                P!GetExternalMetric, P!Granted, P!HoldsR, Reads
  <2> QED BY <1>4, <2>1, ReturnReadStep DEF P!ListAllMetrics,
       P!ListAllExternalMetrics, P!GetExternalMetric, ProviderStep
<1>5. CASE P!GetMetricByName(c)
  <2>1. Reads(c) /\ "next" \in P!ReadingPC
    BY <1>5 DEF P!GetMetricByName, P!Granted, P!HoldsR, Reads, P!ReadingPC
  <2> QED BY <1>5, <2>1 DEF P!GetMetricByName, P!GoTo, ProviderStep, ReadOn,
                            MoveTo
<1>6. CASE P!ReturnItems(c)
  <2>1. Reads(c)
    BY <1>6 DEF P!ReturnItems, Reads, P!ReadingPC
  <2> QED BY <1>6, <2>1, ReturnReadStep DEF P!ReturnItems, ProviderStep
<1> QED BY <1>1, <1>2, <1>3, <1>4, <1>5, <1>6

\* So are those that use an answer of the mapper.
LEMMA AnswerSteps ==
    ASSUME NEW c \in Clients,
           \/ P!PostResolve(c) \/ P!PostSingular(c) \/ P!ListObjectNames(c)
           \/ P!ResourceFor(c) \/ P!ValueFor(c) \/ P!MetricFor(c)
    PROVE  ProviderStep(c)
<1>1. CASE P!PostResolve(c)
  <2>1. /\ Writes(c) /\ "singular" \in P!AlonePC /\ "store" \in P!AlonePC
    BY <1>1 DEF P!PostResolve, Writes, P!AlonePC
  <2>2. /\ UNCHANGED valuesLock
        /\ MoveTo(c, "singular") \/ MoveTo(c, "store")
    BY <1>1 DEF P!PostResolve, P!GoTo, MoveTo
  <2> QED BY <2>1, <2>2 DEF ProviderStep, WroteOn
<1>2. CASE P!PostSingular(c)
  <2>1. Writes(c) /\ "store" \in P!AlonePC
    BY <1>2 DEF P!PostSingular, Writes, P!AlonePC
  <2> QED BY <1>2, <2>1 DEF P!PostSingular, P!GoTo, MoveTo, ProviderStep, WroteOn
<1>3. CASE P!ListObjectNames(c)
  <2>1. Reads(c) /\ "next" \in P!ReadingPC
    BY <1>3 DEF P!ListObjectNames, P!Granted, P!HoldsR, Reads, P!ReadingPC
  <2>2. \/ MoveTo(c, "next") /\ UNCHANGED valuesLock
        \/ P!ReturnRead(c, "error", {})
    BY <1>3 DEF P!ListObjectNames, P!GoTo, MoveTo
  <2> QED BY <2>1, <2>2, ReturnReadStep DEF ProviderStep, ReadOn
<1>4. CASE P!ResourceFor(c)
  <2>1. Reads(c) /\ "value" \in P!ReadingPC
    BY <1>4 DEF P!ResourceFor, Reads, P!ReadingPC
  <2>2. \/ MoveTo(c, "value") /\ UNCHANGED valuesLock
        \/ P!ReturnRead(c, "error", {})
    BY <1>4 DEF P!ResourceFor, P!GoTo, MoveTo
  <2> QED BY <2>1, <2>2, ReturnReadStep DEF ProviderStep, ReadOn
<1>5. CASE P!ValueFor(c)
  <2>1. Reads(c) /\ "next" \in P!ReadingPC /\ "metric" \in P!ReadingPC
    BY <1>5 DEF P!ValueFor, Reads, P!ReadingPC
  <2>2. \/ MoveTo(c, "metric") /\ UNCHANGED valuesLock
        \/ MoveTo(c, "next") /\ UNCHANGED valuesLock
        \/ P!ReturnRead(c, "error", {}) \/ P!ReturnRead(c, "notFound", {})
    BY <1>5 DEF P!ValueFor, P!NotFound, P!GoTo, MoveTo
  <2> QED BY <2>1, <2>2, ReturnReadStep DEF ProviderStep, ReadOn
<1>6. CASE P!MetricFor(c)
  <2>1. Reads(c) /\ "next" \in P!ReadingPC
    BY <1>6 DEF P!MetricFor, Reads, P!ReadingPC
  <2>2. \/ MoveTo(c, "next") /\ UNCHANGED valuesLock
        \/ P!ReturnRead(c, "error", {})
    BY <1>6 DEF P!MetricFor, P!GoTo, MoveTo
  <2> QED BY <2>1, <2>2, ReturnReadStep DEF ProviderStep, ReadOn
<1> QED BY <1>1, <1>2, <1>3, <1>4, <1>5, <1>6

\* A step of one request keeps the provider's lock in order, and takes it
\* from nobody who is through.
LEMMA ValuesStep ==
    ASSUME ProviderType, ValuesInv, NEW c \in Clients, ProviderStep(c)
    PROVE  /\ ProviderType' /\ ValuesInv'
           /\ \A d \in Clients \ {c} : Through(d) => Through(d)'
<1> USE DEF P!WritingPC, P!AlonePC, P!ReadingPC, HoldingPC
<1>M. ASSUME NEW label \in {"idle", "rlock"} \cup P!WritingPC \cup P!ReadingPC,
             MoveTo(c, label)
      PROVE  /\ stage'[c] = label /\ \A d \in Clients \ {c} : stage'[d] = stage[d]
             /\ stage' \in [Clients -> {"idle", "rlock"} \cup P!WritingPC
                                                         \cup P!ReadingPC]
  BY <1>M DEF MoveTo, ProviderType
<1>1. CASE Posted(c)
  <2>5. /\ stage'[c] = "lock" /\ \A d \in Clients \ {c} : stage'[d] = stage[d]
        /\ stage' \in [Clients -> {"idle", "rlock"} \cup P!WritingPC
                                                    \cup P!ReadingPC]
    BY <1>1, <1>M DEF Posted
  <2>6. ProviderType'
    BY <1>1, <2>5 DEF Posted, ProviderType
  <2>7. ValuesInv'
    BY <1>1, <2>5 DEF Posted, ProviderType, ValuesInv, P!RWLocks
  <2>8. \A d \in Clients \ {c} : Through(d) => Through(d)'
    BY <1>1, <2>5 DEF Posted, ValuesInv, Through
  <2> QED BY <2>6, <2>7, <2>8
<1>2. CASE Queued(c)
  <2>1. /\ valuesLock' \in P!RWLocks(Clients)
        /\ valuesLock'.writer = valuesLock.writer
        /\ \/ /\ valuesLock.writer = {}
              /\ valuesLock'.readers = valuesLock.readers \cup {c}
              /\ valuesLock'.waiting = valuesLock.waiting
           \/ /\ valuesLock.writer # {}
              /\ valuesLock'.readers = valuesLock.readers
              /\ valuesLock'.waiting = valuesLock.waiting \cup {c}
    BY <1>2 DEF Queued, ProviderType, P!RWLocks, P!RLock
  <2>2. c \notin valuesLock.readers /\ c \notin valuesLock.waiting
    BY <1>2 DEF Queued, ValuesInv
  <2>5. /\ stage'[c] = "rlock" /\ \A d \in Clients \ {c} : stage'[d] = stage[d]
        /\ stage' \in [Clients -> {"idle", "rlock"} \cup P!WritingPC
                                                    \cup P!ReadingPC]
    BY <1>2, <1>M DEF Queued
  <2>6. ProviderType'
    BY <1>2, <2>5, <2>1, <2>2 DEF Queued, ProviderType
  <2>7. ValuesInv'
    BY <1>2, <2>5, <2>1, <2>2 DEF Queued, ProviderType, ValuesInv, P!RWLocks
  <2>8. \A d \in Clients \ {c} : Through(d) => Through(d)'
    BY <1>2, <2>5, <2>1, <2>2 DEF Queued, ValuesInv, Through
  <2> QED BY <2>6, <2>7, <2>8
<1>3. CASE Announced(c)
  <2>1. /\ valuesLock' \in P!RWLocks(Clients)
        /\ valuesLock'.writer = {c}
        /\ valuesLock'.readers = valuesLock.readers
        /\ valuesLock'.waiting = valuesLock.waiting
    BY <1>3 DEF Announced, ProviderType, P!RWLocks, P!Lock
  <2>2. c \notin valuesLock.readers /\ c \notin valuesLock.waiting
    BY <1>3 DEF Announced, ValuesInv
  <2>5. /\ stage'[c] = "body" /\ \A d \in Clients \ {c} : stage'[d] = stage[d]
        /\ stage' \in [Clients -> {"idle", "rlock"} \cup P!WritingPC
                                                    \cup P!ReadingPC]
    BY <1>3, <1>M DEF Announced
  <2>6. ProviderType'
    BY <1>3, <2>5, <2>1, <2>2 DEF Announced, ProviderType
  <2>7. ValuesInv'
    BY <1>3, <2>5, <2>1, <2>2 DEF Announced, ProviderType, ValuesInv, P!RWLocks
  <2>8. \A d \in Clients \ {c} : Through(d) => Through(d)'
    BY <1>3, <2>5, <2>1, <2>2 DEF Announced, ValuesInv, Through
  <2> QED BY <2>6, <2>7, <2>8
<1>W. ASSUME Writes(c)
      PROVE  /\ valuesLock.writer = {c} /\ valuesLock.readers = {}
             /\ c \notin valuesLock.waiting
             /\ \A d \in Clients \ {c} : stage[d] \notin HoldingPC
  BY <1>W DEF Writes, ValuesInv
<1>4. CASE WroteOn(c)
  <2>1. PICK label \in P!AlonePC : MoveTo(c, label)
    BY <1>4 DEF WroteOn
  <2>5. /\ stage'[c] = label /\ \A d \in Clients \ {c} : stage'[d] = stage[d]
        /\ stage' \in [Clients -> {"idle", "rlock"} \cup P!WritingPC
                                                    \cup P!ReadingPC]
    BY <1>4, <1>M, <2>1 DEF WroteOn
  <2>6. ProviderType'
    BY <1>4, <2>5, <1>W DEF WroteOn, ProviderType
  <2>7. ValuesInv'
    BY <1>4, <2>5, <1>W DEF WroteOn, ProviderType, ValuesInv, P!RWLocks
  <2>8. \A d \in Clients \ {c} : Through(d) => Through(d)'
    BY <1>4, <2>5, <1>W DEF WroteOn, ValuesInv, Through
  <2> QED BY <2>6, <2>7, <2>8
<1>5. CASE Unlocked(c)
  <2>1. /\ valuesLock' \in P!RWLocks(Clients)
        /\ valuesLock'.writer = {} /\ valuesLock'.waiting = {}
        /\ valuesLock'.readers = valuesLock.waiting
    BY <1>5 DEF Unlocked, ProviderType, P!RWLocks, P!Unlock
  <2>5. /\ stage'[c] = "idle" /\ \A d \in Clients \ {c} : stage'[d] = stage[d]
        /\ stage' \in [Clients -> {"idle", "rlock"} \cup P!WritingPC
                                                    \cup P!ReadingPC]
    BY <1>5, <1>M DEF Unlocked
  <2>6. ProviderType'
    BY <1>5, <2>5, <2>1, <1>W DEF Unlocked, ProviderType
  <2>7. ValuesInv'
    BY <1>5, <2>5, <2>1, <1>W DEF Unlocked, ProviderType, ValuesInv, P!RWLocks
  <2>8. \A d \in Clients \ {c} : Through(d) => Through(d)'
    BY <1>5, <2>5, <2>1, <1>W DEF Unlocked, ValuesInv, Through
  <2> QED BY <2>6, <2>7, <2>8
<1>R. ASSUME Reads(c)
      PROVE  /\ c \notin valuesLock.waiting /\ c \notin valuesLock.writer
             /\ stage[c] \notin HoldingPC
  BY <1>R DEF Reads, ValuesInv
<1>6. CASE ReadOn(c)
  <2>1. PICK label \in P!ReadingPC : MoveTo(c, label)
    BY <1>6 DEF ReadOn
  <2>5. /\ stage'[c] = label /\ \A d \in Clients \ {c} : stage'[d] = stage[d]
        /\ stage' \in [Clients -> {"idle", "rlock"} \cup P!WritingPC
                                                    \cup P!ReadingPC]
    BY <1>6, <1>M, <2>1 DEF ReadOn
  <2>6. ProviderType'
    BY <1>6, <2>5, <1>R DEF ReadOn, ProviderType
  <2>7. ValuesInv'
    BY <1>6, <2>5, <1>R DEF ReadOn, ProviderType, ValuesInv, P!RWLocks
  <2>8. \A d \in Clients \ {c} : Through(d) => Through(d)'
    BY <1>6, <2>5, <1>R DEF ReadOn, ValuesInv, Through
  <2> QED BY <2>6, <2>7, <2>8
<1>7. CASE RUnlocked(c)
  <2>1. /\ valuesLock' \in P!RWLocks(Clients)
        /\ valuesLock'.writer = valuesLock.writer
        /\ valuesLock'.readers = valuesLock.readers \ {c}
        /\ valuesLock'.waiting = valuesLock.waiting
    BY <1>7 DEF RUnlocked, ProviderType, P!RWLocks, P!RUnlock
  <2>5. /\ stage'[c] = "idle" /\ \A d \in Clients \ {c} : stage'[d] = stage[d]
        /\ stage' \in [Clients -> {"idle", "rlock"} \cup P!WritingPC
                                                    \cup P!ReadingPC]
    BY <1>7, <1>M DEF RUnlocked
  <2>6. ProviderType'
    BY <1>7, <2>5, <2>1, <1>R DEF RUnlocked, ProviderType
  <2>7. ValuesInv'
    BY <1>7, <2>5, <2>1, <1>R DEF RUnlocked, ProviderType, ValuesInv, P!RWLocks
  <2>8. \A d \in Clients \ {c} : Through(d) => Through(d)'
    BY <1>7, <2>5, <2>1, <1>R DEF RUnlocked, ValuesInv, Through
  <2> QED BY <2>6, <2>7, <2>8
<1> QED BY <1>1, <1>2, <1>3, <1>4, <1>5, <1>6, <1>7 DEF ProviderStep

-----------------------------------------------------------------------------
(* What the steps of a regeneration and of a lookup do to the mapper's lock *)

JumpTo(p, label) == lookup' = [lookup EXCEPT ![p] = label]

WentOn(p) ==
    /\ lookup[p] # "replace" /\ UNCHANGED mu
    /\ \E label \in Labels : JumpTo(p, label)
Locked(p) ==
    /\ mu.writer = {} /\ mu' = M!Lock(mu, p) /\ JumpTo(p, "replace")
Installed(p) ==
    /\ mu.readers = {} /\ mu' = M!Unlock(mu)
    /\ \E label \in Labels : JumpTo(p, label)

RegenerationStep(p) == WentOn(p) \/ Locked(p) \/ Installed(p)

\* Every action of the constructor and of a refresh goroutine is one of them,
\* or leaves the lock and the stages alone.
LEMMA RegenerationSteps ==
    ASSUME NEW p \in M!Regens,
           M!Regenerate(p) \/ (p \in Loops /\ M!Refresh(p))
    PROVE  RegenerationStep(p) \/ UNCHANGED <<mu, lookup>>
<1>L. {"listLegacy", "listGroups", "fetch", "replace", "returned", "failed",
       "off", "top", "sleep", "ended"} = Labels
  BY DEF Labels, M!MainPC, M!LoopPC, M!RegenPC
<1>1. CASE M!ListLegacy(p) \/ M!ListGroups(p)
  <2>1. /\ lookup[p] # "replace" /\ UNCHANGED mu
        /\ \/ JumpTo(p, "listGroups") \/ JumpTo(p, "fetch")
           \/ JumpTo(p, "failed") \/ JumpTo(p, "sleep")
    BY <1>1 DEF M!ListLegacy, M!ListGroups, M!ListPart, M!GoTo, M!ReturnError,
                JumpTo
  <2> QED BY <1>L, <2>1 DEF RegenerationStep, WentOn
<1>2. CASE M!FetchVersion(p)
  BY <1>2 DEF M!FetchVersion
<1>3. CASE M!LockForReplace(p)
  BY <1>3 DEF M!LockForReplace, M!CanLock, M!GoTo, RegenerationStep, Locked, JumpTo
<1>4. CASE M!Replace(p)
  <2>1. /\ mu.readers = {} /\ mu' = M!Unlock(mu)
        /\ JumpTo(p, "returned") \/ JumpTo(p, "sleep")
    BY <1>4 DEF M!Replace, M!HoldsW, M!Return, M!GoTo, JumpTo
  <2> QED BY <1>L, <2>1 DEF RegenerationStep, Installed
<1>5. CASE M!Refresh(p)
  <2>1. /\ lookup[p] # "replace" /\ UNCHANGED mu
        /\ JumpTo(p, "top") \/ JumpTo(p, "ended") \/ JumpTo(p, "listLegacy")
    BY <1>5 DEF M!Refresh, M!RunUntil, M!LoopTop, M!WakeUp, M!GoTo, JumpTo
  <2> QED BY <1>L, <2>1 DEF RegenerationStep, WentOn
<1> QED BY <1>1, <1>2, <1>3, <1>4, <1>5 DEF M!Regenerate

\* Every goroutine either serves requests or belongs to the mapper.
LEMMA TwoKinds ==
    /\ Goroutines = M!Regens \cup Clients
    /\ \A p \in M!Regens : p \notin Clients
BY GoroutinesAssumption DEF Goroutines, M!Procs, M!Regens

\* A regeneration keeps the mapper's lock in order, and is none of the
\* callers' business.
LEMMA RegenerationSafe ==
    ASSUME MapperType, MuInv, NEW p \in M!Regens, RegenerationStep(p)
    PROVE  MapperType' /\ MuInv' /\ \A c \in Clients : lookup'[c] = lookup[c]
<1>1. p \in Goroutines /\ p \notin Clients
  BY TwoKinds
<1>M. ASSUME NEW label \in Labels, JumpTo(p, label)
      PROVE  /\ lookup'[p] = label
             /\ \A q \in Goroutines \ {p} : lookup'[q] = lookup[q]
             /\ lookup' \in [Goroutines -> Labels \cup M!CallerPC]
  BY <1>1, <1>M DEF JumpTo, MapperType
<1>2. PICK label \in Labels : JumpTo(p, label)
  <2>1. "replace" \in Labels
    BY DEF Labels, M!MainPC, M!RegenPC
  <2> QED BY <2>1 DEF RegenerationStep, WentOn, Locked, Installed
<1>3. /\ lookup'[p] = label
      /\ \A q \in Goroutines \ {p} : lookup'[q] = lookup[q]
      /\ lookup' \in [Goroutines -> Labels \cup M!CallerPC]
      /\ \A c \in Clients : lookup'[c] = lookup[c]
  BY <1>1, <1>2, <1>M, TwoKinds
<1>4. /\ mu' \in [readers : SUBSET Clients, waiting : SUBSET Clients,
                  writer : SUBSET M!Regens]
      /\ mu'.readers \cap mu'.waiting = {}
      /\ mu'.readers \subseteq mu.readers \cup mu.waiting
      /\ mu'.waiting \subseteq mu.waiting
      /\ \/ mu'.writer = mu.writer /\ p \notin mu.writer
         \/ mu'.writer = {}
         \/ mu'.writer = {p} /\ lookup'[p] = "replace"
  <2>1. CASE WentOn(p)
    BY <2>1 DEF WentOn, MapperType, MuInv
  <2>2. CASE Locked(p)
    <3>1. mu' = [readers |-> mu.readers, waiting |-> mu.waiting, writer |-> {p}]
      BY <2>2 DEF Locked, M!Lock, MapperType
    <3>2. lookup'[p] = "replace"
      BY <1>1, <2>2 DEF Locked, JumpTo, MapperType
    <3> QED BY <3>1, <3>2 DEF MapperType, MuInv
  <2>3. CASE Installed(p)
    <3>1. mu' = [readers |-> mu.waiting, waiting |-> {}, writer |-> {}]
      BY <2>3 DEF Installed, M!Unlock
    <3> QED BY <3>1 DEF MapperType, MuInv
  <2> QED BY <2>1, <2>2, <2>3 DEF RegenerationStep
<1>5. MapperType'
  BY <1>3, <1>4 DEF MapperType
<1>6. \A q \in mu'.writer : lookup'[q] = "replace"
  <2>1. CASE mu'.writer = mu.writer /\ p \notin mu.writer
    BY <1>3, <2>1, TwoKinds DEF MuInv, MapperType
  <2> QED BY <1>4, <2>1
<1>7. MuInv'
  BY <1>3, <1>4, <1>6 DEF MuInv, MapperType
<1> QED BY <1>3, <1>5, <1>7

\* So does each step of a lookup, and only the caller moves.
LEMMA LookupSafe ==
    ASSUME MapperType, MuInv, NEW c \in Clients, M!Lookup(c)
    PROVE  /\ MapperType' /\ MuInv'
           /\ \A d \in Clients \ {c} : lookup'[d] = lookup[d]
           /\ lookup'[c] = "idle" \/ M!LookupRLock(c) \/ lookup[c] # "idle"
<1>1. c \in Goroutines /\ c \notin M!Regens
  BY TwoKinds
<1>M. ASSUME NEW label \in M!CallerPC, JumpTo(c, label)
      PROVE  /\ lookup'[c] = label
             /\ \A q \in Goroutines \ {c} : lookup'[q] = lookup[q]
             /\ lookup' \in [Goroutines -> Labels \cup M!CallerPC]
             /\ \A d \in Clients : lookup'[d] \in M!CallerPC
  BY <1>1, <1>M, TwoKinds DEF JumpTo, MapperType
<1>C. {"idle", "lookup", "return"} = M!CallerPC
  BY DEF M!CallerPC
<1>2. CASE M!LookupRLock(c)
  <2>1. /\ lookup[c] = "idle" /\ JumpTo(c, "lookup") /\ mu' = M!RLock(mu, c)
    BY <1>2 DEF M!LookupRLock, M!GoTo, JumpTo
  <2>2. c \notin mu.readers /\ c \notin mu.waiting
    BY <2>1 DEF MuInv
  <2>3. /\ mu'.writer = mu.writer
        /\ mu'.readers \subseteq mu.readers \cup {c}
        /\ mu'.waiting \subseteq mu.waiting \cup {c}
        /\ mu'.readers \cap mu'.waiting = {}
        /\ mu' \in [readers : SUBSET Clients, waiting : SUBSET Clients,
                    writer : SUBSET M!Regens]
    BY <2>1, <2>2 DEF M!RLock, MapperType, MuInv
  <2>4. /\ lookup'[c] = "lookup"
        /\ \A q \in Goroutines \ {c} : lookup'[q] = lookup[q]
        /\ MapperType'
    BY <1>C, <1>M, <2>1, <2>3 DEF MapperType
  <2>5. MuInv'
    BY <1>1, <2>3, <2>4, TwoKinds DEF MuInv, MapperType
  <2> QED BY <1>2, <2>4, <2>5, TwoKinds
<1>3. CASE M!LookupDelegate(c)
  <2>1. /\ lookup[c] = "lookup" /\ JumpTo(c, "return") /\ mu' = mu
        /\ c \in mu.readers
    BY <1>3 DEF M!LookupDelegate, M!HoldsR, M!GoTo, JumpTo
  <2>2. c \notin mu.waiting
    BY <2>1 DEF MuInv
  <2>3. /\ lookup'[c] = "return"
        /\ \A q \in Goroutines \ {c} : lookup'[q] = lookup[q]
        /\ MapperType'
    BY <1>C, <1>M, <2>1 DEF MapperType
  <2>4. MuInv'
    BY <1>1, <2>1, <2>2, <2>3, TwoKinds DEF MuInv, MapperType
  <2> QED BY <2>1, <2>3, <2>4, TwoKinds
<1>4. CASE M!LookupRUnlock(c)
  <2>1. lookup[c] = "return" /\ JumpTo(c, "idle") /\ mu' = M!RUnlock(mu, c)
    BY <1>4 DEF M!LookupRUnlock, M!GoTo, JumpTo
  <2>2. c \notin mu.waiting
    BY <2>1 DEF MuInv
  <2>3. /\ mu'.writer = mu.writer /\ mu'.waiting = mu.waiting
        /\ mu'.readers = mu.readers \ {c}
        /\ mu' \in [readers : SUBSET Clients, waiting : SUBSET Clients,
                    writer : SUBSET M!Regens]
    BY <2>1 DEF M!RUnlock, MapperType
  <2>4. /\ lookup'[c] = "idle"
        /\ \A q \in Goroutines \ {c} : lookup'[q] = lookup[q]
        /\ MapperType'
    BY <1>C, <1>M, <2>1, <2>3 DEF MapperType
  <2>5. MuInv'
    BY <1>1, <2>2, <2>3, <2>4, TwoKinds DEF MuInv, MapperType
  <2> QED BY <2>4, <2>5, TwoKinds
<1> QED BY <1>2, <1>3, <1>4 DEF M!Lookup

-----------------------------------------------------------------------------
(* The composition *)

\* Both locks are free at first.
LEMMA LocksInit == Init => LocksInv
<1> SUFFICES ASSUME Init PROVE LocksInv
  OBVIOUS
<1>1. /\ mu = [readers |-> {}, waiting |-> {}, writer |-> {}]
      /\ valuesLock = [readers |-> {}, waiting |-> {}, writer |-> {}]
  BY DEF Init, M!Init, P!Init, M!Free, P!Free
<1>2. stage = [c \in Clients |-> "idle"]
  BY DEF Init, P!Init
<1>3. /\ lookup \in [Goroutines -> Labels \cup M!CallerPC]
      /\ \A c \in Clients : lookup[c] = "idle"
  BY TwoKinds DEF Init, M!Init, Goroutines, Labels, M!MainPC, M!LoopPC,
                  M!RegenPC, M!CallerPC, M!Regens
<1>4. MapperType
  BY <1>1, <1>3 DEF MapperType, M!CallerPC
<1>5. ProviderType /\ ValuesInv
  BY <1>1, <1>2 DEF ProviderType, ValuesInv, P!RWLocks, HoldingPC, P!AlonePC
<1> QED BY <1>1, <1>3, <1>4, <1>5 DEF LocksInv, MuInv, OrderInv

\* Steps that touch neither the locks nor the stages.
LEMMA LocksFrame ==
    ASSUME LocksInv, UNCHANGED <<mu, lookup, stage, valuesLock>>
    PROVE  LocksInv'
BY DEF LocksInv, MapperType, ProviderType, MuInv, ValuesInv, OrderInv, Through

\* Both locks stay in order, and so does their order.
LEMMA LocksStep == LocksInv /\ [Next]_vars => LocksInv'
<1> SUFFICES ASSUME LocksInv, [Next]_vars PROVE LocksInv'
  OBVIOUS
<1>I. MapperType /\ ProviderType /\ MuInv /\ ValuesInv /\ OrderInv
  BY DEF LocksInv
<1>1. CASE UNCHANGED vars
  BY <1>1, LocksFrame DEF vars, mapperVars, providerVars
<1>2. CASE MapperAlone
  <2>1. UNCHANGED <<stage, valuesLock>>
    BY <1>2 DEF MapperAlone, providerVars
  <2>2. ASSUME NEW p \in M!Regens, RegenerationStep(p) PROVE LocksInv'
    <3>1. MapperType' /\ MuInv' /\ \A c \in Clients : lookup'[c] = lookup[c]
      BY <1>I, <2>2, RegenerationSafe
    <3>2. ProviderType' /\ ValuesInv'
      BY <1>I, <2>1 DEF ProviderType, ValuesInv
    <3>3. OrderInv'
      BY <1>I, <2>1, <3>1 DEF OrderInv, Through
    <3> QED BY <3>1, <3>2, <3>3 DEF LocksInv
  <2>3. CASE UNCHANGED <<mu, lookup>>
    BY <2>1, <2>3, LocksFrame
  <2>4. ASSUME NEW g \in GroupVersions, M!ClusterChange(g)
        PROVE  UNCHANGED <<mu, lookup>>
    BY <2>4 DEF M!ClusterChange
  <2>5. ASSUME M!CloseStop \/ M!Exited PROVE UNCHANGED <<mu, lookup>>
    BY <2>5 DEF M!CloseStop, M!Exited, M!vars
  <2>6. ASSUME NEW p \in M!Regens, M!Regenerate(p) PROVE LocksInv'
    BY <2>2, <2>3, <2>6, RegenerationSteps
  <2>7. ASSUME NEW p \in Loops, M!Refresh(p) PROVE LocksInv'
    BY <2>2, <2>3, <2>7, RegenerationSteps DEF M!Regens
  <2> QED BY <1>2, <2>3, <2>4, <2>5, <2>6, <2>7 DEF MapperAlone
<1>3. ASSUME NEW c \in Clients, ProviderStep(c), lookup[c] = "idle",
             UNCHANGED <<mu, lookup>>
      PROVE  LocksInv'
  <2>1. /\ ProviderType' /\ ValuesInv'
        /\ \A d \in Clients \ {c} : Through(d) => Through(d)'
    BY <1>I, <1>3, ValuesStep
  <2>2. MapperType' /\ MuInv'
    BY <1>I, <1>3 DEF MapperType, MuInv
  <2>3. OrderInv'
    BY <1>I, <1>3, <2>1 DEF OrderInv
  <2> QED BY <2>1, <2>2, <2>3 DEF LocksInv
<1>4. ASSUME NEW c \in Clients, Request(c) PROVE LocksInv'
  <2>1. ProviderStep(c) /\ stage[c] = "idle" /\ UNCHANGED <<mu, lookup>>
    BY <1>4, RequestSteps DEF Request, mapperVars
  <2>2. lookup[c] = "idle"
    BY <1>I, <2>1 DEF OrderInv, Through, P!AlonePC, P!ReadingPC
  <2> QED BY <1>3, <2>1, <2>2
<1>5. ASSUME NEW c \in Clients, ProviderAlone(c) PROVE LocksInv'
  <2>1. ProviderStep(c) /\ lookup[c] = "idle" /\ UNCHANGED <<mu, lookup>>
    BY <1>5, AloneSteps DEF ProviderAlone, mapperVars
  <2> QED BY <1>3, <2>1
<1>6. ASSUME NEW c \in Clients, M!Lookup(c), Through(c), UNCHANGED providerVars
      PROVE  LocksInv'
  <2>1. /\ MapperType' /\ MuInv'
        /\ \A d \in Clients \ {c} : lookup'[d] = lookup[d]
    BY <1>I, <1>6, LookupSafe
  <2>2. UNCHANGED <<stage, valuesLock>>
    BY <1>6 DEF providerVars
  <2>3. ProviderType' /\ ValuesInv'
    BY <1>I, <2>2 DEF ProviderType, ValuesInv
  <2>4. OrderInv'
    BY <1>I, <1>6, <2>1, <2>2 DEF OrderInv, Through
  <2> QED BY <2>1, <2>3, <2>4 DEF LocksInv
<1>7. ASSUME NEW c \in Clients, Ask(c) PROVE LocksInv'
  <2>1. Through(c)
    BY <1>7 DEF Ask, AsksMapper, Through, P!Granted, P!HoldsR, P!AlonePC,
                P!ReadingPC
  <2> QED BY <1>6, <1>7, <2>1 DEF Ask, M!Lookup
<1>8. ASSUME NEW c \in Clients, AskDelegate(c) PROVE LocksInv'
  <2>1. Through(c)
    BY <1>8, <1>I DEF AskDelegate, M!LookupDelegate, OrderInv
  <2> QED BY <1>6, <1>8, <2>1 DEF AskDelegate, M!Lookup
<1>9. ASSUME NEW c \in Clients, UseAnswer(c) PROVE LocksInv'
  <2>1. M!Lookup(c) /\ M!LookupRUnlock(c) /\ ProviderStep(c)
    BY <1>9, AnswerSteps DEF UseAnswer, M!Lookup
  <2>2. /\ MapperType' /\ MuInv'
        /\ \A d \in Clients \ {c} : lookup'[d] = lookup[d]
    BY <1>I, <2>1, LookupSafe
  <2>3. /\ ProviderType' /\ ValuesInv'
        /\ \A d \in Clients \ {c} : Through(d) => Through(d)'
    BY <1>I, <2>1, ValuesStep
  <2>4. lookup'[c] = "idle"
    BY <1>I, <2>1, TwoKinds DEF M!LookupRUnlock, M!GoTo, MapperType
  <2>5. OrderInv'
    BY <1>I, <2>2, <2>3, <2>4 DEF OrderInv
  <2> QED BY <2>2, <2>3, <2>5 DEF LocksInv
<1>10. CASE Exited
  BY <1>10, <1>1 DEF Exited
<1> QED
  BY <1>1, <1>2, <1>4, <1>5, <1>7, <1>8, <1>9, <1>10 DEF Next, Serve

\* A goroutine waits only for those that are at the lock.
LEMMA AwaitsHolders ==
    ASSUME NEW p, NEW lock, NEW wants
    PROVE  Awaits(p, lock, wants) \subseteq lock.writer \cup lock.readers
BY DEF Awaits

(***************************************************************************)
(* Why there is no circle.  Who reads the mapper waits for nobody, since   *)
(* it is through with the provider's lock; so neither it nor the writer    *)
(* that waits for it is in a circle, and nobody is there for the mapper's  *)
(* lock.  Then the readers of the provider's lock wait for nobody in the   *)
(* circle, nor does its writer, nor does anybody else.                     *)
(***************************************************************************)
LEMMA NoCircle == LocksInv => NoCircularWait
<1> SUFFICES ASSUME LocksInv, NEW circle \in (SUBSET Goroutines) \ {{}},
                    \A p \in circle : AwaitedBy(p) \cap circle # {}
             PROVE  FALSE
  BY DEF NoCircularWait
<1>I. MapperType /\ ProviderType /\ MuInv /\ ValuesInv /\ OrderInv
  BY DEF LocksInv
<1>1. ASSUME NEW c \in mu.readers PROVE AwaitedBy(c) = {}
  <2>1. /\ c \in Clients /\ c \notin mu.waiting /\ mu.writer # {c}
        /\ lookup[c] \in {"lookup", "return"} /\ Through(c)
    BY <1>I, TwoKinds DEF MapperType, MuInv, OrderInv
  <2>2. Awaits(c, mu, lookup[c] = "fetch" /\ todo[c] = {}) = {}
    BY <2>1 DEF Awaits
  <2>3. /\ stage[c] # "lock" /\ c \notin valuesLock.waiting
        /\ valuesLock.writer = {c} => valuesLock.readers = {}
    BY <1>I, <2>1 DEF Through, ValuesInv, HoldingPC, P!AlonePC, P!ReadingPC
  <2>4. Awaits(c, valuesLock, stage[c] = "lock") = {}
    BY <2>3 DEF Awaits
  <2> QED BY <2>1, <2>2, <2>4 DEF AwaitedBy
<1>2. mu.readers \cap circle = {}
  BY <1>1
<1>3. ASSUME NEW p \in mu.writer PROVE AwaitedBy(p) \subseteq mu.readers
  <2>1. /\ p \notin Clients /\ p \notin mu.waiting /\ lookup[p] = "replace"
    BY <1>I, TwoKinds DEF MapperType, MuInv
  <2>2. Awaits(p, mu, lookup[p] = "fetch" /\ todo[p] = {}) \subseteq mu.readers
    BY <2>1 DEF Awaits
  <2> QED BY <2>1, <2>2 DEF AwaitedBy
<1>4. mu.writer \cap circle = {}
  BY <1>2, <1>3
<1>5. ASSUME NEW p \in circle
      PROVE  /\ p \in Clients
             /\ Awaits(p, valuesLock, stage[p] = "lock") \cap circle # {}
  <2>1. Awaits(p, mu, lookup[p] = "fetch" /\ todo[p] = {}) \cap circle = {}
    BY <1>2, <1>4, AwaitsHolders
  <2> QED BY <2>1 DEF AwaitedBy
<1>6. valuesLock.readers \cap circle = {}
  <2>1. ASSUME NEW c \in valuesLock.readers
        PROVE  Awaits(c, valuesLock, stage[c] = "lock") = {}
    <3>1. stage[c] # "lock" /\ c \notin valuesLock.waiting
          /\ c \notin valuesLock.writer
      BY <1>I DEF ValuesInv, HoldingPC, P!AlonePC, P!ReadingPC
    <3> QED BY <3>1 DEF Awaits
  <2> QED BY <1>5, <2>1
<1>7. valuesLock.writer \cap circle = {}
  <2>1. ASSUME NEW c \in valuesLock.writer
        PROVE  Awaits(c, valuesLock, stage[c] = "lock") \subseteq valuesLock.readers
    <3>1. stage[c] # "lock" /\ c \notin valuesLock.waiting
      BY <1>I DEF ValuesInv, HoldingPC, P!AlonePC
    <3> QED BY <3>1 DEF Awaits
  <2> QED BY <1>5, <1>6, <2>1
<1>8. PICK p \in circle : TRUE
  OBVIOUS
<1> QED BY <1>5, <1>6, <1>7, <1>8, AwaitsHolders

\* For any number of requests and refresh goroutines: no goroutines ever wait
\* for each other in a circle, over valuesLock and the mapper's mu together.
THEOREM AdapterNeverDeadlocks == Spec => []NoCircularWait
BY LocksInit, LocksStep, NoCircle, PTL DEF Spec

-----------------------------------------------------------------------------
(* The composition implements its parts *)

\* Every step of the adapter is one of the mapper's specification, or leaves
\* the mapper alone.
LEMMA MapperStep == [Next]_vars => [M!Next]_(M!vars)
<1> SUFFICES ASSUME [Next]_vars PROVE [M!Next]_(M!vars)
  OBVIOUS
<1>1. CASE UNCHANGED mapperVars
  BY <1>1 DEF mapperVars, M!vars
<1>2. CASE MapperAlone
  BY <1>2 DEF MapperAlone, M!Next
<1>3. ASSUME NEW c \in Clients, Ask(c) \/ AskDelegate(c) \/ UseAnswer(c)
      PROVE  M!Next
  <2>1. M!Lookup(c)
    BY <1>3 DEF Ask, AskDelegate, UseAnswer, M!Lookup
  <2> QED BY <2>1 DEF M!Next
<1>4. ASSUME NEW c \in Clients, Request(c) \/ ProviderAlone(c)
      PROVE  UNCHANGED mapperVars
  BY <1>4 DEF Request, ProviderAlone
<1> QED BY <1>1, <1>2, <1>3, <1>4 DEF Next, Serve, Exited, vars

\* Serving requests does nothing to the mapper that its own specification
\* does not allow, with the requests as its callers: what is proved of the
\* mapper holds of it in the adapter.
THEOREM AdapterImplementsMapper == Spec => M!Spec
<1>1. Init => M!Init
  BY DEF Init
<1> QED BY <1>1, MapperStep, PTL DEF Spec, M!Spec

\* The mapping of a delegate comes from the group-versions it was built from.
LEMMA ResolveIs ==
    ASSUME NEW d
    PROVE  \E served \in SUBSET GroupVersions : Resolve(d) = ResolveServed(served)
<1> DEFINE served == {g \in GroupVersions : d # Nil /\ d[g].rev # 0}
<1>1. <<ResolveServed(served), served>> \in Resolutions
  BY DEF Resolutions
<1>2. PICK r \in Resolutions : r = (CHOOSE q \in Resolutions : q[2] = served)
                               /\ r[2] = served
  BY <1>1
<1>3. PICK other \in SUBSET GroupVersions : r = <<ResolveServed(other), other>>
  BY <1>2 DEF Resolutions
<1>4. Resolve(d) = r[1]
  BY <1>2 DEF Resolve, ResolutionOf
<1> QED BY <1>3, <1>4

-----------------------------------------------------------------------------
(* The delegates that discovery yields *)

DelegateGroups == {GroupOf[g] : g \in GroupVersions}

LEMMA GroupsAre ==
    ASSUME NEW served \in SUBSET GroupVersions, NEW D, D = GroupsOf(served)
    PROVE  /\ \E G : D \in Seq(G)
           /\ Len(D) = Len(Order) /\ DOMAIN Order = 1 .. Len(Order)
           /\ \A i \in 1 .. Len(D) :
                /\ Order[i] \in GroupVersions /\ D[i].name = GroupOf[Order[i]]
                /\ D[i].versions = <<"v1">>
                /\ DOMAIN D[i].resources = {w \in {"v1"} : Order[i] \in served}
                /\ \A v \in DOMAIN D[i].resources :
                     D[i].resources[v] = ResourcesOf[Order[i]]
<1>1. /\ Order \in Seq(GroupVersions) /\ DOMAIN Order = 1 .. Len(Order)
      /\ Len(Order) \in Nat
  BY GroupsAssumption
<1>2. D = [i \in 1 .. Len(Order) |-> D[i]] /\ Len(D) = Len(Order)
  BY <1>1 DEF GroupsOf
<1>3. D \in Seq({D[i] : i \in 1 .. Len(Order)})
  BY <1>1, <1>2
<1>4. ASSUME NEW i \in 1 .. Len(D)
      PROVE  /\ Order[i] \in GroupVersions /\ D[i].name = GroupOf[Order[i]]
             /\ D[i].versions = <<"v1">>
             /\ DOMAIN D[i].resources = {w \in {"v1"} : Order[i] \in served}
             /\ \A v \in DOMAIN D[i].resources :
                  D[i].resources[v] = ResourcesOf[Order[i]]
  <2>1. Order[i] \in GroupVersions
    BY <1>1, <1>2
  <2>2. D[i] = [name |-> GroupOf[Order[i]], versions |-> <<"v1">>, preferred |-> "v1",
                resources |-> [v \in {w \in {"v1"} : Order[i] \in served}
                                 |-> ResourcesOf[Order[i]]]]
    BY <1>1, <1>2 DEF GroupsOf
  <2> QED BY <2>1, <2>2
<1> QED BY <1>1, <1>2, <1>3, <1>4

LEMMA GroupsAreWellFormed ==
    ASSUME NEW served \in SUBSET GroupVersions, NEW D, D = GroupsOf(served)
    PROVE  /\ WellFormed(D, {"v1"})
           /\ \A i \in 1 .. Len(D) :
                /\ D[i].name \in DelegateGroups
                /\ \A r \in Served(D[i]) : Order[i] \in served /\ r \in ResourcesOf[Order[i]]
                /\ \A r \in ResourcesOf[Order[i]] : Order[i] \in served => r \in Served(D[i])
<1>1. /\ Len(D) = Len(Order) /\ DOMAIN Order = 1 .. Len(Order)
      /\ \A i \in 1 .. Len(D) :
           /\ Order[i] \in GroupVersions /\ D[i].name = GroupOf[Order[i]]
           /\ D[i].versions = <<"v1">>
           /\ DOMAIN D[i].resources = {w \in {"v1"} : Order[i] \in served}
           /\ \A v \in DOMAIN D[i].resources : D[i].resources[v] = ResourcesOf[Order[i]]
  BY GroupsAre
<1>2. ASSUME NEW i \in 1 .. Len(D)
      PROVE  /\ D[i].versions \in Seq({"v1"}) /\ Len(D[i].versions) = 1
             /\ Listed(D[i]) = {"v1"}
             /\ DOMAIN D[i].resources \subseteq {"v1"}
             /\ D[i].name \in DelegateGroups
             /\ D[i].name = Core => i = 1
  <2>1. D[i].versions \in Seq({"v1"}) /\ Len(D[i].versions) = 1 /\ D[i].versions[1] = "v1"
    <3>1. D[i].versions = <<"v1">>
      BY <1>1
    <3> QED BY <3>1
  <2>2. DOMAIN D[i].versions = {1}
    BY <2>1
  <2>3. Listed(D[i]) = {"v1"}
    BY <2>1, <2>2 DEF Listed
  <2>4. D[i].name \in DelegateGroups /\ DOMAIN D[i].resources \subseteq {"v1"}
    BY <1>1 DEF DelegateGroups
  <2>5. D[i].name = Core => i = 1
    BY <1>1, GroupsAssumption
  <2> QED BY <2>1, <2>3, <2>4, <2>5
<1>3. \A i, j \in 1 .. Len(D) : D[i].name = D[j].name => i = j
  BY <1>1, GroupsAssumption
<1>4. AnyVersion \notin {"v1"}
  BY DEF AnyVersion
<1>5. WellFormed(D, {"v1"})
  BY <1>2, <1>3, <1>4 DEF WellFormed
<1>6. ASSUME NEW i \in 1 .. Len(D), NEW r \in Served(D[i])
      PROVE  Order[i] \in served /\ r \in ResourcesOf[Order[i]]
  <2>1. PICK v \in DOMAIN D[i].resources : r \in D[i].resources[v]
    BY Zenon DEF Served
  <2> QED BY <1>1, <2>1
<1>7. ASSUME NEW i \in 1 .. Len(D), NEW r \in ResourcesOf[Order[i]], Order[i] \in served
      PROVE  r \in Served(D[i])
  <2>1. "v1" \in DOMAIN D[i].resources /\ D[i].resources["v1"] = ResourcesOf[Order[i]]
    BY <1>1, <1>7
  <2> QED BY <2>1, Zenon DEF Served
<1> QED BY <1>2, <1>5, <1>6, <1>7

\* Fewer group-versions serve nothing that others call differently.
LEMMA GroupsNamesAgree ==
    ASSUME NEW served \in SUBSET GroupVersions, NEW D, D = GroupsOf(served)
    PROVE  NamesAgree(D)
<1> DEFINE A == GroupsOf(GroupVersions)
<1>1. NamesAgree(A)
  BY GroupsAssumption
<1>2. GroupVersions \in SUBSET GroupVersions
  OBVIOUS
<1>3. /\ DOMAIN A = 1 .. Len(Order) /\ DOMAIN D = 1 .. Len(Order)
      /\ \A i \in 1 .. Len(Order) : A[i].name = D[i].name
  BY GroupsAssumption DEF GroupsOf
<1>4. Len(A) = Len(Order) /\ Len(D) = Len(Order)
  BY <1>2, GroupsAre
<1> HIDE DEF A
<1>5. ASSUME NEW i \in 1 .. Len(Order), NEW r \in Served(D[i])
      PROVE  r \in Served(A[i])
  <2>1. Order[i] \in served /\ r \in ResourcesOf[Order[i]]
    BY <1>4, GroupsAreWellFormed
  <2> QED BY <1>2, <1>4, <2>1, GroupsAreWellFormed DEF A
<1> QED BY <1>1, <1>3, <1>5 DEF NamesAgree

\* The spelling of a group-resource that has one.
LEMMA SpellIs ==
    ASSUME NEW gr, \E t \in Spellings : Parsed[t] = gr
    PROVE  Spell(gr) \in Spellings /\ Parsed[Spell(gr)] = gr
BY Zenon DEF Spell

\* A spelling resolves to the resource h of group m.
ResolvesTo(d, D, s, m, h) ==
    LET found == [group |-> D[m].name, resource |-> h.plural]
    IN  /\ m \in 1 .. Len(D) /\ h \in Served(D[m])
        /\ \E t \in Spellings : Parsed[t] = found
        /\ d[s] = Spell(found)

LEMMA ResolvedIs ==
    ASSUME NEW served \in SUBSET GroupVersions, NEW D, D = GroupsOf(served),
           NEW s \in Spellings, Able(D, Parsed[s]) # {},
           NEW m, NEW b, NEW h, Answer(D, Parsed[s], m, b, h)
    PROVE  ResolvesTo(ResolveServed(served), D, s, m, h)
<1> DEFINE mapper == NewDiscoveryRESTMapper(D)
           found == ResourceFor(mapper, Parsed[s])
<1>1. /\ m \in 1 .. Len(D) /\ h \in Served(D[m]) /\ b = "v1"
      /\ found = [group |-> D[m].name, version |-> b, resource |-> h.plural]
  <2>1. PICK G : D \in Seq(G)
    BY GroupsAre
  <2>2. WellFormed(D, {"v1"})
    BY GroupsAreWellFormed
  <2>3. /\ m \in 1 .. Len(D) /\ h \in Served(D[m]) /\ b \in {"v1"}
        /\ found = [group |-> D[m].name, version |-> b, resource |-> h.plural]
    BY <2>1, <2>2, AnswerIs
  <2> QED BY <2>3
<1>2. /\ Order[m] \in GroupVersions /\ D[m].name = GroupOf[Order[m]]
      /\ h \in ResourcesOf[Order[m]]
  BY <1>1, GroupsAre, GroupsAreWellFormed
<1>3. /\ \E t \in Spellings : Parsed[t] = [group |-> D[m].name, resource |-> h.plural]
      /\ NoMatch # [group |-> D[m].name, version |-> "v1", resource |-> h.plural]
  BY <1>2, SpellingsAssumption
<1>4. found # NoMatch /\ found.group = D[m].name /\ found.resource = h.plural
  BY <1>1, <1>3
<1>5. ResolveServed(served)[s] =
        IF found = NoMatch THEN NoMatch
        ELSE Spell([group |-> found.group, resource |-> found.resource])
  BY Zenon DEF ResolveServed
<1> HIDE DEF found
<1> QED BY <1>1, <1>3, <1>4, <1>5 DEF ResolvesTo

LEMMA NotResolved ==
    ASSUME NEW served \in SUBSET GroupVersions, NEW D, D = GroupsOf(served),
           NEW s \in Spellings, Able(D, Parsed[s]) = {}
    PROVE  ResolveServed(served)[s] = NoMatch
<1>1. PICK G : D \in Seq(G)
  BY GroupsAre
<1>2. WellFormed(D, {"v1"})
  BY GroupsAreWellFormed
<1>3. ResourceFor(NewDiscoveryRESTMapper(D), Parsed[s]) = NoMatch
  BY <1>1, <1>2, NothingFound
<1> QED BY <1>3 DEF ResolveServed

\* Whatever is fetched, the provider can rely on the delegate: a resource
\* that was found is found again under its full name, and by its name alone.
THEOREM DelegatesAreSound ==
    \A served \in SUBSET GroupVersions : ResolveServed(served) \in SoundDelegates
<1> SUFFICES ASSUME NEW served \in SUBSET GroupVersions
             PROVE  ResolveServed(served) \in SoundDelegates
  OBVIOUS
<1> DEFINE D == GroupsOf(served)
           d == ResolveServed(served)
<1>1. /\ WellFormed(D, {"v1"}) /\ NamesAgree(D)
      /\ \A i \in 1 .. Len(D) : D[i].name \in DelegateGroups
  BY GroupsAreWellFormed, GroupsNamesAgree
<1>2. PICK G : D \in Seq(G)
  BY GroupsAre
<1>3. d = [s \in Spellings |-> d[s]]
  BY DEF ResolveServed
<1>4. D = GroupsOf(served) /\ d = ResolveServed(served)
  OBVIOUS
<1> HIDE DEF D, d
<1>5. ASSUME NEW s \in Spellings
      PROVE  /\ d[s] \in Spellings \cup {NoMatch}
             /\ d[s] # NoMatch => d[d[s]] = d[s] /\ d[Bare[d[s]]] # NoMatch
  <2>1. CASE Able(D, Parsed[s]) = {}
    BY <1>4, <2>1, NotResolved
  <2>2. CASE Able(D, Parsed[s]) # {}
    <3>1. PICK m, b, h : Answer(D, Parsed[s], m, b, h)
      BY Answered
    <3> DEFINE same == [group |-> D[m].name, resource |-> h.plural]
    <3>2. /\ m \in 1 .. Len(D) /\ h \in Served(D[m])
          /\ \E t \in Spellings : Parsed[t] = same
          /\ d[s] = Spell(same)
      <4>1. ResolvesTo(d, D, s, m, h)
        BY <1>4, <2>2, <3>1, ResolvedIs
      <4> QED BY <4>1 DEF ResolvesTo
    <3>3. d[s] \in Spellings /\ Parsed[d[s]] = same
      BY <3>2, SpellIs
    <3>4. Able(D, same) # {} /\ \E c, f : Answer(D, same, m, c, f) /\ f.plural = h.plural
      <4>1. PrefixOrder(DelegateGroups, {Parsed[t].group : t \in Spellings})
        BY GroupsAssumption DEF DelegateGroups
      <4>2. Parsed[s].group \in {Parsed[t].group : t \in Spellings} \cup {Core}
        OBVIOUS
      <4>3. Named(h, h.plural)
        BY DEF Named
      <4> QED BY <1>1, <1>2, <2>2, <3>1, <3>2, <4>1, <4>2, <4>3, Canonical
    <3>5. PICK c, f : Answer(D, same, m, c, f) /\ f.plural = h.plural
      BY <3>4
    <3>6. d[d[s]] = d[s]
      <4>1. d[d[s]] = Spell([group |-> D[m].name, resource |-> f.plural])
        <5>1. Able(D, Parsed[d[s]]) # {} /\ Answer(D, Parsed[d[s]], m, c, f)
          BY <3>3, <3>4, <3>5
        <5>2. ResolvesTo(d, D, d[s], m, f)
          BY <1>4, <3>3, <5>1, ResolvedIs
        <5> QED BY <5>2 DEF ResolvesTo
      <4> QED BY <3>2, <3>5, <4>1
    <3> DEFINE plain == [group |-> Core, resource |-> h.plural]
               u == Bare[d[s]]
    <3>7. u \in Spellings /\ Parsed[u] = plain
      <4>1. u = Spell([group |-> Core, resource |-> Parsed[d[s]].resource])
        BY <3>3 DEF Bare
      <4>2. \E t \in Spellings :
              Parsed[t] = [group |-> Core, resource |-> Parsed[d[s]].resource]
        BY <3>3, SpellingsAssumption
      <4>3. Parsed[d[s]].resource = h.plural
        BY <3>3
      <4> HIDE DEF u
      <4> QED BY <4>1, <4>2, <4>3, SpellIs
    <3>8. Able(D, plain) # {}
      BY <1>1, <1>2, <3>2, ServedPlain
    <3> HIDE DEF plain, u
    <3>9. d[u] # NoMatch
      <4>1. PICK k, c2, f2 : Answer(D, plain, k, c2, f2)
        BY Answered
      <4>2. /\ d[u] = Spell([group |-> D[k].name, resource |-> f2.plural])
            /\ \E t \in Spellings : Parsed[t] = [group |-> D[k].name, resource |-> f2.plural]
        <5>1. Able(D, Parsed[u]) # {} /\ Answer(D, Parsed[u], k, c2, f2)
          BY <3>7, <3>8, <4>1
        <5>2. ResolvesTo(d, D, u, k, f2)
          BY <1>4, <3>7, <5>1, ResolvedIs
        <5> QED BY <5>2 DEF ResolvesTo
      <4>3. d[u] \in Spellings
        BY <4>2, SpellIs
      <4> QED BY <4>3, SpellingsAssumption
    <3> QED BY <3>3, <3>6, <3>9 DEF u
  <2> QED BY <2>1, <2>2
<1>6. d \in [Spellings -> Spellings \cup {NoMatch}]
  BY <1>3, <1>5
<1>7. d \in SoundDelegates
  BY <1>5, <1>6 DEF SoundDelegates
<1> QED BY <1>7 DEF d

-----------------------------------------------------------------------------
(* The refinement of the provider *)

\* Every step of the adapter is a step of the provider, or replaces the
\* delegate, or leaves the provider alone.
LEMMA ProviderStepIs ==
    ASSUME [Next]_vars
    PROVE  [P!Next]_(P!vars)
<1>1. CASE UNCHANGED vars
  <2>1. UNCHANGED providerVars /\ UNCHANGED delegate
    BY <1>1 DEF vars, mapperVars
  <2>2. UNCHANGED Resolve(delegate)
    BY <2>1
  <2> QED BY <2>1, <2>2 DEF providerVars, P!vars
<1>2. CASE MapperAlone
  <2>1. UNCHANGED providerVars
    BY <1>2 DEF MapperAlone
  <2>2. Resolve(delegate') \in SoundDelegates
    BY ResolveIs, DelegatesAreSound
  <2>3. CASE Resolve(delegate') = Resolve(delegate)
    BY <2>1, <2>3 DEF providerVars, P!vars
  <2>4. CASE Resolve(delegate') # Resolve(delegate)
    BY <2>1, <2>2, <2>4 DEF providerVars, P!Next, P!ReplaceDelegate, P!locals
  <2> QED BY <2>3, <2>4
<1>3. ASSUME NEW c \in Clients, Request(c) PROVE P!Next
  BY <1>3 DEF Request, P!Next
<1>4. ASSUME NEW c \in Clients, ProviderAlone(c) \/ UseAnswer(c) PROVE P!Next
  <2>1. P!Serve(c)
    BY <1>4 DEF ProviderAlone, UseAnswer, P!Serve
  <2> QED BY <2>1 DEF P!Next
<1>5. ASSUME NEW c \in Clients, Ask(c) \/ AskDelegate(c)
      PROVE  UNCHANGED P!vars
  <2>1. UNCHANGED providerVars /\ UNCHANGED delegate
    BY <1>5 DEF Ask, AskDelegate, M!LookupRLock, M!LookupDelegate
  <2>2. UNCHANGED Resolve(delegate)
    BY <2>1
  <2> QED BY <2>1, <2>2 DEF providerVars, P!vars
<1> QED BY <1>1, <1>2, <1>3, <1>4, <1>5 DEF Next, Serve, Exited

\* Requests behave as the provider's specification says, with a regeneration
\* as its ReplaceDelegate, however lookups, requests and regenerations
\* interleave.
THEOREM AdapterImplementsProvider == Spec => ImplementsProvider
<1>1. Init => P!Init
  BY DEF Init
<1>2. [Next]_vars => [P!Next]_(P!vars)
  BY ProviderStepIs
<1> QED BY <1>1, <1>2, PTL DEF Spec, ImplementsProvider, P!Spec
=============================================================================
