------------------------------ MODULE RWMutex ------------------------------
(***************************************************************************)
(* Go's sync.RWMutex, as the adapter uses it (the mapper's mu and the      *)
(* testing provider's valuesLock).  A lock is a value:                     *)
(*                                                                         *)
(*   readers   the goroutines that hold it for reading                     *)
(*   waiting   the goroutines blocked in RLock behind a writer             *)
(*   writer    {} or {p}: the goroutine p that holds it for writing, or    *)
(*             that has announced itself in Lock and waits for the readers *)
(*             that were there before it                                   *)
(*                                                                         *)
(* The library is external: what is modelled is its documented contract,   *)
(* "a blocked Lock call excludes new readers from acquiring the lock",     *)
(* which is the part that the liveness of the adapter rests on.            *)
(***************************************************************************)

Free == [readers |-> {}, waiting |-> {}, writer |-> {}]

RWLocks(Procs) ==
    [readers : SUBSET Procs, waiting : SUBSET Procs, writer : SUBSET Procs]

\* A call of RLock: the caller reads at once, or queues behind the writer.
RLock(l, p) ==
    IF l.writer = {}
    THEN [l EXCEPT !.readers = @ \cup {p}]
    ELSE [l EXCEPT !.waiting = @ \cup {p}]

HoldsR(l, p) == p \in l.readers

RUnlock(l, p) == [l EXCEPT !.readers = @ \ {p}]

\* Lock is entered by one writer at a time; it returns (HoldsW) when the readers are gone.
CanLock(l) == l.writer = {}

Lock(l, p) == [l EXCEPT !.writer = {p}]

HoldsW(l, p) == l.writer = {p} /\ l.readers = {}

\* Unlock lets in every reader that queued behind this writer.
Unlock(l) == [readers |-> l.waiting, waiting |-> {}, writer |-> {}]
=============================================================================
