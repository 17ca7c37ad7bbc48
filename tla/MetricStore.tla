---------------------------- MODULE MetricStore ----------------------------
(***************************************************************************)
(* What a metrics provider that can be written to promises, whatever the   *)
(* concurrency inside: every request takes effect, or fails without any    *)
(* effect, at one moment between its call and its answer.                  *)
(*                                                                         *)
(* A key is the resolved name of a metric on an object.  How the resource  *)
(* in a request is resolved is up to the REST mapper: WriteResources and   *)
(* ReadResources are the answers it may give.                              *)
(***************************************************************************)
EXTENDS MetricKeys, ExternalMetrics

CONSTANTS
    Clients,            \* those who make requests, one at a time each
    Requests,           \* the requests they make
    Names,              \* names of the objects a selector may match
    NoRequest,          \* between two requests
    WriteResources(_),  \* resources a written spelling may be stored under
    ReadResources(_)    \* resources a read spelling may be resolved to

VARIABLES
    store,      \* from keys to values
    request,    \* what each client is waiting for
    answer      \* what each client was told last

storeVars == <<store, request, answer>>

Answer(status, items) == [status |-> status, items |-> items]

StoreInit ==
    /\ store = EmptyMap
    /\ request = [c \in Clients |-> NoRequest]
    /\ answer = [c \in Clients |-> Answer("none", {})]

Call(c, r) ==
    /\ request[c] = NoRequest
    /\ request' = [request EXCEPT ![c] = r]
    /\ answer' = [answer EXCEPT ![c] = Answer("none", {})]
    /\ UNCHANGED store

Reply(c, status, items) ==
    /\ request' = [request EXCEPT ![c] = NoRequest]
    /\ answer' = [answer EXCEPT ![c] = Answer(status, items)]

Write(c) ==
    LET call == WriteCall(request[c].path)
    IN  /\ request[c] # NoRequest /\ request[c].verb = "post"
        /\ \E resource \in WriteResources(call.resource) :
             store' = Put(store, KeyOf(call, resource, call.name),
                          request[c].value)
        /\ Reply(c, "ok", {})

\* The values of one moment, for the objects with the given names.  The
\* described kind is resolved separately from the key.
Read(c, objects) ==
    LET call == ReadCall(request[c].path, Missing)
    IN  \E resource, kind \in [objects -> ReadResources(call.resource)] :
          LET key(n) == KeyOf(call, resource[n], n)
              found  == {n \in objects : key(n) \in DOMAIN store}
          IN  IF call.op = "byName" /\ found = {}
              THEN Reply(c, "notFound", {})
              ELSE Reply(c, "ok", {[key   |-> key(n), value |-> store[key(n)],
                                    kind  |-> kind[n]] : n \in found})

ReadOne(c) ==
    /\ request[c] # NoRequest /\ request[c].verb = "get"
    /\ ReadCall(request[c].path, Missing).op = "byName"
    /\ Read(c, {ReadCall(request[c].path, Missing).name})
    /\ UNCHANGED store

ReadMatching(c) ==
    /\ request[c] # NoRequest /\ request[c].verb = "get"
    /\ ReadCall(request[c].path, Missing).op = "bySelector"
    /\ \E objects \in SUBSET Names : Read(c, objects)
    /\ UNCHANGED store

ListAll(c) ==
    /\ request[c] # NoRequest /\ request[c].verb = "list"
    /\ Reply(c, "ok", {APIResource(InfoOf(key)) : key \in DOMAIN store})
    /\ UNCHANGED store

\* The external metrics are always the same.
External(c) ==
    /\ request[c] # NoRequest
    /\ \/ /\ request[c].verb = "listExternal"
          /\ Reply(c, "ok", ExternalResources)
       \/ /\ request[c].verb = "external"
          /\ Reply(c, "ok", MatchingExternal(ExternalCall(request[c].path).metric,
                                             request[c].selector))
    /\ UNCHANGED store

Refuse(c) ==
    /\ request[c] # NoRequest
    /\ Reply(c, "error", {})
    /\ UNCHANGED store

StoreNext ==
    \E c \in Clients :
      \/ \E r \in Requests : Call(c, r)
      \/ Write(c) \/ ReadOne(c) \/ ReadMatching(c) \/ ListAll(c)
      \/ External(c) \/ Refuse(c)

StoreSpec == StoreInit /\ [][StoreNext]_storeVars
=============================================================================
