-------------------------- MODULE ProviderHistory --------------------------
(***************************************************************************)
(* The testing provider with a history of what was accepted at each path,  *)
(* to say what a later read of that path has to answer.                    *)
(***************************************************************************)
EXTENDS TestingProvider

VARIABLES
    resolved,   \* history: what the mapper told each request of its resource
    acked       \* history: the value last accepted under each metric

hvars == <<vars, resolved, acked>>

\* What a path is a metric of, once its resource is resolved.
MetricAt(path, resource) ==
    LET call == ReadCall(path, Missing) IN KeyOf(call, resource, call.name)

HInit ==
    /\ Init
    /\ resolved = [c \in Clients |-> NoMatch]
    /\ acked = EmptyMap

\* The moments at which a request asks the mapper for the resource of its key.
Resolves(c) == pc[c] \in {"resolve", "next"} /\ pc'[c] # pc[c] /\ req'[c] = req[c]

Stores(c) == pc[c] = "store" /\ req'[c] = NoRequest

HNext ==
    /\ Next
    /\ resolved' = [c \in Clients |->
                      IF Resolves(c) THEN mapping[ReadCall(req[c].path, Missing).resource]
                                     ELSE resolved[c]]
    /\ \/ \E c \in Clients :
            /\ Stores(c)
            /\ acked' = IF resolved[c] = NoMatch THEN acked
                        ELSE Put(acked, MetricAt(req[c].path, resolved[c]), req[c].value)
       \/ (\A c \in Clients : ~Stores(c)) /\ UNCHANGED acked

HSpec == HInit /\ [][HNext]_hvars

\* A read by name that does not fail answers with the value last accepted at
\* its path under the resource that the mapper resolves it to, and says
\* NotFound only if there was none ("These writing routes have been set up
\* to be identical to the format of routes which metrics are read from"),
\* however often the mapper was replaced between the write and the read, or
\* during one of them.
ReadYourWrites ==
    [][\A c \in Clients :
         /\ req[c] # NoRequest /\ req'[c] = NoRequest
         /\ req[c].verb = "get" /\ req[c].path \in WritePaths
         => LET metric == MetricAt(req[c].path, resolved[c])
                told   == reply'[c]
            IN  /\ told.status = "ok" => /\ metric \in DOMAIN acked
                                         /\ \A i \in told.items : i.value = acked[metric]
                /\ told.status = "notFound" => metric \notin DOMAIN acked]_hvars
=============================================================================
