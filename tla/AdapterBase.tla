---------------------------- MODULE AdapterBase ----------------------------
(***************************************************************************)
(* pkg/cmd/builder.go: the base of an adapter, with the server options     *)
(* (pkg/cmd/server/start.go) and the construction of the API server        *)
(* (pkg/apiserver) that it calls.                                          *)
(*                                                                         *)
(* The author of an adapter calls the methods in any order from a single   *)
(* goroutine.  A method builds its object on first use, from objects that  *)
(* other methods build; any construction may fail, and the author may call *)
(* again.  calls is the stack of methods in progress, innermost first.     *)
(***************************************************************************)
EXTENDS Naturals, Sequences

CONSTANTS
    NoProvider,     \* a nil provider: its API is disabled
    Provider,       \* a provider that the author has
    Called,         \* the methods that the author calls
    MaxFaults,      \* bound: number of constructions that fail
    MaxSerial       \* bound: number of objects that are built

ASSUME ConstantsAssumption ==
    /\ Provider # NoProvider
    /\ Called \subseteq {"clientConfig", "discoveryClient", "restMapper",
                         "dynamicClient", "informers", "config", "server", "run"}
    /\ MaxFaults \in Nat
    /\ MaxSerial \in Nat

\* The lazily built objects, and the one that each is built from.
Objects == {"clientConfig", "discoveryClient", "restMapper", "dynamicClient",
            "informers", "config", "server"}
Roots == {"clientConfig", "config"}
BuiltFrom == [discoveryClient |-> "clientConfig", restMapper |-> "discoveryClient",
              dynamicClient |-> "clientConfig", informers |-> "clientConfig",
              server |-> "config", run |-> "server"]
APIs == {"custom", "external"}

VARIABLES
    obj,            \* each cached object: its serial number, 0 for nil
    parent,         \* the object it was built from
    serial,         \* objects built so far
    calls,          \* the stack of methods in progress
    handed,         \* history: the objects that each method has returned
    flags,          \* how far the command-line flags are: see Init
    cmProvider,     \* b.cmProvider
    emProvider,     \* b.emProvider
    bindPort,       \* SecureServing.BindPort is not zero
    certNamed,      \* SecureServing.ServerCert.CertKey is set
    certsOnDisk,    \* certificate and key are in their files
    listening,      \* SecureServing.Listener is open
    api,            \* the API server: being built, then b.server
    started,        \* the informers that were started, 0 for none
    phase,          \* of the process
    faults          \* constructions that failed so far

options == <<bindPort, certNamed, certsOnDisk, listening>>
settings == <<cmProvider, emProvider, flags>>
cache == <<obj, parent, serial>>
process == <<started, phase>>
vars == <<cache, calls, handed, settings, options, api, process, faults>>

NoServer == [routes |-> {}, groups |-> {}, wanted |-> {}, informers |-> 0]

(***************************************************************************)
(* The flags: how often they were added to the flag set (flagOnce keeps it *)
(* to once, since pflag panics at the second time), whether there are      *)
(* options that they are bound to, and whether they were parsed.  The      *)
(* author may bring options; b.FlagSet is any flag set.                    *)
(***************************************************************************)
Init ==
    /\ \E own \in BOOLEAN :
         /\ flags = [added |-> 0, options |-> own, parsed |-> FALSE]
         /\ bindPort \in {own, FALSE}
         /\ certNamed \in {own, FALSE}
    /\ obj = [m \in Objects |-> 0]
    /\ parent = [m \in Objects |-> 0]
    /\ serial = 0
    /\ calls = << >>
    /\ handed = [m \in Objects |-> {}]
    /\ cmProvider = NoProvider
    /\ emProvider = NoProvider
    /\ certsOnDisk \in BOOLEAN
    /\ listening = FALSE
    /\ api = NoServer
    /\ started = 0
    /\ phase = "building"
    /\ faults = 0

-----------------------------------------------------------------------------
(* Calls.  at is where a method is, arg what the method it called returned. *)

Frame(m) == [method |-> m, at |-> "start", arg |-> 0]

In(m, at) ==
    /\ phase = "building"
    /\ calls # << >> /\ Head(calls).method = m /\ Head(calls).at = at

MoveTo(at) == calls' = <<[Head(calls) EXCEPT !.at = at]>> \o Tail(calls)

Call(m) ==
    /\ phase = "building" /\ calls = << >>
    /\ calls' = <<Frame(m)>>
    /\ UNCHANGED <<cache, handed, settings, options, api, process, faults>>

\* A method returns the object v to its caller.
Return(m, v) ==
    IF Tail(calls) = << >>
    THEN /\ calls' = << >>
         /\ handed' = [handed EXCEPT ![m] = @ \cup {v}]
    ELSE /\ calls' = <<[calls[2] EXCEPT !.arg = v]>> \o Tail(Tail(calls))
         /\ UNCHANGED handed

\* An error is passed on by every caller.
Error == calls' = << >> /\ UNCHANGED handed
Fault == faults < MaxFaults /\ faults' = faults + 1

Existing(m) ==
    /\ In(m, "start") /\ obj[m] # 0
    /\ Return(m, obj[m])
    /\ UNCHANGED <<cache, settings, options, api, process, faults>>

\* Mutant: an object in between is skipped.
DescendToConfig(m) ==
    /\ Head(calls).arg = 0
    /\ calls' = <<Frame("clientConfig")>> \o calls
    /\ UNCHANGED <<cache, handed, settings, options, api, process, faults>>

Descend(m) ==
    /\ Head(calls).arg = 0
    /\ calls' = <<Frame(BuiltFrom[m])>> \o calls
    /\ UNCHANGED <<cache, handed, settings, options, api, process, faults>>

\* Mutant: the object is returned and not kept.
BuildUncached(m) ==
    /\ serial < MaxSerial
    /\ serial' = serial + 1
    /\ Return(m, serial + 1)
    /\ UNCHANGED <<obj, parent>>

\* The object is built, kept and returned.
Build(m) ==
    /\ serial < MaxSerial
    /\ serial' = serial + 1
    /\ obj' = [obj EXCEPT ![m] = serial + 1]
    /\ parent' = [parent EXCEPT ![m] = Head(calls).arg]
    /\ Return(m, serial + 1)

Construct(m) ==
    /\ \/ Build(m) /\ UNCHANGED faults
       \/ Fault /\ Error /\ UNCHANGED cache
    /\ UNCHANGED <<settings, options, api, process>>

\* A method that builds its object from that of another method.
Lazy(m) ==
    \/ Existing(m)
    \/ In(m, "start") /\ obj[m] = 0 /\ Descend(m)
    \/ In(m, "start") /\ obj[m] = 0 /\ Head(calls).arg # 0 /\ Construct(m)

-----------------------------------------------------------------------------
(* The flags *)

\* Mutant: the flags are installed without flagOnce.
InstallFlagsAgain ==
    /\ flags' = [flags EXCEPT !.added = @ + 1, !.options = TRUE]
    /\ bindPort' = (bindPort \/ ~flags.options)

\* On the first call, options are made if there are none, with the default
\* port, and the flags are added.
InstallFlags ==
    IF flags.added = 0
    THEN /\ flags' = [flags EXCEPT !.added = 1, !.options = TRUE]
         /\ bindPort' = (bindPort \/ ~flags.options)
    ELSE UNCHANGED <<flags, bindPort>>

\* Flags and InstallFlags, which it calls.
Flags ==
    /\ phase = "building" /\ calls = << >>
    /\ InstallFlags
    /\ UNCHANGED <<cache, calls, handed, cmProvider, emProvider, certNamed,
                   certsOnDisk, listening, api, process, faults>>

\* Flags().Parse, once: the port may be zero, a certificate may be named.
Parse ==
    /\ phase = "building" /\ calls = << >>
    /\ flags.added # 0 /\ ~flags.parsed
    /\ flags' = [flags EXCEPT !.parsed = TRUE]
    /\ bindPort' \in BOOLEAN
    /\ certNamed' \in BOOLEAN
    /\ UNCHANGED <<cache, calls, handed, cmProvider, emProvider, certsOnDisk,
                   listening, api, process, faults>>

-----------------------------------------------------------------------------
(* The clients *)

ClientConfig ==
    \/ Existing("clientConfig")
    \/ In("clientConfig", "start") /\ obj["clientConfig"] = 0
         /\ Construct("clientConfig")

DiscoveryClient == Lazy("discoveryClient")
RESTMapper == Lazy("restMapper")
DynamicClient == Lazy("dynamicClient")
Informers == Lazy("informers")

WithCustomMetrics(p) ==
    /\ phase = "building" /\ calls = << >>
    /\ cmProvider' = p
    /\ UNCHANGED <<cache, calls, handed, emProvider, flags, options, api, process, faults>>

WithExternalMetrics(p) ==
    /\ phase = "building" /\ calls = << >>
    /\ emProvider' = p
    /\ UNCHANGED <<cache, calls, handed, cmProvider, flags, options, api, process, faults>>

-----------------------------------------------------------------------------
(* Config: CustomMetricsAdapterServerOptions.Config *)

Served == bindPort \/ listening

ConfigStart ==
    \/ Existing("config")
    \/ /\ In("config", "start") /\ obj["config"] = 0
       /\ InstallFlags
       /\ MoveTo("certs")
       /\ UNCHANGED <<cache, handed, cmProvider, emProvider, certNamed,
                      certsOnDisk, listening, api, process, faults>>

\* MaybeDefaultWithSelfSignedCerts: the files are named before they are made.
DefaultCerts ==
    /\ In("config", "certs")
    /\ \/ /\ Served => certNamed
          /\ MoveTo("listen")
          /\ UNCHANGED <<handed, options, faults>>
       \/ /\ Served /\ ~certNamed
          /\ certNamed' = TRUE
          /\ certsOnDisk' = TRUE
          /\ MoveTo("listen")
          /\ UNCHANGED <<handed, bindPort, listening, faults>>
       \/ /\ Served /\ ~certNamed /\ ~certsOnDisk
          /\ Fault /\ Error
          /\ certNamed' = TRUE
          /\ UNCHANGED <<bindPort, certsOnDisk, listening>>
    /\ UNCHANGED <<cache, settings, api, process>>

\* Mutant: a listener is created although there is one; its port is taken.
ApplyServingAgain ==
    /\ In("config", "listen")
    /\ \/ /\ ~Served
          /\ MoveTo("auth")
          /\ UNCHANGED <<handed, options>>
       \/ /\ Served /\ ~listening
          /\ listening' = TRUE
          /\ bindPort' = TRUE
          /\ MoveTo("load")
          /\ UNCHANGED <<handed, certNamed, certsOnDisk>>
       \/ /\ listening
          /\ Error
          /\ UNCHANGED options
    /\ UNCHANGED <<cache, settings, api, process, faults>>

\* SecureServing.ApplyTo, up to the listener.  The port becomes that of the
\* listener, the existing one or the one CreateListener returns, and zero if
\* CreateListener fails.  Without a port or a listener, nothing is served.
ApplyServing ==
    /\ In("config", "listen")
    /\ \/ /\ ~Served
          /\ MoveTo("auth")
          /\ UNCHANGED <<handed, options, faults>>
       \/ /\ Served
          /\ listening' = TRUE
          /\ bindPort' = TRUE
          /\ MoveTo("load")
          /\ UNCHANGED <<handed, certNamed, certsOnDisk, faults>>
       \/ /\ Served /\ ~listening
          /\ Fault /\ Error
          /\ bindPort' = FALSE
          /\ UNCHANGED <<certNamed, certsOnDisk, listening>>
    /\ UNCHANGED <<cache, settings, api, process>>

\* The rest of it: certificates are loaded, TLS options are checked, the
\* loopback client is configured.
LoadCerts ==
    /\ In("config", "load")
    /\ \/ /\ certsOnDisk
          /\ MoveTo("auth")
          /\ UNCHANGED <<handed, faults>>
       \/ ~certsOnDisk /\ Error /\ UNCHANGED faults
       \/ Fault /\ Error
    /\ UNCHANGED <<cache, settings, options, api, process>>

\* Authentication.ApplyTo and Authorization.ApplyTo, which ask the cluster.
ApplyAuth == In("config", "auth") /\ Construct("config")

Config == ConfigStart \/ DefaultCerts \/ ApplyServing \/ LoadCerts \/ ApplyAuth

-----------------------------------------------------------------------------
(* Server: Config.Complete, then New *)

\* Mutant: the informers are not passed on.
CompleteNoInformers == 0

\* The informers that are there when the server is built.
CompleteInformers == obj["informers"]

Wanted == {a \in APIs : \/ a = "custom" /\ cmProvider # NoProvider
                        \/ a = "external" /\ emProvider # NoProvider}

\* Complete ends the process if the config has no secure port; otherwise New
\* makes an empty server, with a hook that starts the informers, or fails.
CompleteNew ==
    /\ In("server", "start") /\ obj["server"] = 0 /\ Head(calls).arg # 0
    /\ \/ /\ listening
          /\ api' = [NoServer EXCEPT !.wanted = Wanted,
                                    !.informers = CompleteInformers]
          /\ MoveTo("custom")
          /\ UNCHANGED <<handed, process, faults>>
       \/ /\ listening
          /\ Fault /\ Error
          /\ UNCHANGED <<api, process>>
       \/ /\ ~listening
          /\ phase' = "dead"
          /\ UNCHANGED <<calls, handed, api, started, faults>>
    /\ UNCHANGED <<cache, settings, options>>

\* Mutant: an error of the installation is not passed on.
InstallIgnored(a, next) ==
    /\ a \in api.wanted
    /\ Fault
    /\ api' = [api EXCEPT !.routes = @ \cup {a}]
    /\ MoveTo(next)
    /\ UNCHANGED handed

\* InstallREST adds the routes; if some of them failed, the server is dropped
\* with all that is installed.
InstallFails(a, next) ==
    /\ a \in api.wanted
    /\ Fault
    /\ api' = NoServer
    /\ Error

\* InstallCustomMetricsAPI and InstallExternalMetricsAPI: the routes, then
\* the discovery of the group.
Install(a, here, next) ==
    /\ In("server", here)
    /\ \/ a \notin api.wanted /\ MoveTo(next) /\ UNCHANGED <<handed, api, faults>>
       \/ /\ a \in api.wanted
          /\ api' = [api EXCEPT !.routes = @ \cup {a}, !.groups = @ \cup {a}]
          /\ MoveTo(next)
          /\ UNCHANGED <<handed, faults>>
       \/ InstallFails(a, next)
    /\ UNCHANGED <<cache, settings, options, process>>

InstallCustomMetricsAPI == Install("custom", "custom", "external")
InstallExternalMetricsAPI == Install("external", "external", "end")

Server ==
    \/ Existing("server")
    \/ In("server", "start") /\ obj["server"] = 0 /\ Descend("server")
    \/ CompleteNew \/ InstallCustomMetricsAPI \/ InstallExternalMetricsAPI
    \/ /\ In("server", "end") /\ Build("server")
       /\ UNCHANGED <<settings, options, api, process, faults>>

-----------------------------------------------------------------------------
(* Run *)

Run ==
    /\ In("run", "start")
    /\ \/ Descend("run")
       \/ /\ Head(calls).arg # 0
          /\ phase' = "running"
          /\ UNCHANGED <<cache, calls, handed, settings, options, api, started, faults>>

\* The post-start hook, in a goroutine of its own.
StartInformers ==
    /\ phase \in {"running", "stopped"}
    /\ api.informers # 0 /\ started = 0
    /\ started' = api.informers
    /\ UNCHANGED <<cache, calls, handed, settings, options, api, phase, faults>>

\* The stop channel is closed, and Run returns.
Stop ==
    /\ phase = "running"
    /\ phase' = "stopped"
    /\ calls' = << >>
    /\ UNCHANGED <<cache, handed, settings, options, api, started, faults>>

Exited == phase \in {"stopped", "dead"} /\ UNCHANGED vars

-----------------------------------------------------------------------------
Methods ==
    \/ ClientConfig \/ DiscoveryClient \/ RESTMapper \/ DynamicClient
    \/ Informers \/ Config \/ Server \/ Run

Next ==
    \/ \E m \in Called : Call(m)
    \/ \E p \in {Provider, NoProvider} :
         WithCustomMetrics(p) \/ WithExternalMetrics(p)
    \/ Flags \/ Parse
    \/ Methods
    \/ StartInformers \/ Stop \/ Exited

Spec == Init /\ [][Next]_vars

\* A method that is called is executed, and so is the hook.
FairSpec == Spec /\ WF_vars(Methods) /\ WF_vars(StartInformers)

-----------------------------------------------------------------------------
(* Properties *)

Frames == [method : Objects \cup {"run"}, arg : Nat,
           at : {"start", "certs", "listen", "load", "auth", "custom",
                 "external", "end"}]

\* Every field keeps its type, and the stack of calls follows BuiltFrom.
TypeOK ==
    /\ obj \in [Objects -> Nat]
    /\ parent \in [Objects -> Nat]
    /\ serial \in 0 .. MaxSerial
    /\ calls \in Seq(Frames)
    /\ \A i \in 2 .. Len(calls) :
         calls[i - 1].method = BuiltFrom[calls[i].method]
    /\ handed \in [Objects -> SUBSET Nat]
    /\ flags \in [added : Nat, options : BOOLEAN, parsed : BOOLEAN]
    /\ cmProvider \in {Provider, NoProvider}
    /\ emProvider \in {Provider, NoProvider}
    /\ bindPort \in BOOLEAN /\ certNamed \in BOOLEAN
    /\ certsOnDisk \in BOOLEAN /\ listening \in BOOLEAN
    /\ api \in [routes : SUBSET APIs, groups : SUBSET APIs,
                wanted : SUBSET APIs, informers : Nat]
    /\ started \in Nat
    /\ phase \in {"building", "running", "stopped", "dead"}
    /\ faults \in 0 .. MaxFaults

\* Whatever fails and is called again in between, every object that was ever
\* returned is the one that is used ("they'll perform any initialization on
\* the first call, then return the existing object on later calls"), and it
\* was built from objects of which the same is true.
OneOfEach ==
    \A m \in Objects :
      /\ handed[m] \subseteq {obj[m]}
      /\ m \notin Roots /\ obj[m] # 0 => parent[m] = obj[BuiltFrom[m]]

\* Flags, Parse and Config come in any order and again: the flags are added
\* only once, and Config never works on options that do not exist.
FlagsAreSafe ==
    /\ flags.added <= 1
    /\ \A i \in DOMAIN calls :
         calls[i].method = "config" /\ calls[i].at # "start" => flags.options

\* No server is kept that is only half installed: it has the routes and the
\* discovery of exactly the APIs that it was given a provider for, also if an
\* earlier attempt to build it failed between the two APIs.
ServerIsWhole ==
    obj["server"] # 0 => api.routes = api.wanted /\ api.groups = api.wanted

\* "The informers will be automatically started as part of starting the
\* adapter", if they were asked for before the server was built, also if
\* that took several attempts.
InformersStarted ==
    /\ phase = "running"
    /\ obj["informers"] \in 1 .. obj["server"]
    ~> started = obj["informers"]

\* What no later call recovers from: the port was given up after a failure to
\* listen on it, or the certificate was named and could not be made.
Wedged == flags.options /\ (~bindPort \/ (certNamed /\ ~certsOnDisk))

\* An adapter that calls Run again whenever it fails gets to serve, once
\* the failures end, unless it is wedged: nothing else that a failed attempt
\* leaves behind (the listener, the config, the clients) is in the way.
RunRecovers ==
    []<><<Call("run")>>_vars => <>(phase = "running") \/ <>[]Wedged
=============================================================================
