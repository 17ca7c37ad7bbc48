--------------------------- MODULE SampleAdapter ---------------------------
(***************************************************************************)
(* test-adapter/main.go: the sample adapter, one author of AdapterBase.    *)
(*                                                                         *)
(* Two goroutines: the one of main, which goes through the methods of      *)
(* AdapterBase in a fixed order, and the one that serves the port where    *)
(* metrics are written.  Either may end the process with glog.Fatal while  *)
(* the other one is at work.                                               *)
(***************************************************************************)
EXTENDS AdapterBase

VARIABLES
    main,       \* where main is
    writing     \* the writing port: off, starting or open

sampleVars == <<vars, main, writing>>

\* cmd := &SampleAdapter{}: no options yet.
SampleInit == Init /\ ~flags.options /\ main = "flags" /\ writing = "off"

Down == main = "exited" \/ phase = "dead"

From(here, next) == ~Down /\ main = here /\ main' = next

\* glog.Fatal
Fatal(here) == From(here, "exited") /\ UNCHANGED <<vars, writing>>

\* The method m is called.
Ask(here, m, next) == From(here, next) /\ Call(m) /\ UNCHANGED writing

\* Mutant: the error of a method is not looked at.
AnsweredUnchecked(here, m, next) ==
    /\ calls = << >>
    /\ From(here, next) /\ UNCHANGED <<vars, writing>>

\* It has returned: an error is fatal.
Answered(here, m, next) ==
    /\ calls = << >>
    /\ IF obj[m] # 0
       THEN From(here, next) /\ UNCHANGED <<vars, writing>>
       ELSE Fatal(here)

-----------------------------------------------------------------------------
(* main *)

\* Flags is called for each thing that is done with the flag set.
AddFlags == /\ From("flags", "goFlags") \/ From("goFlags", "parse")
            /\ Flags
            /\ UNCHANGED writing
ParseFlags == From("parse", "client") /\ Parse /\ UNCHANGED writing

makeProviderOrDie ==
    \/ Ask("client", "dynamicClient", "hasClient")
    \/ Answered("hasClient", "dynamicClient", "mapper")
    \/ Ask("mapper", "restMapper", "hasMapper")
    \/ Answered("hasMapper", "restMapper", "custom")

\* Mutant: the external metrics are forgotten.
WithProvidersCustom ==
    /\ \/ From("custom", "external") /\ WithCustomMetrics(Provider)
       \/ From("external", "listen") /\ UNCHANGED vars
    /\ UNCHANGED writing

WithProviders ==
    /\ \/ From("custom", "external") /\ WithCustomMetrics(Provider)
       \/ From("external", "listen") /\ WithExternalMetrics(Provider)
    /\ UNCHANGED writing

\* Mutant: the writing port is not served in a goroutine of its own.
GoListenInline ==
    /\ From("listen", "listening")
    /\ writing' = "starting"
    /\ UNCHANGED vars

GoListen ==
    /\ From("listen", "run")
    /\ writing' = "starting"
    /\ UNCHANGED vars

\* Run is given a channel that is never closed: it returns only an error.
RunUntilError ==
    \/ Ask("run", "run", "running")
    \/ calls = << >> /\ phase = "building" /\ Fatal("running")

Main ==
    AddFlags \/ ParseFlags \/ makeProviderOrDie \/ WithProviders \/ GoListen
      \/ RunUntilError

-----------------------------------------------------------------------------
(* The other goroutines *)

\* ListenAndServe opens the port.
OpenWriting ==
    /\ ~Down
    /\ writing = "starting"
    /\ writing' = "open"
    /\ UNCHANGED <<vars, main>>

\* It returns only with an error, which is fatal whatever main is doing.
WritingFails ==
    /\ ~Down
    /\ writing # "off"
    /\ Fault
    /\ main' = "exited"
    /\ UNCHANGED <<cache, calls, handed, settings, options, api, process, writing>>

\* What main has called goes on.
Inside == ~Down /\ Methods /\ UNCHANGED <<main, writing>>

\* Requests are served, which changes nothing here; or all is over.
Serving == Down \/ phase = "running" \/ writing = "open"

SampleNext ==
    \/ Main \/ OpenWriting \/ WritingFails \/ Inside
    \/ Serving /\ UNCHANGED sampleVars

SampleSpec == SampleInit /\ [][SampleNext]_sampleVars

\* Goroutines are scheduled, and constructions end; nothing has to fail.
SampleFairSpec ==
    /\ SampleSpec
    /\ WF_sampleVars(Main) /\ WF_sampleVars(Inside) /\ WF_sampleVars(OpenWriting)

-----------------------------------------------------------------------------
(* Properties *)

\* An adapter that runs serves both APIs, with their discovery.
ServesBoth ==
    phase = "running" => api.routes = APIs /\ api.groups = APIs

\* The first error ends the process, whichever goroutine meets it: an adapter
\* that is up was built without one, so it is never wedged, and no value can
\* be written before the provider has its client and its mapper.
FirstErrorIsFatal ==
    /\ ~Down /\ phase = "running" => faults = 0
    /\ writing # "off" => obj["dynamicClient"] # 0 /\ obj["restMapper"] # 0

\* The adapter ends up serving both ports for good, or it ends.
StartsOrExits == <>Down \/ <>[](phase = "running" /\ writing = "open")
=============================================================================
