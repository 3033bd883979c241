----------------------------- MODULE Telemetry -----------------------------
(***************************************************************************)
(* The tracing set up by the lifespan of an application: setup_telemetry   *)
(* and shutdown_telemetry of app/core/telemetry.py around build_graph      *)
(* (app/main.py), and the two sources of spans of a chat request: the      *)
(* module-level tracer of app/api/routes/chat.py and the LangChain         *)
(* instrumentor.                                                           *)
(*                                                                         *)
(* One process; an application object may be started again after it has    *)
(* stopped, and several may run side by side.  Providers are numbered in   *)
(* the order setup_telemetry builds them, 0 is None.  The tracer_provider  *)
(* argument, which only tests pass, is left out.                           *)
(***************************************************************************)
EXTENDS Naturals

CONSTANTS
    App,            \* the applications created in this process
    MaxProviders,   \* bound: providers built in one behaviour
    MaxPending      \* bound: spans a provider's batch processor holds

ASSUME BoundsAssumption == MaxProviders \in Nat /\ MaxPending \in Nat

VARIABLES
    keysSet,        \* both Langfuse keys are configured
    phase,          \* where each application's lifespan is
    built,          \* how many providers setup_telemetry has built
    active,         \* _active_provider
    global,         \* OpenTelemetry's process-wide provider
    instrumented,   \* the provider LangChain's spans go to
    tracer,         \* the provider chat.py's tracer is bound to
    closed,         \* the providers that were shut down
    pending,        \* spans in each provider's buffer
    trace           \* history: the providers of the last request's spans

vars == <<keysSet, phase, built, active, global, instrumented, tracer,
          closed, pending, trace>>

Provider == 1..MaxProviders
OrNone == 0..MaxProviders

-----------------------------------------------------------------------------
(* The libraries setup_telemetry calls. *)

\* trace.set_tracer_provider: only the first call of the process counts.
SetTracerProvider(p) == global' = IF global = 0 THEN p ELSE global

\* LangChainInstrumentor.instrument: nothing when already instrumented.
Instrument(p) == instrumented' = IF instrumented = 0 THEN p ELSE instrumented

\* Mutated form: the queue of the batch processor has no limit.
Queued_NoLimit(p) == pending[p] + 1

\* BatchSpanProcessor: a span is dropped when the queue is full.
Queued(p) == IF pending[p] < MaxPending THEN pending[p] + 1 ELSE pending[p]

\* A ProxyTracer binds, for good, to the global provider of its first use.
Bound == IF tracer = 0 THEN global ELSE tracer

-----------------------------------------------------------------------------
Init ==
    /\ keysSet \in BOOLEAN
    /\ phase = [a \in App |-> "down"]
    /\ built = 0 /\ active = 0 /\ global = 0
    /\ instrumented = 0 /\ tracer = 0
    /\ closed = {}
    /\ pending = [p \in Provider |-> 0]
    /\ trace = <<0, 0>>

\* Mutated form: the provider is not registered as the process's.
Configure_NotGlobal ==
    /\ built < MaxProviders
    /\ built' = built + 1
    /\ Instrument(built + 1)
    /\ active' = built + 1
    /\ UNCHANGED global

Configure ==
    /\ built < MaxProviders
    /\ built' = built + 1
    /\ SetTracerProvider(built + 1)
    /\ Instrument(built + 1)
    /\ active' = built + 1

Unconfigured == UNCHANGED <<built, active, global, instrumented>>

\* Mutated form: no test for a provider that is still active.
SetupTelemetry_NoGuard == IF keysSet THEN Configure ELSE Unconfigured

SetupTelemetry ==
    \/ ~keysSet /\ Unconfigured                     \* telemetry_disabled
    \/ keysSet /\ active # 0 /\ Unconfigured        \* telemetry_already_configured
    \/ keysSet /\ active = 0 /\ Configure

(* The provider's shutdown, the library's, exports what is still pending.  *)
ShutdownTelemetry ==
    /\ instrumented' = 0
    /\ active' = 0
    /\ closed' = closed \union ({active} \ {0})
    /\ pending' = [p \in Provider |-> IF p = active THEN 0 ELSE pending[p]]

Start(a) ==
    /\ phase[a] = "down"
    /\ phase' = [phase EXCEPT ![a] = "booting"]
    /\ SetupTelemetry
    /\ UNCHANGED <<keysSet, tracer, closed, pending, trace>>

GraphCompiles(a) ==
    /\ phase[a] = "booting"
    /\ phase' = [phase EXCEPT ![a] = "serving"]
    /\ UNCHANGED <<keysSet, built, active, global, instrumented, tracer,
                   closed, pending, trace>>

\* Mutated form: build_graph is called outside the try.
GraphFails_NoFinally(a) ==
    /\ phase[a] = "booting"
    /\ phase' = [phase EXCEPT ![a] = "down"]
    /\ UNCHANGED <<keysSet, built, active, global, instrumented, tracer,
                   closed, pending, trace>>

GraphFails(a) ==
    /\ phase[a] = "booting"
    /\ phase' = [phase EXCEPT ![a] = "down"]
    /\ ShutdownTelemetry
    /\ UNCHANGED <<keysSet, built, global, tracer, trace>>

Stop(a) ==
    /\ phase[a] = "serving"
    /\ phase' = [phase EXCEPT ![a] = "down"]
    /\ ShutdownTelemetry
    /\ UNCHANGED <<keysSet, built, global, tracer, trace>>

(* A chat request leaves a span of chat.py's tracer and one of the agent's *)
(* LangChain callbacks; a provider that was shut down drops what it gets.  *)
Serve(a) ==
    /\ phase[a] = "serving"
    /\ tracer' = Bound
    /\ trace' = <<Bound, instrumented>>
    /\ pending' = [p \in Provider |->
            IF p \in {Bound, instrumented} \ closed THEN Queued(p) ELSE pending[p]]
    /\ UNCHANGED <<keysSet, phase, built, active, global, instrumented, closed>>

Export(p) ==
    /\ pending[p] > 0 /\ p \notin closed
    /\ pending' = [pending EXCEPT ![p] = 0]
    /\ UNCHANGED <<keysSet, phase, built, active, global, instrumented,
                   tracer, closed, trace>>

(* Once every lifespan is down the process may end. *)
Next ==
    \/ \E a \in App :
        \/ Start(a) \/ GraphCompiles(a) \/ GraphFails(a) \/ Stop(a) \/ Serve(a)
    \/ \E p \in Provider : Export(p)

Spec == Init /\ [][Next]_vars

-----------------------------------------------------------------------------
(* The variables have their types. *)
TypeOK ==
    /\ keysSet \in BOOLEAN
    /\ phase \in [App -> {"down", "booting", "serving"}]
    /\ built \in OrNone /\ active \in OrNone /\ global \in OrNone
    /\ instrumented \in OrNone /\ tracer \in OrNone
    /\ closed \subseteq Provider
    /\ pending \in [Provider -> 0..MaxPending]
    /\ trace \in OrNone \X OrNone

(* A provider that setup_telemetry built is either the active one, where   *)
(* shutdown_telemetry will find it, or shut down: whatever the order in    *)
(* which applications start, fail to boot and stop, none is orphaned, and  *)
(* LangChain's spans never go anywhere but to the active one.              *)
NoProviderLeaks ==
    /\ \A p \in 1..built : p = active \/ p \in closed
    /\ instrumented = active
    /\ active \notin closed

(* When no application is up, in particular after a boot that failed in    *)
(* build_graph, nothing is left configured for the next lifespan.          *)
DownIsClean ==
    (\A a \in App : phase[a] = "down") => active = 0 /\ instrumented = 0

(* The spans of a request, the chat route's and LangChain's, go to one     *)
(* provider ("two disconnected providers, broken traces" is what           *)
(* setup_telemetry guards against), however many applications have started, *)
(* until the first shutdown_telemetry.  After it they need not: the route's *)
(* tracer stays bound to the provider that was shut down.                  *)
TracesConnectedUntilShutdown == closed = {} => trace[1] = trace[2]
=============================================================================
