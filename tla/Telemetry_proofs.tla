-------------------------- MODULE Telemetry_proofs --------------------------
(***************************************************************************)
(* The lifespan leaves no tracer provider behind, for every set of         *)
(* applications and every number of restarts.                              *)
(***************************************************************************)
EXTENDS Telemetry, TLAPS

(* The strengthening: the providers are numbered without a gap, so that a  *)
(* new one is neither active nor closed.                                   *)
Numbered ==
    /\ built \in OrNone
    /\ active \in 0..built
    /\ closed \subseteq 1..built

(* The inductive invariant.                                                *)
IInv == TypeOK /\ Numbered /\ NoProviderLeaks /\ DownIsClean

(* Initially no provider exists. *)
LEMMA InitEstablishes == Init => IInv
  BY BoundsAssumption
  DEF Init, IInv, TypeOK, Numbered, NoProviderLeaks, DownIsClean,
      Provider, OrNone

(* shutdown_telemetry closes the active provider and forgets it.          *)
LEMMA ShutdownPreserves ==
  ASSUME NEW a \in App, IInv, ShutdownTelemetry,
         phase' = [phase EXCEPT ![a] = "down"],
         UNCHANGED <<keysSet, built, global, tracer, trace>>
  PROVE  IInv'
<1>1. TypeOK'
  BY BoundsAssumption DEF IInv, TypeOK, ShutdownTelemetry, Provider, OrNone, Numbered
<1>2. Numbered' /\ NoProviderLeaks'
  BY BoundsAssumption
  DEF IInv, ShutdownTelemetry, Numbered, NoProviderLeaks, OrNone
<1>3. DownIsClean'
  BY DEF ShutdownTelemetry, DownIsClean
<1> QED
  BY <1>1, <1>2, <1>3 DEF IInv

(* setup_telemetry builds a provider only when none is active. *)
LEMMA StartPreserves ==
  ASSUME NEW a \in App, IInv, Start(a)
  PROVE  IInv'
<1> USE DEF Start
<1>1. \/ Unconfigured
      \/ active = 0 /\ Configure
  BY DEF SetupTelemetry
<1>2. phase'[a] = "booting"
  BY DEF IInv, TypeOK
<1>3. DownIsClean'
  BY <1>2 DEF DownIsClean
<1>5. CASE Unconfigured
  <2>1. TypeOK'
    BY <1>5 DEF IInv, TypeOK, Unconfigured
  <2>2. Numbered' /\ NoProviderLeaks'
    BY <1>5 DEF IInv, Numbered, NoProviderLeaks, Unconfigured
  <2> QED
    BY <1>3, <2>1, <2>2 DEF IInv
<1>6. CASE active = 0 /\ Configure
  <2> USE DEF Configure, SetTracerProvider, Instrument
  <2>1. TypeOK'
    BY <1>6, BoundsAssumption DEF IInv, TypeOK, OrNone, Provider
  <2>2. Numbered'
    BY <1>6, BoundsAssumption DEF IInv, Numbered, OrNone
  <2>3. NoProviderLeaks'
    <3>1. built \in Nat /\ closed \subseteq 1..built /\ instrumented = 0
      BY <1>6, BoundsAssumption DEF IInv, Numbered, NoProviderLeaks, OrNone
    <3>2. \A p \in 1..built : p \in closed
      BY <1>6 DEF IInv, NoProviderLeaks
    <3> QED
      BY <1>6, <3>1, <3>2 DEF NoProviderLeaks
  <2> QED
    BY <1>3, <2>1, <2>2, <2>3 DEF IInv
<1> QED
  BY <1>1, <1>5, <1>6

(* A closed provider takes no span. *)
LEMMA ServePreserves ==
  ASSUME NEW a \in App, IInv, Serve(a)
  PROVE  IInv'
<1> USE DEF Serve
<1>1. TypeOK'
  <2>1. Bound \in OrNone /\ instrumented \in OrNone
    BY DEF IInv, TypeOK, Bound
  <2>2. ASSUME NEW p \in Provider
        PROVE  pending[p] \in 0..MaxPending /\ Queued(p) \in 0..MaxPending
    BY BoundsAssumption DEF IInv, TypeOK, Queued
  <2>3. pending' \in [Provider -> 0..MaxPending]
    BY <2>2
  <2>4. tracer' \in OrNone /\ trace' \in OrNone \X OrNone
    BY <2>1
  <2> QED
    BY <2>3, <2>4 DEF IInv, TypeOK
<1>2. Numbered' /\ NoProviderLeaks' /\ DownIsClean'
  BY DEF IInv, Numbered, NoProviderLeaks, DownIsClean
<1> QED
  BY <1>1, <1>2 DEF IInv

(* Every step preserves the invariant. *)
LEMMA NextPreserves ==
  ASSUME IInv, [Next]_vars
  PROVE  IInv'
<1>1. ASSUME NEW a \in App, Start(a) PROVE IInv'
  BY <1>1, StartPreserves
<1>2. ASSUME NEW a \in App, GraphCompiles(a) PROVE IInv'
  <2>1. TypeOK'
    BY <1>2 DEF IInv, TypeOK, GraphCompiles
  <2>2. Numbered' /\ NoProviderLeaks'
    BY <1>2 DEF IInv, Numbered, NoProviderLeaks, GraphCompiles
  <2>3. phase'[a] = "serving"
    BY <1>2 DEF IInv, TypeOK, GraphCompiles
  <2> QED
    BY <2>1, <2>2, <2>3 DEF IInv, DownIsClean
<1>3. ASSUME NEW a \in App, GraphFails(a) PROVE IInv'
  BY <1>3, ShutdownPreserves DEF GraphFails
<1>4. ASSUME NEW a \in App, Stop(a) PROVE IInv'
  BY <1>4, ShutdownPreserves DEF Stop
<1>5. ASSUME NEW a \in App, Serve(a) PROVE IInv'
  BY <1>5, ServePreserves
<1>6. ASSUME NEW p \in Provider, Export(p) PROVE IInv'
  <2>1. TypeOK'
    BY <1>6, BoundsAssumption DEF IInv, TypeOK, Export
  <2>2. Numbered' /\ NoProviderLeaks' /\ DownIsClean'
    BY <1>6 DEF IInv, Numbered, NoProviderLeaks, DownIsClean, Export
  <2> QED
    BY <2>1, <2>2 DEF IInv
<1>7. CASE UNCHANGED vars
  BY <1>7 DEF vars, IInv, TypeOK, Numbered, NoProviderLeaks, DownIsClean
<1> QED
  BY <1>1, <1>2, <1>3, <1>4, <1>5, <1>6, <1>7 DEF Next

(* The invariant holds in every reachable state. *)
THEOREM Invariance == Spec => []IInv
<1>1. Init => IInv
  BY InitEstablishes
<1>2. IInv /\ [Next]_vars => IInv'
  BY NextPreserves
<1> QED
  BY <1>1, <1>2, PTL DEF Spec

(* No provider that setup_telemetry built is ever orphaned, and LangChain  *)
(* reports to the active one, in whatever order applications start, fail   *)
(* to boot and stop.                                                       *)
THEOREM NothingLeaks == Spec => []NoProviderLeaks
  BY Invariance, PTL DEF IInv

(* After a stop, or a boot that failed in build_graph, the process is as   *)
(* it was before the lifespan.                                             *)
THEOREM LifespanCleansUp == Spec => []DownIsClean
  BY Invariance, PTL DEF IInv

(* The variables have their types.                                         *)
THEOREM TypeCorrect == Spec => []TypeOK
  BY Invariance, PTL DEF IInv

-----------------------------------------------------------------------------
(* Until a shutdown there is one provider at most, and everything refers   *)
(* to it or to none.                                                       *)
OneProvider ==
    closed = {} =>
        /\ global = built /\ instrumented = built /\ active = built
        /\ tracer \in {0, built}
        /\ trace[1] = trace[2]

(* A shutdown closes the provider there is, if any. *)
LEMMA ShutdownOne ==
  ASSUME IInv, OneProvider, ShutdownTelemetry, UNCHANGED <<built, global, tracer, trace>>
  PROVE  OneProvider'
<1>1. built \in Nat
  BY BoundsAssumption DEF IInv, Numbered, OrNone
<1>2. CASE active = 0
  BY <1>1, <1>2 DEF ShutdownTelemetry, OneProvider
<1>3. CASE active # 0
  BY <1>3 DEF ShutdownTelemetry, OneProvider
<1> QED
  BY <1>2, <1>3

LEMMA NextOne ==
  ASSUME IInv, OneProvider, [Next]_vars
  PROVE  OneProvider'
<1>0. built \in Nat
  BY BoundsAssumption DEF IInv, Numbered, OrNone
<1>1. ASSUME NEW a \in App, Start(a) PROVE OneProvider'
  <2>1. CASE Unconfigured
    BY <1>1, <2>1 DEF Start, Unconfigured, OneProvider
  <2>2. CASE active = 0 /\ Configure
    BY <1>0, <1>1, <2>2
      DEF Start, Configure, SetTracerProvider, Instrument, OneProvider
  <2> QED
    BY <1>1, <2>1, <2>2 DEF Start, SetupTelemetry
<1>2. ASSUME NEW a \in App, GraphFails(a) \/ Stop(a) PROVE OneProvider'
  BY <1>2, ShutdownOne DEF GraphFails, Stop
<1>3. ASSUME NEW a \in App, Serve(a) PROVE OneProvider'
  BY <1>3 DEF Serve, Bound, OneProvider
<1>4. ASSUME NEW a \in App, GraphCompiles(a) PROVE OneProvider'
  BY <1>4 DEF GraphCompiles, OneProvider
<1>5. ASSUME NEW p \in Provider, Export(p) PROVE OneProvider'
  BY <1>5 DEF Export, OneProvider
<1>6. CASE UNCHANGED vars
  BY <1>6 DEF vars, OneProvider
<1> QED
  BY <1>1, <1>2, <1>3, <1>4, <1>5, <1>6 DEF Next

(* Until the first shutdown the spans of a request go to one provider.     *)
THEOREM TracesStayConnected == Spec => []TracesConnectedUntilShutdown
<1>1. Init => OneProvider
  BY DEF Init, OneProvider
<1>2. OneProvider => TracesConnectedUntilShutdown
  BY DEF OneProvider, TracesConnectedUntilShutdown
<1> QED
  BY <1>1, <1>2, NextOne, Invariance, PTL DEF Spec
=============================================================================
