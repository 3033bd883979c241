----------------------- MODULE GatewayCascade_proofs -----------------------
(***************************************************************************)
(* The two layers of retries together, for every cascade, every number of  *)
(* attempts and retries, and every fallbacks that follow the cascade.      *)
(***************************************************************************)
EXTENDS GatewayCascade, LlmCascade_proofs, FiniteSetTheorems

(* The router changes nothing the application does.                        *)
LEMMA GatewaySteps == [GNext]_gvars => [Next]_vars
<1> SUFFICES ASSUME [GNext]_gvars PROVE [Next]_vars
  OBVIOUS
<1>1. CASE AppStep
  BY <1>1 DEF AppStep, Next
<1>2. CASE Dispatch
  BY <1>2 DEF Dispatch
<1>3. ASSUME NEW e \in Error, GatewayRefuses(e) PROVE Next
  BY <1>3 DEF GatewayRefuses, Next
<1>4. ASSUME NEW a \in Working, RouterStep(a) PROVE [Next]_vars
  <2>1. CASE RouterRetries(a) \/ RouterFallsBack(a) \/ AbandonedEnds(a)
    BY <2>1 DEF RouterRetries, RouterFallsBack, AbandonedEnds
  <2>2. CASE RouterAnswers(a)
    BY <2>2 DEF RouterAnswers, Next
  <2>3. CASE ClientTimesOut(a)
    BY <2>3 DEF ClientTimesOut, Next, Error
  <2>4. ASSUME NEW e \in Error, RouterFails(a, e) PROVE Next
    BY <2>4 DEF RouterFails, Next
  <2> QED
    BY <1>4, <2>1, <2>2, <2>3, <2>4 DEF RouterStep
<1>5. CASE UNCHANGED gvars
  BY <1>5 DEF gvars
<1> QED
  BY <1>1, <1>2, <1>3, <1>4, <1>5 DEF GNext

(* Whatever is proved of the application's cascade holds above the router. *)
THEOREM ImplementsCascade == GSpec => Spec
<1>1. GInit => Init
  BY DEF GInit
<1> QED
  BY <1>1, GatewaySteps, PTL DEF GSpec, Spec

(* A group that failed every attempt stays spent, and the caller's         *)
(* arguments do not change.                                                *)
LEMMA FailuresStay ==
    ASSUME IInv, IInv', [Next]_vars
    PROVE  /\ args' = args
           /\ \A j \in Index : failures[j] = MaxAttempts => failures'[j] = MaxAttempts
<1> USE IndexFacts, MaxAttemptsAssumption DEF IInv, TypeOK
<1>1. CASE RaiseValueError \/ Start \/ Answer \/ Wake \/ UNCHANGED vars
  BY <1>1 DEF RaiseValueError, Start, Answer, Wake, vars, args
<1>2. ASSUME NEW e \in Error, Raise(e)
      PROVE  args' = args /\ failures' = failures
  BY <1>2 DEF Raise, args
<1>3. ASSUME NEW e \in Error, Retry(e) \/ Escalate(e) \/ Exhaust(e)
      PROVE  /\ args' = args
             /\ \A j \in Index : failures[j] = MaxAttempts => failures'[j] = MaxAttempts
  <2>1. pc = "calling" /\ CountFailure /\ args' = args
    BY <1>3 DEF Retry, Escalate, Exhaust, args
  <2>2. /\ at \in Permitted /\ attempt \in 1..MaxAttempts /\ failures[at] = attempt - 1
        /\ failures' = [failures EXCEPT ![at] = attempt]
    BY <2>1, CountedFailure
  <2> QED
    BY <2>1, <2>2
<1> QED
  BY <1>1, <1>2, <1>3 DEF Next, Fail

(* Whatever attempt the router works for, abandoned or not, it is at a     *)
(* group of the cascade whose providers have seen the prompt.              *)
RoutedInv ==
    /\ routed \in [Attempt -> ModelGroup \cup {NoGroup}]
    /\ \A a \in Working : routed[a] \in reached /\ \E k \in Index : CASCADE[k] = routed[a]

GInv == RoutedInv /\ SovereignExhaustedFirst

(* Every permitted group before the k-th was spent by one of the layers.   *)
SpentBefore(k) ==
    \A j \in 1..(k - 1) : (j \in Permitted /\ AtOrAfterStart(j))
        => failures[j] = MaxAttempts \/ CASCADE[j] \in spentUpstream

(* The router calls a provider of the k-th group, everything before it     *)
(* being spent.                                                            *)
LEMMA OneMoreReached ==
    ASSUME GInv, NEW k \in Index, NEW a \in Attempt, NEW n,
           UNCHANGED vars, spentUpstream \subseteq spentUpstream',
           SpentBefore(k)', Try(a, CASCADE[k], n)
    PROVE  GInv'
<1> USE IndexFacts DEF GInv
<1>1. UNCHANGED <<failures, args>>
  BY DEF vars
<1>2. CASCADE[k] \in ModelGroup
  BY CascadeAssumption DEF Index
<1>3. RoutedInv'
  <2>1. routed' \in [Attempt -> ModelGroup \cup {NoGroup}]
    BY <1>2 DEF Try, RoutedInv
  <2>2. ASSUME NEW b \in Working'
        PROVE  routed'[b] \in reached' /\ \E i \in Index : CASCADE[i] = routed'[b]
    <3>1. CASE b = a
      BY <2>2, <3>1 DEF Try, RoutedInv, Working
    <3>2. CASE b # a
      BY <2>2, <3>2 DEF Try, RoutedInv, Working
    <3> QED
      BY <3>1, <3>2
  <2> QED
    BY <2>1, <2>2 DEF RoutedInv
<1>4. ASSUME NEW g \in reached', NEW i \in Index, CASCADE[i] = g
      PROVE  SpentBefore(i)'
  <2>1. CASE g \in reached
    BY <1>1, <1>4, <2>1 DEF SovereignExhaustedFirst, SpentBefore, Permitted,
       AtOrAfterStart, args
  <2>2. CASE g = CASCADE[k]
    <3>1. i = k
      BY <1>4, <2>2, CascadeAssumption DEF Index
    <3> QED
      BY <3>1
  <2> QED
    BY <2>1, <2>2 DEF Try
<1>5. SovereignExhaustedFirst'
  BY <1>4 DEF SovereignExhaustedFirst, SpentBefore
<1> QED
  BY <1>3, <1>5

(* A step that calls no provider and starts no work keeps the invariant.   *)
LEMMA NoMoreReached ==
    ASSUME IInv, IInv', [Next]_vars, GInv, UNCHANGED <<reached, spentUpstream>>,
           \/ UNCHANGED routed
           \/ \E a \in Attempt : routed' = [routed EXCEPT ![a] = NoGroup]
    PROVE  GInv'
<1> USE IndexFacts DEF GInv
<1>1. /\ args' = args
      /\ \A j \in Index : failures[j] = MaxAttempts => failures'[j] = MaxAttempts
  BY FailuresStay
<1>2. SovereignExhaustedFirst'
  BY <1>1 DEF SovereignExhaustedFirst, Permitted, AtOrAfterStart, args
<1>3. RoutedInv'
  BY DEF RoutedInv, Working
<1> QED
  BY <1>2, <1>3

(* Every step keeps it.                                                    *)
LEMMA NextGInv == IInv /\ IInv' /\ GInv /\ [GNext]_gvars => GInv'
<1> SUFFICES ASSUME IInv, IInv', GInv, [GNext]_gvars PROVE GInv'
  OBVIOUS
<1> USE IndexFacts
<1>0. [Next]_vars
  BY GatewaySteps
<1>1. pc = "calling" => at \in Index /\ Current \in Attempt
  BY MaxAttemptsAssumption DEF IInv, ControlInv, TypeOK, Current, Attempt
<1>2. CASE AppStep
  BY <1>0, <1>2, NoMoreReached DEF AppStep, router
<1>3. CASE Dispatch
  <2>1. /\ pc = "calling" /\ UNCHANGED vars /\ spentUpstream' = spentUpstream
        /\ Try(Current, CASCADE[at], 1)
    BY <1>3 DEF Dispatch
  <2>2. PICK k \in Index : k = at
    BY <1>1, <2>1
  <2>3. SpentBefore(k)
    BY <2>2 DEF IInv, OrderInv, SpentBefore
  <2>4. SpentBefore(k)'
    BY <2>1, <2>3 DEF SpentBefore, Permitted, AtOrAfterStart, vars, args
  <2>5. /\ UNCHANGED vars /\ spentUpstream' = spentUpstream
        /\ Current \in Attempt /\ Try(Current, CASCADE[k], 1)
    BY <1>1, <2>1, <2>2
  <2> QED
    BY <2>4, <2>5, OneMoreReached
<1>4. ASSUME NEW e \in Error, GatewayRefuses(e) PROVE GInv'
  BY <1>0, <1>4, NoMoreReached DEF GatewayRefuses, router
<1>5. ASSUME NEW a \in Working, RouterStep(a) PROVE GInv'
  <2>1. a \in Attempt
    BY DEF Working
  <2>2. PICK k \in Index : CASCADE[k] = routed[a]
    BY DEF GInv, RoutedInv
  <2>3. SpentBefore(k)
    BY <2>2 DEF GInv, RoutedInv, SovereignExhaustedFirst, SpentBefore
  <2>4. CASE RouterRetries(a)
    <3>1. UNCHANGED vars /\ spentUpstream' = spentUpstream /\ Try(a, CASCADE[k], tries[a] + 1)
      BY <2>2, <2>4 DEF RouterRetries
    <3>2. SpentBefore(k)'
      BY <2>3, <3>1 DEF SpentBefore, Permitted, AtOrAfterStart, vars, args
    <3> QED
      BY <2>1, <3>1, <3>2, OneMoreReached
  <2>5. CASE RouterFallsBack(a)
    <3>1. k + 1 \in Index /\ Fallbacks[routed[a]] = CASCADE[k + 1]
      BY <2>2, <2>5, FallbackOrderAssumption DEF RouterFallsBack, Index
    <3>2. /\ UNCHANGED vars /\ spentUpstream' = spentUpstream \cup {CASCADE[k]}
          /\ Try(a, CASCADE[k + 1], 1)
      BY <2>2, <2>5, <3>1 DEF RouterFallsBack
    <3>3. \A j \in 1..((k + 1) - 1) : j = k \/ j \in 1..(k - 1)
      OBVIOUS
    <3>4. SpentBefore(k + 1)'
      BY <2>3, <3>2, <3>3 DEF SpentBefore, Permitted, AtOrAfterStart, vars, args
    <3> QED
      BY <2>1, <3>1, <3>2, <3>4, OneMoreReached
  <2>6. CASE RouterDone(a)
    BY <1>0, <2>1, <2>6, NoMoreReached DEF RouterDone
  <2>7. CASE UNCHANGED router
    BY <1>0, <2>7, NoMoreReached DEF router
  <2> QED
    BY <1>5, <2>4, <2>5, <2>6, <2>7
      DEF RouterStep, RouterAnswers, RouterFails, ClientTimesOut, AbandonedEnds
<1>6. CASE UNCHANGED gvars
  BY <1>0, <1>6, NoMoreReached DEF gvars, router
<1> QED
  BY <1>2, <1>3, <1>4, <1>5, <1>6 DEF GNext

(* A group's providers see the prompt only when every permitted group      *)
(* before it was spent by one layer of retries or the other, the work for  *)
(* abandoned attempts included.                                            *)
THEOREM SovereignFirst == GSpec => []SovereignExhaustedFirst
<1>1. GInit => GInv
  BY DEF GInit, RouterInit, GInv, RoutedInv, Working, SovereignExhaustedFirst
<1>2. GInv => SovereignExhaustedFirst
  BY DEF GInv
<1> QED
  BY <1>1, <1>2, NextGInv, ImplementsCascade, InductiveInvariant, PTL DEF GSpec

-----------------------------------------------------------------------------
(* What takes a request past allowed_groups. *)

(* A group that has seen the prompt was allowed, or the router fell back to *)
(* it from another.                                                         *)
Admitted ==
    \A g \in reached : g \in effectiveAllowed \/ \E i \in Index : Fallbacks[CASCADE[i]] = g

(* Every step keeps it.                                                    *)
LEMMA NextAdmitted ==
    IInv /\ IInv' /\ GInv /\ Admitted /\ [GNext]_gvars => Admitted'
<1> SUFFICES ASSUME IInv, IInv', GInv, Admitted, [GNext]_gvars PROVE Admitted'
  OBVIOUS
<1>1. effectiveAllowed' = effectiveAllowed
  BY GatewaySteps, FailuresStay DEF args
<1>2. CASE Dispatch
  <2>1. pc = "calling" /\ Try(Current, CASCADE[at], 1)
    BY <1>2 DEF Dispatch
  <2>2. CASCADE[at] \in effectiveAllowed
    BY <2>1 DEF IInv, ControlInv, Permitted
  <2> QED
    BY <1>1, <2>1, <2>2 DEF Try, Admitted
<1>3. ASSUME NEW a \in Working, RouterStep(a) PROVE Admitted'
  <2>1. routed[a] \in reached /\ \E k \in Index : CASCADE[k] = routed[a]
    BY DEF GInv, RoutedInv
  <2>2. CASE RouterRetries(a)
    BY <1>1, <2>1, <2>2 DEF RouterRetries, Try, Admitted
  <2>3. CASE RouterFallsBack(a)
    BY <1>1, <2>1, <2>3 DEF RouterFallsBack, Try, Admitted
  <2>4. CASE reached' = reached
    BY <1>1, <2>4 DEF Admitted
  <2> QED
    BY <1>3, <2>2, <2>3, <2>4
      DEF RouterStep, RouterAnswers, RouterFails, ClientTimesOut, AbandonedEnds,
          RouterDone, router
<1>4. CASE reached' = reached
  BY <1>1, <1>4 DEF Admitted
<1> QED
  BY <1>2, <1>3, <1>4 DEF GNext, AppStep, GatewayRefuses, gvars, router

(* The router's fallbacks are all that breaks the promise: with none to the *)
(* last group of the cascade (litellm.ci.yaml has none at all), a caller    *)
(* that leaves it out keeps its request from it.                            *)
THEOREM LockHoldsWithoutFallback ==
    ASSUME \A g \in ModelGroup : Fallbacks[g] # CASCADE[Len(CASCADE)]
    PROVE  GSpec => []PiiLockHolds
<1>1. GInit => GInv /\ Admitted
  BY DEF GInit, RouterInit, GInv, RoutedInv, Working, SovereignExhaustedFirst, Admitted
<1>2. Admitted => PiiLockHolds
  <2>1. \A i \in Index : CASCADE[i] \in ModelGroup
    BY CascadeAssumption DEF Index
  <2> QED
    BY <2>1 DEF Admitted, PiiLockHolds
<1> QED
  BY <1>1, <1>2, NextGInv, NextAdmitted, ImplementsCascade, InductiveInvariant, PTL DEF GSpec

-----------------------------------------------------------------------------
(* How many provider calls a request costs. *)

(* A failed attempt stays begun; a new one is the next on its group, and    *)
(* until the application begins it nothing is counted for it.               *)
LEMMA AttemptsGrow ==
    ASSUME IInv, IInv', [Next]_vars
    PROVE  /\ \A i \in Index : AttemptsOn(i) \in Nat /\ AttemptsOn(i)' \in Nat
           /\ \A i \in Index : AttemptsOn(i) <= AttemptsOn(i)'
           /\ pc' = "calling" =>
                 UNCHANGED vars \/ \A i \in Index : i = at' => AttemptsOn(i) < attempt'
<1>0. TypeOK /\ ControlInv /\ OrderInv /\ TypeOK' /\ ControlInv'
  BY DEF IInv
<1> USE IndexFacts, MaxAttemptsAssumption
<1>1. \A i \in Index : AttemptsOn(i) \in Nat /\ AttemptsOn(i)' \in Nat
  <2>1. \A i \in Index : failures[i] \in Nat /\ failures'[i] \in Nat
    BY <1>0 DEF TypeOK
  <2> QED
    BY <2>1 DEF AttemptsOn
<1>2. CASE RaiseValueError \/ Answer
  BY <1>0, <1>1, <1>2 DEF RaiseValueError, Answer, Return, AttemptsOn, ControlInv, TypeOK
<1>3. CASE Start
  <2>1. pc = "validate" /\ attempt' = 1 /\ failures' = failures /\ verdict' = verdict
    BY <1>3 DEF Start, Visit
  <2>2. verdict = "open" /\ \A i \in Index : failures[i] = 0
    BY <1>0, <2>1 DEF ControlInv
  <2>3. \A i \in Index : AttemptsOn(i) = 0
    BY <2>1, <2>2 DEF AttemptsOn
  <2> QED
    BY <1>1, <2>1, <2>3
<1>4. CASE Wake
  BY <1>0, <1>1, <1>4 DEF Wake, AttemptsOn, ControlInv, TypeOK
<1>5. ASSUME NEW e \in Error, Raise(e)
      PROVE  pc' # "calling" /\ \A i \in Index : AttemptsOn(i) <= AttemptsOn(i)'
  BY <1>0, <1>1, <1>5 DEF Raise, Return, AttemptsOn, ControlInv, TypeOK
<1>6. ASSUME NEW e \in Error, Retry(e) \/ Escalate(e) \/ Exhaust(e)
      PROVE  /\ \A i \in Index : AttemptsOn(i) <= AttemptsOn(i)'
             /\ pc' = "calling" => \A i \in Index : i = at' => AttemptsOn(i) < attempt'
  <2>1. pc = "calling" /\ verdict = "open" /\ CountFailure
    BY <1>0, <1>6 DEF Retry, Escalate, Exhaust, ControlInv
  <2>2. /\ at \in Index /\ failures[at] = attempt - 1 /\ attempt \in 1..MaxAttempts
        /\ failures' = [failures EXCEPT ![at] = attempt]
    BY <1>0, <2>1, CountedFailure
  <2>3. \A i \in Index : AttemptsOn(i) = failures'[i]
    BY <1>0, <2>1, <2>2 DEF AttemptsOn, TypeOK
  <2>4. \A i \in Index : failures'[i] \in Nat /\ failures'[i] <= AttemptsOn(i)'
    BY <1>0 DEF AttemptsOn, TypeOK
  <2>5. ASSUME pc' = "calling", NEW i \in Index, i = at'
        PROVE  AttemptsOn(i) < attempt'
    <3>1. Escalate(e)
      BY <1>6, <2>5 DEF Retry, Exhaust, Return
    <3>2. i > at /\ attempt' = 1
      BY <2>5, <3>1 DEF Escalate, Visit, Follows
    <3>3. failures[i] = 0 /\ i # at
      BY <1>0, <2>2, <3>2 DEF OrderInv
    <3> QED
      BY <3>2, <3>3 DEF AttemptsOn
  <2> QED
    BY <1>1, <2>3, <2>4, <2>5
<1>7. CASE UNCHANGED vars
  <2>1. \A i \in Index : AttemptsOn(i)' = AttemptsOn(i)
    BY <1>7 DEF vars, args, AttemptsOn
  <2> QED
    BY <1>1, <1>7, <2>1
<1> QED
  BY <1>1, <1>2, <1>3, <1>4, <1>5, <1>6, <1>7 DEF Next, Fail

(* The calls made so far are told apart by their slots: each attempt that   *)
(* is worked for has made its last one, and none after it.                  *)
CallsInv(C) ==
    /\ C \in SUBSET CallSlots
    /\ IsFiniteSet(C) /\ Cardinality(C) = providerCalls
    /\ \A a \in Working : \E k \in Index :
          /\ CASCADE[k] = routed[a]
          /\ <<a, <<k, tries[a]>>>> \in C
          /\ \A c \in C : c[1] = a =>
                c[2][1] < k \/ (c[2][1] = k /\ c[2][2] <= tries[a])
    /\ pc = "calling" /\ routed[Current] = NoGroup => \A c \in C : c[1] # Current

BudgetInv ==
    /\ routed \in [Attempt -> ModelGroup \cup {NoGroup}]
    /\ tries \in [Attempt -> 0..(NumRetries + 1)]
    /\ \E C : CallsInv(C)

(* One more call of an attempt, further on than its calls before.           *)
LEMMA OneMoreCall ==
    ASSUME BudgetInv, NEW C, CallsInv(C), UNCHANGED vars,
           NEW a \in Attempt, NEW k \in Index, NEW t \in 1..(NumRetries + 1),
           a[2] <= AttemptsOn(a[1]), a[1] <= k,
           \A c \in C : c[1] = a => c[2][1] < k \/ (c[2][1] = k /\ c[2][2] < t),
           Try(a, CASCADE[k], t)
    PROVE  BudgetInv'
<1> USE IndexFacts, NumRetriesAssumption
<1> DEFINE slot == <<a, <<k, t>>>>
           D == C \cup {slot}
<1>1. /\ routed \in [Attempt -> ModelGroup \cup {NoGroup}]
      /\ tries \in [Attempt -> 0..(NumRetries + 1)]
      /\ routed' = [routed EXCEPT ![a] = CASCADE[k]]
      /\ tries' = [tries EXCEPT ![a] = t]
      /\ providerCalls' = providerCalls + 1
      /\ CASCADE[k] \in ModelGroup
  BY CascadeAssumption DEF BudgetInv, Try, Index
<1>2. CASCADE[k] # NoGroup /\ routed'[a] = CASCADE[k] /\ tries'[a] = t
  BY <1>1, FallbacksAssumption
<1>3. slot \notin C
  BY DEF CallsInv
<1>4. D \in SUBSET CallSlots'
  <2>1. CallSlots' = CallSlots
    BY DEF CallSlots, AttemptsOn, vars, args
  <2>2. slot \in CallSlots
    BY DEF CallSlots
  <2> QED
    BY <2>1, <2>2 DEF CallsInv
<1>5. IsFiniteSet(D) /\ Cardinality(D) = providerCalls'
  BY <1>1, <1>3, FS_AddElement DEF CallsInv
<1>6. ASSUME NEW b \in Working'
      PROVE  \E j \in Index :
                /\ CASCADE[j] = routed'[b]
                /\ <<b, <<j, tries'[b]>>>> \in D
                /\ \A c \in D : c[1] = b =>
                      c[2][1] < j \/ (c[2][1] = j /\ c[2][2] <= tries'[b])
  <2>1. CASE b = a
    <3>1. \A c \in D : c[1] = a => c[2][1] < k \/ (c[2][1] = k /\ c[2][2] <= t)
      <4>1. \A c \in C : c \in Attempt \X (Index \X (1..(NumRetries + 1)))
        BY DEF CallsInv, CallSlots
      <4>2. ASSUME NEW c \in C, c[1] = a
            PROVE  c[2][1] < k \/ (c[2][1] = k /\ c[2][2] <= t)
        <5>1. c[2][2] \in Nat
          BY <4>1, <4>2
        <5> QED
          BY <4>2, <5>1
      <4> QED
        BY <4>2
    <3> QED
      BY <1>2, <2>1, <3>1
  <2>2. CASE b # a
    <3>1. b \in Working /\ routed'[b] = routed[b] /\ tries'[b] = tries[b]
      BY <1>1, <2>2 DEF Working
    <3>2. \A c \in D : c[1] = b => c \in C
      BY <2>2
    <3> QED
      BY <3>1, <3>2 DEF CallsInv
  <2> QED
    BY <2>1, <2>2
<1>7. ASSUME pc' = "calling", routed'[Current'] = NoGroup
      PROVE  \A c \in D : c[1] # Current'
  <2>1. Current' = Current /\ pc = "calling"
    BY <1>7 DEF vars, Current
  <2>2. Current # a
    BY <1>2, <1>7, <2>1
  <2>3. routed'[Current] = routed[Current]
    BY <1>1, <2>2
  <2> QED
    BY <1>7, <2>1, <2>2, <2>3 DEF CallsInv
<1>8. CallsInv(D)'
  BY <1>4, <1>5, <1>6, <1>7 DEF CallsInv
<1> QED
  BY <1>1, <1>2, <1>8 DEF BudgetInv

(* A step that calls no provider and starts no work.                       *)
LEMMA NoMoreCalls ==
    ASSUME IInv, IInv', [Next]_vars, BudgetInv, UNCHANGED providerCalls,
           \/ UNCHANGED <<routed, tries>>
           \/ \E a \in Attempt :
                 /\ routed' = [routed EXCEPT ![a] = NoGroup]
                 /\ tries' = [tries EXCEPT ![a] = 0]
                 /\ a = Current => pc # "calling" \/ ~UNCHANGED vars
    PROVE  BudgetInv'
<1> USE IndexFacts, NumRetriesAssumption
<1>1. PICK C : CallsInv(C)
  BY DEF BudgetInv
<1>2. \A i \in Index : AttemptsOn(i) \in Nat /\ AttemptsOn(i)' \in Nat
                        /\ AttemptsOn(i) <= AttemptsOn(i)'
  BY AttemptsGrow
<1>3. ASSUME NEW c \in C
      PROVE  /\ c \in CallSlots /\ c \in CallSlots'
             /\ c[1][1] \in Index /\ c[1][2] \in Nat
             /\ c[1][2] <= AttemptsOn(c[1][1])
  <2>1. c \in CallSlots
    BY <1>1 DEF CallsInv
  <2>2. /\ c \in Attempt \X (Index \X (1..(NumRetries + 1)))
        /\ c[1][2] <= AttemptsOn(c[1][1]) /\ c[1][1] <= c[2][1]
    BY <2>1 DEF CallSlots
  <2>3. c[1][1] \in Index /\ c[1][2] \in Nat
    BY <2>2, MaxAttemptsAssumption DEF Attempt
  <2>4. c[1][2] <= AttemptsOn(c[1][1])'
    <3>1. PICK i \in Index : i = c[1][1]
      BY <2>3
    <3> QED
      BY <1>2, <2>2, <2>3, <3>1
  <2>5. c \in CallSlots'
    BY <2>2, <2>4 DEF CallSlots, Attempt, Index
  <2> QED
    BY <2>1, <2>2, <2>3, <2>5
<1>4. /\ routed' \in [Attempt -> ModelGroup \cup {NoGroup}]
      /\ tries' \in [Attempt -> 0..(NumRetries + 1)]
  BY DEF BudgetInv
<1>5. \A b \in Working' : b \in Working /\ routed'[b] = routed[b] /\ tries'[b] = tries[b]
  BY DEF BudgetInv, Working
<1>6. ASSUME pc' = "calling", routed'[Current'] = NoGroup
      PROVE  \A c \in C : c[1] # Current'
  <2>1. CASE UNCHANGED vars
    <3>1. Current' = Current /\ pc = "calling"
      BY <1>6, <2>1 DEF vars, Current
    <3>2. Current \in Attempt
      BY <3>1, MaxAttemptsAssumption DEF IInv, ControlInv, TypeOK, Current, Attempt
    <3>3. routed[Current] = NoGroup
      BY <1>6, <2>1, <3>1, <3>2 DEF BudgetInv
    <3> QED
      BY <1>1, <3>1, <3>3 DEF CallsInv
  <2>2. CASE ~UNCHANGED vars
    <3>1. \A i \in Index : i = at' => AttemptsOn(i) < attempt'
      BY <1>6, <2>2, AttemptsGrow
    <3>2. ASSUME NEW c \in C, c[1] = Current'
          PROVE  FALSE
      <4>1. c[1][1] = at' /\ c[1][2] = attempt'
        BY <3>2 DEF Current
      <4>2. c[1][1] \in Index /\ c[1][2] \in Nat /\ c[1][2] <= AttemptsOn(c[1][1])
        BY <1>3
      <4>3. PICK i \in Index : i = c[1][1]
        BY <4>2
      <4>4. AttemptsOn(i) \in Nat /\ c[1][2] <= AttemptsOn(i) /\ AttemptsOn(i) < c[1][2]
        BY <1>2, <3>1, <4>1, <4>2, <4>3
      <4> QED
        BY <4>2, <4>4
    <3> QED
      BY <3>2
  <2> QED
    BY <2>1, <2>2
<1>7. CallsInv(C)'
  BY <1>1, <1>3, <1>5, <1>6 DEF CallsInv
<1> QED
  BY <1>4, <1>7 DEF BudgetInv

(* Every step keeps it.                                                    *)
LEMMA NextBudgetInv == IInv /\ IInv' /\ BudgetInv /\ [GNext]_gvars => BudgetInv'
<1> SUFFICES ASSUME IInv, IInv', BudgetInv, [GNext]_gvars PROVE BudgetInv'
  OBVIOUS
<1> USE IndexFacts, NumRetriesAssumption
<1>0. [Next]_vars
  BY GatewaySteps
<1>1. PICK C : CallsInv(C)
  BY DEF BudgetInv
<1>2. pc = "calling" => /\ at \in Index /\ Current \in Attempt
                        /\ attempt <= AttemptsOn(at)
  BY MaxAttemptsAssumption
    DEF IInv, ControlInv, TypeOK, Current, Attempt, AttemptsOn
<1>3. CASE UNCHANGED router
  BY <1>0, <1>3, NoMoreCalls DEF router
<1>4. CASE Dispatch
  <2>1. /\ pc = "calling" /\ routed[Current] = NoGroup /\ UNCHANGED vars
        /\ Try(Current, CASCADE[at], 1)
    BY <1>4 DEF Dispatch
  <2>2. PICK k \in Index : k = at
    BY <1>2, <2>1
  <2>3. \A c \in C : c[1] # Current
    BY <1>1, <2>1 DEF CallsInv
  <2>4. Current[1] = k /\ Current[2] = attempt
    BY <2>2 DEF Current
  <2>5. /\ Current \in Attempt /\ 1 \in 1..(NumRetries + 1) /\ k <= k
        /\ attempt <= AttemptsOn(k) /\ Try(Current, CASCADE[k], 1)
    BY <1>2, <2>1, <2>2
  <2> HIDE DEF Current
  <2> QED
    BY <1>1, <2>1, <2>3, <2>4, <2>5, OneMoreCall
<1>5. ASSUME NEW a \in Working, RouterStep(a) PROVE BudgetInv'
  <2>1. a \in Attempt /\ tries[a] \in Nat
    BY DEF Working, BudgetInv
  <2>2. PICK k \in Index :
          /\ CASCADE[k] = routed[a]
          /\ <<a, <<k, tries[a]>>>> \in C
          /\ \A c \in C : c[1] = a =>
                c[2][1] < k \/ (c[2][1] = k /\ c[2][2] <= tries[a])
    BY <1>1 DEF CallsInv
  <2>3. /\ tries[a] \in 1..(NumRetries + 1)
        /\ a[2] <= AttemptsOn(a[1]) /\ a[1] <= k
    BY <1>1, <2>2 DEF CallsInv, CallSlots
  <2>4. ASSUME NEW c \in C
        PROVE  c[2][1] \in Nat /\ c[2][2] \in Nat
    <3>1. c \in Attempt \X (Index \X (1..(NumRetries + 1)))
      BY <1>1 DEF CallsInv, CallSlots
    <3>2. c[2][1] \in Index /\ c[2][2] \in 1..(NumRetries + 1)
      BY <3>1
    <3>3. c[2][1] \in Nat
      BY <3>2
    <3>4. c[2][2] \in Nat
      BY <3>2
    <3> QED
      BY <3>3, <3>4
  <2>5. CASE RouterRetries(a)
    <3>1. UNCHANGED vars /\ Try(a, CASCADE[k], tries[a] + 1)
      BY <2>2, <2>5 DEF RouterRetries
    <3>2. tries[a] + 1 \in 1..(NumRetries + 1)
      BY <2>3, <2>5 DEF RouterRetries
    <3>3. ASSUME NEW c \in C, c[1] = a
          PROVE  c[2][1] < k \/ (c[2][1] = k /\ c[2][2] < tries[a] + 1)
      BY <2>1, <2>2, <2>4, <3>3
    <3> QED
      BY <1>1, <2>1, <2>3, <3>1, <3>2, <3>3, OneMoreCall
  <2>6. CASE RouterFallsBack(a)
    <3>1. k + 1 \in Index /\ Fallbacks[routed[a]] = CASCADE[k + 1]
      BY <2>2, <2>6, FallbackOrderAssumption DEF RouterFallsBack, Index
    <3>2. UNCHANGED vars /\ Try(a, CASCADE[k + 1], 1)
      BY <2>6, <3>1 DEF RouterFallsBack
    <3>3. \A c \in C : c[1] = a => c[2][1] < k + 1
      BY <2>2, <2>4
    <3>4. a[1] <= k + 1 /\ 1 \in 1..(NumRetries + 1)
      <4>1. a[1] \in Nat
        BY <2>1 DEF Attempt
      <4> QED
        BY <2>3, <4>1
    <3> QED
      BY <1>1, <2>1, <2>3, <3>1, <3>2, <3>3, <3>4, OneMoreCall
  <2>7. CASE RouterDone(a) /\ (a = Current => pc # "calling" \/ ~UNCHANGED vars)
    BY <1>0, <2>1, <2>7, NoMoreCalls DEF RouterDone
  <2>8. ASSUME pc = "calling", Answer \/ \E e \in Error : Fail(e)
        PROVE  ~UNCHANGED vars
    <3>1. CASE Answer
      BY <2>8, <3>1 DEF Answer, Return, vars
    <3>2. ASSUME NEW e \in Error, Raise(e) \/ Retry(e) \/ Exhaust(e)
          PROVE  ~UNCHANGED vars
      BY <2>8, <3>2 DEF Raise, Retry, Exhaust, Return, vars
    <3>3. ASSUME NEW e \in Error, Escalate(e)
          PROVE  ~UNCHANGED vars
      BY <2>8, <1>2, <3>3 DEF Escalate, Follows, Visit, vars
    <3> QED
      BY <2>8, <3>1, <3>2, <3>3 DEF Fail
  <2>9. CASE RouterAnswers(a)
    BY <2>7, <2>8, <2>9 DEF RouterAnswers
  <2>10. CASE ClientTimesOut(a)
    BY <1>3, <2>7, <2>8, <2>10 DEF ClientTimesOut, Error
  <2>11. CASE AbandonedEnds(a)
    BY <2>7, <2>11 DEF AbandonedEnds, Abandoned
  <2>12. ASSUME NEW e \in Error, RouterFails(a, e) PROVE BudgetInv'
    BY <2>7, <2>8, <2>12 DEF RouterFails
  <2> QED
    BY <1>5, <2>5, <2>6, <2>9, <2>10, <2>11, <2>12 DEF RouterStep
<1>6. CASE UNCHANGED gvars
  BY <1>3, <1>6 DEF gvars
<1>7. (AppStep \/ \E e \in Error : GatewayRefuses(e)) => UNCHANGED router
  BY DEF AppStep, GatewayRefuses
<1> QED
  BY <1>3, <1>4, <1>5, <1>6, <1>7 DEF GNext

(* Before the first call no slot is taken.                                 *)
LEMMA InitBudgetInv == GInit => BudgetInv
<1> SUFFICES ASSUME GInit PROVE BudgetInv
  OBVIOUS
<1>1. CallsInv({})
  BY FS_EmptySet DEF GInit, RouterInit, CallsInv, Working
<1> QED
  BY <1>1, NumRetriesAssumption DEF GInit, RouterInit, BudgetInv

(* There are finitely many slots.                                          *)
LEMMA SlotsAreFinite == IsFiniteSet(CallSlots)
<1>1. Index = 1..Len(CASCADE) /\ Len(CASCADE) \in Int
  BY CascadeAssumption DEF Index
<1>2. /\ IsFiniteSet(Index) /\ IsFiniteSet(1..MaxAttempts)
      /\ IsFiniteSet(1..(NumRetries + 1))
  BY <1>1, FS_Interval, MaxAttemptsAssumption, NumRetriesAssumption
<1>3. IsFiniteSet(Attempt \X (Index \X (1..(NumRetries + 1))))
  BY <1>2, FS_Product DEF Attempt
<1> QED
  BY <1>3, FS_Subset DEF CallSlots

(* The retries of the two layers multiply, and no more: at every moment the *)
(* request has cost at most one call for every group, attempt and try that  *)
(* its attempts so far leave room for, those it has given up included.      *)
THEOREM ProviderCallsFit == GSpec => []ProviderCallsBounded
<1>1. BudgetInv => ProviderCallsBounded
  BY SlotsAreFinite, FS_Subset DEF BudgetInv, CallsInv, ProviderCallsBounded
<1> QED
  BY <1>1, InitBudgetInv, NextBudgetInv, ImplementsCascade, InductiveInvariant, PTL DEF GSpec

(* A table of n rows and columns has n * (n + 1) / 2 places on and above    *)
(* its diagonal.                                                            *)
LEMMA HalfTheTable ==
    ASSUME NEW n \in Nat, NEW m \in Nat, NEW r \in Nat,
           NEW up \in Nat, NEW down \in Nat, NEW diagonal \in Nat,
           up + down - diagonal = (n * m) * (n * r), up <= down,
           diagonal <= (n * m) * r
    PROVE  2 * up <= (m * r) * (n * (n + 1))
<1>1. 2 * up <= (n * m) * (n * r) + (n * m) * r
  <2>1. (n * m) * (n * r) \in Nat /\ (n * m) * r \in Nat
    OBVIOUS
  <2> QED
    BY <2>1
<1>2. (n * m) * (n * r) + (n * m) * r = (m * r) * (n * (n + 1))
  OBVIOUS
<1> QED
  BY <1>1, <1>2

(* The slots of a whole request, in numbers.                               *)
LEMMA NumberOfSlots ==
    2 * Cardinality(CallSlots) <=
        (MaxAttempts * (NumRetries + 1)) * (Len(CASCADE) * (Len(CASCADE) + 1))
<1> DEFINE n == Len(CASCADE)
           R == 1..(NumRetries + 1)
           All == Attempt \X (Index \X R)
           Up == {c \in All : c[1][1] <= c[2][1]}
           Down == {c \in All : c[2][1] <= c[1][1]}
           Diagonal == Up \cap Down
<1>1. Index = 1..n /\ n \in Nat /\ MaxAttempts \in Nat /\ NumRetries + 1 \in Nat
  BY CascadeAssumption, MaxAttemptsAssumption, NumRetriesAssumption DEF Index
<1>2. /\ IsFiniteSet(Index) /\ Cardinality(Index) = n
      /\ IsFiniteSet(1..MaxAttempts) /\ Cardinality(1..MaxAttempts) = MaxAttempts
      /\ IsFiniteSet(R) /\ Cardinality(R) = NumRetries + 1
  <2>1. \A k \in Nat : IsFiniteSet(1..k) /\ Cardinality(1..k) = k
    BY FS_Interval
  <2> QED
    BY <1>1, <2>1
<1>3. /\ IsFiniteSet(Attempt) /\ Cardinality(Attempt) = n * MaxAttempts
      /\ IsFiniteSet(Index \X R) /\ Cardinality(Index \X R) = n * (NumRetries + 1)
      /\ IsFiniteSet(Attempt \X R)
      /\ Cardinality(Attempt \X R) = (n * MaxAttempts) * (NumRetries + 1)
  <2> HIDE DEF n, R
  <2>1. IsFiniteSet(Attempt) /\ Cardinality(Attempt) = n * MaxAttempts
    BY <1>2, FS_Product DEF Attempt
  <2>2. IsFiniteSet(Index \X R) /\ Cardinality(Index \X R) = n * (NumRetries + 1)
    BY <1>2, FS_Product
  <2>3. /\ IsFiniteSet(Attempt \X R)
        /\ Cardinality(Attempt \X R) = (n * MaxAttempts) * (NumRetries + 1)
    BY <1>2, <2>1, FS_Product
  <2> QED
    BY <2>1, <2>2, <2>3
<1>4. /\ IsFiniteSet(All)
      /\ Cardinality(All) = (n * MaxAttempts) * (n * (NumRetries + 1))
  <2> HIDE DEF n, R
  <2> QED
    BY <1>3, FS_Product
<1>5. /\ IsFiniteSet(Up) /\ IsFiniteSet(Down) /\ IsFiniteSet(Diagonal)
      /\ Cardinality(Up) \in Nat /\ Cardinality(Down) \in Nat
      /\ Cardinality(Diagonal) \in Nat
  <2>1. Up \in SUBSET All /\ Down \in SUBSET All /\ Diagonal \in SUBSET All
    OBVIOUS
  <2> HIDE DEF Up, Down, Diagonal, All
  <2>2. IsFiniteSet(Up) /\ IsFiniteSet(Down) /\ IsFiniteSet(Diagonal)
    BY <1>4, <2>1, FS_Subset
  <2> QED
    BY <2>2, FS_CardinalityType
<1>6. ASSUME NEW c \in All
      PROVE  /\ c = <<<<c[1][1], c[1][2]>>, <<c[2][1], c[2][2]>>>>
             /\ c[1] \in Attempt /\ c[1][1] \in Index /\ c[1][2] \in 1..MaxAttempts
             /\ c[2][1] \in Index /\ c[2][2] \in R
             /\ c[1][1] \in Nat /\ c[2][1] \in Nat
  <2>1. /\ c = <<c[1], c[2]>> /\ c[1] \in Index \X (1..MaxAttempts)
        /\ c[2] \in Index \X R
    BY DEF Attempt
  <2>2. c[1] = <<c[1][1], c[1][2]>> /\ c[2] = <<c[2][1], c[2][2]>>
    BY <2>1
  <2> HIDE DEF R
  <2>3. /\ c[1][1] \in Index /\ c[1][2] \in 1..MaxAttempts
        /\ c[2][1] \in Index /\ c[2][2] \in R
    BY <2>1
  <2> QED
    BY <2>1, <2>2, <2>3, IndexFacts DEF Attempt
<1>7. Cardinality(Up) <= Cardinality(Down)
  <2> DEFINE f == [c \in Up |-> <<<<c[2][1], c[1][2]>>, <<c[1][1], c[2][2]>>>>]
  <2>1. ASSUME NEW c \in Up PROVE f[c] \in Down
    BY <1>6, <2>1 DEF Attempt
  <2>2. ASSUME NEW c \in Up, NEW d \in Up, f[c] = f[d] PROVE c = d
    BY <1>6, <2>2
  <2>3. f \in Injection(Up, Down)
    BY <2>1, <2>2 DEF Injection, IsInjective
  <2> HIDE DEF f, Up, Down
  <2> QED
    BY <1>5, <2>3, FS_Injection
<1>8. Cardinality(Diagonal) <= (n * MaxAttempts) * (NumRetries + 1)
  <2> DEFINE f == [c \in Diagonal |-> <<c[1], c[2][2]>>]
  <2>1. ASSUME NEW c \in Diagonal PROVE f[c] \in Attempt \X R /\ c[2][1] = c[1][1]
    BY <1>6, <2>1
  <2>2. ASSUME NEW c \in Diagonal, NEW d \in Diagonal, f[c] = f[d] PROVE c = d
    BY <1>6, <2>1, <2>2
  <2>3. f \in Injection(Diagonal, Attempt \X R)
    BY <2>1, <2>2 DEF Injection, IsInjective
  <2> HIDE DEF f, Diagonal
  <2> QED
    BY <1>3, <2>3, FS_Injection
<1>9. Up \cup Down = All
  BY <1>6
<1>10. Cardinality(Up) + Cardinality(Down) - Cardinality(Diagonal)
          = (n * MaxAttempts) * (n * (NumRetries + 1))
  <2>1. Cardinality(Up \cup Down)
          = Cardinality(Up) + Cardinality(Down) - Cardinality(Up \cap Down)
    <3> HIDE DEF Up, Down
    <3> QED
      BY <1>5, FS_Union
  <2> HIDE DEF Up, Down, All
  <2> QED
    BY <1>4, <1>9, <2>1
<1>11. 2 * Cardinality(Up) <= (MaxAttempts * (NumRetries + 1)) * (n * (n + 1))
  <2> HIDE DEF Up, Down, Diagonal, n
  <2> QED
    BY <1>1, <1>5, <1>7, <1>8, <1>10, HalfTheTable
<1>12. Cardinality(CallSlots) \in Nat /\ Cardinality(CallSlots) <= Cardinality(Up)
  <2>1. CallSlots \in SUBSET Up
    BY DEF CallSlots
  <2> HIDE DEF Up
  <2> QED
    BY <1>5, <2>1, FS_Subset, FS_CardinalityType
<1>13. (MaxAttempts * (NumRetries + 1)) * (n * (n + 1)) \in Nat
  BY <1>1
<1> HIDE DEF Up, n
<1> QED
  BY <1>5, <1>11, <1>12, <1>13 DEF n

(* A request over n groups costs at most max_attempts_per_group *          *)
(* (num_retries + 1) * n * (n + 1) / 2 provider calls, however its attempts *)
(* time out, are given up and worked for after that.                        *)
THEOREM RequestCost ==
    GSpec => [](2 * providerCalls <=
                  (MaxAttempts * (NumRetries + 1)) * (Len(CASCADE) * (Len(CASCADE) + 1)))
<1> DEFINE bound == (MaxAttempts * (NumRetries + 1)) * (Len(CASCADE) * (Len(CASCADE) + 1))
<1>1. BudgetInv => 2 * providerCalls <= bound
  <2> SUFFICES ASSUME BudgetInv PROVE 2 * providerCalls <= bound
    OBVIOUS
  <2>1. /\ providerCalls \in Nat /\ providerCalls <= Cardinality(CallSlots)
        /\ Cardinality(CallSlots) \in Nat
    BY SlotsAreFinite, FS_Subset, FS_CardinalityType DEF BudgetInv, CallsInv
  <2>2. bound \in Nat
    <3>1. Len(CASCADE) \in Nat
      BY CascadeAssumption
    <3> QED
      BY <3>1, MaxAttemptsAssumption, NumRetriesAssumption
  <2>3. 2 * Cardinality(CallSlots) <= bound
    BY NumberOfSlots
  <2> HIDE DEF bound
  <2> QED
    BY <2>1, <2>2, <2>3
<1> QED
  BY <1>1, InitBudgetInv, NextBudgetInv, ImplementsCascade, InductiveInvariant, PTL DEF GSpec
=============================================================================
