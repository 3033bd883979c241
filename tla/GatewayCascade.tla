--------------------------- MODULE GatewayCascade ---------------------------
(***************************************************************************)
(* The cascade above the LiteLLM router it calls.  The router is external; *)
(* its policy is gateway/litellm.config.yaml: num_retries within a group,  *)
(* then the group's fallback, and so on along the fallbacks.  LlmCascade   *)
(* says which group the application asks for; this module says which group's*)
(* providers the prompt really reaches.                                    *)
(*                                                                         *)
(* The router's work is kept per attempt of the application, because the   *)
(* client's 20 s timeout is shorter than the router's 60 s: when it fires  *)
(* the router may notice the closed connection and stop, or go on working  *)
(* for an attempt the application has repeated meanwhile.                  *)
(*                                                                         *)
(* Abstracted: the deployments behind an alias and the gateway's cache.    *)
(***************************************************************************)
EXTENDS LlmCascade, FiniteSets

CONSTANTS
    NumRetries,     \* router_settings.num_retries
    Fallbacks,      \* router_settings.fallbacks: a group, or NoGroup
    NoGroup,
    MaxAbandoned    \* bound: abandoned attempts the router still works for

ASSUME NumRetriesAssumption == NumRetries \in Nat /\ MaxAbandoned \in Nat
ASSUME FallbacksAssumption ==
    /\ NoGroup \notin ModelGroup
    /\ Fallbacks \in [ModelGroup -> ModelGroup \cup {NoGroup}]
ASSUME FallbackOrderAssumption ==   \* fallbacks follow the cascade
    \A i \in DOMAIN CASCADE : Fallbacks[CASCADE[i]] # NoGroup =>
        i + 1 \in DOMAIN CASCADE /\ Fallbacks[CASCADE[i]] = CASCADE[i + 1]

Attempt == Index \X (1..MaxAttempts)

VARIABLES
    routed,         \* the group the router is trying for each attempt
    tries,          \* provider calls made for that group in that attempt
    reached,        \* history: groups whose providers got the prompt
    spentUpstream,  \* history: groups the router fell back from
    providerCalls   \* history: provider calls made for this request

router == <<routed, tries, reached, spentUpstream, providerCalls>>
gvars == <<vars, router>>

RouterInit ==
    /\ routed = [a \in Attempt |-> NoGroup] /\ tries = [a \in Attempt |-> 0]
    /\ reached = {} /\ spentUpstream = {} /\ providerCalls = 0

GInit == Init /\ RouterInit

(* The attempt the application is making, and those the router works for   *)
(* although the application has given them up.                             *)
Current == <<at, attempt>>
Working == {a \in Attempt : routed[a] # NoGroup}
Abandoned == {a \in Working : pc # "calling" \/ a # Current}

(* The router calls a provider of group g, for the n-th time. *)
Try(a, g, n) ==
    /\ routed' = [routed EXCEPT ![a] = g]
    /\ tries' = [tries EXCEPT ![a] = n]
    /\ reached' = reached \cup {g}
    /\ providerCalls' = providerCalls + 1

RouterDone(a) ==
    /\ routed' = [routed EXCEPT ![a] = NoGroup]
    /\ tries' = [tries EXCEPT ![a] = 0]
    /\ UNCHANGED <<reached, spentUpstream, providerCalls>>

-----------------------------------------------------------------------------
(* The application's own steps. *)

AppStep ==
    /\ RaiseValueError \/ Start \/ Wake
    /\ UNCHANGED router

(* The gateway is unreachable, or turns the request down itself. *)
GatewayRefuses(e) ==
    /\ pc = "calling" /\ routed[Current] = NoGroup
    /\ e # "APITimeoutError" /\ Fail(e)
    /\ UNCHANGED router

Dispatch ==
    /\ pc = "calling" /\ routed[Current] = NoGroup
    /\ Try(Current, CASCADE[at], 1)
    /\ UNCHANGED <<vars, spentUpstream>>

\* Mutated form: num_retries counted from the first retry that fails.
RouterRetries_OneMore(a) ==
    /\ tries[a] <= NumRetries + 1
    /\ Try(a, routed[a], tries[a] + 1)
    /\ UNCHANGED <<vars, spentUpstream>>

RouterRetries(a) ==
    /\ tries[a] <= NumRetries
    /\ Try(a, routed[a], tries[a] + 1)
    /\ UNCHANGED <<vars, spentUpstream>>

\* Mutated form: the fallback is taken at the first failure.
RouterFallsBack_AtOnce(a) ==
    /\ Fallbacks[routed[a]] # NoGroup
    /\ spentUpstream' = spentUpstream \cup
                          (IF tries[a] > NumRetries THEN {routed[a]} ELSE {})
    /\ Try(a, Fallbacks[routed[a]], 1)
    /\ UNCHANGED vars

RouterFallsBack(a) ==
    /\ tries[a] > NumRetries
    /\ Fallbacks[routed[a]] # NoGroup
    /\ spentUpstream' = spentUpstream \cup {routed[a]}
    /\ Try(a, Fallbacks[routed[a]], 1)
    /\ UNCHANGED vars

RouterAnswers(a) ==
    /\ a \notin Abandoned
    /\ Answer
    /\ RouterDone(a)

(* The last fallback is spent, or a provider rejects the request. *)
RouterFails(a, e) ==
    /\ a \notin Abandoned
    /\ \/ tries[a] > NumRetries /\ Fallbacks[routed[a]] = NoGroup
       \/ e = "other 4xx"
    /\ e # "APITimeoutError" /\ Fail(e)
    /\ RouterDone(a)

(* The client's timeout fires; the router stops, or works on. *)
ClientTimesOut(a) ==
    /\ a \notin Abandoned
    /\ Fail("APITimeoutError")
    /\ \/ RouterDone(a)
       \/ Cardinality(Abandoned) < MaxAbandoned /\ UNCHANGED router

(* Whatever ends the work for an abandoned attempt, nobody is told. *)
AbandonedEnds(a) ==
    /\ a \in Abandoned
    /\ RouterDone(a)
    /\ UNCHANGED vars

RouterStep(a) ==
    \/ RouterRetries(a) \/ RouterFallsBack(a)
    \/ RouterAnswers(a) \/ ClientTimesOut(a) \/ AbandonedEnds(a)
    \/ \E e \in Error : RouterFails(a, e)

GNext ==
    \/ AppStep \/ Dispatch
    \/ \E e \in Error : GatewayRefuses(e)
    \/ \E a \in Working : RouterStep(a)

GSpec == GInit /\ [][GNext]_gvars

-----------------------------------------------------------------------------
(* The two layers of retries together still exhaust sovereign compute first: *)
(* a group's providers see the prompt only when every permitted group before *)
(* it, from the start group on, was spent by the router or failed every      *)
(* attempt of the application ("third-party frontier model only as a last    *)
(* resort", ainvoke_with_fallback).                                          *)
SovereignExhaustedFirst ==
    \A g \in reached : \A i \in Index : CASCADE[i] = g =>
        \A j \in 1..(i - 1) :
            (j \in Permitted /\ AtOrAfterStart(j))
                => failures[j] = MaxAttempts \/ CASCADE[j] \in spentUpstream

(* A caller that leaves the last group of the cascade out of allowed_groups *)
(* is promised that its request never reaches it, "regardless of how many   *)
(* transient failures happen upstream" (ainvoke_with_fallback).             *)
PiiLockHolds ==
    LET frontierGroup == CASCADE[Len(CASCADE)]
    IN  frontierGroup \in reached => frontierGroup \in effectiveAllowed

(* The attempts the application has begun on the i-th group. *)
AttemptsOn(i) ==
    failures[i] +
        IF i = at /\ (pc = "calling" \/ verdict \in {"answered", "raised"}) THEN 1 ELSE 0

(* The provider calls they leave room for, <<attempt, <<group, try>>>>: an  *)
(* attempt on the i-th of n groups passes the groups i..n of the router,    *)
(* num_retries + 1 calls each.                                              *)
CallSlots ==
    {c \in Attempt \X (Index \X (1..(NumRetries + 1))) :
        c[1][2] <= AttemptsOn(c[1][1]) /\ c[1][1] <= c[2][1]}

(* The retries of the two layers multiply, and no more, at any moment,      *)
(* whether the application waits for an attempt or has repeated it: with    *)
(* three groups, attempts and tries, 54 calls for a whole request.          *)
ProviderCallsBounded == providerCalls <= Cardinality(CallSlots)
=============================================================================
