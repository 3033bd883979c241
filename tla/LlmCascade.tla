----------------------------- MODULE LlmCascade -----------------------------
(***************************************************************************)
(* The application-level LLM cascade: ainvoke_with_fallback and            *)
(* _invoke_group of app/agent/llm.py, for one request.                     *)
(*                                                                         *)
(* A group is called up to MaxAttempts times (tenacity, with a backoff     *)
(* between two attempts); when the last of them fails transiently the      *)
(* cascade escalates to the next permitted group; an error that is not     *)
(* transient is re-raised at once, from wherever it came.                  *)
(*                                                                         *)
(* Abstracted: prompts, sampling parameters, log lines, the length of a    *)
(* backoff.  `contacted' and `failures' are history variables: the code    *)
(* does not keep them, the properties need them.                           *)
(***************************************************************************)
EXTENDS Naturals, Sequences

CONSTANTS
    ModelGroup,     \* the gateway's model group aliases
    CASCADE,        \* _CASCADE: the chat groups, most sovereign first
    MaxAttempts     \* max_attempts_per_group

ASSUME CascadeAssumption ==
    /\ CASCADE \in Seq(ModelGroup)
    /\ \A i, j \in DOMAIN CASCADE : CASCADE[i] = CASCADE[j] => i = j
ASSUME MaxAttemptsAssumption == MaxAttempts \in Nat \ {0}

VARIABLES
    startGroup,         \* start_group
    effectiveAllowed,   \* effective_allowed, as a set: only membership counts
    pc,             \* where the coroutine is
    at,             \* index in CASCADE of the group being called, or 0
    attempt,        \* tenacity's attempt_number for that group
    groupsTried,    \* groups_tried
    lastError,      \* last_error: which group raised it and its kind
    verdict,        \* what the caller got, or "open"
    contacted,      \* history: every index a request was sent to
    failures        \* history: transient failures seen from each index

args == <<startGroup, effectiveAllowed>>
vars == <<args, pc, at, attempt, groupsTried, lastError, verdict,
          contacted, failures>>

Index == DOMAIN CASCADE

-----------------------------------------------------------------------------
(* Errors, as the OpenAI client raises them. *)

Error == {"APITimeoutError", "APIConnectionError", "429", "5xx",
          "other 4xx", "not an API error"}
NoError == [from |-> 0, kind |-> "none"]

\* Mutated form: every HTTP status error is worth another attempt.
IsTransient_AnyStatus(e) ==
    e \in {"APITimeoutError", "APIConnectionError", "429", "5xx", "other 4xx"}

IsTransient(e) ==
    \/ e \in {"APITimeoutError", "APIConnectionError"}
    \/ e \in {"429", "5xx"}

-----------------------------------------------------------------------------
(* The cascade the arguments leave. *)

\* Mutated form: the restriction is dropped when the start group is free to
\* be served by every group.
Permitted_IgnoresRestriction == Index

Permitted ==
    {i \in Index : CASCADE[i] \in effectiveAllowed}

Valid ==
    /\ effectiveAllowed # {}
    /\ \E s \in Permitted : CASCADE[s] = startGroup

\* Mutated form: a permitted group may be skipped.
Follows_MaySkip(i) == i \in Permitted /\ i > at

Follows(i) ==
    /\ i \in Permitted /\ i > at
    /\ \A j \in Permitted : j > at => i <= j
HasNext == \E j \in Permitted : j > at

-----------------------------------------------------------------------------
(* allowed_groups=None is the choice of every group of CASCADE. *)
Init ==
    /\ startGroup \in ModelGroup
    /\ effectiveAllowed \in SUBSET ModelGroup
    /\ pc = "validate"
    /\ at = 0
    /\ attempt = 0
    /\ groupsTried = <<>>
    /\ lastError = NoError
    /\ verdict = "open"
    /\ contacted = {}
    /\ failures = [i \in Index |-> 0]

(* for position, group in enumerate(remaining): enter the group at index i. *)
Visit(i) ==
    /\ at' = i
    /\ groupsTried' = Append(groupsTried, CASCADE[i])
    /\ attempt' = 1
    /\ contacted' = contacted \cup {i}
    /\ pc' = "calling"

Return(v) ==
    /\ verdict' = v
    /\ pc' = "returned"

RaiseValueError ==
    /\ pc = "validate" /\ ~Valid
    /\ Return("ValueError")
    /\ UNCHANGED <<args, at, attempt, groupsTried, lastError, contacted, failures>>

Start ==
    /\ pc = "validate" /\ Valid
    /\ \E s \in Permitted : CASCADE[s] = startGroup /\ Visit(s)
    /\ UNCHANGED <<args, lastError, verdict, failures>>

Answer ==
    /\ pc = "calling"
    /\ Return("answered")
    /\ UNCHANGED <<args, at, attempt, groupsTried, lastError, contacted, failures>>

(* The history stops counting one above MaxAttempts. *)
CountFailure ==
    failures' = [failures EXCEPT ![at] = IF @ > MaxAttempts THEN @ ELSE @ + 1]

\* Mutated form: one attempt more than max_attempts_per_group.
Retry_OneTooMany(e) ==
    /\ pc = "calling" /\ IsTransient(e)
    /\ attempt <= MaxAttempts
    /\ pc' = "backoff"
    /\ CountFailure
    /\ UNCHANGED <<args, at, attempt, groupsTried, lastError, verdict, contacted>>

(* stop_after_attempt has not been reached: tenacity sleeps. *)
Retry(e) ==
    /\ pc = "calling" /\ IsTransient(e)
    /\ attempt < MaxAttempts
    /\ pc' = "backoff"
    /\ CountFailure
    /\ UNCHANGED <<args, at, attempt, groupsTried, lastError, verdict, contacted>>

\* Mutated form: the attempt number is not advanced.
Wake_SameAttempt ==
    /\ pc = "backoff"
    /\ pc' = "calling"
    /\ contacted' = contacted \cup {at}
    /\ UNCHANGED <<args, at, attempt, groupsTried, lastError, verdict, failures>>

Wake ==
    /\ pc = "backoff"
    /\ attempt' = attempt + 1
    /\ pc' = "calling"
    /\ contacted' = contacted \cup {at}
    /\ UNCHANGED <<args, at, groupsTried, lastError, verdict, failures>>

\* Mutated form: a rate limit escalates without the remaining attempts.
Escalate_AtOnceOn429(e) ==
    /\ pc = "calling" /\ IsTransient(e)
    /\ attempt >= MaxAttempts \/ e = "429"
    /\ lastError' = [from |-> at, kind |-> e]
    /\ CountFailure
    /\ \E i \in Index : Follows(i) /\ Visit(i)
    /\ UNCHANGED <<args, verdict>>

(* reraise=True: the cascade sees the original error and goes on. *)
Escalate(e) ==
    /\ pc = "calling" /\ IsTransient(e)
    /\ attempt >= MaxAttempts
    /\ lastError' = [from |-> at, kind |-> e]
    /\ CountFailure
    /\ \E i \in Index : Follows(i) /\ Visit(i)
    /\ UNCHANGED <<args, verdict>>

\* Mutated form: an earlier group's error is reported as the last one.
Exhaust_KeepsFirstError(e) ==
    /\ pc = "calling" /\ IsTransient(e)
    /\ attempt >= MaxAttempts
    /\ ~HasNext
    /\ lastError' = IF lastError = NoError THEN [from |-> at, kind |-> e]
                                          ELSE lastError
    /\ CountFailure
    /\ Return("exhausted")
    /\ UNCHANGED <<args, at, attempt, groupsTried, contacted>>

(* LLMCascadeExhaustedError(groups_tried, last_error). *)
Exhaust(e) ==
    /\ pc = "calling" /\ IsTransient(e)
    /\ attempt >= MaxAttempts
    /\ ~HasNext
    /\ lastError' = [from |-> at, kind |-> e]
    /\ CountFailure
    /\ Return("exhausted")
    /\ UNCHANGED <<args, at, attempt, groupsTried, contacted>>

(* Not transient: tenacity does not retry and the cascade re-raises.  The *)
(* code keeps no record of it; lastError holds it here for the properties. *)
Raise(e) ==
    /\ pc = "calling" /\ ~IsTransient(e)
    /\ lastError' = [from |-> at, kind |-> e]
    /\ Return("raised")
    /\ UNCHANGED <<args, at, attempt, groupsTried, contacted, failures>>

Fail(e) == Retry(e) \/ Escalate(e) \/ Exhaust(e) \/ Raise(e)

Next ==
    \/ RaiseValueError \/ Start \/ Answer \/ Wake
    \/ \E e \in Error : Fail(e)

Spec == Init /\ [][Next]_vars

(* A call ends within its timeout and a backoff within max=8 seconds. *)
FairSpec == Spec /\ WF_vars(Next)

-----------------------------------------------------------------------------
(* The state has its types; no group is tried more than MaxAttempts times. *)
TypeOK ==
    /\ startGroup \in ModelGroup
    /\ effectiveAllowed \in SUBSET ModelGroup
    /\ pc \in {"validate", "calling", "backoff", "returned"}
    /\ at \in Index \cup {0}
    /\ attempt \in 0..MaxAttempts
    /\ groupsTried \in Seq(ModelGroup)
    /\ lastError \in [from : Index, kind : Error] \cup {NoError}
    /\ verdict \in {"open", "answered", "ValueError", "raised", "exhausted"}
    /\ contacted \in SUBSET Index
    /\ failures \in [Index -> 0..MaxAttempts]

AtOrAfterStart(i) == \E s \in 1..i : CASCADE[s] = startGroup

(* A group receives a request only after every permitted group between the  *)
(* start group and it has failed transiently max_attempts_per_group times   *)
(* ("sovereign compute exhausted first", ainvoke_with_fallback).            *)
EscalationOnlyAfterExhaustion ==
    \A i \in contacted : \A j \in 1..(i - 1) :
        (j \in Permitted /\ AtOrAfterStart(j))
            => failures[j] = MaxAttempts

(* However many failures happen, the app sends its requests to groups the   *)
(* caller allowed and never to one more sovereign than the start group      *)
(* (allowed_groups of ainvoke_with_fallback).                               *)
StaysInAllowed ==
    \A i \in contacted : CASCADE[i] \in effectiveAllowed /\ AtOrAfterStart(i)

(* An LLMCascadeExhaustedError names every permitted group from the start   *)
(* group on, in cascade order, each of them really spent, and carries the   *)
(* error of the last one.                                                   *)
ReportIsAccurate ==
    verdict = "exhausted" =>
        /\ lastError.from = at /\ groupsTried[Len(groupsTried)] = CASCADE[at]
        /\ \A k \in 1..(Len(groupsTried) - 1) :
              \E i, j \in contacted : i < j /\ groupsTried[k] = CASCADE[i]
                                         /\ groupsTried[k + 1] = CASCADE[j]
        /\ \A i \in Index :
              (i \in Permitted /\ AtOrAfterStart(i))
                  => /\ failures[i] = MaxAttempts
                     /\ \E k \in DOMAIN groupsTried : groupsTried[k] = CASCADE[i]

(* A request the gateway rejects as wrong (a 4xx other than 429) ends the   *)
(* call with that error: it is never what made the cascade move on, and no  *)
(* error worth a retry is raised in its place (_is_transient).              *)
HardErrorsEndTheCall ==
    (lastError.kind \in {"other 4xx", "not an API error"}) <=> verdict = "raised"

(* Whatever the groups do, the caller gets a verdict: the retries and the   *)
(* escalations of ainvoke_with_fallback come to an end.                     *)
Terminates == <>(pc = "returned")

(* What is left of a call at most: two steps for each attempt it can still  *)
(* make on this group and on those behind it.                               *)
StepsLeft ==
    CASE pc = "validate" -> 2 * (MaxAttempts * Len(CASCADE)) + 1
      [] pc = "calling"  -> 2 * (MaxAttempts * (Len(CASCADE) - at) + MaxAttempts - attempt) + 2
      [] pc = "backoff"  -> 2 * (MaxAttempts * (Len(CASCADE) - at) + MaxAttempts - attempt) + 1
      [] pc = "returned" -> 0

(* No retry and no escalation of ainvoke_with_fallback leads back: every    *)
(* step of a call uses up some of what is left of it, however short the     *)
(* attempts and the backoffs are, and nothing follows its verdict.          *)
RetriesRunOut == [][StepsLeft' < StepsLeft /\ StepsLeft' \in Nat]_vars

(* The code keeps the promise SovereigntyPolicy states. *)
Policy == INSTANCE SovereigntyPolicy WITH
    Rank <- Index,
    permitted <- Permitted,
    current <- at,
    spent <- {i \in Index : failures[i] >= MaxAttempts}
ImplementsPolicy == Policy!Spec
=============================================================================
