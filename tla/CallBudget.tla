----------------------------- MODULE CallBudget -----------------------------
(***************************************************************************)
(* One call of the cascade (app/agent/llm.py) against the clock of the     *)
(* chat stream it is part of (app/api/routes/chat.py).  The unit of time   *)
(* is half a second.                                                       *)
(*                                                                         *)
(* The cascade runs in a worker thread under its own event loop            *)
(* (_FallbackAgentLLM.invoke): when the stream times out nobody stops it,  *)
(* and it goes on to its verdict.                                          *)
(*                                                                         *)
(* httpx bounds connecting and each wait for bytes by its timeout, not an  *)
(* attempt: a reply that keeps coming, as the stream's own tokens do, may  *)
(* take as many waits as it has pieces (max_tokens bounds them).  The      *)
(* gateway is a neighbour and taken to accept a connection at once.        *)
(***************************************************************************)
EXTENDS LlmCascade

CONSTANTS
    Lapse,                          \* the lengths of time that may pass
    Starts,                         \* when in its stream the call may begin
    Quick,                          \* an attempt that takes longer is slow
    MaxWaits,                       \* waits for bytes an attempt may consist of
    CHAT_STREAM_TIMEOUT_SECONDS     \* in half seconds

ASSUME LapseAssumption == Lapse \subseteq Nat /\ Starts \subseteq Nat
ASSUME StreamAssumption == CHAT_STREAM_TIMEOUT_SECONDS \in Nat /\ Quick \in Nat
ASSUME WaitsAssumption == MaxWaits \in Nat \ {0}

VARIABLES
    began,      \* when the call began, from the start of the stream
    elapsed,    \* the time now, from the start of the stream
    client,     \* what the client has got: "waiting" or a terminal error
    slow,       \* history: the groups that took longer than Quick to reply
    trickling   \* history: those that sent bytes past the timeout

clock == <<began, elapsed, client, slow, trickling>>
tvars == <<vars, clock>>

-----------------------------------------------------------------------------
\* Mutated form: the timeout is the router's, 60 s.
DEFAULT_TIMEOUT_SECONDS_High == 120

DEFAULT_TIMEOUT_SECONDS == 40

\* Mutated form: the SDK retries on its own (max_retries=2, its default).
SilenceLimit_SdkRetries == 3 * DEFAULT_TIMEOUT_SECONDS

(* How long an attempt that gets no byte lasts: max_retries=0 makes it one *)
(* request.                                                                *)
SilenceLimit == DEFAULT_TIMEOUT_SECONDS

(* wait_random_exponential(multiplier=0.5, max=8) after the n-th attempt. *)
MaxWait(n) == IF n \in 1..4 THEN <<1, 2, 4, 8>>[n] ELSE 16

(* d passes; the stream reports the first of its own timeout and the error *)
(* of the call.                                                            *)
Pass(d) ==
    /\ elapsed' = elapsed + d
    /\ client' = CASE client # "waiting" -> client
                   [] elapsed' >= CHAT_STREAM_TIMEOUT_SECONDS -> "_TIMEOUT_MESSAGE"
                   [] verdict' = "exhausted" -> "_CASCADE_EXHAUSTED_MESSAGE"
                   [] verdict' \in {"raised", "ValueError"} -> "_INTERNAL_ERROR_MESSAGE"
                   [] OTHER -> "waiting"
    /\ UNCHANGED began

TInit ==
    /\ Init
    /\ began \in Starts /\ began < CHAT_STREAM_TIMEOUT_SECONDS
    /\ elapsed = began
    /\ client = "waiting"
    /\ slow = {} /\ trickling = {}

Begin ==
    /\ RaiseValueError \/ Start
    /\ Pass(0)
    /\ UNCHANGED <<slow, trickling>>

(* An attempt takes d.  A timeout takes at least the wait that ran out; one *)
(* in the middle of a reply may come as another error.                      *)
AttemptEnds(d) ==
    /\ d <= MaxWaits * SilenceLimit
    /\ \/ Answer
       \/ \E e \in Error \ {"APITimeoutError"} : Fail(e)
       \/ d >= SilenceLimit /\ Fail("APITimeoutError")
    /\ slow' = IF d > Quick THEN slow \cup {at} ELSE slow
    /\ trickling' = IF d > SilenceLimit THEN trickling \cup {at} ELSE trickling
    /\ Pass(d)

BackoffEnds(d) ==
    /\ d <= MaxWait(attempt)
    /\ Wake
    /\ Pass(d)
    /\ UNCHANGED <<slow, trickling>>

TNext == Begin \/ \E d \in Lapse : AttemptEnds(d) \/ BackoffEnds(d)

TSpec == TInit /\ [][TNext]_tvars

(* A reply has an end, each wait for it one within the timeout, and a      *)
(* backoff one within MaxWait.                                             *)
TFairSpec == TSpec /\ WF_tvars(TNext)

-----------------------------------------------------------------------------
(* What a group can cost whose attempts each take up to d. *)
GroupCost(d) == MaxAttempts * d + (MaxAttempts - 1) * MaxWait(MaxAttempts - 1)

(* The clock's variables have their types. *)
ClockOK ==
    /\ began \in Nat /\ elapsed \in Nat /\ began <= elapsed
    /\ client \in {"waiting", "_TIMEOUT_MESSAGE", "_CASCADE_EXHAUSTED_MESSAGE",
                   "_INTERNAL_ERROR_MESSAGE"}
    /\ slow \in SUBSET Index /\ trickling \in SUBSET Index

(* A call gives back its worker thread within a time its attempt counts and *)
(* timeouts determine, whatever hangs or trickles and whether or not its    *)
(* stream still waits ("max_retries=0 is ... load-bearing": attempt counts  *)
(* and latency budgets can be reasoned about, get_llm): at one timeout per  *)
(* attempt, unless a reply has kept coming.                                 *)
Waits == IF trickling = {} THEN 1 ELSE MaxWaits

CallIsBounded ==
    elapsed - began <= Len(CASCADE) * GroupCost(Waits * DEFAULT_TIMEOUT_SECONDS)

(* "A high per-attempt timeout would let a single hung group stall the     *)
(* whole cascade" (llm.py:75-77): with the timeout chosen, the first call  *)
(* of a turn outlasts its stream only when two groups were slow, or one    *)
(* kept sending its reply for longer than the timeout, which bounds no     *)
(* such attempt.                                                           *)
OneHungGroupIsSurvived ==
    (began = 0 /\ client = "_TIMEOUT_MESSAGE" /\ trickling = {})
        => \E i, j \in slow : i # j
=============================================================================
