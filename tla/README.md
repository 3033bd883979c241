# A TLA+ model of llm-platform-template

The repository is a FastAPI service that streams an LLM agent's answers over
SSE. An agent graph (LangGraph) calls model groups behind a self-hosted
LiteLLM gateway, most sovereign group first. This directory holds TLA+ modules
of the parts of it that keep state, the TLC configurations that check them on
small instances, and TLAPS proofs of the properties that matter most for every
instance. Paths below are relative to the repository (`src/`).

## 1. Inventory

| Part | State | Operations | Interacts with |
| --- | --- | --- | --- |
| LLM cascade, `app/agent/llm.py` | per call: group index, attempt, groups tried, last error | validate, call, retry (tenacity), escalate, exhaust, re-raise | gateway, by HTTP; called by the agent node |
| Router configuration, `gateway/litellm.config.yaml` | none of its own; the router's position per request | `num_retries` in a group, `fallbacks` between groups | providers |
| Agent graph, `app/agent/graph.py`, `state.py` | `AgentState`: messages, input_flags, tool_rounds | `guard_input`, `agent`, `tools`, `budget_exceeded`, two conditional edges | cascade, guardrails, tool, checkpointer |
| Chat route, `app/api/routes/chat.py` | per request: deadline, event iterator, where the generator is suspended | open a stream, forward tokens, read the final state, report an error, time out | graph run, checkpointer, client |
| Checkpointer, `app/main.py:56` | each thread's last state, in memory | load once per run, save per super-step | shared by all requests of a thread |
| Telemetry, `app/core/telemetry.py` | `_active_provider`, OpenTelemetry's global provider, the instrumentor | set up, shut down | lifespan; the spans of chat and agent |
| Lifespan, `app/main.py` | up or down, the compiled graph | boot, fail to boot, stop | telemetry, graph |
| Guardrails, `app/agent/guardrails/` | none (pure) | length, injection phrasing, PII; aggregate | the `guard_input` node |
| Readiness, `app/api/routes/health.py`, `deps.py` | none between probes | three concurrent checks, one report | Postgres, Redis, gateway |
| search_aids, `app/agent/tools/search_aids.py` | a cached corpus | load, rank | the `tools` node |
| API key, settings, logging, prompts, scripts, compose and CI files | none that changes | | |

What is hard here, and hardly tested: two requests of one conversation share a
checkpoint without a lock; a timed-out run leaves its synchronous node running
in a worker thread; the generator may be cut at any await or abandoned at a
yield; retries exist in two layers that do not know of each other, and the lower
one may go on working for an attempt the upper one has given up; timeouts,
attempts and backoffs of one call add up against the deadline of its stream; the
deadline can be noticed in two places; state that belongs to one turn is kept in state that belongs to a conversation; a
process-wide tracer registration outlives the provider it names. `PROJECT.json`
lists each hazard at its line, with the properties that watch it.

What makes each part correct:

- cascade: sovereign groups are exhausted first and restrictions hold; errors
  are classified and reported truly; every call ends, within a known time as
  long as no reply trickles, and one hung group does not cost the stream its
  answer;
- router under the cascade: the same order and restriction for the providers
  the prompt really reaches; a bound on provider calls;
- graph: every message of a history has its place, and only a turn cut short or
  out of budget leaves a tool call unanswered; the tool budget comes before
  LangGraph's recursion limit; a refused message never reaches the agent;
- chat route: the done event is this turn's answer; a cancelled run saves
  nothing; a client told that the assistant is unavailable has not been
  answered; every stream ends, and its run with it;
- telemetry: no provider is orphaned or left behind; the spans of one request
  go to one provider;
- guardrails: PII never stops a turn; flags are true and complete;
- readiness: a report is about the services it names, and a probe is answered;
- search_aids: the answer is the best matches of the default corpus.

## 2. Modules

    SovereigntyPolicy        what a cascade call promises (abstract)
       ^ implemented by
    LlmCascade  <- LlmCascade_proofs     the code: llm.py
       ^ extended by
    CallBudget  <- MCCallBudget          cascade against the clock of its stream
       |         <- CallBudget_proofs
    GatewayCascade <- MCGatewayCascade   cascade + router configuration
                 <- GatewayCascade_proofs

    ConversationLog          what a thread's history is (abstract)
       ^ implemented by
    AgentNodes -> ChatService <- MCChatService   nodes; runs, streams, checkpoints
                        <- ChatService_proofs

    Telemetry <- Telemetry_proofs     lifespan and tracing
    Guardrails <- Guardrails_proofs   input checks and their pipeline
    Readiness <- Readiness_proofs     one GET /health/ready
    SearchAids <- MCSearchAids        the tool's ranking and its corpus cache
              <- SearchAids_proofs

### LlmCascade and SovereigntyPolicy

One `ainvoke_with_fallback` call. `CASCADE` is `_CASCADE`, `MaxAttempts` is
`max_attempts_per_group`; `Init` chooses every start group and every allowed
set (`allowed_groups=None` is the full set). `pc` follows the coroutine:
`validate`, `calling` (in `runnable.ainvoke`), `backoff` (tenacity's sleep),
`returned`. `RaiseValueError` and `Start` are the argument checks, `Retry`,
`Escalate`, `Exhaust` and `Raise` the four ends of a failed attempt, `Wake` the
end of a backoff. The six error kinds are those `_is_transient` tells apart.
`contacted` and `failures` are history. `StepsLeft` is the measure that every step
uses up: one for the argument checks, two for each attempt still to be made.
`SovereigntyPolicy` has no retries and no errors: it visits permitted ranks in order and leaves one only when spent.

### CallBudget

`CallBudget` puts a clock, in half seconds, beside the steps of `LlmCascade`.
httpx bounds each wait for bytes, not an attempt, and under `astream_events` the
model streams its reply; so an attempt is up to `MaxWaits` waits of at most
`SilenceLimit` each (the timeout, once, because of `max_retries=0`), and a
timeout error takes at least the wait that ran out (`AttemptEnds`).
`BackoffEnds` lets a wait between attempts last up to tenacity's maximum
(`MaxWait`), `Begin` starts the call somewhere in its stream (`Starts`), and
`Pass` decides what the stream's client has got by then.
The call runs in a worker thread under its own event loop
(`_FallbackAgentLLM.invoke`), so it goes on after its stream has timed out.
`slow` and `trickling` are history: the groups that took longer than `Quick` for
an attempt, and those that kept sending for longer than the timeout. The gateway
is a neighbour and taken to accept a connection at once. `CallIsBounded` has one
price while nobody trickles and `MaxWaits` times the other price otherwise;
`OneHungGroupIsSurvived` speaks of calls without a trickling reply only, because
with one it is false (section 5).

### GatewayCascade

Each attempt of the application becomes a walk of the router: `num_retries`
more calls in a group (`RouterRetries`), then the configured fallback
(`RouterFallsBack`), until an answer, the end of the fallbacks or the client's
timeout. The router's place is kept per attempt: the client gives up after 20 s,
the router after 60 s, so at `ClientTimesOut` the router may stop (it notices the
closed connection) or go on, and then its late calls interleave with those of the
next attempts until `AbandonedEnds`. The router is external; only what the
configuration file says is used, and where it says nothing both outcomes are
possible. The deployments of one alias and the response cache are left out.
`CallSlots` lays out the provider calls a request has room for: an attempt on the
i-th of n groups passes the groups i to n of the router, `num_retries` + 1 calls
each. `ProviderCallsBounded` compares the calls made with the slots of the attempts
begun so far, so it also says that late work is never work nobody asked for.

### AgentNodes, ChatService and ConversationLog

`AgentNodes` has the nodes and edges as functions of `AgentState`, the route's
`_extract_final_text` and `_classify_error`. A message is its kind and the
request that wrote it. `ChatService` runs them:

- `phase` is where a request's generator is: `waiting` in a `wait_for` over the
  events, suspended in `yielding`, `reading` the final state, `abandoned` at a
  yield by a client that left, or `ended`: it has returned, with an event or
  because its client left. An ended generator may leave a run behind
  (`InProgress`), see `LoopTimesOut`;
- `node`, `job`, `state`, `step` are the LangGraph run: what it executes next,
  the worker thread of that synchronous node, the run's own copy of the state
  and its super-steps. `StartRun` loads the checkpoint once; every `...Returns`
  action applies the node's update, evaluates the edge and saves. A node that
  raises, or a checkpointer that fails to load or to save, ends the run and
  saves nothing (`RunFails`);
- a cancelled run (`Timeout`, `Disconnect`, `Finalize`) leaves its worker thread
  `zombie` until the node returns, to no effect;
- `ReadState` reads the thread's checkpoint, as `aget_state` does, not the run's
  own state: with overlapping requests the two differ. It may also raise
  (`ReadStateFails`), which the error boundary answers like any failure although
  the turn's answer has been saved;
- `Expire` is the clock: the request's deadline passes. `Timeout` is the
  `wait_for` that is running then, and cancels the run; `LoopTimesOut` is the
  check at the top of the loop, which raises while no `wait_for` runs: the stream
  ends with its error event and the events iterator, with the run behind it,
  lives on and may save its nodes' results until it is finalized (`Finalize`).
  `NoWriteAfterEnd` names this as its one exception.

`own` counts the tool rounds of a run itself, beside `tool_rounds`, which counts
those of its thread's history: `CutoffOnlyAfterOwnRounds` says what graph.py
claims and is false (5.2), `FirstUserHasItsRounds` what is true of the budget.

`ConversationLog` is the history a thread should have: an append-only log in
which every message has its place. A turn may be cut short after any message,
so the user may speak after anything; a tool call may therefore stay without its
result, and the cut-off message follows one by design (`budget_exceeded`). That is
well-formed here but nothing a chat provider accepts on the next turn (section 5).
`CallsAreAnswered` says that these two ways are the only ones, when the requests
of a thread do not overlap.

### Telemetry

`Start` runs `setup_telemetry`, `GraphCompiles`/`GraphFails` are `build_graph`
within the lifespan's `try`, `Stop` is the `finally`. Providers are numbered as
they are built. `global` is OpenTelemetry's set-once registration and `tracer`
the provider chat.py's proxy tracer binds to at its first use. Several
applications of a process may run side by side. The `tracer_provider` argument,
which only tests pass, is left out.

### Guardrails

A message is a sequence of up to `MaxItems` items: words, injection phrasings,
IBANs, and 15-digit numbers with a plausible or another key, grouped by spaces
or by another white space. An IBAN written in groups of four that ends in 15
digits (`IbanWithTail`) looks like such a number to `_NIR_PATTERN`, so it is a
`Candidate` too. `NirMatch` is `search` (the first candidate only), `IntRaises` what
`int()` does with the digits once the spaces are removed. The checks are functions
and `RunInputGuardrails` is the whole pipeline. That every NIR is flagged is false
(5.4); `FirstNirIsFlagged` is the part that holds.

### Readiness

One probe. A service is up, slow or broken; `Asked` ends the Postgres or gateway
check, `Pinged` the ping of Redis, whose client is closed in a `finally` that may
itself raise (`Closed`, `CloseRaises`). `UrlRaises` is a client or an address that
cannot be built from its URL, before the `try`. `Respond` is the report once
`gather` has all three results, `Crash` the exception of a check that leaves it at
once.

### SearchAids

Titles, texts and queries are sets of normalised tokens. `RankedUpTo` builds the
stable sort record by record (`Placed` puts one in before the first that scores
lower), `SearchAidsCorpus` is the whole search on positions of the corpus. `Search` is
the tool: it reads its corpus through the one entry of `lru_cache(maxsize=1)`
(`Hit`), which `LoadOther` (another path), `CacheClear` and `Edit` (the file
changes) disturb. `BestMatches` compares the answer with a definition that does
not sort.

## 3. Runs

| Run | What it shows | Distinct states |
| --- | --- | --- |
| `llm_cascade` | order, restriction, report, error classes, termination and its measure; the time of a call; one hung group; implements `SovereigntyPolicy` | about 725 000 |
| `gateway_cascade` | providers see the prompt in sovereignty order; provider calls bounded, 54 per request, late work included | about 1 477 000 |
| `gateway_pii_lock` | violation, see 5.1 | |
| `chat_overlap` | histories well-formed, budget before recursion limit, refusals final, "unavailable" means no answer, the only user of tools has all its rounds, no save of a cancelled run, under any overlap | about 557 000 (symmetric) |
| `chat_sequential` | done is the own answer, the history is an append-only log whose tool calls are answered, every stream ends | about 287 000 |
| `chat_own_rounds` | violation, see 5.2 | |
| `chat_overlap_done` | violation, see 5.3 | |
| `telemetry` | nothing leaks, lifespan cleans up, traces connected until the first shutdown | 177 |
| `guardrails` | flags sound, the first NIR flagged | 32 210 |
| `guardrails_pii` | violation, see 5.4 | |
| `readiness` | the report is about the right services, the probe is answered | 3 213 |
| `search_aids` | best matches, from the default corpus | about 26 000 |

Bounds and why they are enough:

- cascade and gateway: the real configuration (three groups, three attempts,
  `num_retries` 2, the two fallbacks) plus one group outside the cascade, so
  nothing is scaled down. `MaxAbandoned` is 1: one abandoned attempt beside the
  current one shows every race of two; the proof of `SovereignFirst` has no such
  bound;
- time: an attempt or a backoff lasts 0, 1, 8, 20, 40 or (for the mutated
  timeouts) 60 s and a call begins at 0 or 80 s of its stream, so a quick
  attempt, the longest quick one, a timeout, a reply that trickles past it, and a
  stream that ends in the middle of a call all happen. `Quick` is 8 s and
  `MaxWaits` 2: a reply in two pieces is enough to outlast the timeout. The proofs
  allow any times and any number of pieces;
- chat: two requests show every pairwise race and the effect of one turn on the
  next; one thread makes them meet (`chat_overlap`), two threads and a single
  worker make independent conversations compete for it (`chat_sequential`).
  `MAX_TOOL_ROUNDS` is 2 or 1 instead of 5, so that the budget is spent within a
  run, and `RecursionLimit` is the first value above `2 * MAX_TOOL_ROUNDS + 3`,
  which the code's 5 and 25 satisfy with room. The proofs of section 4 remove
  both bounds;
- telemetry: two applications, three providers, two buffered spans. At the bound
  of providers a configured process can boot no more; `MaxProviders` bounds the
  behaviour, not the code;
- guardrails: four items and a limit of three, so that a message can be too long
  and hold numbers, IBANs of both kinds and a phrasing in any order;
- readiness: nothing is bounded, the three checks are those of the code;
- search_aids: three records of three kinds, two words, and `MAX_RESULTS` 2 instead
  of 3, so that ties, the cut-off and records without a match occur together.

Deadlock is checked for the chat service, whose resting state is an explicit
`Quiescent` step. The other systems do stop: a call or a pipeline returns, a
process whose lifespans are down may exit, a probe is answered.

### Fairness

- `CallBudget!TFairSpec`: `WF` of the whole next-state relation. A reply has an
  end (`max_tokens`), each wait for it one within the client's timeout, and every
  backoff its maximum, so one step or another always comes.
- `ChatService!FairSpec`: `WF` of `Expire` (the clock advances), `Timeout` (the
  event loop runs the timer of a pending `wait_for`) and `Finalize` (a generator
  left at a yield, or an events iterator left open, is closed). In
  `chat_sequential` (`Overlap` is FALSE) a turn begins only once no run of its
  thread is in progress: more than a client can see to, which reads an error
  event while the run behind it may still live. A client that does start its next
  turn then is a case of `chat_overlap`. Nothing is assumed of the model, the
  tools, the worker threads or the checkpointer, so all of them may hang.
  `EveryStreamEnds` is conditional on a client that does not stop reading for
  ever: while the generator is suspended at a yield no timer of the code runs.
- `Readiness!FairSpec`: `WF` of each check's steps and of the answer. Each call of
  a check has a timeout: libpq's `connect_timeout`, redis's socket timeouts,
  httpx's timeout.

## 4. Proofs

All theorems are checked by TLAPS for every value of the constants that the
named assumptions allow: a cascade is a sequence of distinct groups
(`CascadeAssumption`), the router's fallbacks follow the cascade
(`FallbackOrderAssumption`, as in the configuration), attempts, rounds and workers
are positive, words are finitely many (`TokenAssumption`), and
LangGraph's limit exceeds `2 * MAX_TOOL_ROUNDS + 3` (`RecursionAssumption`,
which is what graph.py:50-54 claims of 5 and 25).

`LlmCascade_proofs`: `TypeCorrect`, `EscalationIsEarned`, `RestrictionHolds`,
`ReportsTruly`, `HardErrorsFinal`, `RetriesEnd`, `RefinesPolicy`. The properties speak of all groups, the
step of one, so the invariant ties the counters to `pc` (`ControlInv`:
`failures[at] = attempt - 1` while calling) and says what lies on either side of
the group being called (`OrderInv`: behind it every permitted group failed
`MaxAttempts` times, ahead of it none was called). Refinement then takes one
step: an escalation or exhaustion completes the `MaxAttempts`-th failure, which
is when the mapping counts a group as spent.
`RetriesEnd` is the safety half of `Terminates`: every step lowers `StepsLeft`, a
natural number, so no sequence of errors keeps a call going for more than
`2 * MaxAttempts * Len(CASCADE) + 1` steps; that the steps do come is left to
fairness and TLC.

`CallBudget_proofs`: the clock only watches (`TimedIsCascade`), so the cascade's
invariant holds under it. `CallsAreBounded`: the invariant bounds the time passed
by the groups left behind, each at its full cost, and the attempts made on the
current one, at one timeout per attempt while nothing trickles and at `MaxWaits`
of them otherwise. `OneHungGroup` keeps the same account, as long as nothing
trickles, with a cheap price for groups that were quick and a full one for those
in `slow`. It assumes that `Quick` is no
longer than the timeout and that one slow group and otherwise quick ones fit into
the stream (`Most < CHAT_STREAM_TIMEOUT_SECONDS`); with 20 s timeouts, three
attempts, three groups and `Quick` at 8 s that is 114 s of 120 s. With a timeout of
60 s it fails, which is the mutant the run uses. `ConfiguredBudget` carries this out
for the numbers of llm.py and config.py: with replies within 8.5 s one hung group is
survived, and a call whose stream is over may hold its worker thread for 186 s, no
longer unless a reply trickled past its timeout.

`GatewayCascade_proofs`: `ImplementsCascade` (the router changes nothing the
application does) and `SovereignFirst`, for every router configuration whose
fallbacks follow the cascade and any number of abandoned attempts. The invariant
adds only that whatever the router is trying has been reached: then
`SovereignExhaustedFirst` itself says that everything before it is spent, and a
fallback may add its successor. `LockHoldsWithoutFallback` shows that the
fallbacks are all that breaks the promise of 5.1: when none leads to the last group
(gateway/litellm.ci.yaml has none at all), a caller that leaves that group out keeps
its request from it. `ProviderCallsFit` counts by sets: the slots of each attempt's
calls are disjoint, the calls made are in one-to-one correspondence with slots
already passed, and a walk only moves forward in its own slots, abandoned or not.
`RequestCost` sums the slots of a whole request: at most
`MaxAttempts * (NumRetries + 1) * n * (n + 1) / 2` calls for n groups, 54 as
configured.

`ChatService_proofs`: for every behaviour, overlapping or not, `TypeCorrect`,
`TranscriptsAreWellFormed`, `BudgetComesFirst`, `BlockedNeverRuns`,
`EndedStreamsAreSilent`, `RetriesAreUnanswered`, `FirstUserIsGranted`. The invariant (`RunOK`) says of each run on its own
that its next node fits the last message of its own state, that its steps are
twice its rounds plus one, and that its generator is not ahead of it: when it has
ended, the run is over or the event is that of a timeout; of each
checkpoint that it is `Good`. It is needed because an overlapping run replaces
the checkpoint: what survives is that every run's copy is itself good.
`SequentialLog` and `DoneIsTheAnswer` assume `~Overlap`; the further invariant
(`Owns`) is that the state of a request in progress and its thread's checkpoint
are the same. Without it, both are false (5.3). `FirstUserIsGranted` has an invariant of its own
(`RoundsInv`), because rounds travel with the checkpoints that overlapping runs
overwrite: a state without tool results counts no round, a run that has not started
has a tool result nowhere, and a state whose tool results are all one run's counts
exactly that run's rounds.

`Telemetry_proofs`: `TypeCorrect`, `NothingLeaks`, `LifespanCleansUp`,
`TracesStayConnected`, for every set of applications and number of restarts. The strengthening is that
providers are numbered without a gap, so that a new one is neither active nor
closed.

`Guardrails_proofs`: `FlagsAreTrue` and `FirstNirFlagged`, for messages of every
length: the first match of a search exists because a set of naturals has a least
element, and a NIR that stands before every other candidate is that match.

`Readiness_proofs`: `ReportsTheServices`; the invariant says that a check that has
its result tells the truth about its own service, whichever finished first.

`SearchAids_proofs`: `AnswersAreBest` and `AnswersAreFromDefault`, for every corpus,
weight and number of results. The sort is a function defined by recursion on the
positions of the corpus; the proof shows that such a function exists
(`DefinedUpTo`) and reasons about its values by a least counterexample
(`LeastNumber`) instead of an induction theorem, which the provers cannot
instantiate. The fact carried from one record to the next (`RankedIsRanking`) is
that the positions so far are exactly the matching ones, in decreasing score and in
corpus order among equals; `InsertAtProperties` is what insertion does to that, and
`WeightIsScore` ties the code's sum to the property's count of words.

Only model-checked: liveness (`Terminates`, `EveryStreamEnds`, `ProbeIsAnswered`),
which the prover does not handle, and `CallsAreAnswered`. Every other property of
the passing runs is a theorem.

## 5. Where the code departs from what it says

1. `gateway_pii_lock`: `allowed_groups` restricts the application, not the
   router. A request restricted to the sovereign groups reaches `frontier`
   through the router's fallback of `sovereign-premium`, against the docstring
   of `ainvoke_with_fallback` (llm.py:248-251).
2. `chat_own_rounds`: `tool_rounds` survives from turn to turn, so
   `MAX_TOOL_ROUNDS` is a budget of the conversation, not of an invocation
   (graph.py:50, state.py:31).
3. `chat_overlap_done`: with two requests of a thread in progress, a done event
   may carry the other turn's text or none (chat.py:34-37).
4. `guardrails_pii`: a number with another key hides a plausible NIR after it
   (input.py:116, 125), and so does an IBAN in groups of four that ends in 15
   digits ('FR76 3000 6000 0112 3456 7890 189': the pattern takes
   '0112 3456 7890 1' and '89'); a number, or such an IBAN, grouped with no-break
   spaces or tabs makes `check_pii` raise, which ends the turn in an error
   (input.py:110, 118).

More are visible in the models and have no run of their own:

- a reply that keeps coming is not bounded by the per-attempt timeout: one such
  group takes a stream past its 120 s and keeps its worker thread past the 186 s
  of section 4, although llm.py:75-77 counts on the timeout to stop a single
  group; `trickling` is what `CallIsBounded` and `OneHungGroupIsSurvived` set
  aside;
- when the deadline passes at the top of the loop, the error event goes out while
  the run lives on and may save its answer (chat.py:256-260), although the
  docstring calls the whole invocation bounded; `LoopTimesOut`, `Finalize`;
- when the final read fails, the client is told "please retry" (chat.py:101) although
  the turn's answer is in the history; `ReadStateFails`;
- at the budget, and in a turn cut short after a call, the history keeps a tool call
  without a result, which chat providers reject on the next turn (graph.py:173-180);
  `CallsAreAnswered` allows exactly these;
- the tail of an IBAN raises `nir_detected` in a message without a NIR when its
  digits have a plausible key; `FlagsAreSound` says so;
- a URL that Redis's or the gateway's client rejects raises before the `try` and,
  like the clean-up below, ends the probe with a 500 (deps.py:70, 93); `UrlRaises`;
- after a shutdown and a second setup in one process the chat span goes to the
  closed provider and the agent's to the new one (telemetry.py:130-131, 187-189);
  `TracesConnectedUntilShutdown` stops at the first shutdown for that reason;
- an exception of Redis's `aclose()` in the `finally` leaves `gather` and the route
  answers 500 without a report (deps.py:77-84: "readiness must report, never crash
  the route"); `CloseRaises`, `Crash`;
- loading another corpus evicts the default one from the one-entry cache, so the
  next search reads the default file again (search_aids.py:102-105: "without
  disturbing the cached default"); `LoadOther`;
- while the client does not read, the generator is suspended at a yield and the
  stream lasts longer than `CHAT_STREAM_TIMEOUT_SECONDS` (config.py:55-56 calls it
  an upper bound); `EveryStreamEnds` excludes it.

## 6. Not modelled

- API key, settings, logging, prompts: stateless, or constants.
- Scripts, compose and CI files: they run other programs.
- Time in the chat service: `ChatService` only knows that a deadline passes. The
  seconds are in `CallBudget`, for the first call of a turn; the calls of later
  tool rounds share the same deadline and have no budget of their own.
- The router's own caching, load balancing and the providers.
- Loss of the in-memory checkpoints with the process and their growth, which
  main.py:39-43 accepts.
- Texts: prompts, tokens, SSE framing, log lines.

## 7. Plan

Done, in order: the cascade and its policy; the gateway; the graph and the chat
service with its log; their proofs; telemetry; guardrails; the timed cascade and
its budget; the router's abandoned work; readiness; search_aids; the proofs of the
gateway, the budget, the guardrails and readiness; the bound on provider calls; the
ranking of search_aids; the measure of a call; who gets the tool budget.

Next, when more is wanted:

1. Two overlapping requests beside a shared router: what a thread pool full of
   abandoned calls does to a stream's budget (`CallBudget` composed with
   `ChatService`).
2. A proof of `CallsAreAnswered`, from `Owns` and the edges of the graph.
3. A measure for an expired stream and for a probe, as `StepsLeft` is for a call: the
   safety half of `EveryStreamEnds` and `ProbeIsAnswered`.
