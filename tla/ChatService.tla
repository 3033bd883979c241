----------------------------- MODULE ChatService -----------------------------
(***************************************************************************)
(* POST /v1/chat: the SSE generator _stream_chat_events                    *)
(* (app/api/routes/chat.py), the graph run it drives (app/agent/graph.py,  *)
(* executed by LangGraph), the worker threads the synchronous nodes occupy *)
(* and the checkpointer shared by every request of a thread (app/main.py). *)
(*                                                                         *)
(* LangGraph, Starlette and the executor are external; of them the module  *)
(* keeps what the code relies on or is exposed to:                         *)
(*  - a run loads its thread's checkpoint once, when it starts, and saves  *)
(*    its whole state after the input and after every node;                *)
(*  - a synchronous node runs in a worker thread, which cancelling the run *)
(*    does not stop: its result is dropped when it returns;                *)
(*  - a client that leaves cancels the generator where it awaits; where it *)
(*    is suspended at a yield, it is finalized some time later;            *)
(*  - an events iterator that is dropped and not closed is finalized, and  *)
(*    its run cancelled, some time after the generator has returned.       *)
(* The clock is one event per request, Expire: its deadline passes.        *)
(***************************************************************************)
EXTENDS AgentNodes, FiniteSets

CONSTANTS
    Threads,
    Workers,            \* threads of the event loop's default executor
    RecursionLimit,     \* LangGraph's limit of super-steps per run
    Overlap             \* may two requests of a thread be in progress?

ASSUME WorkersAssumption == Workers \in Nat \ {0}
ASSUME OverlapAssumption == Overlap \in BOOLEAN
ASSUME RecursionAssumption ==
    RecursionLimit \in Nat /\ 2 * MAX_TOOL_ROUNDS + 3 < RecursionLimit

VARIABLES
    thread, input,      \* each request's thread_id and kind of message
    phase,              \* where its generator is
    event,              \* the terminal SSE event it produced
    expired,            \* its deadline has passed
    node,               \* what its graph run is to execute next
    job,                \* the worker thread of that node
    state,              \* the run's own copy of the graph state
    step,               \* LangGraph's count of super-steps
    own,                \* history: tool rounds of this run
    error,              \* the exception its run ended with
    ckpt                \* the checkpointer: each thread's state

args == <<thread, input>>
stream == <<phase, event, expired>>
run == <<node, job, state, step, own, error>>
vars == <<args, stream, run, ckpt>>

GraphNode == {"guard_input", "agent", "tools", "budget_exceeded"}
NoEvent == [type |-> "none"]
Done(m) == [type |-> "done", content |-> m]
ErrorEvent(e) == [type |-> "error", message |-> ClassifyError(e)]

(* The generator still has a deadline to meet. *)
Active == {"waiting", "yielding", "reading"}

(* The run has nothing more to execute. *)
Over == {"END", "raised", "cancelled"}

(* The generator has not returned, or has left a run behind that goes on.  *)
InProgress(r) ==
    \/ phase[r] \in Active \cup {"abandoned"}
    \/ phase[r] = "ended" /\ node[r] \notin Over

Init ==
    /\ thread \in [Requests -> Threads]
    /\ input \in [Requests -> InputKind]
    /\ phase = [r \in Requests |-> "idle"]
    /\ event = [r \in Requests |-> NoEvent]
    /\ expired = [r \in Requests |-> FALSE]
    /\ node = [r \in Requests |-> "start"]
    /\ job = [r \in Requests |-> "none"]
    /\ state = [r \in Requests |-> EmptyState]
    /\ step = [r \in Requests |-> 0]
    /\ own = [r \in Requests |-> 0]
    /\ error = [r \in Requests |-> "none"]
    /\ ckpt = [t \in Threads |-> EmptyState]

-----------------------------------------------------------------------------
(* The request arrives and the stream is opened.  Without Overlap no turn  *)
(* of a thread begins while a run of the thread is in progress: that is    *)
(* more than a client can see to, which reads the last event of a stream   *)
(* and cannot tell that its run still lives (LoopTimesOut).                *)
Accept(r) ==
    /\ phase[r] = "idle"
    /\ Overlap \/ ~ \E q \in Requests : thread[q] = thread[r] /\ InProgress(q)
    /\ phase' = [phase EXCEPT ![r] = "waiting"]
    /\ UNCHANGED <<args, event, expired, run, ckpt>>

(* The run's state becomes s, is checkpointed, and n is to be run next. *)
Save(r, s, n) ==
    /\ state' = [state EXCEPT ![r] = s]
    /\ ckpt' = [ckpt EXCEPT ![thread[r]] = s]
    /\ node' = [node EXCEPT ![r] = n]
    /\ job' = [job EXCEPT ![r] = IF n = "END" THEN "none" ELSE "queued"]

StartRun(r) ==
    /\ phase[r] = "waiting" /\ node[r] = "start"
    /\ Save(r, WithInput(ckpt[thread[r]], r), "guard_input")
    /\ UNCHANGED <<args, stream, step, own, error>>

BeginJob(r) ==
    /\ job[r] = "queued"
    /\ Cardinality({q \in Requests : job[q] \in {"running", "zombie"}}) < Workers
    /\ job' = [job EXCEPT ![r] = "running"]
    /\ UNCHANGED <<args, stream, node, state, step, own, error, ckpt>>

(* The node n of r's run returns, in time for its result to count. *)
Returns(r, n) ==
    /\ node[r] = n /\ job[r] = "running"
    /\ step' = [step EXCEPT ![r] = @ + 1]
    /\ UNCHANGED <<args, stream, error>>

GuardInputReturns(r) ==
    LET latest == Latest(state[r]).req
        s == GuardInput(state[r], input[latest], r)
    IN  /\ Returns(r, "guard_input")
        /\ input[latest] # "raises"
        /\ Save(r, s, RouteAfterGuardInput(s))
        /\ UNCHANGED own

AgentReturns(r) ==
    \E kind \in {"call", "answer"} :
        LET s == CallAgent(state[r], kind, r)
        IN  /\ Returns(r, "agent")
            /\ Save(r, s, RouteAfterAgent(s))
            /\ UNCHANGED own

ToolsReturn(r) ==
    /\ Returns(r, "tools")
    /\ Save(r, RunTools(state[r], r), "agent")
    /\ own' = [own EXCEPT ![r] = @ + 1]

BudgetExceededReturns(r) ==
    /\ Returns(r, "budget_exceeded")
    /\ Save(r, BudgetExceeded(state[r], r), "END")
    /\ UNCHANGED own

(* A run ends with the exception its node raises, or the checkpointer when *)
(* it is to load the thread's state or to save the node's; nothing of the  *)
(* step is checkpointed.                                                   *)
MayRaise(r) ==
    IF node[r] = "agent" THEN {"LLMCascadeExhaustedError", "other"} ELSE {"other"}

RunFails(r) ==
    /\ job[r] = "running" \/ (phase[r] = "waiting" /\ node[r] = "start")
    /\ \E e \in MayRaise(r) : error' = [error EXCEPT ![r] = e]
    /\ node' = [node EXCEPT ![r] = "raised"]
    /\ job' = [job EXCEPT ![r] = "none"]
    /\ UNCHANGED <<args, stream, state, step, own, ckpt>>

\* Mutated form: the late result of a cancelled run is saved.
ZombieReturns_Saves(r) ==
    /\ job[r] = "zombie"
    /\ job' = [job EXCEPT ![r] = "none"]
    /\ ckpt' = [ckpt EXCEPT ![thread[r]] = CallAgent(state[r], "answer", r)]
    /\ UNCHANGED <<args, stream, node, state, step, own, error>>

(* The worker of a cancelled run is free again; nobody reads its result. *)
ZombieReturns(r) ==
    /\ job[r] = "zombie"
    /\ job' = [job EXCEPT ![r] = "none"]
    /\ UNCHANGED <<args, stream, node, state, step, own, error, ckpt>>

\* Mutated form: the run goes on without its generator.
Cancel_Detaches(r) == UNCHANGED <<node, job>>

(* The run is cancelled: a queued node never runs, a running one goes on   *)
(* in its worker thread.                                                   *)
Cancel(r) ==
    /\ node' = [node EXCEPT ![r] = IF @ \in Over THEN @ ELSE "cancelled"]
    /\ job' = [job EXCEPT ![r] = IF @ \in {"running", "zombie"} THEN "zombie" ELSE "none"]

-----------------------------------------------------------------------------
(* The generator. *)

(* An on_chat_model_stream event with content: suspended at the yield.     *)
Token(r) ==
    /\ phase[r] = "waiting" /\ ~expired[r]
    /\ node[r] = "agent" /\ job[r] = "running"
    /\ phase' = [phase EXCEPT ![r] = "yielding"]
    /\ UNCHANGED <<args, event, expired, run, ckpt>>

ClientTakes(r) ==
    /\ phase[r] = "yielding"
    /\ phase' = [phase EXCEPT ![r] = "waiting"]
    /\ UNCHANGED <<args, event, expired, run, ckpt>>

Finish(r, e) ==
    /\ phase' = [phase EXCEPT ![r] = "ended"]
    /\ event' = [event EXCEPT ![r] = e]

(* StopAsyncIteration: on to the final state, if there is time left. *)
StreamEnds(r) ==
    /\ phase[r] = "waiting" /\ node[r] = "END"
    /\ ~expired[r]
    /\ phase' = [phase EXCEPT ![r] = "reading"]
    /\ UNCHANGED <<args, event, expired, run, ckpt>>

(* aget_state reads the thread's checkpoint, not the run's own state. *)
ReadState(r) ==
    /\ phase[r] = "reading"
    /\ Finish(r, Done(ExtractFinalText(ckpt[thread[r]])))
    /\ UNCHANGED <<args, expired, run, ckpt>>

(* aget_state raises: the error boundary takes it like any other failure,  *)
(* although the run is over and its answer saved.                          *)
ReadStateFails(r) ==
    /\ phase[r] = "reading"
    /\ Finish(r, ErrorEvent("other"))
    /\ UNCHANGED <<args, expired, run, ckpt>>

ReportFailure(r) ==
    /\ phase[r] = "waiting" /\ node[r] = "raised"
    /\ Finish(r, ErrorEvent(error[r]))
    /\ UNCHANGED <<args, expired, run, ckpt>>

Expire(r) ==
    /\ phase[r] \in Active /\ ~expired[r]
    /\ expired' = [expired EXCEPT ![r] = TRUE]
    /\ UNCHANGED <<args, phase, event, run, ckpt>>

\* Mutated form: the deadline only bounds the events, not the final read.
Timeout_EventsOnly(r) ==
    /\ phase[r] = "waiting" /\ expired[r]
    /\ Finish(r, ErrorEvent("TimeoutError"))
    /\ Cancel(r)
    /\ UNCHANGED <<args, expired, state, step, own, error, ckpt>>

(* The remaining budget is spent inside one of the two wait_for, which     *)
(* closes what it waits for, or after the loop.                            *)
Timeout(r) ==
    /\ phase[r] \in {"waiting", "reading"} /\ expired[r]
    /\ Finish(r, ErrorEvent("TimeoutError"))
    /\ Cancel(r)
    /\ UNCHANGED <<args, expired, state, step, own, error, ckpt>>

(* It is spent at the top of the loop, after an event or a yield: the      *)
(* stream ends with its error event while the events iterator, and with it *)
(* the run, lives on.                                                      *)
LoopTimesOut(r) ==
    /\ phase[r] = "waiting" /\ expired[r] /\ node[r] # "start"
    /\ Finish(r, ErrorEvent("TimeoutError"))
    /\ UNCHANGED <<args, expired, run, ckpt>>

(* The client leaves. *)
Disconnect(r) ==
    /\ phase[r] \in {"waiting", "reading"}
    /\ phase' = [phase EXCEPT ![r] = "ended"]
    /\ Cancel(r)
    /\ UNCHANGED <<args, event, expired, state, step, own, error, ckpt>>

Abandon(r) ==
    /\ phase[r] = "yielding"
    /\ phase' = [phase EXCEPT ![r] = "abandoned"]
    /\ UNCHANGED <<args, event, expired, run, ckpt>>

(* A generator left at its yield, or an iterator left open, is finalized.  *)
Finalize(r) ==
    /\ phase[r] = "abandoned" \/ (phase[r] = "ended" /\ node[r] \notin Over)
    /\ phase' = [phase EXCEPT ![r] = "ended"]
    /\ Cancel(r)
    /\ UNCHANGED <<args, event, expired, state, step, own, error, ckpt>>

(* Every stream has ended and every worker is free: the service may rest.  *)
Quiescent ==
    /\ \A r \in Requests : phase[r] = "ended" /\ job[r] = "none"
    /\ UNCHANGED vars

Graph(r) ==
    \/ StartRun(r) \/ BeginJob(r) \/ RunFails(r) \/ ZombieReturns(r)
    \/ GuardInputReturns(r) \/ AgentReturns(r) \/ ToolsReturn(r)
    \/ BudgetExceededReturns(r)
Generator(r) ==
    \/ Token(r) \/ StreamEnds(r) \/ ReadState(r) \/ ReadStateFails(r)
    \/ ReportFailure(r) \/ Expire(r) \/ Timeout(r) \/ LoopTimesOut(r) \/ Finalize(r)
Client(r) == Accept(r) \/ ClientTakes(r) \/ Disconnect(r) \/ Abandon(r)

Next == (\E r \in Requests : Graph(r) \/ Generator(r) \/ Client(r)) \/ Quiescent

Spec == Init /\ [][Next]_vars

(* The clock advances, the event loop runs the timer of a pending wait_for *)
(* and finalizes an abandoned generator and an iterator left open.         *)
(* Nothing is assumed of the model, the tools, the worker threads or the   *)
(* checkpointer.                                                           *)
Fairness ==
    \A r \in Requests :
        /\ WF_vars(Expire(r))
        /\ WF_vars(Timeout(r))
        /\ WF_vars(Finalize(r))
FairSpec == Spec /\ Fairness

-----------------------------------------------------------------------------
(* The variables have their types, and no saved state counts more tool     *)
(* rounds than the budget (route_after_agent).                             *)
TypeOK ==
    /\ thread \in [Requests -> Threads]
    /\ input \in [Requests -> InputKind]
    /\ phase \in [Requests -> Active \cup {"idle", "abandoned", "ended"}]
    /\ event = [r \in Requests |-> event[r]]
    /\ \A r \in Requests : event[r].type \in {"none", "done", "error"}
    /\ expired \in [Requests -> BOOLEAN]
    /\ node \in [Requests -> GraphNode \cup {"start", "END", "raised", "cancelled"}]
    /\ job \in [Requests -> {"none", "queued", "running", "zombie"}]
    /\ state \in [Requests -> AgentState]
    /\ step \in [Requests -> Nat]
    /\ own \in [Requests -> Nat]
    /\ error \in [Requests -> ErrorKind \cup {"none"}]
    /\ ckpt \in [Threads -> AgentState]
    /\ \A t \in Threads : ckpt[t].tool_rounds <= MAX_TOOL_ROUNDS

Log == INSTANCE ConversationLog WITH
    log <- [t \in Threads |-> ckpt[t].messages]

(* Whatever is cut short, retried or overlaps, every message of a thread's *)
(* saved history has its place: a tool result directly after a tool call   *)
(* of its own turn, a final answer after the user's message or a tool      *)
(* result of its own turn (add_messages and the edges of build_graph).     *)
(* A tool call may stay without its result: see CallsAreAnswered.          *)
TranscriptWellFormed == \A t \in Threads : Log!WellFormed(ckpt[t].messages)

(* route_after_agent ends a run "well before the recursion limit"          *)
(* (MAX_TOOL_ROUNDS): LangGraph never raises GraphRecursionError.          *)
NeverOutOfSteps == \A r \in Requests : step[r] < RecursionLimit

(* "The agent/LLM is never invoked for a blocked input" (guard_input): a   *)
(* turn whose message is refused puts nothing but the refusal in the       *)
(* thread, also when an overlapping run of the thread is in its tools.     *)
BlockedIsRefused ==
    \A r \in Requests : input[r] = "blocked" =>
        /\ node[r] \notin {"agent", "tools", "budget_exceeded"}
        /\ \A t \in Threads : \A i \in DOMAIN ckpt[t].messages :
              ckpt[t].messages[i].req = r =>
                  ckpt[t].messages[i].kind \in {"human", "refusal"}

(* A run that is over or cancelled saves nothing more, though its worker   *)
(* thread may return later.  And a stream that has ended lets its run save *)
(* nothing more, with one exception: the deadline passed at the top of the *)
(* loop, where the error event goes out and the run is cancelled later     *)
(* (the timeouts racing the worker thread in _stream_chat_events).         *)
NoWriteAfterEnd ==
    [][\A t \in Threads : ckpt'[t] # ckpt[t] =>
         LET q == Latest(ckpt'[t]).req
         IN  /\ node[q] \notin Over
             /\ phase[q] = "ended" => event[q] = ErrorEvent("TimeoutError")]_vars

(* A turn that ran to its end has a result for each tool call it saved,    *)
(* save the one its cut-off message follows (tool_rounds at                *)
(* MAX_TOOL_ROUNDS, budget_exceeded): only that one, and a turn cut short, *)
(* leave a call in the history that no result answers.                     *)
CallsAreAnswered ==
    \A t \in Threads : LET m == ckpt[t].messages IN
        \A i \in DOMAIN m :
            (m[i].kind = "call" /\ node[m[i].req] = "END") =>
                i < Len(m) /\ m[i + 1].kind \in {"tool", "budget"}

(* The done event carries the complete final answer of its own turn, not a *)
(* tool call, not another turn's answer, not an empty text ("at least one  *)
(* done event carrying the complete answer", module docstring of chat.py). *)
DoneIsOwnAnswer ==
    \A r \in Requests : event[r].type = "done" =>
        /\ event[r].content.req = r
        /\ event[r].content.kind \in {"answer", "refusal", "budget"}

(* A client told that the assistant is unavailable and to retry            *)
(* (_CASCADE_EXHAUSTED_MESSAGE) asks nothing a second time that the thread *)
(* already holds the answer to: the turn has left none behind, whatever    *)
(* overlapped it.  _INTERNAL_ERROR_MESSAGE asks to retry too, but is also  *)
(* sent when the final read fails, after the answer was saved.             *)
RetryMeansNoAnswer ==
    \A r \in Requests :
        (event[r].type = "error" /\ event[r].message = "_CASCADE_EXHAUSTED_MESSAGE") =>
            \A t \in Threads : \A i \in DOMAIN ckpt[t].messages :
                ckpt[t].messages[i].req = r =>
                    ckpt[t].messages[i].kind \notin {"answer", "refusal", "budget"}

(* Nothing a thread remembers is lost or rewritten. *)
ImplementsLog == Log!Spec

(* A stream ends, and its run with it, however the graph, the tools, the   *)
(* worker threads and the checkpointer behave, for a client that does not  *)
(* stop reading for ever (a hung graph is stopped "from holding the SSE    *)
(* connection open forever", _stream_chat_events).                         *)
EveryStreamEnds ==
    \A r \in Requests :
        []<>(phase[r] # "yielding") =>
            (phase[r] # "idle" ~> (phase[r] = "ended" /\ ~InProgress(r)))

(* MAX_TOOL_ROUNDS is the "hard cap on agent <-> tools round trips per     *)
(* invocation": a run is cut off only once it has made that many itself.   *)
CutoffOnlyAfterOwnRounds ==
    \A r \in Requests :
        node[r] = "budget_exceeded" => own[r] >= MAX_TOOL_ROUNDS

(* What holds of that cap: a conversation in which nobody else used a tool *)
(* grants a turn all of its rounds, whatever overlaps or failed before it. *)
OnlyUserOfTools(r) ==
    \A i \in DOMAIN state[r].messages :
        state[r].messages[i].kind = "tool" => state[r].messages[i].req = r

FirstUserHasItsRounds ==
    \A r \in Requests :
        (node[r] = "budget_exceeded" /\ OnlyUserOfTools(r)) => own[r] >= MAX_TOOL_ROUNDS
=============================================================================
