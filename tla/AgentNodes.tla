----------------------------- MODULE AgentNodes -----------------------------
(***************************************************************************)
(* The agent graph's nodes and conditional edges (app/agent/graph.py) as   *)
(* functions of the graph's state (app/agent/state.py), and what the chat  *)
(* route reads out of it (app/api/routes/chat.py).                         *)
(*                                                                         *)
(* A message is its kind and the request whose turn wrote it; the texts,   *)
(* the prompts and the arguments of tool calls are abstracted, and one     *)
(* "tool" message stands for the results of one AIMessage's tool calls.    *)
(* user_id and token_budget influence nothing and are left out; of         *)
(* input_flags only the presence of a blocking flag is kept.               *)
(***************************************************************************)
EXTENDS Naturals, Sequences

CONSTANTS
    Requests,           \* chat requests; each carries one user message
    MAX_TOOL_ROUNDS

ASSUME MaxRoundsAssumption == MAX_TOOL_ROUNDS \in Nat \ {0}

Kind == {"human", "refusal", "call", "tool", "answer", "budget"}
Message == [kind : Kind, req : Requests]
AgentState == [messages : Seq(Message), blocked : BOOLEAN, tool_rounds : Nat]

EmptyState == [messages |-> <<>>, blocked |-> FALSE, tool_rounds |-> 0]

Msg(kind, r) == [kind |-> kind, req |-> r]

AddMessage(s, m) == [s EXCEPT !.messages = Append(@, m)]

Latest(s) == s.messages[Len(s.messages)]

-----------------------------------------------------------------------------
(* What the guardrails make of a user message: they let it pass (with or   *)
(* without a PII flag, which routes nothing), refuse it, or raise.         *)
InputKind == {"clear", "blocked", "raises"}

(* The initial state of a turn, merged into the thread's checkpoint:       *)
(* messages are appended, input_flags overwritten, tool_rounds absent.     *)
WithInput(s, r) == [AddMessage(s, Msg("human", r)) EXCEPT !.blocked = FALSE]

\* Mutated form: the refusal is sent without a blocking flag.
GuardInput_NoFlag(s, kind, r) ==
    IF kind = "blocked" THEN AddMessage(s, Msg("refusal", r)) ELSE s

GuardInput(s, kind, r) ==
    IF kind = "blocked"
    THEN [AddMessage(s, Msg("refusal", r)) EXCEPT !.blocked = TRUE]
    ELSE [s EXCEPT !.blocked = FALSE]

RouteAfterGuardInput(s) == IF s.blocked THEN "END" ELSE "agent"

CallAgent(s, kind, r) == AddMessage(s, Msg(kind, r))

\* Mutated form: the budget is tested before the tool call is looked for.
RouteAfterAgent_BudgetFirst(s) ==
    IF s.tool_rounds >= MAX_TOOL_ROUNDS THEN "budget_exceeded"
    ELSE IF Latest(s).kind # "call" THEN "END"
    ELSE "tools"

\* Mutated form: a tool call over the budget ends the turn as it is.
RouteAfterAgent_EndsAtBudget(s) ==
    IF Latest(s).kind = "call" /\ s.tool_rounds < MAX_TOOL_ROUNDS THEN "tools" ELSE "END"

\* Mutated form: there is no budget.
RouteAfterAgent_NoBudget(s) == IF Latest(s).kind # "call" THEN "END" ELSE "tools"

\* Mutated form: the budget is compared with > instead of >=.
RouteAfterAgent_OneMore(s) ==
    IF Latest(s).kind # "call" THEN "END"
    ELSE IF s.tool_rounds > MAX_TOOL_ROUNDS THEN "budget_exceeded"
    ELSE "tools"

RouteAfterAgent(s) ==
    IF Latest(s).kind # "call" THEN "END"
    ELSE IF s.tool_rounds >= MAX_TOOL_ROUNDS THEN "budget_exceeded"
    ELSE "tools"

\* Mutated form: the calls of a message are counted, not the rounds.
RunTools_CountsCalls(s, r) ==
    [AddMessage(s, Msg("tool", r)) EXCEPT !.tool_rounds = @ + 2]

RunTools(s, r) ==
    [AddMessage(s, Msg("tool", r)) EXCEPT !.tool_rounds = @ + 1]

BudgetExceeded(s, r) == AddMessage(s, Msg("budget", r))

-----------------------------------------------------------------------------
NoAnswer == [kind |-> "empty", req |-> "none"]

AIMessages(s) ==
    {i \in DOMAIN s.messages :
        s.messages[i].kind \in {"call", "answer", "refusal", "budget"}}

\* Mutated form: the conversation is read from its beginning.
ExtractFinalText_First(s) ==
    IF AIMessages(s) = {} THEN NoAnswer
    ELSE s.messages[CHOOSE i \in AIMessages(s) : \A j \in AIMessages(s) : i <= j]

(* The last AIMessage, whatever it is. *)
ExtractFinalText(s) ==
    IF AIMessages(s) = {} THEN NoAnswer
    ELSE s.messages[CHOOSE i \in AIMessages(s) : \A j \in AIMessages(s) : j <= i]

ErrorKind == {"LLMCascadeExhaustedError", "TimeoutError", "other"}

\* Mutated form: a timeout counts as the cascade being unavailable.
ClassifyError_TimeoutIsUnavailable(e) ==
    IF e = "other" THEN "_INTERNAL_ERROR_MESSAGE" ELSE "_CASCADE_EXHAUSTED_MESSAGE"

ClassifyError(e) ==
    CASE e = "LLMCascadeExhaustedError" -> "_CASCADE_EXHAUSTED_MESSAGE"
      [] e = "TimeoutError"             -> "_TIMEOUT_MESSAGE"
      [] OTHER                          -> "_INTERNAL_ERROR_MESSAGE"
=============================================================================
