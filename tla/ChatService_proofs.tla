------------------------- MODULE ChatService_proofs -------------------------
(***************************************************************************)
(* The chat service's safety, for every set of requests and threads, every *)
(* number of workers and every MAX_TOOL_ROUNDS.                            *)
(*                                                                         *)
(* First what the nodes do to one state; then an invariant of every        *)
(* behaviour, overlapping requests included; then what holds besides when  *)
(* the requests of a thread do not overlap.                                *)
(***************************************************************************)
EXTENDS ChatService, TLAPS

-----------------------------------------------------------------------------
(* Lemmas about states. *)

(* What add_messages makes of a state: the same state with one more        *)
(* message.                                                                *)
LEMMA AddMessageType ==
    ASSUME NEW s \in AgentState, NEW m \in Message
    PROVE  LET a == AddMessage(s, m)
           IN  /\ a \in AgentState
               /\ a.messages = Append(s.messages, m)
               /\ a.messages # <<>>
               /\ Latest(a) = m
               /\ a.blocked = s.blocked /\ a.tool_rounds = s.tool_rounds
<1> DEFINE a == AddMessage(s, m)
<1>1. /\ a.messages = Append(s.messages, m)
      /\ a.blocked = s.blocked /\ a.tool_rounds = s.tool_rounds
  BY DEF AddMessage, AgentState
<1>2. s.messages \in Seq(Message)
  BY DEF AgentState
<1>3. /\ Append(s.messages, m) \in Seq(Message)
      /\ Append(s.messages, m) # <<>>
      /\ Len(Append(s.messages, m)) = Len(s.messages) + 1
      /\ Append(s.messages, m)[Len(s.messages) + 1] = m
  BY <1>2
<1>4. a \in AgentState
  BY <1>3 DEF AddMessage, AgentState
<1> QED
  BY <1>1, <1>3, <1>4 DEF Latest

(* The message m may be added to s. *)
Fits(s, m) ==
    IF s.messages = <<>> THEN m.kind = "human"
                         ELSE Log!MayFollow(Latest(s), m)

(* A message in its place leaves a well-formed history well-formed.        *)
LEMMA AddMessageWellFormed ==
    ASSUME NEW s \in AgentState, NEW m \in Message,
           Log!WellFormed(s.messages), Fits(s, m)
    PROVE  Log!WellFormed(AddMessage(s, m).messages)
<1> DEFINE q == s.messages
           n == Len(q)
           p == Append(q, m)
<1>1. q \in Seq(Message) /\ n \in Nat
  BY DEF AgentState
<1>2. AddMessage(s, m).messages = p
  BY AddMessageType
<1>3. /\ Len(p) = n + 1 /\ p[n + 1] = m
      /\ \A i \in 1..n : p[i] = q[i]
  BY <1>1
<1>4. p[1].kind = "human"
  <2>1. CASE n = 0
    <3>1. q = <<>>
      BY <1>1, <2>1
    <3> QED
      BY <1>3, <2>1, <3>1 DEF Fits
  <2>2. CASE n > 0
    BY <1>1, <1>3, <2>2 DEF Log!WellFormed
  <2> QED
    BY <1>1, <2>1, <2>2
<1>5. ASSUME NEW i \in 1..(Len(p) - 1) PROVE Log!MayFollow(p[i], p[i + 1])
  <2>1. CASE i < n
    <3>1. i \in 1..(n - 1) /\ p[i] = q[i] /\ p[i + 1] = q[i + 1]
      BY <1>1, <1>3, <2>1
    <3> QED
      BY <3>1 DEF Log!WellFormed
  <2>2. CASE i = n
    <3>1. n > 0 /\ q # <<>>
      BY <1>1, <1>3, <2>2
    <3>2. p[i] = Latest(s) /\ p[i + 1] = m
      BY <1>1, <1>3, <2>2, <3>1 DEF Latest
    <3> QED
      BY <3>1, <3>2 DEF Fits
  <2> QED
    BY <1>1, <1>3, <2>1, <2>2
<1> QED
  BY <1>2, <1>4, <1>5 DEF Log!WellFormed

(* In a turn that is refused, only the user and the refusal speak. *)
Refused(s, inp) ==
    \A i \in DOMAIN s.messages :
        inp[s.messages[i].req] = "blocked" =>
            s.messages[i].kind \in {"human", "refusal"}

(* A message that is not the agent's leaves refused turns refused.         *)
LEMMA AddMessageRefused ==
    ASSUME NEW s \in AgentState, NEW m \in Message, NEW inp, Refused(s, inp),
           inp[m.req] = "blocked" => m.kind \in {"human", "refusal"}
    PROVE  Refused(AddMessage(s, m), inp)
<1>1. s.messages \in Seq(Message)
  BY DEF AgentState
<1>2. AddMessage(s, m).messages = Append(s.messages, m)
  BY AddMessageType
<1>3. \A i \in DOMAIN Append(s.messages, m) :
          \/ i \in DOMAIN s.messages /\ Append(s.messages, m)[i] = s.messages[i]
          \/ Append(s.messages, m)[i] = m
  BY <1>1
<1> QED
  BY <1>2, <1>3 DEF Refused

(* What is invariantly true of a graph state, saved or being worked on.    *)
Good(s, inp) ==
    /\ s \in AgentState
    /\ s.tool_rounds <= MAX_TOOL_ROUNDS
    /\ Log!WellFormed(s.messages)
    /\ Refused(s, inp)

(* add_messages keeps a state good when the message has its place.         *)
LEMMA AddMessageGood ==
    ASSUME NEW s, NEW inp, Good(s, inp), NEW m \in Message, Fits(s, m),
           inp[m.req] = "blocked" => m.kind \in {"human", "refusal"}
    PROVE  LET a == AddMessage(s, m)
           IN  /\ Good(a, inp)
               /\ a.messages = Append(s.messages, m)
               /\ a.messages # <<>> /\ Latest(a) = m
               /\ a.tool_rounds = s.tool_rounds
<1>1. s \in AgentState
  BY DEF Good
<1> QED
  BY <1>1, AddMessageType, AddMessageWellFormed, AddMessageRefused DEF Good

(* Overwriting input_flags keeps a state good.                             *)
LEMMA SetBlockedGood ==
    ASSUME NEW s, NEW inp, Good(s, inp), NEW b \in BOOLEAN
    PROVE  LET a == [s EXCEPT !.blocked = b]
           IN  /\ Good(a, inp)
               /\ a.messages = s.messages /\ Latest(a) = Latest(s)
               /\ a.tool_rounds = s.tool_rounds /\ a.blocked = b
<1> DEFINE a == [s EXCEPT !.blocked = b]
<1>1. /\ a \in AgentState
      /\ a.messages = s.messages /\ a.tool_rounds = s.tool_rounds
      /\ a.blocked = b
  BY DEF Good, AgentState
<1>2. Latest(a) = Latest(s)
  BY <1>1 DEF Latest
<1> QED
  BY <1>1, <1>2 DEF Good, Refused

(* Counting a tool round within the budget keeps a state good.             *)
LEMMA CountRoundGood ==
    ASSUME NEW s, NEW inp, Good(s, inp), s.tool_rounds < MAX_TOOL_ROUNDS
    PROVE  LET a == [s EXCEPT !.tool_rounds = @ + 1]
           IN  /\ Good(a, inp)
               /\ a.messages = s.messages /\ Latest(a) = Latest(s)
               /\ a.tool_rounds = s.tool_rounds + 1
<1> DEFINE a == [s EXCEPT !.tool_rounds = @ + 1]
<1>1. /\ a \in AgentState
      /\ a.messages = s.messages /\ a.tool_rounds = s.tool_rounds + 1
  BY DEF Good, AgentState
<1>2. Latest(a) = Latest(s)
  BY <1>1 DEF Latest
<1>3. a.tool_rounds <= MAX_TOOL_ROUNDS
  BY <1>1, MaxRoundsAssumption DEF Good, AgentState
<1> QED
  BY <1>1, <1>2, <1>3 DEF Good, Refused

(* A thread nobody has written to is good.                                 *)
LEMMA EmptyGood == ASSUME NEW inp PROVE Good(EmptyState, inp)
BY MaxRoundsAssumption
  DEF Good, EmptyState, AgentState, Refused, Log!WellFormed

-----------------------------------------------------------------------------
(* Lemmas about the nodes: r's node is run on s, and what comes out of it   *)
(* is s with one message of r.                                              *)

Adds(s, a, m) ==
    /\ a.messages = Append(s.messages, m)
    /\ a.messages # <<>> /\ Latest(a) = m

(* A new turn may begin on any good state: the user may always speak.      *)
LEMMA WithInputGood ==
    ASSUME NEW s, NEW inp, Good(s, inp), NEW r \in Requests
    PROVE  LET a == WithInput(s, r)
           IN  /\ Good(a, inp) /\ Adds(s, a, Msg("human", r))
               /\ a.tool_rounds = s.tool_rounds
<1> DEFINE m == Msg("human", r)
           b == AddMessage(s, m)
<1>1. m \in Message /\ m.kind = "human" /\ m.req = r
  BY DEF Msg, Message, Kind
<1>2. Fits(s, m)
  <2>1. ASSUME s.messages # <<>> PROVE Latest(s).kind \in Log!Kind
    <3>1. s.messages \in Seq(Message) /\ Len(s.messages) \in Nat \ {0}
      BY <2>1 DEF Good, AgentState
    <3>2. Latest(s) \in Message
      BY <3>1 DEF Latest
    <3> QED
      BY <3>2 DEF Message, Kind, Log!Kind
  <2> QED
    BY <1>1, <2>1 DEF Fits, Log!MayFollow, Log!After
<1>3. /\ Good(b, inp) /\ Adds(s, b, m)
      /\ b.tool_rounds = s.tool_rounds
  BY <1>1, <1>2, AddMessageGood DEF Adds
<1>4. WithInput(s, r) = [b EXCEPT !.blocked = FALSE]
  BY DEF WithInput
<1> HIDE DEF b, m
<1> QED
  BY <1>3, <1>4, SetBlockedGood DEF Adds, m

(* guard_input adds nothing but a refusal, after the user's message.       *)
LEMMA GuardInputGood ==
    ASSUME NEW s, NEW inp, Good(s, inp), NEW r \in Requests,
           s.messages # <<>>, Latest(s) = Msg("human", r)
    PROVE  LET a == GuardInput(s, inp[r], r)
           IN  /\ Good(a, inp)
               /\ inp[r] = "blocked" => /\ Adds(s, a, Msg("refusal", r))
                                        /\ RouteAfterGuardInput(a) = "END"
               /\ inp[r] # "blocked" => /\ a.messages = s.messages
                                        /\ Latest(a) = Latest(s)
                                        /\ RouteAfterGuardInput(a) = "agent"
               /\ a.tool_rounds = s.tool_rounds
<1> DEFINE m == Msg("refusal", r)
<1>1. m \in Message /\ m.kind = "refusal" /\ m.req = r
  BY DEF Msg, Message, Kind
<1>2. Fits(s, m)
  BY <1>1 DEF Fits, Log!MayFollow, Log!After, Msg
<1>3. CASE inp[r] = "blocked"
  <2> DEFINE b == AddMessage(s, m)
  <2>1. /\ Good(b, inp) /\ Adds(s, b, m)
        /\ b.tool_rounds = s.tool_rounds
    BY <1>1, <1>2, AddMessageGood DEF Adds
  <2>2. GuardInput(s, inp[r], r) = [b EXCEPT !.blocked = TRUE]
    BY <1>3 DEF GuardInput
  <2> HIDE DEF b, m
  <2> QED
    BY <1>3, <2>1, <2>2, SetBlockedGood DEF RouteAfterGuardInput, Adds, m
<1>4. CASE inp[r] # "blocked"
  BY <1>4, SetBlockedGood DEF GuardInput, RouteAfterGuardInput
<1> QED
  BY <1>3, <1>4

(* The agent's message has its place after the user's or a tool's.         *)
LEMMA CallAgentGood ==
    ASSUME NEW s, NEW inp, Good(s, inp), NEW r \in Requests, inp[r] # "blocked",
           s.messages # <<>>, Latest(s).req = r, Latest(s).kind \in {"human", "tool"},
           NEW kind \in {"call", "answer"}
    PROVE  LET a == CallAgent(s, kind, r)
           IN  /\ Good(a, inp) /\ Adds(s, a, Msg(kind, r))
               /\ a.tool_rounds = s.tool_rounds
               /\ RouteAfterAgent(a) \in {"END", "tools", "budget_exceeded"}
               /\ RouteAfterAgent(a) = "END" <=> kind = "answer"
               /\ RouteAfterAgent(a) = "tools" => a.tool_rounds < MAX_TOOL_ROUNDS
               /\ RouteAfterAgent(a) = "budget_exceeded" => a.tool_rounds >= MAX_TOOL_ROUNDS
<1> DEFINE m == Msg(kind, r)
           a == CallAgent(s, kind, r)
<1>1. m \in Message /\ m.kind = kind /\ m.req = r
  BY DEF Msg, Message, Kind
<1>2. Fits(s, m)
  BY <1>1 DEF Fits, Log!MayFollow, Log!After
<1>3. Good(a, inp) /\ Adds(s, a, m) /\ a.tool_rounds = s.tool_rounds
  BY <1>1, <1>2, AddMessageGood DEF CallAgent, Adds
<1>4. a.tool_rounds \in Nat /\ Latest(a).kind = kind
  BY <1>1, <1>3 DEF Good, AgentState, Adds
<1> QED
  BY <1>3, <1>4, MaxRoundsAssumption DEF RouteAfterAgent

(* The tools' message has its place after a call, one round further.       *)
LEMMA RunToolsGood ==
    ASSUME NEW s, NEW inp, Good(s, inp), NEW r \in Requests, inp[r] # "blocked",
           s.messages # <<>>, Latest(s).req = r, Latest(s).kind = "call",
           s.tool_rounds < MAX_TOOL_ROUNDS
    PROVE  LET a == RunTools(s, r)
           IN  /\ Good(a, inp) /\ Adds(s, a, Msg("tool", r))
               /\ a.tool_rounds = s.tool_rounds + 1
<1> DEFINE m == Msg("tool", r)
<1>1. m \in Message /\ m.kind = "tool" /\ m.req = r
  BY DEF Msg, Message, Kind
<1>2. Fits(s, m)
  BY <1>1 DEF Fits, Log!MayFollow, Log!After
<1> QED
  BY <1>1, <1>2, AddMessageGood, CountRoundGood DEF RunTools, Adds

(* The budget message has its place after a call.                          *)
LEMMA BudgetExceededGood ==
    ASSUME NEW s, NEW inp, Good(s, inp), NEW r \in Requests, inp[r] # "blocked",
           s.messages # <<>>, Latest(s).req = r, Latest(s).kind = "call"
    PROVE  LET a == BudgetExceeded(s, r)
           IN  /\ Good(a, inp) /\ Adds(s, a, Msg("budget", r))
               /\ a.tool_rounds = s.tool_rounds
<1> DEFINE m == Msg("budget", r)
<1>1. m \in Message /\ m.kind = "budget" /\ m.req = r
  BY DEF Msg, Message, Kind
<1>2. Fits(s, m)
  BY <1>1 DEF Fits, Log!MayFollow, Log!After
<1> QED
  BY <1>1, <1>2, AddMessageGood DEF BudgetExceeded, Adds

-----------------------------------------------------------------------------
(* The invariant of every behaviour. *)

FinalKind == {"answer", "refusal", "budget"}

(* What r's run has done so far decides what it executes next. *)
Position(r) ==
    LET kind == Latest(state[r]).kind
        rounds == state[r].tool_rounds
    IN  /\ node[r] = "start" => step[r] = 0 /\ own[r] = 0
        /\ node[r] \in GraphNode \cup {"END"} =>
              state[r].messages # <<>> /\ Latest(state[r]).req = r
        /\ node[r] = "guard_input" => kind = "human" /\ step[r] = 0 /\ own[r] = 0
        /\ node[r] = "agent" => kind \in {"human", "tool"} /\ step[r] = 2 * own[r] + 1
        /\ node[r] = "tools" =>
              kind = "call" /\ step[r] = 2 * own[r] + 2 /\ rounds < MAX_TOOL_ROUNDS
        /\ node[r] = "budget_exceeded" =>
              kind = "call" /\ step[r] = 2 * own[r] + 2 /\ rounds >= MAX_TOOL_ROUNDS
        /\ node[r] = "END" => kind \in FinalKind

(* What is invariantly true of one request.                                *)
RunOK(r) ==
    /\ Good(state[r], input)
    /\ own[r] <= state[r].tool_rounds
    /\ step[r] <= 2 * MAX_TOOL_ROUNDS + 3
    /\ Position(r)
    /\ input[r] = "blocked" => node[r] \notin {"agent", "tools", "budget_exceeded"}
    /\ job[r] \in {"queued", "running"} <=> node[r] \in GraphNode
    /\ phase[r] = "idle" => node[r] = "start"
    /\ phase[r] = "ended" => node[r] \in Over \/ event[r] = ErrorEvent("TimeoutError")
    /\ phase[r] = "reading" => node[r] = "END"

(* The inductive invariant of every behaviour, overlapping or not.         *)
IInv ==
    /\ TypeOK
    /\ \A r \in Requests : RunOK(r)
    /\ \A t \in Threads : Good(ckpt[t], input)

(* It holds initially.                                                     *)
LEMMA InitIInv == Init => IInv
<1> SUFFICES ASSUME Init PROVE IInv
  OBVIOUS
<1>1. EmptyState \in AgentState /\ EmptyState.tool_rounds = 0
  BY DEF EmptyState, AgentState
<1>2. TypeOK
  BY <1>1, MaxRoundsAssumption DEF Init, TypeOK, NoEvent
<1>3. ASSUME NEW r \in Requests PROVE RunOK(r)
  <2>1. Position(r)
    BY DEF Init, Position, GraphNode
  <2> QED
    BY <1>1, <2>1, EmptyGood, MaxRoundsAssumption DEF Init, RunOK, GraphNode
<1>4. ASSUME NEW t \in Threads PROVE Good(ckpt[t], input)
  BY EmptyGood DEF Init
<1> QED
  BY <1>2, <1>3, <1>4 DEF IInv

(* A run nobody touches stays as it is. *)
LEMMA Frame ==
    ASSUME NEW q \in Requests, RunOK(q), input' = input,
           phase'[q] = phase[q], event'[q] = event[q],
           node'[q] = node[q], job'[q] = job[q],
           state'[q] = state[q], step'[q] = step[q], own'[q] = own[q]
    PROVE  RunOK(q)'
BY DEF RunOK, Position

(* What Save changes, and for whom.                                        *)
LEMMA SaveEffect ==
    ASSUME TypeOK, NEW r \in Requests, NEW s \in AgentState,
           s.tool_rounds <= MAX_TOOL_ROUNDS,
           NEW n \in GraphNode \cup {"END"}, Save(r, s, n)
    PROVE  /\ state' \in [Requests -> AgentState]
           /\ node' \in [Requests -> GraphNode \cup {"start", "END", "raised", "cancelled"}]
           /\ job' \in [Requests -> {"none", "queued", "running", "zombie"}]
           /\ ckpt' \in [Threads -> AgentState]
           /\ \A t \in Threads : ckpt'[t].tool_rounds <= MAX_TOOL_ROUNDS
           /\ state'[r] = s /\ node'[r] = n
           /\ job'[r] = IF n = "END" THEN "none" ELSE "queued"
           /\ thread[r] \in Threads /\ ckpt'[thread[r]] = s
           /\ \A q \in Requests \ {r} : /\ state'[q] = state[q]
                                        /\ node'[q] = node[q]
                                        /\ job'[q] = job[q]
           /\ \A t \in Threads \ {thread[r]} : ckpt'[t] = ckpt[t]
BY DEF Save, TypeOK, GraphNode

(* A step of r that saves s keeps the invariant if it leaves r in order. *)
LEMMA SaveKeeps ==
    ASSUME IInv, NEW r \in Requests, NEW s, NEW n \in GraphNode \cup {"END"},
           Good(s, input), Save(r, s, n), UNCHANGED <<args, stream, error>>,
           step' \in [Requests -> Nat], own' \in [Requests -> Nat],
           \A q \in Requests \ {r} : step'[q] = step[q] /\ own'[q] = own[q],
           own'[r] <= s.tool_rounds, step'[r] <= 2 * MAX_TOOL_ROUNDS + 3,
           Position(r)',
           input[r] = "blocked" => n \notin {"agent", "tools", "budget_exceeded"},
           phase[r] \notin {"idle", "reading"}, node[r] \notin Over
    PROVE  IInv'
<1>1. TypeOK /\ s \in AgentState /\ s.tool_rounds <= MAX_TOOL_ROUNDS
  BY DEF IInv, Good
<1>2. TypeOK'
  BY <1>1, SaveEffect DEF TypeOK, args, stream
<1>3. ASSUME NEW q \in Requests \ {r} PROVE RunOK(q)'
  BY <1>1, <1>3, SaveEffect, Frame DEF IInv, args, stream
<1>4. RunOK(r)'
  BY <1>1, SaveEffect DEF IInv, RunOK, GraphNode, args, stream
<1>5. ASSUME NEW t \in Threads PROVE Good(ckpt[t], input)'
  BY <1>1, SaveEffect DEF IInv, args
<1> QED
  BY <1>2, <1>3, <1>4, <1>5 DEF IInv

-----------------------------------------------------------------------------
(* Every step keeps the invariant; a step that saves adds at most one       *)
(* message to what it started from.                                        *)

Extends(old, new) ==
    \/ new.messages = old.messages
    \/ \E m \in Message : new.messages = Append(old.messages, m)

(* Loading the checkpoint and adding the user's message.                   *)
LEMMA StartRunKeeps ==
    ASSUME IInv, NEW r \in Requests, StartRun(r)
    PROVE  IInv' /\ Extends(ckpt[thread[r]], state'[r])
<1> DEFINE c == ckpt[thread[r]]
           s == WithInput(c, r)
<1>1. /\ phase[r] = "waiting" /\ node[r] = "start"
      /\ Save(r, s, "guard_input")
      /\ UNCHANGED <<args, stream, step, own, error>>
  BY DEF StartRun
<1>2. /\ TypeOK /\ RunOK(r) /\ Good(c, input)
  BY DEF IInv, TypeOK
<1>3. /\ Good(s, input) /\ Adds(c, s, Msg("human", r))
      /\ s.tool_rounds = c.tool_rounds
  BY <1>2, WithInputGood
<1>4. s \in AgentState /\ s.tool_rounds <= MAX_TOOL_ROUNDS /\ s.tool_rounds \in Nat
  BY <1>3 DEF Good, AgentState
<1> HIDE DEF s
<1>5. state'[r] = s /\ node'[r] = "guard_input"
  BY <1>1, <1>2, <1>4, SaveEffect DEF GraphNode
<1>6. step[r] = 0 /\ own[r] = 0
  BY <1>1, <1>2 DEF RunOK, Position
<1>7. Position(r)'
  BY <1>1, <1>3, <1>5, <1>6 DEF Position, Adds, Msg
<1>8. Extends(ckpt[thread[r]], state'[r])
  BY <1>3, <1>5 DEF Extends, Adds, Msg, Message, Kind
<1>9. /\ own'[r] <= s.tool_rounds /\ step'[r] <= 2 * MAX_TOOL_ROUNDS + 3
      /\ step' \in [Requests -> Nat] /\ own' \in [Requests -> Nat]
      /\ \A q \in Requests \ {r} : step'[q] = step[q] /\ own'[q] = own[q]
  BY <1>1, <1>2, <1>4, <1>6, MaxRoundsAssumption DEF TypeOK
<1>10. "guard_input" \in GraphNode \cup {"END"}
  BY DEF GraphNode
<1>11. phase[r] \notin {"idle", "reading"} /\ node[r] \notin Over
  BY <1>1 DEF Over
<1>12. IInv'
  BY <1>1, <1>3, <1>7, <1>9, <1>10, <1>11, SaveKeeps
<1> QED
  BY <1>8, <1>12

(* What a node that returns knows of its run. *)
LEMMA ReturnsFacts ==
    ASSUME IInv, NEW r \in Requests, NEW n \in GraphNode, Returns(r, n)
    PROVE  /\ TypeOK /\ RunOK(r) /\ Good(state[r], input)
           /\ node[r] = n /\ UNCHANGED <<args, stream, error>>
           /\ step' \in [Requests -> Nat] /\ step'[r] = step[r] + 1
           /\ step[r] \in Nat /\ own[r] \in Nat
           /\ \A q \in Requests \ {r} : step'[q] = step[q]
           /\ phase[r] \notin {"idle", "reading"} /\ node[r] \notin Over
           /\ state[r].messages # <<>> /\ Latest(state[r]).req = r
           /\ state[r].tool_rounds \in Nat
           /\ state[r].tool_rounds <= MAX_TOOL_ROUNDS
           /\ own[r] <= state[r].tool_rounds
<1>1. TypeOK /\ RunOK(r) /\ Good(state[r], input)
  BY DEF IInv, RunOK
<1>2. node[r] = n /\ UNCHANGED <<args, stream, error>>
  BY DEF Returns
<1>3. /\ step' \in [Requests -> Nat] /\ step'[r] = step[r] + 1
      /\ step[r] \in Nat /\ own[r] \in Nat
      /\ \A q \in Requests \ {r} : step'[q] = step[q]
  BY <1>1 DEF Returns, TypeOK
<1>4. /\ phase[r] \notin {"idle", "reading"} /\ node[r] \notin Over
      /\ state[r].messages # <<>> /\ Latest(state[r]).req = r
      /\ own[r] <= state[r].tool_rounds
  BY <1>1, <1>2 DEF RunOK, Position, GraphNode, Over
<1>5. /\ state[r].tool_rounds \in Nat
      /\ state[r].tool_rounds <= MAX_TOOL_ROUNDS
  BY <1>1 DEF Good, AgentState
<1> QED
  BY <1>1, <1>2, <1>3, <1>4, <1>5

(* The result of guard_input, and the edge after it.                       *)
LEMMA GuardInputKeeps ==
    ASSUME IInv, NEW r \in Requests, GuardInputReturns(r)
    PROVE  IInv' /\ Extends(state[r], state'[r])
<1> DEFINE s == GuardInput(state[r], input[r], r)
           n == RouteAfterGuardInput(s)
<1>0. Returns(r, "guard_input") /\ "guard_input" \in GraphNode
  BY DEF GuardInputReturns, GraphNode
<1>1. /\ TypeOK /\ RunOK(r) /\ Good(state[r], input)
      /\ node[r] = "guard_input" /\ UNCHANGED <<args, stream, error>>
      /\ step' \in [Requests -> Nat] /\ step'[r] = step[r] + 1
      /\ \A q \in Requests \ {r} : step'[q] = step[q]
      /\ phase[r] \notin {"idle", "reading"} /\ node[r] \notin Over
      /\ state[r].messages # <<>> /\ Latest(state[r]).req = r
      /\ state[r].tool_rounds \in Nat
      /\ own[r] <= state[r].tool_rounds
  BY <1>0, ReturnsFacts
<1>2. Latest(state[r]).kind = "human" /\ step[r] = 0 /\ own[r] = 0
  BY <1>1 DEF RunOK, Position
<1>3. Latest(state[r]) = Msg("human", r)
  <2>1. /\ state[r].messages \in Seq(Message)
        /\ Len(state[r].messages) \in Nat \ {0}
    BY <1>1 DEF Good, AgentState
  <2>2. Latest(state[r]) \in Message
    BY <2>1 DEF Latest
  <2> QED
    BY <1>1, <1>2, <2>2 DEF Message, Msg
<1>4. /\ Good(s, input) /\ s.tool_rounds = state[r].tool_rounds
      /\ input[r] = "blocked" => Adds(state[r], s, Msg("refusal", r)) /\ n = "END"
      /\ input[r] # "blocked" => /\ s.messages = state[r].messages
                                 /\ Latest(s) = Latest(state[r]) /\ n = "agent"
  BY <1>1, <1>3, GuardInputGood
<1>5. Save(r, s, n) /\ UNCHANGED own
  BY <1>1 DEF GuardInputReturns
<1>6. s \in AgentState /\ s.tool_rounds <= MAX_TOOL_ROUNDS
  BY <1>4 DEF Good
<1>7. n \in GraphNode \cup {"END"}
  BY <1>4 DEF GraphNode
<1> HIDE DEF s, n
<1>8. state'[r] = s /\ node'[r] = n
  BY <1>1, <1>5, <1>6, <1>7, SaveEffect
<1>9. Position(r)'
  <2>1. CASE input[r] = "blocked"
    BY <1>1, <1>2, <1>4, <1>5, <1>8, <2>1 DEF Position, Adds, Msg, FinalKind, GraphNode
  <2>2. CASE input[r] # "blocked"
    BY <1>1, <1>2, <1>4, <1>5, <1>8, <2>2 DEF Position, FinalKind, GraphNode
  <2> QED
    BY <2>1, <2>2
<1>10. own[r] <= s.tool_rounds /\ step'[r] <= 2 * MAX_TOOL_ROUNDS + 3
  BY <1>1, <1>2, <1>4, MaxRoundsAssumption
<1>11. own' \in [Requests -> Nat]
  BY <1>1, <1>5 DEF TypeOK
<1>12. Extends(state[r], state'[r])
  BY <1>4, <1>8 DEF Extends, Adds, Msg, Message, Kind
<1> QED
  BY <1>1, <1>4, <1>5, <1>7, <1>9, <1>10, <1>11, <1>12, SaveKeeps

(* The result of the agent node, and the edge after it.                    *)
LEMMA AgentKeeps ==
    ASSUME IInv, NEW r \in Requests, AgentReturns(r)
    PROVE  IInv' /\ Extends(state[r], state'[r])
<1> PICK kind \in {"call", "answer"} :
        LET s == CallAgent(state[r], kind, r)
        IN  /\ Returns(r, "agent")
            /\ Save(r, s, RouteAfterAgent(s))
            /\ UNCHANGED own
  BY DEF AgentReturns
<1> DEFINE s == CallAgent(state[r], kind, r)
           n == RouteAfterAgent(s)
<1>0. "agent" \in GraphNode
  BY DEF GraphNode
<1>1. /\ TypeOK /\ RunOK(r) /\ Good(state[r], input)
      /\ node[r] = "agent" /\ UNCHANGED <<args, stream, error>>
      /\ step' \in [Requests -> Nat] /\ step'[r] = step[r] + 1
      /\ step[r] \in Nat /\ own[r] \in Nat
      /\ \A q \in Requests \ {r} : step'[q] = step[q]
      /\ phase[r] \notin {"idle", "reading"} /\ node[r] \notin Over
      /\ state[r].messages # <<>> /\ Latest(state[r]).req = r
      /\ state[r].tool_rounds \in Nat
      /\ state[r].tool_rounds <= MAX_TOOL_ROUNDS
      /\ own[r] <= state[r].tool_rounds
  BY <1>0, ReturnsFacts
<1>2. /\ Latest(state[r]).kind \in {"human", "tool"} /\ step[r] = 2 * own[r] + 1
      /\ input[r] # "blocked"
  BY <1>1 DEF RunOK, Position
<1>3. /\ Good(s, input) /\ Adds(state[r], s, Msg(kind, r))
      /\ s.tool_rounds = state[r].tool_rounds
      /\ n \in {"END", "tools", "budget_exceeded"}
      /\ n = "END" <=> kind = "answer"
      /\ n = "tools" => s.tool_rounds < MAX_TOOL_ROUNDS
      /\ n = "budget_exceeded" => s.tool_rounds >= MAX_TOOL_ROUNDS
  BY <1>1, <1>2, CallAgentGood
<1>4. Save(r, s, n) /\ UNCHANGED own
  OBVIOUS
<1>5. s \in AgentState /\ s.tool_rounds <= MAX_TOOL_ROUNDS
  BY <1>3 DEF Good
<1>6. n \in GraphNode \cup {"END"}
  BY <1>3 DEF GraphNode
<1> HIDE DEF s, n
<1>7. state'[r] = s /\ node'[r] = n
  BY <1>1, <1>4, <1>5, <1>6, SaveEffect
<1>8. step'[r] = 2 * own[r] + 2 /\ own'[r] = own[r]
  BY <1>1, <1>2, <1>4
<1>9. Latest(s).req = r /\ Latest(s).kind = kind /\ s.messages # <<>>
  BY <1>3 DEF Adds, Msg
<1>10. Position(r)'
  BY <1>3, <1>7, <1>8, <1>9 DEF Position, FinalKind, GraphNode
<1>11. own'[r] <= s.tool_rounds /\ step'[r] <= 2 * MAX_TOOL_ROUNDS + 3
  BY <1>1, <1>3, <1>8, MaxRoundsAssumption
<1>12. own' \in [Requests -> Nat]
  BY <1>1, <1>4 DEF TypeOK
<1>13. Extends(state[r], state'[r])
  BY <1>3, <1>7 DEF Extends, Adds, Msg, Message, Kind
<1> QED
  BY <1>1, <1>2, <1>3, <1>4, <1>6, <1>10, <1>11, <1>12, <1>13, SaveKeeps

(* The result of the tools node.                                           *)
LEMMA ToolsKeep ==
    ASSUME IInv, NEW r \in Requests, ToolsReturn(r)
    PROVE  IInv' /\ Extends(state[r], state'[r])
<1> DEFINE s == RunTools(state[r], r)
<1>0. Returns(r, "tools") /\ "tools" \in GraphNode
  BY DEF ToolsReturn, GraphNode
<1>1. /\ TypeOK /\ RunOK(r) /\ Good(state[r], input)
      /\ node[r] = "tools" /\ UNCHANGED <<args, stream, error>>
      /\ step' \in [Requests -> Nat] /\ step'[r] = step[r] + 1
      /\ step[r] \in Nat /\ own[r] \in Nat
      /\ \A q \in Requests \ {r} : step'[q] = step[q]
      /\ phase[r] \notin {"idle", "reading"} /\ node[r] \notin Over
      /\ state[r].messages # <<>> /\ Latest(state[r]).req = r
      /\ state[r].tool_rounds \in Nat
      /\ own[r] <= state[r].tool_rounds
  BY <1>0, ReturnsFacts
<1>2. /\ Latest(state[r]).kind = "call" /\ step[r] = 2 * own[r] + 2
      /\ state[r].tool_rounds < MAX_TOOL_ROUNDS
      /\ input[r] # "blocked"
  BY <1>1 DEF RunOK, Position
<1>3. /\ Good(s, input) /\ Adds(state[r], s, Msg("tool", r))
      /\ s.tool_rounds = state[r].tool_rounds + 1
  BY <1>1, <1>2, RunToolsGood
<1>4. Save(r, s, "agent") /\ own' = [own EXCEPT ![r] = @ + 1]
  BY DEF ToolsReturn
<1>5. s \in AgentState /\ s.tool_rounds <= MAX_TOOL_ROUNDS
  BY <1>3 DEF Good
<1> HIDE DEF s
<1>6. state'[r] = s /\ node'[r] = "agent"
  BY <1>1, <1>4, <1>5, SaveEffect DEF GraphNode
<1>7. /\ own' \in [Requests -> Nat] /\ own'[r] = own[r] + 1
      /\ \A q \in Requests \ {r} : own'[q] = own[q]
  BY <1>1, <1>4 DEF TypeOK
<1>8. step'[r] = 2 * own'[r] + 1
  BY <1>1, <1>2, <1>7
<1>9. Latest(s).req = r /\ Latest(s).kind = "tool" /\ s.messages # <<>>
  BY <1>3 DEF Adds, Msg
<1>10. Position(r)'
  BY <1>6, <1>8, <1>9 DEF Position, GraphNode
<1>11. own'[r] <= s.tool_rounds /\ step'[r] <= 2 * MAX_TOOL_ROUNDS + 3
  BY <1>1, <1>2, <1>3, <1>7, <1>8, MaxRoundsAssumption
<1>12. Extends(state[r], state'[r])
  BY <1>3, <1>6 DEF Extends, Adds, Msg, Message, Kind
<1>13. "agent" \in GraphNode \cup {"END"} /\ Good(s, input)
  BY <1>3 DEF GraphNode
<1>14. UNCHANGED <<args, stream, error>> /\ \A q \in Requests \ {r} : step'[q] = step[q]
  BY <1>1
<1>15. phase[r] \notin {"idle", "reading"} /\ node[r] \notin Over
  BY <1>1
<1>16. step' \in [Requests -> Nat] /\ input[r] # "blocked"
  BY <1>1, <1>2
<1>17. IInv'
  BY <1>4, <1>7, <1>10, <1>11, <1>13, <1>14, <1>15, <1>16, SaveKeeps
<1> QED
  BY <1>12, <1>17

(* The result of the budget_exceeded node.                                 *)
LEMMA BudgetExceededKeeps ==
    ASSUME IInv, NEW r \in Requests, BudgetExceededReturns(r)
    PROVE  IInv' /\ Extends(state[r], state'[r])
<1> DEFINE s == BudgetExceeded(state[r], r)
<1>0. Returns(r, "budget_exceeded") /\ "budget_exceeded" \in GraphNode
  BY DEF BudgetExceededReturns, GraphNode
<1>1. /\ TypeOK /\ RunOK(r) /\ Good(state[r], input)
      /\ node[r] = "budget_exceeded" /\ UNCHANGED <<args, stream, error>>
      /\ step' \in [Requests -> Nat] /\ step'[r] = step[r] + 1
      /\ step[r] \in Nat /\ own[r] \in Nat
      /\ \A q \in Requests \ {r} : step'[q] = step[q]
      /\ phase[r] \notin {"idle", "reading"} /\ node[r] \notin Over
      /\ state[r].messages # <<>> /\ Latest(state[r]).req = r
      /\ state[r].tool_rounds \in Nat
      /\ state[r].tool_rounds <= MAX_TOOL_ROUNDS
      /\ own[r] <= state[r].tool_rounds
  BY <1>0, ReturnsFacts
<1>2. /\ Latest(state[r]).kind = "call" /\ step[r] = 2 * own[r] + 2
      /\ input[r] # "blocked"
  BY <1>1 DEF RunOK, Position
<1>3. /\ Good(s, input) /\ Adds(state[r], s, Msg("budget", r))
      /\ s.tool_rounds = state[r].tool_rounds
  BY <1>1, <1>2, BudgetExceededGood
<1>4. Save(r, s, "END") /\ UNCHANGED own
  BY DEF BudgetExceededReturns
<1>5. s \in AgentState /\ s.tool_rounds <= MAX_TOOL_ROUNDS
  BY <1>3 DEF Good
<1> HIDE DEF s
<1>6. state'[r] = s /\ node'[r] = "END"
  BY <1>1, <1>4, <1>5, SaveEffect
<1>7. Latest(s).req = r /\ Latest(s).kind = "budget" /\ s.messages # <<>>
  BY <1>3 DEF Adds, Msg
<1>8. Position(r)'
  BY <1>6, <1>7 DEF Position, GraphNode, FinalKind
<1>9. own'[r] <= s.tool_rounds /\ step'[r] <= 2 * MAX_TOOL_ROUNDS + 3
  BY <1>1, <1>2, <1>3, <1>4, MaxRoundsAssumption
<1>10. own' \in [Requests -> Nat]
  BY <1>1, <1>4 DEF TypeOK
<1>11. Extends(state[r], state'[r])
  BY <1>3, <1>6 DEF Extends, Adds, Msg, Message, Kind
<1> QED
  BY <1>1, <1>3, <1>4, <1>8, <1>9, <1>10, <1>11, SaveKeeps

(* A step that saves nothing keeps the invariant if r's run either stays   *)
(* where it is or ends, and r's generator is where the run allows.         *)
LEMMA ControlKeeps ==
    ASSUME IInv, NEW r \in Requests, TypeOK',
           UNCHANGED <<args, state, step, own, ckpt>>,
           \A q \in Requests \ {r} :
               /\ phase'[q] = phase[q] /\ event'[q] = event[q]
               /\ node'[q] = node[q] /\ job'[q] = job[q],
           node'[r] = node[r] \/ node'[r] \in {"raised", "cancelled"},
           job'[r] \in {"queued", "running"} <=> node'[r] \in GraphNode,
           phase'[r] = "idle" => node'[r] = "start",
           phase'[r] = "ended" =>
               node'[r] \in Over \/ event'[r] = ErrorEvent("TimeoutError"),
           phase'[r] = "reading" => node'[r] = "END"
    PROVE  IInv'
<1>1. ASSUME NEW q \in Requests \ {r} PROVE RunOK(q)'
  BY <1>1, Frame DEF IInv, args
<1>2. Position(r)'
  BY DEF IInv, RunOK, Position, GraphNode
<1>3. RunOK(r)'
  BY <1>2 DEF IInv, RunOK, args
<1>4. ASSUME NEW t \in Threads PROVE Good(ckpt[t], input)'
  BY DEF IInv, args
<1> QED
  BY <1>1, <1>3, <1>4 DEF IInv

(* Cancelling r's run: it has ended or is cancelled, and no node is on     *)
(* its way to be saved.                                                    *)
LEMMA CancelEffect ==
    ASSUME IInv, NEW r \in Requests, Cancel(r)
    PROVE  /\ node' \in [Requests -> GraphNode \cup {"start", "END", "raised", "cancelled"}]
           /\ job' \in [Requests -> {"none", "queued", "running", "zombie"}]
           /\ node'[r] = node[r] \/ node'[r] = "cancelled"
           /\ node'[r] \in Over
           /\ job'[r] \in {"none", "zombie"}
           /\ \A q \in Requests \ {r} : node'[q] = node[q] /\ job'[q] = job[q]
<1>1. /\ node \in [Requests -> GraphNode \cup {"start", "END", "raised", "cancelled"}]
      /\ job \in [Requests -> {"none", "queued", "running", "zombie"}]
  BY DEF IInv, TypeOK
<1> QED
  BY <1>1 DEF Cancel, Over

(* Worker threads taken, freed, or left by an exception.                   *)
LEMMA JobKeeps ==
    ASSUME IInv, NEW r \in Requests,
           BeginJob(r) \/ RunFails(r) \/ ZombieReturns(r)
    PROVE  IInv'
<1>1. TypeOK /\ RunOK(r)
  BY DEF IInv
<1>2. CASE BeginJob(r)
  <2>1. TypeOK'
    BY <1>1, <1>2 DEF BeginJob, TypeOK, args, stream
  <2>2. job'[r] = "running" /\ \A q \in Requests \ {r} : job'[q] = job[q]
    BY <1>1, <1>2 DEF BeginJob, TypeOK
  <2> QED
    BY <1>1, <1>2, <2>1, <2>2, ControlKeeps DEF BeginJob, RunOK, stream
<1>3. CASE RunFails(r)
  <2>1. \A e \in MayRaise(r) : e \in ErrorKind
    BY DEF MayRaise, ErrorKind
  <2>2. TypeOK'
    BY <1>1, <1>3, <2>1 DEF RunFails, TypeOK, args, stream
  <2>3. /\ node'[r] = "raised" /\ job'[r] = "none"
        /\ \A q \in Requests \ {r} : node'[q] = node[q] /\ job'[q] = job[q]
    BY <1>1, <1>3 DEF RunFails, TypeOK
  <2>4. phase[r] \notin {"idle", "reading"}
    BY <1>1, <1>3 DEF RunFails, RunOK, GraphNode
  <2> QED
    BY <1>1, <1>3, <2>2, <2>3, <2>4, ControlKeeps
      DEF RunFails, RunOK, stream, GraphNode, Over
<1>4. CASE ZombieReturns(r)
  <2>1. TypeOK'
    BY <1>1, <1>4 DEF ZombieReturns, TypeOK, args, stream
  <2>2. job'[r] = "none" /\ \A q \in Requests \ {r} : job'[q] = job[q]
    BY <1>1, <1>4 DEF ZombieReturns, TypeOK
  <2>3. node[r] \notin GraphNode
    BY <1>1, <1>4 DEF ZombieReturns, RunOK
  <2> QED
    BY <1>1, <1>4, <2>1, <2>2, <2>3, ControlKeeps
      DEF ZombieReturns, RunOK, stream
<1> QED
  BY <1>2, <1>3, <1>4

(* The generator's steps that leave the run alone.                         *)
LEMMA StreamKeeps ==
    ASSUME IInv, NEW r \in Requests,
           \/ Accept(r) \/ Token(r) \/ ClientTakes(r) \/ Abandon(r)
           \/ StreamEnds(r) \/ ReadState(r) \/ ReadStateFails(r)
           \/ ReportFailure(r) \/ Expire(r) \/ LoopTimesOut(r)
    PROVE  IInv'
<1>1. TypeOK /\ RunOK(r)
  BY DEF IInv
<1>2. TypeOK'
  <2>1. CASE Accept(r) \/ Token(r) \/ ClientTakes(r) \/ Abandon(r) \/ StreamEnds(r)
    BY <1>1, <2>1
      DEF Accept, Token, ClientTakes, Abandon, StreamEnds, TypeOK, Active, args, run
  <2>2. CASE Expire(r)
    BY <1>1, <2>2 DEF Expire, TypeOK, Active, args, run
  <2>3. ASSUME NEW e, e.type \in {"none", "done", "error"}, Finish(r, e),
               UNCHANGED <<args, expired, run, ckpt>>
        PROVE  TypeOK'
    BY <1>1, <2>3 DEF Finish, TypeOK, args, run
  <2>4. CASE ReadState(r)
    BY <2>3, <2>4 DEF ReadState, Done
  <2>5. CASE ReportFailure(r)
    BY <2>3, <2>5 DEF ReportFailure, ErrorEvent
  <2>6. CASE ReadStateFails(r) \/ LoopTimesOut(r)
    BY <2>3, <2>6 DEF ReadStateFails, LoopTimesOut, ErrorEvent
  <2> QED
    BY <2>1, <2>2, <2>4, <2>5, <2>6
<1>3. UNCHANGED <<args, node, job, state, step, own, ckpt>>
  BY DEF Accept, Token, ClientTakes, Abandon, StreamEnds, ReadState, ReadStateFails,
         ReportFailure, Expire, LoopTimesOut, run
<1>4. \A q \in Requests \ {r} : phase'[q] = phase[q] /\ event'[q] = event[q]
  BY <1>1
    DEF Accept, Token, ClientTakes, Abandon, StreamEnds, ReadState, ReadStateFails,
        ReportFailure, Expire, LoopTimesOut, Finish, TypeOK
<1>5. /\ phase'[r] = "idle" => node[r] = "start"
      /\ phase'[r] = "ended" => node[r] \in Over \/ event'[r] = ErrorEvent("TimeoutError")
      /\ phase'[r] = "reading" => node[r] = "END"
  <2>1. CASE LoopTimesOut(r)
    BY <1>1, <2>1 DEF LoopTimesOut, Finish, TypeOK
  <2>2. CASE ~LoopTimesOut(r)
    BY <1>1, <2>2
      DEF Accept, Token, ClientTakes, Abandon, StreamEnds, ReadState, ReadStateFails,
          ReportFailure, Expire, Finish, TypeOK, RunOK, Over, Active
  <2> QED
    BY <2>1, <2>2
<1> QED
  BY <1>1, <1>2, <1>3, <1>4, <1>5, ControlKeeps DEF RunOK

(* The generator's steps that cancel the run.                              *)
LEMMA CancelKeeps ==
    ASSUME IInv, NEW r \in Requests, Timeout(r) \/ Disconnect(r) \/ Finalize(r)
    PROVE  IInv'
<1>1. TypeOK /\ Cancel(r) /\ UNCHANGED <<args, expired, state, step, own, error, ckpt>>
  BY DEF IInv, Timeout, Disconnect, Finalize
<1>2. /\ phase' = [phase EXCEPT ![r] = "ended"]
      /\ event' = event \/ event' = [event EXCEPT ![r] = ErrorEvent("TimeoutError")]
  BY DEF Timeout, Disconnect, Finalize, Finish
<1>3. TypeOK'
  BY <1>1, <1>2, CancelEffect DEF TypeOK, ErrorEvent, args
<1>4. /\ phase'[r] = "ended"
      /\ \A q \in Requests \ {r} : phase'[q] = phase[q] /\ event'[q] = event[q]
  BY <1>1, <1>2 DEF TypeOK
<1> QED
  BY <1>1, <1>3, <1>4, CancelEffect, ControlKeeps DEF GraphNode, Over

(* Every step keeps the invariant.                                         *)
LEMMA NextIInv == IInv /\ [Next]_vars => IInv'
<1> SUFFICES ASSUME IInv, [Next]_vars PROVE IInv'
  OBVIOUS
<1>1. ASSUME NEW r \in Requests, Graph(r) PROVE IInv'
  BY <1>1, StartRunKeeps, GuardInputKeeps, AgentKeeps, ToolsKeep,
     BudgetExceededKeeps, JobKeeps
    DEF Graph
<1>2. ASSUME NEW r \in Requests, Generator(r) PROVE IInv'
  BY <1>2, StreamKeeps, CancelKeeps DEF Generator
<1>3. ASSUME NEW r \in Requests, Client(r) PROVE IInv'
  BY <1>3, StreamKeeps, CancelKeeps DEF Client
<1>4. CASE UNCHANGED vars
  <2>1. UNCHANGED <<args, stream, run, ckpt>>
    BY <1>4 DEF vars
  <2>2. TypeOK'
    BY <2>1 DEF IInv, TypeOK, args, stream, run
  <2>3. ASSUME NEW r \in Requests PROVE RunOK(r)'
    BY <2>1, <2>3, Frame DEF IInv, args, stream, run
  <2>4. ASSUME NEW t \in Threads PROVE Good(ckpt[t], input)'
    BY <2>1, <2>4 DEF IInv, args
  <2> QED
    BY <2>2, <2>3, <2>4 DEF IInv
<1> QED
  BY <1>1, <1>2, <1>3, <1>4 DEF Next, Quiescent

(* The invariant holds in every reachable state.                           *)
LEMMA InductiveInvariant == Spec => []IInv
BY InitIInv, NextIInv, PTL DEF Spec

-----------------------------------------------------------------------------
(* What a step may write to the checkpointer. *)

(* r's run is in progress: not over, and its stream at most timed out.     *)
MayWrite(r) ==
    /\ phase[r] \in {"waiting", "yielding", "abandoned", "ended"}
    /\ node[r] \notin Over
    /\ phase[r] = "ended" => event[r] = ErrorEvent("TimeoutError")

(* r's run saved its state, which started from base. *)
Wrote(r, base) ==
    /\ ckpt' = [ckpt EXCEPT ![thread[r]] = state'[r]]
    /\ node'[r] \in GraphNode \cup {"END"}
    /\ MayWrite(r)
    /\ phase' = phase
    /\ \A q \in Requests \ {r} : state'[q] = state[q] /\ node'[q] = node[q]
    /\ Extends(base, state'[r])

(* Some run saves, its input or the result of a node.                      *)
WriteStep ==
    \E r \in Requests :
        \/ node[r] = "start" /\ Wrote(r, ckpt[thread[r]])
        \/ node[r] \in GraphNode /\ Wrote(r, state[r])

(* A Save is a write of a run in progress.                                 *)
LEMMA SaveWrites ==
    ASSUME IInv, NEW r \in Requests, NEW s, NEW n, NEW base, Save(r, s, n),
           n \in GraphNode \cup {"END"}, UNCHANGED stream,
           MayWrite(r),
           Extends(base, state'[r])
    PROVE  Wrote(r, base)
BY DEF IInv, TypeOK, Save, Wrote, stream

(* Each action of the graph that saves is a write step.                    *)
LEMMA SaveStepWrites ==
    ASSUME IInv, NEW p \in Requests,
           \/ StartRun(p) \/ GuardInputReturns(p) \/ AgentReturns(p)
           \/ ToolsReturn(p) \/ BudgetExceededReturns(p)
    PROVE  WriteStep
<1>1. ASSUME NEW r \in Requests, StartRun(r) PROVE WriteStep
  <2>1. Wrote(r, ckpt[thread[r]])
    BY <1>1, StartRunKeeps, SaveWrites DEF StartRun, GraphNode, MayWrite, Over
  <2> QED
    BY <1>1, <2>1 DEF StartRun, WriteStep
<1>2. ASSUME NEW r \in Requests, NEW n \in GraphNode, NEW s, NEW k,
             Returns(r, n), Save(r, s, k), k \in GraphNode \cup {"END"},
             Extends(state[r], state'[r])
      PROVE  WriteStep
  <2>1. MayWrite(r)
    BY <1>2, ReturnsFacts DEF MayWrite, RunOK, TypeOK, Active
  <2>2. Wrote(r, state[r])
    BY <1>2, <2>1, SaveWrites DEF Returns
  <2> QED
    BY <1>2, <2>2 DEF Returns, WriteStep
<1>3. ASSUME NEW r \in Requests,
             \/ GuardInputReturns(r) \/ AgentReturns(r)
             \/ ToolsReturn(r) \/ BudgetExceededReturns(r)
      PROVE  WriteStep
  <2>1. Extends(state[r], state'[r])
    BY <1>3, GuardInputKeeps, AgentKeeps, ToolsKeep, BudgetExceededKeeps
  <2>2. \E n \in GraphNode, k \in GraphNode \cup {"END"} : \E s :
            Returns(r, n) /\ Save(r, s, k)
    BY <1>3
      DEF GuardInputReturns, AgentReturns, ToolsReturn, BudgetExceededReturns,
          RouteAfterGuardInput, RouteAfterAgent, GraphNode
  <2> QED
    BY <1>2, <2>1, <2>2
<1> QED
  BY <1>1, <1>3

(* Nothing but a write step changes the checkpointer.                      *)
LEMMA StepWrites ==
    ASSUME IInv, [Next]_vars PROVE ckpt' = ckpt \/ WriteStep
<1>4. ASSUME NEW r \in Requests, BeginJob(r) \/ RunFails(r) \/ ZombieReturns(r)
      PROVE  ckpt' = ckpt
  BY <1>4 DEF BeginJob, RunFails, ZombieReturns
<1>5. ASSUME NEW r \in Requests, Generator(r) \/ Client(r) PROVE ckpt' = ckpt
  BY <1>5
    DEF Generator, Client, Accept, Token, ClientTakes, Abandon, StreamEnds, ReadState,
        ReadStateFails, ReportFailure, Expire, Timeout, LoopTimesOut, Disconnect, Finalize
<1>6. CASE UNCHANGED vars
  BY <1>6 DEF vars
<1> QED
  BY SaveStepWrites, <1>4, <1>5, <1>6 DEF Next, Graph, Quiescent

-----------------------------------------------------------------------------
(* The state of every request, run and thread has its type.                *)
THEOREM TypeCorrect == Spec => []TypeOK
<1>1. IInv => TypeOK
  BY DEF IInv
<1> QED
  BY <1>1, InductiveInvariant, PTL

(* The history of a thread is well-formed whatever overlaps or is cut short.*)
THEOREM TranscriptsAreWellFormed == Spec => []TranscriptWellFormed
<1>1. IInv => TranscriptWellFormed
  BY DEF IInv, Good, TranscriptWellFormed
<1> QED
  BY <1>1, InductiveInvariant, PTL

(* No run reaches LangGraph's recursion limit: the tool budget ends it     *)
(* first.                                                                  *)
THEOREM BudgetComesFirst == Spec => []NeverOutOfSteps
<1>1. IInv => NeverOutOfSteps
  <2> SUFFICES ASSUME IInv, NEW r \in Requests PROVE step[r] < RecursionLimit
    BY DEF NeverOutOfSteps
  <2>1. step[r] \in Nat /\ step[r] <= 2 * MAX_TOOL_ROUNDS + 3
    BY DEF IInv, TypeOK, RunOK
  <2> QED
    BY <2>1, RecursionAssumption, MaxRoundsAssumption
<1> QED
  BY <1>1, InductiveInvariant, PTL

(* A refused message never reaches the agent, the tools or the budget.     *)
THEOREM BlockedNeverRuns == Spec => []BlockedIsRefused
<1>1. IInv => BlockedIsRefused
  <2> SUFFICES ASSUME IInv, NEW r \in Requests, input[r] = "blocked"
               PROVE  /\ node[r] \notin {"agent", "tools", "budget_exceeded"}
                      /\ \A t \in Threads : \A i \in DOMAIN ckpt[t].messages :
                            ckpt[t].messages[i].req = r =>
                                ckpt[t].messages[i].kind \in {"human", "refusal"}
    BY DEF BlockedIsRefused
  <2>1. node[r] \notin {"agent", "tools", "budget_exceeded"}
    BY DEF IInv, RunOK
  <2>2. ASSUME NEW t \in Threads, NEW i \in DOMAIN ckpt[t].messages,
               ckpt[t].messages[i].req = r
        PROVE  ckpt[t].messages[i].kind \in {"human", "refusal"}
    <3>1. Refused(ckpt[t], input)
      BY DEF IInv, Good
    <3> QED
      BY <2>2, <3>1 DEF Refused
  <2> QED
    BY <2>1, <2>2
<1> QED
  BY <1>1, InductiveInvariant, PTL

(* A run that is over, and a run whose stream has ended otherwise than by  *)
(* the deadline passing at the top of the loop, saves nothing more.        *)
THEOREM EndedStreamsAreSilent == Spec => NoWriteAfterEnd
<1> DEFINE Silent(q) == /\ node[q] \notin Over
                        /\ phase[q] = "ended" => event[q] = ErrorEvent("TimeoutError")
<1>1. IInv /\ IInv' /\ [Next]_vars =>
        [\A t \in Threads : ckpt'[t] # ckpt[t] => Silent(Latest(ckpt'[t]).req)]_vars
  <2> SUFFICES ASSUME IInv, IInv', [Next]_vars,
                      NEW t \in Threads, ckpt'[t] # ckpt[t]
               PROVE  Silent(Latest(ckpt'[t]).req)
    OBVIOUS
  <2>0. PICK r \in Requests : \E base : Wrote(r, base)
    BY StepWrites DEF WriteStep
  <2>1. PICK base : Wrote(r, base)
    BY <2>0
  <2>2. ckpt'[t] = state'[r]
    BY <2>1 DEF Wrote, IInv, TypeOK
  <2>3. Latest(state'[r]).req = r
    BY <2>1 DEF Wrote, IInv, RunOK, Position, Latest
  <2> QED
    BY <2>1, <2>2, <2>3 DEF Wrote, MayWrite
<1> QED
  BY <1>1, InductiveInvariant, PTL DEF Spec, NoWriteAfterEnd

-----------------------------------------------------------------------------
(* What holds besides when the requests of a thread do not overlap: one in  *)
(* progress owns its thread, and the checkpoint is its run's own state.     *)

Owns(r) ==
    InProgress(r) =>
        /\ \A q \in Requests \ {r} : thread[q] = thread[r] => ~InProgress(q)
        /\ node[r] \in GraphNode \cup {"END"} => state[r] = ckpt[thread[r]]

(* The strengthening of the invariant without overlap.                     *)
SeqInv == \A r \in Requests : Owns(r)

(* It holds initially.                                                     *)
LEMMA InitSeqInv == Init => SeqInv
BY DEF Init, SeqInv, Owns, InProgress, Active

(* Every step keeps it: a request is accepted only on a thread nobody      *)
(* owns.                                                                   *)
LEMMA NextSeqInv ==
    ASSUME ~Overlap, IInv, IInv', SeqInv, [Next]_vars PROVE SeqInv'
<1>0. TypeOK /\ thread' = thread
  <2>1. TypeOK
    BY DEF IInv
  <2>2. ASSUME NEW r \in Requests, Graph(r) PROVE thread' = thread
    BY <2>2
      DEF Graph, StartRun, BeginJob, RunFails, ZombieReturns,
          GuardInputReturns, AgentReturns, ToolsReturn,
          BudgetExceededReturns, Returns, args
  <2>3. ASSUME NEW r \in Requests, Generator(r) \/ Client(r) PROVE thread' = thread
    BY <2>3
      DEF Generator, Client, Accept, Token, ClientTakes, Abandon, StreamEnds, ReadState,
          ReadStateFails, ReportFailure, Expire, Timeout, LoopTimesOut, Disconnect, Finalize, args
  <2> QED
    BY <2>1, <2>2, <2>3 DEF Next, Quiescent, vars, args
<1>1. CASE WriteStep
  <2>0. PICK r \in Requests : \E base : Wrote(r, base)
    BY <1>1 DEF WriteStep
  <2>1. PICK base : Wrote(r, base)
    BY <2>0
  <2>2. /\ InProgress(r) /\ phase' = phase
        /\ ckpt'[thread[r]] = state'[r]
        /\ \A t \in Threads \ {thread[r]} : ckpt'[t] = ckpt[t]
    BY <1>0, <2>1 DEF Wrote, MayWrite, InProgress, Active, TypeOK
  <2>5. \A q \in Requests \ {r} : InProgress(q)' <=> InProgress(q)
    BY <2>1, <2>2 DEF Wrote, InProgress
  <2>3. Owns(r)'
    BY <1>0, <2>2, <2>5 DEF SeqInv, Owns
  <2>4. ASSUME NEW q \in Requests \ {r} PROVE Owns(q)'
    <3>1. state'[q] = state[q] /\ node'[q] = node[q]
      BY <2>1 DEF Wrote
    <3>2. InProgress(q) => thread[q] # thread[r]
      BY <2>2 DEF SeqInv, Owns
    <3>3. InProgress(q) => ckpt'[thread[q]] = ckpt[thread[q]]
      BY <1>0, <2>2, <3>2 DEF TypeOK
    <3> QED
      BY <1>0, <2>2, <2>5, <3>1, <3>2, <3>3 DEF SeqInv, Owns
  <2> QED
    BY <2>3, <2>4 DEF SeqInv
<1>2. ASSUME NEW r \in Requests, Accept(r) PROVE SeqInv'
  <2>1. /\ ckpt' = ckpt /\ state' = state /\ node' = node
        /\ \A q \in Requests : thread[q] = thread[r] => ~InProgress(q)
        /\ \A q \in Requests \ {r} : phase'[q] = phase[q]
    BY <1>0, <1>2 DEF Accept, run, TypeOK
  <2>2. node[r] = "start"
    BY <1>2 DEF Accept, IInv, RunOK
  <2>3. Owns(r)'
    BY <1>0, <2>1, <2>2 DEF Owns, InProgress, GraphNode
  <2>4. ASSUME NEW q \in Requests \ {r} PROVE Owns(q)'
    BY <1>0, <2>1 DEF SeqInv, Owns, InProgress
  <2> QED
    BY <2>3, <2>4 DEF SeqInv
<1>3. ASSUME ckpt' = ckpt, state' = state,
             \A q \in Requests : InProgress(q)' => InProgress(q),
             \A q \in Requests :
                 node'[q] = node[q] \/ node'[q] \in {"raised", "cancelled"}
      PROVE  SeqInv'
  BY <1>0, <1>3 DEF SeqInv, Owns, GraphNode
<1>4. ASSUME NEW r \in Requests, Timeout(r) \/ Disconnect(r) \/ Finalize(r)
      PROVE  SeqInv'
  <2>1. /\ ckpt' = ckpt /\ state' = state /\ Cancel(r)
        /\ phase' = [phase EXCEPT ![r] = "ended"]
    BY <1>4 DEF Timeout, Disconnect, Finalize, Finish
  <2>2. \A q \in Requests : InProgress(q)' => InProgress(q)
    BY <1>0, <2>1, CancelEffect DEF InProgress, TypeOK, Active
  <2> QED
    BY <1>3, <2>1, <2>2, CancelEffect
<1>5. ASSUME NEW r \in Requests,
             BeginJob(r) \/ RunFails(r) \/ ZombieReturns(r)
      PROVE  SeqInv'
  <2>1. /\ ckpt' = ckpt /\ state' = state /\ phase' = phase
        /\ \A q \in Requests : node'[q] = node[q] \/ node'[q] = "raised"
    BY <1>0, <1>5 DEF BeginJob, RunFails, ZombieReturns, TypeOK, stream
  <2> QED
    BY <1>3, <2>1 DEF InProgress, Over
<1>6. ASSUME NEW r \in Requests,
             \/ Token(r) \/ ClientTakes(r) \/ Abandon(r) \/ StreamEnds(r)
             \/ ReadState(r) \/ ReadStateFails(r) \/ ReportFailure(r)
             \/ Expire(r) \/ LoopTimesOut(r)
      PROVE  SeqInv'
  <2>1. ckpt' = ckpt /\ state' = state /\ node' = node
    BY <1>6
      DEF Token, ClientTakes, Abandon, StreamEnds, ReadState, ReadStateFails,
          ReportFailure, Expire, LoopTimesOut, run
  <2>2. \A q \in Requests \ {r} : phase'[q] = phase[q]
    BY <1>0, <1>6
      DEF Token, ClientTakes, Abandon, StreamEnds, ReadState, ReadStateFails,
          ReportFailure, Expire, LoopTimesOut, Finish, TypeOK
  <2>3. phase[r] \in Active
    BY <1>6
      DEF Token, ClientTakes, Abandon, StreamEnds, ReadState, ReadStateFails,
          ReportFailure, Expire, LoopTimesOut, Active
  <2>4. \A q \in Requests : InProgress(q)' => InProgress(q)
    BY <2>1, <2>2, <2>3 DEF InProgress
  <2> QED
    BY <1>3, <2>1, <2>4
<1>7. CASE UNCHANGED vars
  <2>1. /\ ckpt' = ckpt /\ state' = state /\ node' = node /\ phase' = phase
    BY <1>7 DEF vars, run, stream
  <2> QED
    BY <1>3, <2>1 DEF InProgress
<1>8. ASSUME NEW r \in Requests,
             \/ StartRun(r) \/ GuardInputReturns(r) \/ AgentReturns(r)
             \/ ToolsReturn(r) \/ BudgetExceededReturns(r)
      PROVE  WriteStep
  BY <1>8, SaveStepWrites
<1> QED
  BY <1>1, <1>2, <1>4, <1>5, <1>6, <1>7, <1>8
    DEF Next, Graph, Generator, Client, Quiescent

(* Both invariants hold in every reachable state.                          *)
LEMMA SequentialInvariant == ASSUME ~Overlap PROVE Spec => [](IInv /\ SeqInv)
<1>1. Init => IInv /\ SeqInv
  BY InitIInv, InitSeqInv
<1>2. (IInv /\ SeqInv) /\ [Next]_vars => (IInv /\ SeqInv)'
  BY NextIInv, NextSeqInv
<1> QED
  BY <1>1, <1>2, PTL DEF Spec

-----------------------------------------------------------------------------
(* The saved history is an append-only log. *)

LogState == [t \in Threads |-> ckpt[t].messages]

(* A message that ends a well-formed history had its place there. *)
LEMMA LastFits ==
    ASSUME NEW q \in Seq(Message), NEW m \in Message,
           Log!WellFormed(Append(q, m))
    PROVE  IF q = <<>> THEN m.kind = "human"
                       ELSE Log!MayFollow(q[Len(q)], m)
<1> DEFINE p == Append(q, m)
           n == Len(q)
<1>1. /\ n \in Nat /\ Len(p) = n + 1 /\ p[n + 1] = m /\ p # <<>>
      /\ \A i \in 1..n : p[i] = q[i]
  OBVIOUS
<1>2. CASE n = 0
  <2>1. q = <<>>
    BY <1>2
  <2> QED
    BY <1>1, <1>2, <2>1 DEF Log!WellFormed
<1>3. CASE n > 0
  <2>1. n \in 1..(Len(p) - 1) /\ p[n] = q[n] /\ q # <<>>
    BY <1>1, <1>3
  <2>2. Log!MayFollow(p[n], p[n + 1])
    BY <2>1 DEF Log!WellFormed
  <2> QED
    BY <1>1, <2>1, <2>2
<1> QED
  BY <1>1, <1>2, <1>3

(* Every step adds at most one message, in its place, to one thread's log. *)
LEMMA StepLogs ==
    ASSUME IInv, IInv', SeqInv, [Next]_vars
    PROVE  Log!Next \/ LogState' = LogState
<1>1. CASE ckpt' = ckpt
  BY <1>1 DEF LogState
<1>2. CASE WriteStep
  <2>0. PICK r \in Requests :
            \/ node[r] = "start" /\ Wrote(r, ckpt[thread[r]])
            \/ node[r] \in GraphNode /\ Wrote(r, state[r])
    BY <1>2 DEF WriteStep
  <2> DEFINE t == thread[r]
             q == ckpt[t].messages
             p == ckpt'[t].messages
  <2>1. MayWrite(r) /\ ckpt' = [ckpt EXCEPT ![t] = state'[r]]
    BY <2>0 DEF Wrote
  <2>2. t \in Threads /\ ckpt \in [Threads -> AgentState] /\ q \in Seq(Message)
    BY DEF IInv, TypeOK, AgentState
  <2>3. Wrote(r, ckpt[t])
    BY <2>0, <2>1 DEF SeqInv, Owns, MayWrite, InProgress, Active
  <2>4. ckpt'[t] = state'[r]
    BY <2>1, <2>2
  <2>5. Log!WellFormed(p)
    BY <2>2, <2>4 DEF IInv, RunOK, Good
  <2>6. CASE p = q
    BY <2>1, <2>2, <2>4, <2>6 DEF LogState
  <2>7. CASE p # q
    <3>1. PICK m \in Message : p = Append(q, m)
      BY <2>3, <2>4, <2>7 DEF Wrote, Extends
    <3>2. IF q = <<>> THEN m.kind = "human" ELSE Log!MayFollow(q[Len(q)], m)
      BY <2>2, <2>5, <3>1, LastFits
    <3>3. LogState' = [LogState EXCEPT ![t] = Append(q, m)]
      BY <2>1, <2>2, <2>4, <3>1 DEF LogState
    <3>4. LogState[t] = q
      BY <2>2 DEF LogState
    <3>5. Log!Say(t, m)
      BY <3>2, <3>3, <3>4 DEF Log!Say, LogState
    <3>6. m \in Log!Message
      BY DEF Message, Kind, Log!Message, Log!Kind
    <3> QED
      BY <2>2, <3>5, <3>6 DEF Log!Next
  <2> QED
    BY <2>6, <2>7
<1> QED
  BY <1>1, <1>2, StepWrites

(* When the requests of a thread do not overlap, its saved history is an   *)
(* append-only log: no message is lost, rewritten or out of place.         *)
THEOREM SequentialLog == ASSUME ~Overlap PROVE Spec => ImplementsLog
<1>1. Init => Log!Init
  BY DEF Init, EmptyState, Log!Init
<1>2. (IInv /\ SeqInv) /\ (IInv /\ SeqInv)' /\ [Next]_vars
        => [Log!Next]_LogState
  BY StepLogs
<1> QED
  BY <1>1, <1>2, SequentialInvariant, PTL
    DEF Spec, ImplementsLog, Log!Spec, LogState

-----------------------------------------------------------------------------
(* The done event. *)

DoneInv ==
    \A r \in Requests :
        event[r].type = "done" =>
            event[r].content.req = r /\ event[r].content.kind \in FinalKind

(* The text read from a state whose last message is the AI's is that one.  *)
LEMMA ExtractsLatest ==
    ASSUME NEW s \in AgentState, s.messages # <<>>, Latest(s).kind \in FinalKind
    PROVE  ExtractFinalText(s) = Latest(s)
<1> DEFINE n == Len(s.messages)
<1>1. /\ s.messages \in Seq(Message) /\ n \in Nat \ {0}
      /\ DOMAIN s.messages = 1..n
  BY DEF AgentState
<1>2. n \in AIMessages(s) /\ \A j \in AIMessages(s) : j \in Nat /\ j <= n
  BY <1>1 DEF AIMessages, Latest, FinalKind
<1>3. (CHOOSE i \in AIMessages(s) : \A j \in AIMessages(s) : j <= i) = n
  BY <1>1, <1>2
<1> QED
  BY <1>2, <1>3 DEF ExtractFinalText, Latest

(* A final read finds the answer of its own turn.                          *)
LEMMA NextDoneInv ==
    ASSUME IInv, SeqInv, DoneInv, [Next]_vars PROVE DoneInv'
<1>1. ASSUME NEW r \in Requests, ReadState(r) PROVE DoneInv'
  <2>1. /\ phase[r] = "reading"
        /\ event' = [event EXCEPT ![r] = Done(ExtractFinalText(ckpt[thread[r]]))]
    BY <1>1 DEF ReadState, Finish
  <2>2. /\ node[r] = "END" /\ state[r] \in AgentState
        /\ state[r].messages # <<>>
        /\ Latest(state[r]).req = r /\ Latest(state[r]).kind \in FinalKind
    BY <2>1 DEF IInv, TypeOK, RunOK, Position
  <2>3. state[r] = ckpt[thread[r]]
    BY <2>1, <2>2 DEF SeqInv, Owns, InProgress, Active
  <2>4. ExtractFinalText(ckpt[thread[r]]) = Latest(state[r])
    BY <2>2, <2>3, ExtractsLatest
  <2>5. ASSUME NEW q \in Requests, event'[q].type = "done"
        PROVE  event'[q].content.req = q /\ event'[q].content.kind \in FinalKind
    BY <2>1, <2>2, <2>4, <2>5 DEF DoneInv, Done, IInv, TypeOK
  <2> QED
    BY <2>5 DEF DoneInv
<1>2. ASSUME NEW r \in Requests, NEW e, event' = [event EXCEPT ![r] = ErrorEvent(e)]
      PROVE  DoneInv'
  BY <1>2 DEF DoneInv, ErrorEvent, IInv, TypeOK
<1>3. CASE event' = event
  BY <1>3 DEF DoneInv
<1>4. ASSUME NEW r \in Requests, Graph(r) PROVE event' = event
  BY <1>4
    DEF Graph, StartRun, BeginJob, RunFails, ZombieReturns,
        GuardInputReturns, AgentReturns, ToolsReturn,
        BudgetExceededReturns, Returns, stream
<1>5. ASSUME NEW r \in Requests, Generator(r) PROVE DoneInv'
  <2>1. CASE ReadStateFails(r) \/ ReportFailure(r) \/ Timeout(r) \/ LoopTimesOut(r)
    BY <1>2, <2>1 DEF ReadStateFails, ReportFailure, Timeout, LoopTimesOut, Finish
  <2>2. CASE Token(r) \/ StreamEnds(r) \/ Expire(r) \/ Finalize(r)
    BY <1>3, <2>2 DEF Token, StreamEnds, Expire, Finalize
  <2> QED
    BY <1>1, <1>5, <2>1, <2>2 DEF Generator
<1>6. ASSUME NEW r \in Requests, Client(r) PROVE event' = event
  BY <1>6 DEF Client, Accept, ClientTakes, Disconnect, Abandon
<1> QED
  BY <1>3, <1>4, <1>5, <1>6 DEF Next, Quiescent, vars, stream

(* When the requests of a thread do not overlap, a done event carries the  *)
(* final answer of its own turn.                                           *)
THEOREM DoneIsTheAnswer == ASSUME ~Overlap PROVE Spec => []DoneIsOwnAnswer
<1>1. Init => DoneInv
  BY DEF Init, DoneInv, NoEvent
<1>2. (IInv /\ SeqInv) /\ DoneInv /\ [Next]_vars => DoneInv'
  BY NextDoneInv
<1>3. DoneInv => DoneIsOwnAnswer
  BY DEF DoneInv, DoneIsOwnAnswer, FinalKind
<1> QED
  BY <1>1, <1>2, <1>3, SequentialInvariant, PTL DEF Spec

-----------------------------------------------------------------------------
(* Who is told that the assistant is unavailable. *)

(* s holds a final answer of r's turn. *)
AnswerIn(s, r) ==
    \E i \in DOMAIN s.messages :
        s.messages[i].req = r /\ s.messages[i].kind \in FinalKind

Unavailable(e) == e.type = "error" /\ e.message = "_CASCADE_EXHAUSTED_MESSAGE"

(* A turn is answered by the step that ends its run, and a stream tells    *)
(* that the assistant is unavailable when its run has raised; neither is   *)
(* ever undone.                                                            *)
RetryInv ==
    \A r \in Requests :
        /\ (\E q \in Requests : AnswerIn(state[q], r)) => node[r] = "END"
        /\ (\E t \in Threads : AnswerIn(ckpt[t], r)) => node[r] = "END"
        /\ Unavailable(event[r]) => node[r] = "raised"

(* A run that has ended or raised stays so.                                *)
LEMMA OutcomeStays ==
    ASSUME IInv, [Next]_vars, NEW q \in Requests, node[q] \in {"END", "raised"}
    PROVE  node'[q] = node[q]
<1>1. TypeOK /\ RunOK(q)
  BY DEF IInv
<1>2. ASSUME NEW r \in Requests, NEW s, NEW n, Save(r, s, n),
             node[r] \notin {"END", "raised"}
      PROVE  node'[q] = node[q]
  BY <1>1, <1>2 DEF Save, TypeOK
<1>3. ASSUME NEW r \in Requests, StartRun(r) PROVE node'[q] = node[q]
  BY <1>2, <1>3 DEF StartRun
<1>4. ASSUME NEW r \in Requests,
             \/ GuardInputReturns(r) \/ AgentReturns(r)
             \/ ToolsReturn(r) \/ BudgetExceededReturns(r)
      PROVE  node'[q] = node[q]
  BY <1>2, <1>4
    DEF GuardInputReturns, AgentReturns, ToolsReturn, BudgetExceededReturns, Returns
<1>5. ASSUME NEW r \in Requests, BeginJob(r) \/ RunFails(r) \/ ZombieReturns(r)
      PROVE  node'[q] = node[q]
  BY <1>1, <1>5 DEF BeginJob, RunFails, ZombieReturns, RunOK, GraphNode, TypeOK
<1>6. ASSUME NEW r \in Requests, Cancel(r) PROVE node'[q] = node[q]
  BY <1>1, <1>6 DEF Cancel, Over, TypeOK
<1>7. ASSUME NEW r \in Requests, Generator(r) \/ Client(r) PROVE node'[q] = node[q]
  BY <1>6, <1>7
    DEF Generator, Client, Accept, Token, ClientTakes, Abandon, StreamEnds, ReadState,
        ReadStateFails, ReportFailure, Expire, Timeout, LoopTimesOut, Disconnect, Finalize, run
<1>8. CASE UNCHANGED vars
  BY <1>8 DEF vars, run
<1> QED
  BY <1>3, <1>4, <1>5, <1>7, <1>8 DEF Next, Graph, Quiescent

(* Nothing but a write step changes a state, saved or being worked on.     *)
LEMMA StepStates ==
    ASSUME IInv, [Next]_vars PROVE (ckpt' = ckpt /\ state' = state) \/ WriteStep
<1>1. ASSUME NEW r \in Requests, BeginJob(r) \/ RunFails(r) \/ ZombieReturns(r)
      PROVE  ckpt' = ckpt /\ state' = state
  BY <1>1 DEF BeginJob, RunFails, ZombieReturns
<1>2. ASSUME NEW r \in Requests, Generator(r) \/ Client(r)
      PROVE  ckpt' = ckpt /\ state' = state
  BY <1>2
    DEF Generator, Client, Accept, Token, ClientTakes, Abandon, StreamEnds, ReadState,
        ReadStateFails, ReportFailure, Expire, Timeout, LoopTimesOut, Disconnect, Finalize, run
<1>3. CASE UNCHANGED vars
  BY <1>3 DEF vars, run
<1> QED
  BY SaveStepWrites, <1>1, <1>2, <1>3 DEF Next, Graph, Quiescent

(* A written state holds a new final answer only if its run has ended.     *)
LEMMA WroteAnswer ==
    ASSUME IInv, IInv', NEW p \in Requests, NEW base, Wrote(p, base),
           base.messages \in Seq(Message), NEW r \in Requests, AnswerIn(state'[p], r)
    PROVE  AnswerIn(base, r) \/ (r = p /\ node'[p] = "END")
<1>1. CASE state'[p].messages = base.messages
  BY <1>1 DEF AnswerIn
<1>2. ASSUME NEW m \in Message, state'[p].messages = Append(base.messages, m)
      PROVE  AnswerIn(base, r) \/ (r = p /\ node'[p] = "END")
  <2>1. Latest(state'[p]) = m
    BY <1>2 DEF Latest
  <2>2. m.req = p /\ (m.kind \in FinalKind => node'[p] = "END")
    BY <2>1 DEF Wrote, IInv, RunOK, Position, FinalKind, GraphNode
  <2>3. \A i \in DOMAIN state'[p].messages :
            \/ i \in DOMAIN base.messages /\ state'[p].messages[i] = base.messages[i]
            \/ state'[p].messages[i] = m
    BY <1>2
  <2> QED
    BY <2>2, <2>3 DEF AnswerIn
<1> QED
  BY <1>1, <1>2 DEF Wrote, Extends

(* What becomes of the events.                                             *)
LEMMA EventSteps ==
    ASSUME IInv, [Next]_vars, NEW q \in Requests, Unavailable(event'[q])
    PROVE  Unavailable(event[q]) \/ node[q] = "raised"
<1>1. event' = event \/ \E r \in Requests :
          \/ Timeout(r) \/ LoopTimesOut(r) \/ ReportFailure(r)
          \/ ReadState(r) \/ ReadStateFails(r)
  <2>1. ASSUME NEW r \in Requests, Graph(r) PROVE event' = event
    BY <2>1
      DEF Graph, StartRun, BeginJob, RunFails, ZombieReturns, GuardInputReturns,
          AgentReturns, ToolsReturn, BudgetExceededReturns, Returns, stream
  <2>2. ASSUME NEW r \in Requests,
               \/ Token(r) \/ StreamEnds(r) \/ Expire(r) \/ Finalize(r) \/ Client(r)
        PROVE  event' = event
    BY <2>2
      DEF Token, StreamEnds, Expire, Finalize, Client, Accept, ClientTakes,
          Disconnect, Abandon
  <2> QED
    BY <2>1, <2>2 DEF Next, Generator, Quiescent, vars, stream
<1>2. event = [r \in Requests |-> event[r]]
  BY DEF IInv, TypeOK
<1>3. ASSUME NEW r \in Requests, Timeout(r) \/ LoopTimesOut(r) \/ ReadStateFails(r)
      PROVE  Unavailable(event[q]) \/ node[q] = "raised"
  <2>1. PICK e \in {"TimeoutError", "other"} : event' = [event EXCEPT ![r] = ErrorEvent(e)]
    BY <1>3 DEF Timeout, LoopTimesOut, ReadStateFails, Finish
  <2>2. ~Unavailable(ErrorEvent(e))
    BY DEF ErrorEvent, ClassifyError, Unavailable
  <2> QED
    BY <1>2, <2>1, <2>2
<1>4. ASSUME NEW r \in Requests, ReportFailure(r) \/ ReadState(r)
      PROVE  Unavailable(event[q]) \/ node[q] = "raised"
  BY <1>2, <1>4 DEF ReportFailure, ReadState, Finish, Done, Unavailable
<1> QED
  BY <1>1, <1>3, <1>4

LEMMA NextRetryInv ==
    ASSUME IInv, IInv', RetryInv, [Next]_vars PROVE RetryInv'
<1> SUFFICES ASSUME NEW r \in Requests
             PROVE  /\ (\E q \in Requests : AnswerIn(state'[q], r)) => node'[r] = "END"
                    /\ (\E t \in Threads : AnswerIn(ckpt'[t], r)) => node'[r] = "END"
                    /\ Unavailable(event'[r]) => node'[r] = "raised"
  BY DEF RetryInv, AnswerIn
<1>1. node[r] \in {"END", "raised"} => node'[r] = node[r]
  BY OutcomeStays
<1>2. Unavailable(event'[r]) => node'[r] = "raised"
  BY <1>1, EventSteps DEF RetryInv
<1>3. CASE ckpt' = ckpt /\ state' = state
  BY <1>1, <1>2, <1>3 DEF RetryInv
<1>4. CASE WriteStep
  <2>1. PICK p \in Requests :
            \/ node[p] = "start" /\ Wrote(p, ckpt[thread[p]])
            \/ node[p] \in GraphNode /\ Wrote(p, state[p])
    BY <1>4 DEF WriteStep
  <2>2. /\ ckpt' = [ckpt EXCEPT ![thread[p]] = state'[p]]
        /\ \A q \in Requests \ {p} : state'[q] = state[q]
    BY <2>1 DEF Wrote
  <2>3. /\ thread[p] \in Threads /\ ckpt[thread[p]].messages \in Seq(Message)
        /\ state[p].messages \in Seq(Message)
    BY DEF IInv, TypeOK, AgentState
  <2>4. AnswerIn(state'[p], r) => node'[r] = "END"
    <3>1. CASE Wrote(p, ckpt[thread[p]])
      BY <1>1, <2>3, <3>1, WroteAnswer DEF RetryInv
    <3>2. CASE Wrote(p, state[p])
      BY <1>1, <2>3, <3>2, WroteAnswer DEF RetryInv
    <3> QED
      BY <2>1, <3>1, <3>2
  <2>5. \A t \in Threads : ckpt'[t] = ckpt[t] \/ ckpt'[t] = state'[p]
    BY <2>2 DEF IInv, TypeOK
  <2> QED
    BY <1>1, <1>2, <2>2, <2>4, <2>5 DEF RetryInv
<1> QED
  BY <1>3, <1>4, StepStates

(* No stream tells its client that the assistant is unavailable when the   *)
(* thread has an answer to the turn, overlapping requests included.        *)
THEOREM RetriesAreUnanswered == Spec => []RetryMeansNoAnswer
<1>1. Init => RetryInv
  <2>1. DOMAIN EmptyState.messages = {}
    BY DEF EmptyState
  <2>2. \A r \in Requests : ~AnswerIn(EmptyState, r)
    BY <2>1 DEF AnswerIn
  <2>3. ~Unavailable(NoEvent)
    BY DEF Unavailable, NoEvent
  <2>4. Init => /\ \A r \in Requests : state[r] = EmptyState /\ event[r] = NoEvent
                /\ \A t \in Threads : ckpt[t] = EmptyState
    BY DEF Init
  <2> QED
    BY <2>2, <2>3, <2>4 DEF RetryInv
<1>2. RetryInv => RetryMeansNoAnswer
  BY DEF RetryInv, RetryMeansNoAnswer, AnswerIn, Unavailable, FinalKind
<1> QED
  BY <1>1, <1>2, NextRetryInv, InductiveInvariant, PTL DEF Spec

-----------------------------------------------------------------------------
(* Who has used the tool budget. *)

(* s holds a tool result of r's turn. *)
HasTool(s, r) ==
    \E i \in DOMAIN s.messages : s.messages[i].req = r /\ s.messages[i].kind = "tool"

(* tool_rounds counts from 0: without a tool result there was no round.    *)
CountsFromZero(s) == (\A q \in Requests : ~HasTool(s, q)) => s.tool_rounds = 0

(* A run that is the only user of tools in its state has made every round  *)
(* that is counted there; a run that has not started has used none.        *)
RoundsInv ==
    /\ \A q \in Requests : CountsFromZero(state[q])
    /\ \A t \in Threads : CountsFromZero(ckpt[t])
    /\ \A r \in Requests :
          /\ (\A q \in Requests \ {r} : ~HasTool(state[r], q))
                => state[r].tool_rounds = own[r]
          /\ node[r] = "start" =>
                /\ \A q \in Requests : ~HasTool(state[q], r)
                /\ \A t \in Threads : ~HasTool(ckpt[t], r)

(* The round a write counts is the one whose tool result it saves.         *)
Counted(r, base) ==
    /\ \A q \in Requests \ {r} :
          own'[q] = own[q] /\ (HasTool(state'[r], q) <=> HasTool(base, q))
    /\ \/ /\ state'[r].tool_rounds = base.tool_rounds /\ own'[r] = own[r]
          /\ HasTool(state'[r], r) <=> HasTool(base, r)
       \/ /\ state'[r].tool_rounds = base.tool_rounds + 1 /\ own'[r] = own[r] + 1
          /\ HasTool(state'[r], r)

(* A message more is a tool result more, or not.                           *)
LEMMA AddsTool ==
    ASSUME NEW s, s.messages \in Seq(Message), NEW a, NEW r \in Requests,
           NEW kind \in Kind, Adds(s, a, Msg(kind, r)), NEW q
    PROVE  HasTool(a, q) <=> HasTool(s, q) \/ (q = r /\ kind = "tool")
<1> DEFINE m == Msg(kind, r)
           t == s.messages
<1>1. m \in Message /\ m.kind = kind /\ m.req = r
  BY DEF Msg, Message
<1>2. a.messages = Append(t, m) /\ t \in Seq(Message)
  BY DEF Adds
<1> HIDE DEF m, t
<1>3. /\ Len(t) \in Nat /\ DOMAIN t = 1..Len(t)
      /\ DOMAIN Append(t, m) = 1..(Len(t) + 1)
      /\ Append(t, m)[Len(t) + 1] = m
      /\ \A i \in 1..Len(t) : Append(t, m)[i] = t[i]
  BY <1>1, <1>2
<1>4. /\ \A i \in DOMAIN t : i \in DOMAIN a.messages /\ a.messages[i] = t[i]
      /\ \A i \in DOMAIN a.messages :
            a.messages[i] = m \/ (i \in DOMAIN t /\ a.messages[i] = t[i])
      /\ \E i \in DOMAIN a.messages : a.messages[i] = m
  BY <1>2, <1>3
<1> QED
  BY <1>1, <1>4 DEF HasTool, t

(* Each action that saves counts the round it saves.                       *)
LEMMA SaveCounts ==
    ASSUME IInv, NEW r \in Requests,
           \/ StartRun(r) \/ GuardInputReturns(r) \/ AgentReturns(r)
           \/ ToolsReturn(r) \/ BudgetExceededReturns(r)
    PROVE  Counted(r, IF node[r] = "start" THEN ckpt[thread[r]] ELSE state[r])
<1>1. TypeOK /\ RunOK(r) /\ Good(state[r], input)
      /\ thread[r] \in Threads /\ Good(ckpt[thread[r]], input)
  BY DEF IInv, RunOK, TypeOK
<1>2. /\ state[r].messages \in Seq(Message) /\ ckpt[thread[r]].messages \in Seq(Message)
      /\ input[r] \in InputKind
  BY <1>1 DEF Good, AgentState, TypeOK
<1>3. ASSUME NEW s, NEW n, Save(r, s, n) PROVE state'[r] = s
  BY <1>1, <1>3 DEF Save, TypeOK
<1>4. CASE StartRun(r)
  <2> DEFINE c == ckpt[thread[r]]
             s == WithInput(c, r)
  <2>1. Adds(c, s, Msg("human", r)) /\ s.tool_rounds = c.tool_rounds
    BY <1>1, WithInputGood
  <2>2. state'[r] = s /\ own' = own /\ node[r] = "start"
    BY <1>3, <1>4 DEF StartRun
  <2> HIDE DEF s
  <2> QED
    BY <1>2, <2>1, <2>2, AddsTool DEF Counted, Kind
<1>5. CASE GuardInputReturns(r)
  <2> DEFINE s == GuardInput(state[r], input[r], r)
  <2>1. /\ node[r] = "guard_input" /\ state[r].messages # <<>>
        /\ Latest(state[r]).req = r /\ Latest(state[r]).kind = "human"
    BY <1>1, <1>5 DEF GuardInputReturns, Returns, RunOK, Position, GraphNode
  <2>2. Latest(state[r]) = Msg("human", r)
    <3>1. Len(state[r].messages) \in 1..Len(state[r].messages)
      BY <1>2, <2>1
    <3>2. Latest(state[r]) \in Message
      BY <1>2, <3>1 DEF Latest
    <3> QED
      BY <2>1, <3>2 DEF Message, Msg
  <2>3. /\ input[r] = "blocked" => Adds(state[r], s, Msg("refusal", r))
        /\ input[r] # "blocked" => s.messages = state[r].messages
        /\ s.tool_rounds = state[r].tool_rounds
    BY <1>1, <2>1, <2>2, GuardInputGood
  <2>4. state'[r] = s /\ own' = own
    BY <1>3, <1>5, <2>1 DEF GuardInputReturns
  <2> HIDE DEF s
  <2>5. \A q : HasTool(s, q) <=> HasTool(state[r], q)
    <3>1. CASE input[r] = "blocked"
      BY <1>2, <2>3, <3>1, AddsTool DEF Kind
    <3>2. CASE input[r] # "blocked"
      BY <2>3, <3>2 DEF HasTool
    <3> QED
      BY <3>1, <3>2
  <2> QED
    BY <2>1, <2>3, <2>4, <2>5 DEF Counted
<1>6. CASE AgentReturns(r)
  <2>1. PICK kind \in {"call", "answer"} :
            LET s == CallAgent(state[r], kind, r)
            IN  Returns(r, "agent") /\ Save(r, s, RouteAfterAgent(s)) /\ UNCHANGED own
    BY <1>6 DEF AgentReturns
  <2> DEFINE s == CallAgent(state[r], kind, r)
  <2>2. /\ node[r] = "agent" /\ state[r].messages # <<>> /\ Latest(state[r]).req = r
        /\ Latest(state[r]).kind \in {"human", "tool"} /\ input[r] # "blocked"
    BY <1>1, <2>1 DEF Returns, RunOK, Position, GraphNode
  <2>3. Adds(state[r], s, Msg(kind, r)) /\ s.tool_rounds = state[r].tool_rounds
    BY <1>1, <2>2, CallAgentGood
  <2>4. state'[r] = s /\ own' = own
    BY <1>3, <2>1
  <2> HIDE DEF s
  <2> QED
    BY <1>2, <2>2, <2>3, <2>4, AddsTool DEF Counted, Kind
<1>7. CASE ToolsReturn(r)
  <2> DEFINE s == RunTools(state[r], r)
  <2>1. /\ node[r] = "tools" /\ state[r].messages # <<>> /\ Latest(state[r]).req = r
        /\ Latest(state[r]).kind = "call" /\ input[r] # "blocked"
        /\ state[r].tool_rounds < MAX_TOOL_ROUNDS
    BY <1>1, <1>7 DEF ToolsReturn, Returns, RunOK, Position, GraphNode
  <2>2. Adds(state[r], s, Msg("tool", r)) /\ s.tool_rounds = state[r].tool_rounds + 1
    BY <1>1, <2>1, RunToolsGood
  <2>3. /\ state'[r] = s /\ own'[r] = own[r] + 1
        /\ \A q \in Requests \ {r} : own'[q] = own[q]
    BY <1>1, <1>3, <1>7 DEF ToolsReturn, TypeOK
  <2> HIDE DEF s
  <2> QED
    BY <1>2, <2>1, <2>2, <2>3, AddsTool DEF Counted, Kind
<1>8. CASE BudgetExceededReturns(r)
  <2> DEFINE s == BudgetExceeded(state[r], r)
  <2>1. /\ node[r] = "budget_exceeded" /\ state[r].messages # <<>>
        /\ Latest(state[r]).req = r /\ Latest(state[r]).kind = "call"
        /\ input[r] # "blocked"
    BY <1>1, <1>8 DEF BudgetExceededReturns, Returns, RunOK, Position, GraphNode
  <2>2. Adds(state[r], s, Msg("budget", r)) /\ s.tool_rounds = state[r].tool_rounds
    BY <1>1, <2>1, BudgetExceededGood
  <2>3. state'[r] = s /\ own' = own
    BY <1>3, <1>8 DEF BudgetExceededReturns
  <2> HIDE DEF s
  <2> QED
    BY <1>2, <2>1, <2>2, <2>3, AddsTool DEF Counted, Kind
<1> QED
  BY <1>4, <1>5, <1>6, <1>7, <1>8

(* What becomes of the rounds.                                             *)
CountStep ==
    \E p \in Requests :
        /\ ckpt' = [ckpt EXCEPT ![thread[p]] = state'[p]]
        /\ \A q \in Requests \ {p} : state'[q] = state[q]
        /\ node'[p] # "start"
        /\ \/ node[p] = "start" /\ Counted(p, ckpt[thread[p]])
           \/ node[p] \in GraphNode /\ Counted(p, state[p])

LEMMA StepCounts ==
    ASSUME IInv, [Next]_vars
    PROVE  (ckpt' = ckpt /\ state' = state /\ own' = own) \/ CountStep
<1>1. ASSUME NEW r \in Requests, NEW s, NEW n, Save(r, s, n), n # "start",
             node[r] = "start" \/ node[r] \in GraphNode,
             Counted(r, IF node[r] = "start" THEN ckpt[thread[r]] ELSE state[r])
      PROVE  CountStep
  <2>1. /\ ckpt' = [ckpt EXCEPT ![thread[r]] = state'[r]] /\ node'[r] # "start"
        /\ \A q \in Requests \ {r} : state'[q] = state[q]
    BY <1>1 DEF IInv, TypeOK, Save
  <2> QED
    BY <1>1, <2>1 DEF CountStep, GraphNode
<1>2. ASSUME NEW r \in Requests, StartRun(r) PROVE CountStep
  <2>1. node[r] = "start"
    BY <1>2 DEF StartRun
  <2>2. PICK s : Save(r, s, "guard_input")
    BY <1>2 DEF StartRun
  <2> QED
    BY <1>1, <1>2, <2>1, <2>2, SaveCounts
<1>3. ASSUME NEW r \in Requests,
             \/ GuardInputReturns(r) \/ AgentReturns(r)
             \/ ToolsReturn(r) \/ BudgetExceededReturns(r)
      PROVE  CountStep
  <2>1. node[r] \in GraphNode
    BY <1>3
      DEF GuardInputReturns, AgentReturns, ToolsReturn, BudgetExceededReturns,
          Returns, GraphNode
  <2>2. \E s, n : Save(r, s, n) /\ n # "start"
    BY <1>3
      DEF GuardInputReturns, AgentReturns, ToolsReturn, BudgetExceededReturns,
          RouteAfterGuardInput, RouteAfterAgent
  <2> QED
    BY <1>1, <1>3, <2>1, <2>2, SaveCounts
<1>4. ASSUME NEW r \in Requests, BeginJob(r) \/ RunFails(r) \/ ZombieReturns(r)
      PROVE  ckpt' = ckpt /\ state' = state /\ own' = own
  BY <1>4 DEF BeginJob, RunFails, ZombieReturns
<1>5. ASSUME NEW r \in Requests, Generator(r) \/ Client(r)
      PROVE  ckpt' = ckpt /\ state' = state /\ own' = own
  BY <1>5
    DEF Generator, Client, Accept, Token, ClientTakes, Abandon, StreamEnds, ReadState,
        ReadStateFails, ReportFailure, Expire, Timeout, LoopTimesOut, Disconnect, Finalize, run
<1>6. CASE UNCHANGED vars
  BY <1>6 DEF vars, run
<1> QED
  BY <1>2, <1>3, <1>4, <1>5, <1>6 DEF Next, Graph, Quiescent

(* A run starts once.                                                      *)
LEMMA StartsOnce ==
    ASSUME IInv, [Next]_vars, NEW q \in Requests, node'[q] = "start"
    PROVE  node[q] = "start"
<1>1. TypeOK
  BY DEF IInv
<1>2. ASSUME NEW r \in Requests, Graph(r) \/ Cancel(r) PROVE node[q] = "start"
  BY <1>1, <1>2
    DEF Graph, StartRun, BeginJob, RunFails, ZombieReturns, GuardInputReturns,
        AgentReturns, ToolsReturn, BudgetExceededReturns, Save, Cancel,
        RouteAfterGuardInput, RouteAfterAgent, TypeOK
<1>3. ASSUME NEW r \in Requests, Generator(r) \/ Client(r) PROVE node[q] = "start"
  BY <1>2, <1>3
    DEF Generator, Client, Accept, Token, ClientTakes, Abandon, StreamEnds, ReadState,
        ReadStateFails, ReportFailure, Expire, Timeout, LoopTimesOut, Disconnect, Finalize, run
<1>4. CASE UNCHANGED vars
  BY <1>4 DEF vars, run
<1> QED
  BY <1>2, <1>3, <1>4 DEF Next, Quiescent

(* A round counted and a round made go together.                           *)
LEMMA NextRoundsInv ==
    ASSUME IInv, IInv', RoundsInv, [Next]_vars PROVE RoundsInv'
<1>1. \A q \in Requests : node'[q] = "start" => node[q] = "start"
  BY StartsOnce
<1>2. CASE ckpt' = ckpt /\ state' = state /\ own' = own
  BY <1>1, <1>2 DEF RoundsInv, CountsFromZero, HasTool
<1>3. CASE CountStep
  <2>1. PICK p \in Requests :
            /\ ckpt' = [ckpt EXCEPT ![thread[p]] = state'[p]]
            /\ \A q \in Requests \ {p} : state'[q] = state[q]
            /\ node'[p] # "start"
            /\ \/ node[p] = "start" /\ Counted(p, ckpt[thread[p]])
               \/ node[p] \in GraphNode /\ Counted(p, state[p])
    BY <1>3 DEF CountStep
  <2> DEFINE base == IF node[p] = "start" THEN ckpt[thread[p]] ELSE state[p]
             s == state'[p]
  <2>2. /\ Counted(p, base) /\ CountsFromZero(base)
        /\ \A q \in Requests : node[q] = "start" => ~HasTool(base, q)
    BY <2>1 DEF RoundsInv, GraphNode, IInv, TypeOK
  <2>3. /\ base.tool_rounds \in Nat /\ s.tool_rounds \in Nat
        /\ own[p] \in Nat /\ own'[p] \in Nat
    BY DEF IInv, TypeOK, AgentState
  <2>4. (\A q \in Requests \ {p} : ~HasTool(base, q)) => base.tool_rounds = own[p]
    <3>1. CASE node[p] = "start"
      BY <2>2, <3>1 DEF IInv, RunOK, Position, CountsFromZero
    <3>2. CASE node[p] # "start"
      BY <3>2 DEF RoundsInv
    <3> QED
      BY <3>1, <3>2
  <2> HIDE DEF base
  <2>5. CountsFromZero(s)
    BY <2>2 DEF Counted, CountsFromZero
  <2>6. (\A q \in Requests \ {p} : ~HasTool(s, q)) => s.tool_rounds = own'[p]
    BY <2>2, <2>3, <2>4 DEF Counted
  <2>7. \A q \in Requests : node'[q] = "start" => ~HasTool(s, q)
    BY <1>1, <2>1, <2>2 DEF Counted
  <2>8. \A t \in Threads : ckpt'[t] = ckpt[t] \/ ckpt'[t] = s
    BY <2>1 DEF IInv, TypeOK
  <2>9. \A q \in Requests \ {p} : state'[q] = state[q] /\ own'[q] = own[q]
    BY <2>1, <2>2 DEF Counted
  <2> HIDE DEF s
  <2>10. \A q \in Requests : CountsFromZero(state'[q])
    BY <2>5, <2>9 DEF RoundsInv, s
  <2>11. \A t \in Threads : CountsFromZero(ckpt'[t])
    BY <2>5, <2>8 DEF RoundsInv
  <2>12. ASSUME NEW r \in Requests
         PROVE  (\A q \in Requests \ {r} : ~HasTool(state'[r], q))
                    => state'[r].tool_rounds = own'[r]
    BY <2>6, <2>9 DEF RoundsInv, s
  <2>13. ASSUME NEW r \in Requests, node'[r] = "start"
         PROVE  /\ \A q \in Requests : ~HasTool(state'[q], r)
                /\ \A t \in Threads : ~HasTool(ckpt'[t], r)
    BY <1>1, <2>7, <2>8, <2>9, <2>13 DEF RoundsInv, s
  <2> QED
    BY <2>10, <2>11, <2>12, <2>13 DEF RoundsInv, CountsFromZero, HasTool
<1> QED
  BY <1>2, <1>3, StepCounts

(* In a conversation nobody else used a tool in, a run is cut off only     *)
(* after MAX_TOOL_ROUNDS rounds of its own, overlapping requests included. *)
THEOREM FirstUserIsGranted == Spec => []FirstUserHasItsRounds
<1>1. Init => RoundsInv
  <2>1. DOMAIN EmptyState.messages = {} /\ EmptyState.tool_rounds = 0
    BY DEF EmptyState
  <2>2. CountsFromZero(EmptyState) /\ \A q \in Requests : ~HasTool(EmptyState, q)
    BY <2>1 DEF CountsFromZero, HasTool
  <2>3. Init => /\ \A r \in Requests : state[r] = EmptyState /\ own[r] = 0
                /\ \A t \in Threads : ckpt[t] = EmptyState
    BY DEF Init
  <2> QED
    BY <2>1, <2>2, <2>3 DEF RoundsInv
<1>2. IInv /\ RoundsInv => FirstUserHasItsRounds
  <2> SUFFICES ASSUME IInv, RoundsInv, NEW r \in Requests,
                      node[r] = "budget_exceeded", OnlyUserOfTools(r)
               PROVE  own[r] >= MAX_TOOL_ROUNDS
    BY DEF FirstUserHasItsRounds
  <2>1. \A q \in Requests \ {r} : ~HasTool(state[r], q)
    BY DEF OnlyUserOfTools, HasTool
  <2>2. state[r].tool_rounds = own[r]
    BY <2>1 DEF RoundsInv
  <2> QED
    BY <2>2 DEF IInv, RunOK, Position
<1> QED
  BY <1>1, <1>2, NextRoundsInv, InductiveInvariant, PTL DEF Spec
=============================================================================
