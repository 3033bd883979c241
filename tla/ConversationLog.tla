--------------------------- MODULE ConversationLog ---------------------------
(***************************************************************************)
(* What the chat service promises about a thread's history: it is an       *)
(* append-only log of messages in which every message has its place.       *)
(* ChatService implements this when no two requests of a thread overlap.   *)
(***************************************************************************)
EXTENDS Naturals, Sequences

CONSTANTS Threads, Requests

VARIABLE log

Kind == {"human", "refusal", "call", "tool", "answer", "budget"}
Message == [kind : Kind, req : Requests]

(* The kinds of message after which, within one turn, a kind may come.  A  *)
(* turn may be cut short anywhere, so a user's message may follow any, and *)
(* the cut-off message follows a tool call: what a chat provider would     *)
(* reject on the next turn is well-formed here.                            *)
After(kind) ==
    CASE kind = "human"            -> Kind
      [] kind = "refusal"          -> {"human"}
      [] kind \in {"call", "answer"} -> {"human", "tool"}
      [] kind \in {"tool", "budget"} -> {"call"}

MayFollow(prev, m) ==
    /\ prev.kind \in After(m.kind)
    /\ m.kind # "human" => prev.req = m.req

WellFormed(s) ==
    /\ s # <<>> => s[1].kind = "human"
    /\ \A i \in 1..(Len(s) - 1) : MayFollow(s[i], s[i + 1])

Init == log = [t \in Threads |-> <<>>]

Say(t, m) ==
    /\ IF log[t] = <<>> THEN m.kind = "human"
                        ELSE MayFollow(log[t][Len(log[t])], m)
    /\ log' = [log EXCEPT ![t] = Append(@, m)]

Next == \E t \in Threads, m \in Message : Say(t, m)

Spec == Init /\ [][Next]_log
=============================================================================
