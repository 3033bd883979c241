-------------------------- MODULE SovereigntyPolicy --------------------------
(***************************************************************************)
(* What ainvoke_with_fallback (app/agent/llm.py) promises its caller, with *)
(* no retries, no error classes and no bookkeeping: a request visits model *)
(* groups one at a time, most sovereign first, only groups the caller      *)
(* permits, and it leaves a group only once that group is spent.  LlmCascade*)
(* is the code, and implements this.                                       *)
(*                                                                         *)
(* A group is known here by its rank in the sovereignty order; 0 is "no    *)
(* group yet".                                                             *)
(***************************************************************************)
EXTENDS Naturals

CONSTANT Rank    \* a set of positive numbers

VARIABLES
    permitted,  \* the ranks the caller lets the request visit
    current,    \* the rank being visited, or 0
    spent,      \* the ranks left because they kept failing
    verdict     \* what the caller got, or "open"

vars == <<permitted, current, spent, verdict>>

Verdict == {"open", "answered", "ValueError", "raised", "exhausted"}

Init ==
    /\ permitted \in SUBSET Rank
    /\ current = 0
    /\ spent = {}
    /\ verdict = "open"

(* The arguments make no sense: no group is visited. *)
Reject ==
    /\ verdict = "open" /\ current = 0
    /\ verdict' = "ValueError"
    /\ UNCHANGED <<permitted, current, spent>>

Begin ==
    /\ verdict = "open" /\ current = 0
    /\ current' \in permitted
    /\ UNCHANGED <<permitted, spent, verdict>>

(* The next permitted rank, and no permitted rank is skipped. *)
Follows(r) ==
    /\ r \in permitted /\ r > current
    /\ \A q \in permitted : q > current => r <= q

Escalate ==
    /\ verdict = "open" /\ current # 0
    /\ \E r \in Rank : Follows(r) /\ current' = r
    /\ spent' = spent \cup {current}
    /\ UNCHANGED <<permitted, verdict>>

(* An answer, or an error that no other group would cure. *)
Conclude ==
    /\ verdict = "open" /\ current # 0
    /\ verdict' \in {"answered", "raised"}
    /\ UNCHANGED <<permitted, current, spent>>

GiveUp ==
    /\ verdict = "open" /\ current # 0
    /\ ~ \E r \in Rank : Follows(r)
    /\ spent' = spent \cup {current}
    /\ verdict' = "exhausted"
    /\ UNCHANGED <<permitted, current>>

Next == Reject \/ Begin \/ Escalate \/ Conclude \/ GiveUp

Spec == Init /\ [][Next]_vars
=============================================================================
