-------------------------- MODULE Readiness_proofs --------------------------
(***************************************************************************)
(* The report of a probe is about the right services, in whatever order    *)
(* the checks complete.                                                    *)
(***************************************************************************)
EXTENDS Readiness, TLAPS

(* The strengthening: what a check that has its result says of its service.*)
Behaviour == {"up", "slow", "broken"}

ResultsAreTrue ==
    /\ service \in [Check -> Behaviour]
    /\ check \in [Check -> {"asking", "closing", "returned", "raised"}]
    /\ result \in [Check -> {"none", "ok", "timeout", "connection failed"}]
    /\ \A c \in Check : check[c] \in {"closing", "returned"} => (result[c] = "ok" <=> service[c] = "up")

(* The inductive invariant. *)
IInv == ResultsAreTrue /\ ReportIsTheServices

(* The three places of Names and what stands there. *)
LEMMA NamesAreThree ==
  /\ DOMAIN Names = 1..3
  /\ \A i \in DOMAIN Names : Names[i] \in Check
  /\ \A c \in Check : \E i \in DOMAIN Names : Names[i] = c
  BY DEF Names, Check

(* Initially no check has a result and there is no report. *)
LEMMA InitEstablishes == Init => IInv
  BY DEF Init, IInv, ResultsAreTrue, Behaviour, ReportIsTheServices, NoResponse

(* A service that is up, and no other, makes a check end with "ok". *)
LEMMA OutcomesAreTrue ==
  ASSUME NEW c \in Check, service \in [Check -> Behaviour], NEW r \in Outcome(c)
  PROVE  /\ r \in {"ok", "timeout", "connection failed"}
         /\ r = "ok" <=> service[c] = "up"
<1>1. service[c] \in Behaviour
  OBVIOUS
<1>2. CASE service[c] = "up"
  BY <1>2 DEF Outcome
<1>3. CASE service[c] = "slow"
  BY <1>3 DEF Outcome
<1>4. CASE service[c] = "broken"
  BY <1>4 DEF Outcome
<1> QED
  BY <1>1, <1>2, <1>3, <1>4 DEF Behaviour

(* A step that answers nothing leaves a report as true as it was. *)
LEMMA ReportStays ==
  ASSUME ReportIsTheServices, UNCHANGED <<service, response>>
  PROVE  ReportIsTheServices'
  BY DEF ReportIsTheServices

(* The answer is computed from the results of all three checks, each in    *)
(* the row of its own name.                                                *)
LEMMA RespondPreserves ==
  ASSUME IInv, Respond
  PROVE  IInv'
<1> USE DEF IInv
<1>1. ResultsAreTrue'
  BY DEF Respond, ResultsAreTrue
<1>2. \A i \in DOMAIN Names : Results[i] = "ok" <=> service[Names[i]] = "up"
  BY NamesAreThree DEF Respond, ResultsAreTrue, Results
<1>3. response'.status = 200 <=> \A i \in DOMAIN Names : Results[i] = "ok"
  BY DEF Respond
<1>4. response'.status = 200 <=> \A c \in Check : service'[c] = "up"
  BY <1>2, <1>3, NamesAreThree DEF Respond
<1>5. /\ DOMAIN response'.checks = DOMAIN Names
      /\ \A i \in DOMAIN Names : response'.checks[i] = <<Names[i], Results[i]>>
  BY DEF Respond
<1>6. \A i \in DOMAIN response'.checks :
        response'.checks[i][2] = "ok" <=> service'[response'.checks[i][1]] = "up"
  BY <1>2, <1>5 DEF Respond
<1> QED
  BY <1>1, <1>4, <1>6 DEF ReportIsTheServices

(* Every step preserves the invariant. *)
LEMMA StepPreserves == IInv /\ [Next]_vars => IInv'
<1> SUFFICES ASSUME IInv, [Next]_vars
             PROVE  IInv'
  OBVIOUS
<1> USE DEF IInv
<1>1. ASSUME NEW c \in Check, Asked(c)
      PROVE  IInv'
  <2>1. PICK r \in Outcome(c) : Return(c, r)
    BY <1>1 DEF Asked
  <2>2. ResultsAreTrue'
    BY <2>1, OutcomesAreTrue DEF ResultsAreTrue, Return
  <2> QED
    BY <2>1, <2>2, ReportStays DEF Return
<1>2. CASE Pinged
  <2>1. PICK r \in Outcome("redis") :
          /\ check' = [check EXCEPT !["redis"] = "closing"]
          /\ result' = [result EXCEPT !["redis"] = r]
    BY <1>2 DEF Pinged
  <2>2. "redis" \in Check
    BY DEF Check, Names
  <2>3. ResultsAreTrue'
    BY <1>2, <2>1, <2>2, OutcomesAreTrue DEF ResultsAreTrue, Pinged
  <2> QED
    BY <1>2, <2>3, ReportStays DEF Pinged
<1>3. CASE Closed
  BY <1>3, ReportStays DEF Closed, Return, ResultsAreTrue
<1>4. CASE CloseRaises
  BY <1>4, ReportStays DEF CloseRaises, ResultsAreTrue
<1>5. CASE Respond
  BY <1>5, RespondPreserves
<1>6. CASE Crash
  <2>1. ResultsAreTrue'
    BY <1>6 DEF Crash, ResultsAreTrue
  <2>2. response'.status = 500
    BY <1>6 DEF Crash, InternalServerError
  <2> QED
    BY <2>1, <2>2 DEF ReportIsTheServices
<1>7. ASSUME NEW c \in Check, UrlRaises(c)
      PROVE  IInv'
  BY <1>7, ReportStays DEF UrlRaises, ResultsAreTrue
<1>8. CASE UNCHANGED vars
  BY <1>8, ReportStays DEF vars, ResultsAreTrue
<1> QED
  BY <1>1, <1>2, <1>3, <1>4, <1>5, <1>6, <1>7, <1>8 DEF Next

(* GET /health/ready: a row is "ok" exactly when the service it names is   *)
(* up, and the status is 200 exactly when all are, in every interleaving   *)
(* of the checks gather runs.                                              *)
THEOREM ReportsTheServices == Spec => []ReportIsTheServices
<1>1. Spec => []IInv
  BY InitEstablishes, StepPreserves, PTL DEF Spec
<1> QED
  BY <1>1, PTL DEF IInv
=============================================================================
