------------------------- MODULE LlmCascade_proofs -------------------------
(***************************************************************************)
(* The cascade's safety, for every cascade, every number of attempts and   *)
(* every choice of arguments.                                              *)
(***************************************************************************)
EXTENDS LlmCascade, TLAPS

(* Where the coroutine is decides how the counters stand. *)
ControlInv ==
    /\ pc = "validate" =>
          /\ at = 0 /\ contacted = {} /\ lastError = NoError
          /\ groupsTried = <<>>
          /\ failures = [i \in Index |-> 0]
    /\ pc # "returned" => verdict = "open"
    /\ pc \in {"calling", "backoff"} => at \in Permitted /\ attempt >= 1
    /\ pc = "calling" => failures[at] = attempt - 1
    /\ pc = "backoff" => failures[at] = attempt /\ attempt < MaxAttempts

(* What lies before and behind the group being called. *)
OrderInv ==
    /\ \A i \in contacted : i \in Permitted /\ i <= at /\ AtOrAfterStart(i)
    /\ at # 0 => at \in contacted
    /\ \A j \in Permitted : j < at /\ AtOrAfterStart(j) => failures[j] = MaxAttempts
    /\ \A j \in Index : j > at => failures[j] = 0

(* The inductive invariant.                                                *)
IInv == TypeOK /\ ControlInv /\ OrderInv

(* The cascade is indexed from 1.                                          *)
LEMMA IndexFacts == Index \subseteq Nat \ {0} /\ Permitted \subseteq Index
<1>1. CASCADE \in Seq(ModelGroup)
  BY CascadeAssumption
<1>2. DOMAIN CASCADE = 1..Len(CASCADE) /\ Len(CASCADE) \in Nat
  BY <1>1
<1> QED
  BY <1>2 DEF Index, Permitted

(* It holds initially.                                                     *)
LEMMA InitIInv == Init => IInv
<1> SUFFICES ASSUME Init PROVE IInv
  OBVIOUS
<1>1. TypeOK
  BY MaxAttemptsAssumption DEF Init, TypeOK, NoError
<1>2. ControlInv
  BY DEF Init, ControlInv
<1>3. OrderInv
  <2>1. \A j \in Permitted : ~(j < at)
    BY IndexFacts DEF Init
  <2>2. \A j \in Index : failures[j] = 0
    BY DEF Init
  <2> QED
    BY <2>1, <2>2 DEF Init, OrderInv
<1> QED
  BY <1>1, <1>2, <1>3 DEF IInv

(* A failure is counted for the group being called, as its attempt number. *)
LEMMA CountedFailure ==
    ASSUME TypeOK, ControlInv, pc = "calling", CountFailure
    PROVE  /\ at \in Permitted /\ attempt \in 1..MaxAttempts
           /\ failures[at] = attempt - 1
           /\ failures' = [failures EXCEPT ![at] = attempt]
<1>1. at \in Permitted /\ at \in Index /\ attempt \in 1..MaxAttempts
  BY IndexFacts, MaxAttemptsAssumption DEF TypeOK, ControlInv
<1>2. failures[at] = attempt - 1
  BY DEF ControlInv
<1>3. ~(failures[at] > MaxAttempts) /\ failures[at] + 1 = attempt
  BY <1>1, <1>2, MaxAttemptsAssumption
<1> QED
  BY <1>1, <1>2, <1>3 DEF CountFailure

(* Every step keeps it.                                                    *)
LEMMA NextIInv == IInv /\ [Next]_vars => IInv'
<1> SUFFICES ASSUME IInv, [Next]_vars PROVE IInv'
  OBVIOUS
<1>0. TypeOK /\ ControlInv /\ OrderInv
  BY DEF IInv
<1> USE IndexFacts, MaxAttemptsAssumption
<1>1. CASE RaiseValueError
  <2>1. TypeOK'
    BY <1>0, <1>1 DEF RaiseValueError, Return, TypeOK, args, Permitted
  <2>2. ControlInv'
    BY <1>0, <1>1 DEF RaiseValueError, Return, ControlInv, args
  <2>3. OrderInv'
    BY <1>0, <1>1 DEF RaiseValueError, OrderInv, args, Permitted, AtOrAfterStart
  <2> QED BY <2>1, <2>2, <2>3 DEF IInv
<1>2. CASE Start
  <2> PICK s \in Permitted : CASCADE[s] = startGroup /\ Visit(s)
    BY <1>2 DEF Start
  <2>0. s \in Index /\ AtOrAfterStart(s) /\ CASCADE[s] \in ModelGroup
    BY CascadeAssumption DEF AtOrAfterStart, Index
  <2>1. TypeOK'
    BY <1>0, <1>2, <2>0 DEF Start, Visit, TypeOK, args, Permitted
  <2>2. ControlInv'
    BY <1>0, <1>2, <2>0 DEF Start, Visit, ControlInv, args, Permitted
  <2>3. \A j \in Permitted : AtOrAfterStart(j) => s <= j
    BY CascadeAssumption, <2>0 DEF AtOrAfterStart, Permitted, Index
  <2>4. OrderInv'
    BY <1>0, <1>2, <2>0, <2>3
      DEF Start, Visit, ControlInv, OrderInv, args, Permitted, AtOrAfterStart
  <2> QED BY <2>1, <2>2, <2>4 DEF IInv
<1>3. CASE Answer
  <2>1. TypeOK'
    BY <1>0, <1>3 DEF Answer, Return, TypeOK, args, Permitted
  <2>2. ControlInv'
    BY <1>0, <1>3 DEF Answer, Return, ControlInv, args
  <2>3. OrderInv'
    BY <1>0, <1>3 DEF Answer, OrderInv, args, Permitted, AtOrAfterStart
  <2> QED BY <2>1, <2>2, <2>3 DEF IInv
<1>4. CASE Wake
  <2>1. TypeOK'
    BY <1>0, <1>4 DEF Wake, TypeOK, ControlInv, args, Permitted
  <2>2. ControlInv'
    BY <1>0, <1>4 DEF Wake, ControlInv, TypeOK, args, Permitted
  <2>3. OrderInv'
    BY <1>0, <1>4 DEF Wake, OrderInv, ControlInv, args, Permitted, AtOrAfterStart
  <2> QED BY <2>1, <2>2, <2>3 DEF IInv
<1>5. ASSUME NEW e \in Error, Retry(e) PROVE IInv'
  <2>0. /\ at \in Permitted /\ attempt \in 1..MaxAttempts
        /\ failures[at] = attempt - 1
        /\ failures' = [failures EXCEPT ![at] = attempt]
    BY <1>0, <1>5, CountedFailure DEF Retry
  <2>1. TypeOK'
    BY <1>0, <1>5, <2>0 DEF Retry, TypeOK, ControlInv, args, Permitted
  <2>2. ControlInv'
    BY <1>0, <1>5, <2>0 DEF Retry, ControlInv, TypeOK, args, Permitted
  <2>3. OrderInv'
    BY <1>0, <1>5, <2>0 DEF Retry, OrderInv, TypeOK, args, Permitted, AtOrAfterStart
  <2> QED BY <2>1, <2>2, <2>3 DEF IInv
<1>6. ASSUME NEW e \in Error, Escalate(e) PROVE IInv'
  <2>0. /\ at \in Permitted /\ attempt \in 1..MaxAttempts
        /\ failures[at] = attempt - 1
        /\ failures' = [failures EXCEPT ![at] = attempt]
    BY <1>0, <1>6, CountedFailure DEF Escalate
  <2> PICK i \in Index : Follows(i) /\ Visit(i)
    BY <1>6 DEF Escalate
  <2>1. i \in Permitted /\ i > at /\ (\A j \in Permitted : j > at => i <= j)
    BY DEF Follows
  <2>2. CASCADE[i] \in ModelGroup
    BY CascadeAssumption DEF Index
  <2>3. TypeOK'
    BY <1>0, <1>6, <2>0, <2>1, <2>2
      DEF Escalate, Visit, TypeOK, args, Permitted, NoError
  <2>4. ControlInv'
    BY <1>0, <1>6, <2>0, <2>1
      DEF Escalate, Visit, ControlInv, OrderInv, TypeOK, args, Permitted
  <2>5. AtOrAfterStart(i)
    BY <1>0, <2>0, <2>1 DEF OrderInv, AtOrAfterStart
  <2>6. OrderInv'
    BY <1>0, <1>6, <2>0, <2>1, <2>5
      DEF Escalate, Visit, OrderInv, TypeOK, args, Permitted, AtOrAfterStart
  <2> QED BY <2>3, <2>4, <2>6 DEF IInv
<1>7. ASSUME NEW e \in Error, Exhaust(e) PROVE IInv'
  <2>0. /\ at \in Permitted /\ attempt \in 1..MaxAttempts
        /\ failures[at] = attempt - 1
        /\ failures' = [failures EXCEPT ![at] = attempt]
    BY <1>0, <1>7, CountedFailure DEF Exhaust
  <2>1. TypeOK'
    BY <1>0, <1>7, <2>0 DEF Exhaust, Return, TypeOK, args, Permitted
  <2>2. ControlInv'
    BY <1>0, <1>7 DEF Exhaust, Return, ControlInv, args
  <2>3. OrderInv'
    BY <1>0, <1>7, <2>0 DEF Exhaust, OrderInv, TypeOK, args, Permitted, AtOrAfterStart
  <2> QED BY <2>1, <2>2, <2>3 DEF IInv
<1>8. ASSUME NEW e \in Error, Raise(e) PROVE IInv'
  <2>0. at \in Permitted
    BY <1>0, <1>8 DEF Raise, ControlInv
  <2>1. TypeOK'
    BY <1>0, <1>8, <2>0 DEF Raise, Return, TypeOK, args, Permitted
  <2>2. ControlInv'
    BY <1>0, <1>8 DEF Raise, Return, ControlInv, args
  <2>3. OrderInv'
    BY <1>0, <1>8 DEF Raise, OrderInv, args, Permitted, AtOrAfterStart
  <2> QED BY <2>1, <2>2, <2>3 DEF IInv
<1>9. CASE UNCHANGED vars
  BY <1>0, <1>9
    DEF IInv, TypeOK, ControlInv, OrderInv, vars, args, Permitted, AtOrAfterStart
<1> QED
  BY <1>1, <1>2, <1>3, <1>4, <1>5, <1>6, <1>7, <1>8, <1>9 DEF Next, Fail

(* It holds in every reachable state.                                      *)
LEMMA InductiveInvariant == Spec => []IInv
BY InitIInv, NextIInv, PTL DEF Spec

-----------------------------------------------------------------------------
(* Every state of the cascade has its types, and no group is tried more    *)
(* than MaxAttempts times.                                                 *)
THEOREM TypeCorrect == Spec => []TypeOK
<1>1. IInv => TypeOK
  BY DEF IInv
<1> QED
  BY <1>1, InductiveInvariant, PTL

(* No group receives a request before every permitted group between the    *)
(* start group and it has failed max_attempts_per_group times.             *)
THEOREM EscalationIsEarned == Spec => []EscalationOnlyAfterExhaustion
<1>1. IInv => EscalationOnlyAfterExhaustion
  BY IndexFacts
    DEF IInv, TypeOK, OrderInv, EscalationOnlyAfterExhaustion
<1> QED
  BY <1>1, InductiveInvariant, PTL

(* The app's requests only ever go to groups the caller allowed, none of   *)
(* them before the start group.                                            *)
THEOREM RestrictionHolds == Spec => []StaysInAllowed
<1>1. IInv => StaysInAllowed
  BY DEF IInv, OrderInv, StaysInAllowed, Permitted
<1> QED
  BY <1>1, InductiveInvariant, PTL

(* The call ends on exactly the errors that no retry would cure.           *)
THEOREM HardErrorsFinal == Spec => []HardErrorsEndTheCall
<1>1. Init => HardErrorsEndTheCall
  BY DEF Init, HardErrorsEndTheCall, NoError
<1>2. IInv /\ HardErrorsEndTheCall /\ [Next]_vars => HardErrorsEndTheCall'
  <2> SUFFICES ASSUME IInv, HardErrorsEndTheCall, [Next]_vars
               PROVE  HardErrorsEndTheCall'
    OBVIOUS
  <2>1. CASE RaiseValueError \/ Start \/ Answer \/ Wake
    BY <2>1
      DEF IInv, ControlInv, HardErrorsEndTheCall, RaiseValueError, Start,
          Answer, Wake, Return
  <2>2. ASSUME NEW e \in Error, Fail(e) PROVE HardErrorsEndTheCall'
    <3>0. verdict = "open" \/ ~Fail(e)
      BY DEF IInv, ControlInv, Fail, Retry, Escalate, Exhaust, Raise
    <3>1. CASE Retry(e)
      BY <3>1 DEF HardErrorsEndTheCall, Retry
    <3>2. CASE Escalate(e)
      BY <2>2, <3>0, <3>2 DEF HardErrorsEndTheCall, Escalate, IsTransient
    <3>3. CASE Exhaust(e)
      BY <3>3 DEF HardErrorsEndTheCall, Exhaust, Return, IsTransient
    <3>4. CASE Raise(e)
      BY <3>4 DEF HardErrorsEndTheCall, Raise, Return, IsTransient, Error
    <3> QED
      BY <2>2, <3>1, <3>2, <3>3, <3>4 DEF Fail
  <2>3. CASE UNCHANGED vars
    BY <2>3 DEF HardErrorsEndTheCall, vars
  <2> QED
    BY <2>1, <2>2, <2>3 DEF Next
<1> QED
  BY <1>1, <1>2, InductiveInvariant, PTL DEF Spec

(* What the report is made of while it is being put together.              *)
ReportInv ==
    /\ at # 0 => Len(groupsTried) >= 1 /\ groupsTried[Len(groupsTried)] = CASCADE[at]
    /\ \A k \in 1..(Len(groupsTried) - 1) :
          \E i, j \in contacted : i < j /\ groupsTried[k] = CASCADE[i]
                                     /\ groupsTried[k + 1] = CASCADE[j]
    /\ \A i \in Permitted : (AtOrAfterStart(i) /\ i <= at)
          => \E k \in DOMAIN groupsTried : groupsTried[k] = CASCADE[i]
    /\ verdict = "exhausted" =>
          /\ at # 0 /\ lastError.from = at /\ failures[at] = MaxAttempts
          /\ \A j \in Permitted : j <= at

(* A place of a sequence is its last one or comes before it.               *)
LEMMA LastOrBefore == \A m \in Nat : \A k \in 1..m : k = m \/ k < m
  OBVIOUS

(* A group that is entered is added to the report.                         *)
LEMMA VisitReports ==
    ASSUME TypeOK, ReportInv, NEW i \in Permitted, Visit(i),
           at = 0 => groupsTried = <<>>,
           at # 0 => at \in contacted /\ at < i,
           \A j \in Permitted : AtOrAfterStart(j) => j <= at \/ i <= j,
           UNCHANGED <<args, verdict>>, verdict = "open"
    PROVE  ReportInv'
<1> USE IndexFacts DEF TypeOK, Visit
<1>1. /\ groupsTried \in Seq(ModelGroup) /\ CASCADE[i] \in ModelGroup
      /\ Len(groupsTried') = Len(groupsTried) + 1
      /\ groupsTried'[Len(groupsTried')] = CASCADE[i]
      /\ \A k \in 1..Len(groupsTried) : groupsTried'[k] = groupsTried[k]
      /\ DOMAIN groupsTried = 1..Len(groupsTried) /\ Len(groupsTried) \in Nat
      /\ DOMAIN groupsTried' = 1..Len(groupsTried')
  BY CascadeAssumption DEF Index
<1>2. \A k \in 1..(Len(groupsTried') - 1) :
          \E p, q \in contacted' : p < q /\ groupsTried'[k] = CASCADE[p]
                                     /\ groupsTried'[k + 1] = CASCADE[q]
  <2> SUFFICES ASSUME NEW k \in 1..(Len(groupsTried') - 1)
               PROVE  \E p, q \in contacted' :
                         p < q /\ groupsTried'[k] = CASCADE[p]
                               /\ groupsTried'[k + 1] = CASCADE[q]
    OBVIOUS
  <2>0. k \in 1..Len(groupsTried)
    BY <1>1
  <2>1. CASE k = Len(groupsTried)
    <3>1. at # 0
      BY <1>1, <2>0, <2>1
    <3>2. groupsTried'[k] = CASCADE[at] /\ groupsTried'[k + 1] = CASCADE[i]
      BY <1>1, <2>1, <3>1 DEF ReportInv
    <3> QED
      BY <3>1, <3>2
  <2>2. CASE k < Len(groupsTried)
    <3>1. k \in 1..(Len(groupsTried) - 1) /\ k + 1 \in 1..Len(groupsTried)
      BY <1>1, <2>0, <2>2
    <3>2. groupsTried'[k] = groupsTried[k] /\ groupsTried'[k + 1] = groupsTried[k + 1]
      BY <1>1, <3>1
    <3>3. PICK p, q \in contacted :
            p < q /\ groupsTried[k] = CASCADE[p] /\ groupsTried[k + 1] = CASCADE[q]
      BY <3>1 DEF ReportInv
    <3> QED
      BY <3>2, <3>3
  <2>3. k = Len(groupsTried) \/ k < Len(groupsTried)
    BY <1>1, <2>0, LastOrBefore
  <2> QED
    BY <2>1, <2>2, <2>3
<1>3. \A j \in Permitted' : (AtOrAfterStart(j)' /\ j <= at')
          => \E k \in DOMAIN groupsTried' : groupsTried'[k] = CASCADE[j]
  <2> SUFFICES ASSUME NEW j \in Permitted, AtOrAfterStart(j), j <= i
               PROVE  \E k \in DOMAIN groupsTried' : groupsTried'[k] = CASCADE[j]
    BY DEF args, Permitted, AtOrAfterStart
  <2>1. CASE j <= at
    BY <1>1, <2>1 DEF ReportInv
  <2>2. CASE j = i
    BY <1>1, <2>2
  <2> QED
    BY <2>1, <2>2
<1>4. at' # 0 => /\ Len(groupsTried') >= 1
                 /\ groupsTried'[Len(groupsTried')] = CASCADE[at']
  BY <1>1
<1> QED
  BY <1>2, <1>3, <1>4 DEF ReportInv

(* Every step keeps it.                                                    *)
LEMMA NextReportInv == IInv /\ ReportInv /\ [Next]_vars => ReportInv'
<1> SUFFICES ASSUME IInv, ReportInv, [Next]_vars PROVE ReportInv'
  OBVIOUS
<1>0. TypeOK /\ ControlInv /\ OrderInv
  BY DEF IInv
<1> USE IndexFacts, MaxAttemptsAssumption
<1>1. CASE RaiseValueError \/ Answer
  BY <1>0, <1>1
    DEF RaiseValueError, Answer, Return, ReportInv, args, Permitted, AtOrAfterStart
<1>2. CASE Start
  <2> PICK s \in Permitted : CASCADE[s] = startGroup /\ Visit(s)
    BY <1>2 DEF Start
  <2>1. \A j \in Permitted : AtOrAfterStart(j) => s <= j
    BY CascadeAssumption DEF AtOrAfterStart, Permitted, Index
  <2> QED
    BY <1>0, <1>2, <2>1, VisitReports DEF Start, ControlInv
<1>3. CASE Wake
  BY <1>0, <1>3
    DEF Wake, ReportInv, args, Permitted, AtOrAfterStart, ControlInv
<1>4. ASSUME NEW e \in Error, Retry(e) PROVE ReportInv'
  BY <1>0, <1>4
    DEF Retry, ReportInv, args, Permitted, AtOrAfterStart, ControlInv
<1>5. ASSUME NEW e \in Error, Escalate(e) PROVE ReportInv'
  <2> PICK i \in Index : Follows(i) /\ Visit(i)
    BY <1>5 DEF Escalate
  <2>1. i \in Permitted /\ i > at /\ at \in Permitted
    BY <1>0, <1>5 DEF Follows, Escalate, ControlInv
  <2>2. \A j \in Permitted : j <= at \/ i <= j
    BY <2>1 DEF Follows
  <2> QED
    BY <1>0, <1>5, <2>1, <2>2, VisitReports DEF Escalate, ControlInv, OrderInv
<1>6. ASSUME NEW e \in Error, Exhaust(e) PROVE ReportInv'
  <2>1. /\ at \in Permitted /\ attempt = MaxAttempts
        /\ failures' = [failures EXCEPT ![at] = MaxAttempts]
    BY <1>0, <1>6, CountedFailure DEF Exhaust
  <2>2. failures'[at] = MaxAttempts
    BY <1>0, <2>1 DEF TypeOK
  <2>3. \A j \in Permitted : j <= at
    BY <1>6, <2>1 DEF Exhaust, HasNext
  <2> QED
    BY <1>0, <1>6, <2>1, <2>2, <2>3
      DEF Exhaust, Return, ReportInv, args, Permitted, AtOrAfterStart
<1>7. ASSUME NEW e \in Error, Raise(e) PROVE ReportInv'
  BY <1>0, <1>7 DEF Raise, Return, ReportInv, args, Permitted, AtOrAfterStart
<1>8. CASE UNCHANGED vars
  BY <1>8 DEF vars, args, ReportInv, Permitted, AtOrAfterStart
<1> QED
  BY <1>1, <1>2, <1>3, <1>4, <1>5, <1>6, <1>7, <1>8 DEF Next, Fail

(* An exhausted cascade reports every permitted group from the start group *)
(* on, in order, each of them spent, with the error of the last one.       *)
THEOREM ReportsTruly == Spec => []ReportIsAccurate
<1>1. Init => ReportInv
  BY IndexFacts DEF Init, ReportInv, Permitted
<1>2. IInv /\ ReportInv => ReportIsAccurate
  BY IndexFacts
    DEF IInv, TypeOK, OrderInv, ReportInv, ReportIsAccurate, Permitted
<1> QED
  BY <1>1, <1>2, NextReportInv, InductiveInvariant, PTL DEF Spec

-----------------------------------------------------------------------------
(* What is left of a call. *)

(* The attempts left on groups a and behind, when group a has had n.       *)
AttemptsLeft(a, n) == MaxAttempts * (Len(CASCADE) - a) + MaxAttempts - n

LEMMA AttemptsLeftType ==
    ASSUME NEW a \in Index, NEW n \in 0..MaxAttempts
    PROVE  AttemptsLeft(a, n) \in Nat
<1>1. CASCADE \in Seq(ModelGroup) /\ DOMAIN CASCADE = 1..Len(CASCADE) /\ Len(CASCADE) \in Nat
  BY CascadeAssumption
<1>2. PICK m \in Nat : m = Len(CASCADE) - a
  BY <1>1 DEF Index
<1>3. MaxAttempts * m \in Nat
  BY MaxAttemptsAssumption
<1> QED
  BY <1>2, <1>3, MaxAttemptsAssumption DEF AttemptsLeft

(* A later group leaves fewer, and so does the same group after an attempt.*)
LEMMA FewerAttemptsLeft ==
    ASSUME NEW a \in Index, NEW n \in 1..MaxAttempts
    PROVE  /\ n < MaxAttempts => AttemptsLeft(a, n + 1) + 1 = AttemptsLeft(a, n)
           /\ \A b \in Index : a < b => AttemptsLeft(b, 1) < AttemptsLeft(a, n)
           /\ AttemptsLeft(a, 1) < MaxAttempts * Len(CASCADE)
<1> DEFINE M == MaxAttempts
           L == Len(CASCADE)
<1>1. CASCADE \in Seq(ModelGroup) /\ DOMAIN CASCADE = 1..L /\ L \in Nat
  BY CascadeAssumption
<1>2. /\ M \in Nat \ {0} /\ a \in 1..L /\ n \in 1..M
      /\ \A b \in Index : b \in 1..L
  BY <1>1, MaxAttemptsAssumption DEF Index
<1> HIDE DEF M, L
<1>3. \A x, y \in Nat : M * (x + y + 1) = M * x + M * y + M /\ M * x \in Nat /\ M * y \in Nat
  BY <1>2
<1>4. \A x \in Nat : M * x \in Nat
  BY <1>2
<1>5. L - a \in Nat /\ a - 1 \in Nat /\ (L - a) + (a - 1) + 1 = L
  BY <1>1, <1>2
<1>6. M * L = M * (L - a) + M * (a - 1) + M /\ M * (a - 1) \in Nat /\ M * (L - a) \in Nat
  BY <1>3, <1>5
<1>7. ASSUME NEW b \in Index, a < b
      PROVE  AttemptsLeft(b, 1) < AttemptsLeft(a, n)
  <2>1. /\ L - b \in Nat /\ (b - a) - 1 \in Nat
        /\ (L - b) + ((b - a) - 1) + 1 = L - a
    BY <1>1, <1>2, <1>7
  <2>2. /\ M * (L - a) = M * (L - b) + M * ((b - a) - 1) + M
        /\ M * (L - b) \in Nat /\ M * ((b - a) - 1) \in Nat
    BY <1>3, <2>1
  <2> QED
    BY <1>2, <2>2 DEF AttemptsLeft, M, L
<1> QED
  BY <1>2, <1>6, <1>7 DEF AttemptsLeft, M, L

(* ainvoke_with_fallback and its retries make at most two steps for each   *)
(* of MaxAttempts attempts per group, one more at each end, for every      *)
(* cascade: what is provable of Terminates without fairness.               *)
THEOREM RetriesEnd == Spec => RetriesRunOut
<1> USE MaxAttemptsAssumption, IndexFacts
<1>1. ASSUME IInv, [Next]_vars
      PROVE  [StepsLeft' < StepsLeft /\ StepsLeft' \in Nat]_vars
  <2>1. /\ pc = "calling" => StepsLeft = 2 * AttemptsLeft(at, attempt) + 2
        /\ pc = "backoff" => StepsLeft = 2 * AttemptsLeft(at, attempt) + 1
        /\ pc = "validate" => StepsLeft = 2 * (MaxAttempts * Len(CASCADE)) + 1
    BY DEF StepsLeft, AttemptsLeft
  <2>2. /\ pc' = "calling" => StepsLeft' = 2 * AttemptsLeft(at', attempt') + 2
        /\ pc' = "backoff" => StepsLeft' = 2 * AttemptsLeft(at', attempt') + 1
        /\ pc' = "returned" => StepsLeft' = 0
    BY DEF StepsLeft, AttemptsLeft
  <2>3. pc \in {"calling", "backoff"} =>
          at \in Index /\ attempt \in 1..MaxAttempts /\ AttemptsLeft(at, attempt) \in Nat
    <3>1. pc \in {"calling", "backoff"} => at \in Index /\ attempt \in 1..MaxAttempts
      BY <1>1 DEF IInv, TypeOK, ControlInv
    <3>2. \A n \in 1..MaxAttempts : n \in 0..MaxAttempts
      OBVIOUS
    <3> QED
      BY <3>1, <3>2, AttemptsLeftType
  <2>4. MaxAttempts * Len(CASCADE) \in Nat
    BY CascadeAssumption
  <2>5. CASE pc \in {"validate", "calling"} /\ pc' = "returned"
    BY <2>1, <2>2, <2>3, <2>4, <2>5
  <2>6. CASE Start
    <3>1. pc = "validate" /\ pc' = "calling" /\ at' \in Index /\ attempt' = 1
      BY <2>6 DEF Start, Visit
    <3>2. AttemptsLeft(at', 1) < MaxAttempts * Len(CASCADE) /\ AttemptsLeft(at', 1) \in Nat
      BY <3>1, FewerAttemptsLeft, AttemptsLeftType
    <3> QED
      BY <2>1, <2>2, <2>4, <3>1, <3>2
  <2>7. CASE Wake
    <3>1. /\ pc = "backoff" /\ pc' = "calling" /\ at' = at /\ attempt' = attempt + 1
          /\ attempt < MaxAttempts
      BY <1>1, <2>7 DEF Wake, IInv, ControlInv
    <3>2. /\ AttemptsLeft(at, attempt + 1) + 1 = AttemptsLeft(at, attempt)
          /\ AttemptsLeft(at, attempt + 1) \in Nat
      <4>1. attempt + 1 \in 0..MaxAttempts
        BY <2>3, <3>1
      <4> QED
        BY <2>3, <3>1, <4>1, FewerAttemptsLeft, AttemptsLeftType
    <3> QED
      BY <2>1, <2>2, <3>1, <3>2
  <2>8. ASSUME NEW e \in Error, Retry(e)
        PROVE  StepsLeft' < StepsLeft /\ StepsLeft' \in Nat
    <3>1. pc = "calling" /\ pc' = "backoff" /\ at' = at /\ attempt' = attempt
      BY <2>8 DEF Retry
    <3> QED
      BY <2>1, <2>2, <2>3, <3>1
  <2>9. ASSUME NEW e \in Error, Escalate(e)
        PROVE  StepsLeft' < StepsLeft /\ StepsLeft' \in Nat
    <3>1. /\ pc = "calling" /\ pc' = "calling" /\ at' \in Index /\ at < at' /\ attempt' = 1
      BY <2>9 DEF Escalate, Follows, Visit
    <3>2. AttemptsLeft(at', 1) < AttemptsLeft(at, attempt) /\ AttemptsLeft(at', 1) \in Nat
      <4>1. 1 \in 0..MaxAttempts
        OBVIOUS
      <4> QED
        BY <2>3, <3>1, <4>1, FewerAttemptsLeft, AttemptsLeftType
    <3> QED
      BY <2>1, <2>2, <2>3, <3>1, <3>2
  <2>10. CASE RaiseValueError \/ Answer \/ \E e \in Error : Exhaust(e) \/ Raise(e)
    BY <2>5, <2>10 DEF RaiseValueError, Answer, Exhaust, Raise, Return
  <2> QED
    BY <1>1, <2>6, <2>7, <2>8, <2>9, <2>10 DEF Next, Fail
<1> QED
  BY <1>1, InductiveInvariant, PTL DEF Spec, RetriesRunOut

-----------------------------------------------------------------------------
(* Refinement. *)

Spent == {i \in Index : failures[i] >= MaxAttempts}

(* Every step of the cascade is a step of the policy, or none.             *)
LEMMA StepRefines == IInv /\ [Next]_vars => [Policy!Next]_(Policy!vars)
<1> SUFFICES ASSUME IInv, [Next]_vars
             PROVE  Policy!Next \/ UNCHANGED <<Permitted, at, Spent, verdict>>
  BY DEF Policy!vars, Spent
<1>0. TypeOK /\ ControlInv
  BY DEF IInv
<1> USE IndexFacts, MaxAttemptsAssumption
<1>1. CASE RaiseValueError
  <2>1. Policy!Reject
    BY <1>0, <1>1
      DEF RaiseValueError, Return, ControlInv, args, Permitted, Policy!Reject
  <2> QED
    BY <2>1 DEF Policy!Next
<1>2. CASE Start
  <2>1. Policy!Begin
    BY <1>0, <1>2
      DEF Start, Visit, ControlInv, args, Permitted, Policy!Begin
  <2> QED
    BY <2>1 DEF Policy!Next
<1>3. CASE Answer
  <2>1. Policy!Conclude
    BY <1>0, <1>3
      DEF Answer, Return, ControlInv, args, Permitted, Policy!Conclude
  <2> QED
    BY <2>1 DEF Policy!Next
<1>4. CASE Wake
  BY <1>4 DEF Wake, args, Permitted, Spent
<1>5. ASSUME NEW e \in Error, Retry(e)
      PROVE  UNCHANGED <<Permitted, at, Spent, verdict>>
  <2>1. /\ at \in Permitted /\ attempt < MaxAttempts
        /\ failures[at] = attempt - 1
        /\ failures' = [failures EXCEPT ![at] = attempt]
    BY <1>0, <1>5, CountedFailure DEF Retry
  <2>2. Spent' = Spent
    BY <1>0, <2>1 DEF TypeOK, Spent
  <2> QED
    BY <1>5, <2>2 DEF Retry, args, Permitted
<1>6. ASSUME NEW e \in Error, Escalate(e) PROVE Policy!Escalate
  <2>1. /\ at \in Permitted /\ attempt = MaxAttempts
        /\ failures' = [failures EXCEPT ![at] = MaxAttempts]
    BY <1>0, <1>6, CountedFailure DEF Escalate
  <2>2. Spent' = Spent \cup {at}
    BY <1>0, <2>1 DEF TypeOK, Spent
  <2>3. \E r \in Index : Policy!Follows(r) /\ at' = r
    BY <1>6 DEF Escalate, Follows, Visit, Policy!Follows
  <2> QED
    BY <1>0, <1>6, <2>1, <2>2, <2>3
      DEF Escalate, ControlInv, args, Permitted, Spent, Policy!Escalate
<1>7. ASSUME NEW e \in Error, Exhaust(e) PROVE Policy!GiveUp
  <2>1. /\ at \in Permitted /\ attempt = MaxAttempts
        /\ failures' = [failures EXCEPT ![at] = MaxAttempts]
    BY <1>0, <1>7, CountedFailure DEF Exhaust
  <2>2. Spent' = Spent \cup {at}
    BY <1>0, <2>1 DEF TypeOK, Spent
  <2>3. ~ \E r \in Index : Policy!Follows(r)
    BY <1>7 DEF Exhaust, HasNext, Policy!Follows
  <2> QED
    BY <1>0, <1>7, <2>1, <2>2, <2>3
      DEF Exhaust, Return, ControlInv, args, Permitted, Spent, Policy!GiveUp
<1>8. ASSUME NEW e \in Error, Raise(e) PROVE Policy!Conclude
  BY <1>0, <1>8
    DEF Raise, Return, ControlInv, args, Permitted, Policy!Conclude
<1>9. CASE UNCHANGED vars
  BY <1>9 DEF vars, args, Permitted, Spent
<1> QED
  BY <1>1, <1>2, <1>3, <1>4, <1>5, <1>6, <1>7, <1>8, <1>9
    DEF Next, Fail, Policy!Next

(* The retries, the error classes and the bookkeeping of the code implement *)
(* the sovereignty policy: one group at a time, in order, none skipped,     *)
(* none left before it is spent.                                            *)
THEOREM RefinesPolicy == Spec => ImplementsPolicy
<1>1. Init => Policy!Init
  BY IndexFacts, MaxAttemptsAssumption
    DEF Init, Policy!Init, Permitted
<1> QED
  BY <1>1, StepRefines, InductiveInvariant, PTL
    DEF Spec, ImplementsPolicy, Policy!Spec
=============================================================================
