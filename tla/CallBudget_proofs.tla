------------------------- MODULE CallBudget_proofs -------------------------
(***************************************************************************)
(* How long a call of the cascade may last, for every cascade, number of   *)
(* attempts, length of stream and choice of the times that pass.           *)
(***************************************************************************)
EXTENDS CallBudget, LlmCascade_proofs

(* The clock only watches the cascade: its theorems hold under the clock.  *)
LEMMA ClockWatches == TInit => Init
BY DEF TInit

LEMMA ClockSteps == [TNext]_tvars => [Next]_vars
<1> SUFFICES ASSUME [TNext]_tvars PROVE [Next]_vars
  OBVIOUS
<1>1. CASE Begin
  BY <1>1 DEF Begin, Next
<1>2. ASSUME NEW d \in Lapse, AttemptEnds(d) PROVE [Next]_vars
  <2>1. Answer \/ \E e \in Error : Fail(e)
    BY <1>2 DEF AttemptEnds, Error
  <2> QED
    BY <2>1 DEF Next
<1>3. ASSUME NEW d \in Lapse, BackoffEnds(d) PROVE [Next]_vars
  BY <1>3 DEF BackoffEnds, Next
<1>4. CASE UNCHANGED tvars
  BY <1>4 DEF tvars
<1> QED
  BY <1>1, <1>2, <1>3, <1>4 DEF TNext

THEOREM TimedIsCascade == TSpec => Spec
BY ClockWatches, ClockSteps, PTL DEF TSpec, Spec

LEMMA TimedIInv == TSpec => []IInv
BY TimedIsCascade, InductiveInvariant, PTL

-----------------------------------------------------------------------------
(* Arithmetic. *)

T == DEFAULT_TIMEOUT_SECONDS
W == MaxWait(MaxAttempts - 1)

(* Products of natural numbers grow with their factors.                    *)
LEMMA TimesMonotone ==
    ASSUME NEW a \in Nat, NEW b \in Nat, NEW c \in Nat, a <= b
    PROVE  a * c <= b * c /\ a * c \in Nat
OBVIOUS

LEMMA TimesSucc ==
    ASSUME NEW a \in Nat, NEW c \in Nat
    PROVE  (a + 1) * c = a * c + c /\ a * c \in Nat
OBVIOUS

(* A backoff is no longer than the last one a group can have.              *)
LEMMA WaitBounded ==
    ASSUME NEW n \in 1..(MaxAttempts - 1) PROVE MaxWait(n) <= W
BY MaxAttemptsAssumption DEF MaxWait, W

(* The longest an attempt may last. *)
F == MaxWaits * T

LEMMA TimeTypes ==
    T \in Nat /\ W \in Nat /\ SilenceLimit = T /\ F \in Nat /\ MaxWaits * SilenceLimit = F
<1>1. T \in Nat /\ W \in Nat /\ SilenceLimit = T
  BY MaxAttemptsAssumption
    DEF T, W, MaxWait, DEFAULT_TIMEOUT_SECONDS, SilenceLimit
<1> QED
  BY <1>1, WaitsAssumption DEF F

(* What n attempts and the n - 1 backoffs before the last of them cost,    *)
(* when an attempt costs at most d.                                        *)
Cost(n, d) == (n - 1) * (d + W) + d

LEMMA CostFacts ==
    ASSUME NEW d \in Nat
    PROVE  /\ \A n \in 1..MaxAttempts : Cost(n, d) \in Nat /\ Cost(n, d) <= GroupCost(d)
           /\ Cost(1, d) = d /\ Cost(MaxAttempts, d) = GroupCost(d)
           /\ \A n \in Nat \ {0} : Cost(n + 1, d) = Cost(n, d) + W + d
           /\ GroupCost(d) \in Nat
<1> USE TimeTypes, MaxAttemptsAssumption
<1> DEFINE c == d + W
<1>0. c \in Nat
  OBVIOUS
<1>1. Cost(MaxAttempts, d) = GroupCost(d)
  <2>1. (MaxAttempts - 1) * (d + W) = (MaxAttempts - 1) * d + (MaxAttempts - 1) * W
    OBVIOUS
  <2>2. (MaxAttempts - 1) * d + d = MaxAttempts * d
    BY TimesSucc
  <2>3. (MaxAttempts - 1) * d \in Nat /\ (MaxAttempts - 1) * W \in Nat /\ MaxAttempts * d \in Nat
    OBVIOUS
  <2> QED
    BY <2>1, <2>2, <2>3 DEF Cost, GroupCost, W
<1>2. ASSUME NEW n \in 1..MaxAttempts
      PROVE  Cost(n, d) \in Nat /\ Cost(n, d) <= Cost(MaxAttempts, d)
  <2> HIDE DEF c
  <2>1. (n - 1) * c <= (MaxAttempts - 1) * c /\ (n - 1) * c \in Nat
        /\ (MaxAttempts - 1) * c \in Nat
    BY <1>0, TimesMonotone
  <2>2. Cost(n, d) = (n - 1) * c + d /\ Cost(MaxAttempts, d) = (MaxAttempts - 1) * c + d
    BY DEF Cost, c
  <2> QED
    BY <2>1, <2>2
<1>3. Cost(1, d) = d
  BY DEF Cost
<1>4. ASSUME NEW n \in Nat \ {0} PROVE Cost(n + 1, d) = Cost(n, d) + W + d
  <2> HIDE DEF c
  <2>1. n * c = (n - 1) * c + c /\ (n - 1) * c \in Nat
    BY <1>0, TimesSucc
  <2>2. Cost(n, d) = (n - 1) * c + d /\ Cost(n + 1, d) = n * c + d
    BY DEF Cost, c
  <2> QED
    BY <2>1, <2>2 DEF c
<1>5. GroupCost(d) \in Nat
  BY <1>1, <1>2
<1> QED
  BY <1>1, <1>2, <1>3, <1>4, <1>5

(* What the groups up to the i-th cost, when each costs at most G. *)
LEMMA GroupSums ==
    ASSUME NEW G \in Nat
    PROVE  /\ Len(CASCADE) \in Nat /\ Index = 1..Len(CASCADE)
           /\ Len(CASCADE) * G \in Nat
           /\ \A i \in Index : /\ (i - 1) * G \in Nat /\ i * G = (i - 1) * G + G
                               /\ i * G <= Len(CASCADE) * G /\ i * G \in Nat
           /\ \A i, j \in Index : i < j => i * G <= (j - 1) * G
<1> DEFINE L == Len(CASCADE)
<1>1. L \in Nat /\ Index = 1..L
  BY CascadeAssumption DEF Index
<1>2. L * G \in Nat
  BY <1>1, TimesSucc
<1>3. ASSUME NEW i \in Index
      PROVE  /\ (i - 1) * G \in Nat /\ i * G = (i - 1) * G + G
             /\ i * G <= L * G /\ i * G \in Nat
  <2>1. i \in Nat /\ i - 1 \in Nat /\ i <= L /\ (i - 1) + 1 = i
    BY <1>1
  <2>2. i * G = (i - 1) * G + G /\ (i - 1) * G \in Nat
    BY <2>1, TimesSucc
  <2>3. i * G <= L * G /\ i * G \in Nat
    BY <1>1, <2>1, TimesMonotone
  <2> QED
    BY <2>2, <2>3
<1>4. ASSUME NEW i \in Index, NEW j \in Index, i < j PROVE i * G <= (j - 1) * G
  <2>1. i \in Nat /\ j - 1 \in Nat /\ i <= j - 1
    BY <1>1, <1>4
  <2> QED
    BY <2>1, TimesMonotone
<1> QED
  BY <1>1, <1>2, <1>3, <1>4

-----------------------------------------------------------------------------
(* The call as a whole. *)

(* The time spent when no attempt cost more than p: first what the groups  *)
(* behind the one being called have cost.                                  *)
Behind(p) == (at - 1) * GroupCost(p)

Within(p) ==
    /\ pc = "validate" => elapsed = began
    /\ pc = "calling" =>
          elapsed + p <= began + Behind(p) + Cost(attempt, p)
    /\ pc = "backoff" =>
          elapsed <= began + Behind(p) + Cost(attempt, p)
    /\ pc = "returned" => elapsed <= began + Len(CASCADE) * GroupCost(p)

(* The inductive invariant: two prices, that of a silent attempt as long   *)
(* as every reply was.                                                     *)
TimeInv == ClockOK /\ Within(F) /\ (trickling = {} => Within(T))

(* What a step of the clock leaves: the time, and what the client has.     *)
LEMMA PassFacts ==
    ASSUME ClockOK, NEW d \in Nat, Pass(d)
    PROVE  /\ elapsed' = elapsed + d /\ elapsed' \in Nat /\ began' = began
           /\ began' \in Nat /\ began' <= elapsed'
           /\ client' \in {"waiting", "_TIMEOUT_MESSAGE", "_CASCADE_EXHAUSTED_MESSAGE",
                           "_INTERNAL_ERROR_MESSAGE"}
           /\ client # "_TIMEOUT_MESSAGE" /\ client' = "_TIMEOUT_MESSAGE"
                 => elapsed' >= CHAT_STREAM_TIMEOUT_SECONDS
BY DEF ClockOK, Pass

(* What a step does to the place of the coroutine.                         *)
LEMMA AttemptMoves ==
    ASSUME IInv, NEW d \in Lapse, AttemptEnds(d)
    PROVE  /\ pc = "calling" /\ at \in Index /\ attempt \in 1..MaxAttempts
           /\ d \in Nat /\ d <= F /\ Pass(d)
           /\ slow' = IF d > Quick THEN slow \cup {at} ELSE slow
           /\ trickling' = IF d > T THEN trickling \cup {at} ELSE trickling
           /\ \/ /\ pc' = "backoff" /\ at' = at /\ attempt' = attempt
                 /\ attempt < MaxAttempts
              \/ /\ pc' = "calling" /\ at' \in Index /\ at' > at /\ attempt' = 1
                 /\ attempt = MaxAttempts
              \/ pc' = "returned" /\ at' = at
<1>1. TypeOK /\ ControlInv
  BY DEF IInv
<1>2. pc = "calling" /\ at \in Index /\ attempt \in 1..MaxAttempts
  <2>1. pc = "calling"
    BY DEF AttemptEnds, Answer, Fail, Retry, Escalate, Exhaust, Raise
  <2> QED
    BY <1>1, <2>1, IndexFacts, MaxAttemptsAssumption DEF TypeOK, ControlInv
<1>3. d \in Nat /\ d <= F
      /\ trickling' = IF d > T THEN trickling \cup {at} ELSE trickling
  BY LapseAssumption, TimeTypes DEF AttemptEnds
<1>4. Answer \/ \E e \in Error : Fail(e)
  BY DEF AttemptEnds, Error
<1>5. CASE Answer
  BY <1>2, <1>3, <1>5 DEF AttemptEnds, Answer, Return
<1>6. ASSUME NEW e \in Error, Fail(e)
      PROVE  \/ /\ pc' = "backoff" /\ at' = at /\ attempt' = attempt
                /\ attempt < MaxAttempts
             \/ /\ pc' = "calling" /\ at' \in Index /\ at' > at /\ attempt' = 1
                /\ attempt = MaxAttempts
             \/ pc' = "returned" /\ at' = at
  <2>1. CASE Retry(e)
    BY <2>1 DEF Retry
  <2>2. CASE Escalate(e)
    BY <1>2, <2>2, MaxAttemptsAssumption DEF Escalate, Follows, Visit
  <2>3. CASE Exhaust(e) \/ Raise(e)
    BY <2>3 DEF Exhaust, Raise, Return
  <2> QED
    BY <1>6, <2>1, <2>2, <2>3 DEF Fail
<1> QED
  BY <1>2, <1>3, <1>4, <1>5, <1>6 DEF AttemptEnds

LEMMA BackoffMoves ==
    ASSUME IInv, NEW d \in Lapse, BackoffEnds(d)
    PROVE  /\ pc = "backoff" /\ at \in Index /\ attempt \in 1..(MaxAttempts - 1)
           /\ d \in Nat /\ d <= W /\ Pass(d) /\ slow' = slow /\ trickling' = trickling
           /\ pc' = "calling" /\ at' = at /\ attempt' = attempt + 1
<1>1. pc = "backoff" /\ at \in Index /\ attempt \in 1..(MaxAttempts - 1)
  BY IndexFacts, MaxAttemptsAssumption
    DEF IInv, TypeOK, ControlInv, BackoffEnds, Wake
<1>2. d \in Nat /\ d <= MaxWait(attempt) /\ MaxWait(attempt) <= W
      /\ MaxWait(attempt) \in Nat /\ W \in Nat
  BY <1>1, LapseAssumption, WaitBounded, TimeTypes DEF BackoffEnds, MaxWait
<1> QED
  BY <1>1, <1>2 DEF BackoffEnds, Wake

LEMMA BeginMoves ==
    ASSUME IInv, Begin
    PROVE  /\ pc = "validate" /\ Pass(0) /\ at = 0
           /\ slow' = slow /\ trickling' = trickling
           /\ \/ pc' = "calling" /\ at' \in Index /\ attempt' = 1
              \/ pc' = "returned"
BY IndexFacts
  DEF IInv, ControlInv, Begin, RaiseValueError, Return, Start, Visit

(* Every step keeps the account at a price that covers its attempt. *)
LEMMA BeginWithin ==
    ASSUME IInv, ClockOK, NEW p \in Nat, Within(p),
           Begin
    PROVE  Within(p)'
<1> DEFINE G == GroupCost(p)
<1> DEFINE L == Len(CASCADE)
<1>0. elapsed \in Nat /\ began \in Nat
  BY DEF ClockOK
<1>1. /\ p \in Nat /\ W \in Nat /\ G \in Nat /\ Cost(1, p) = p
      /\ \A n \in 1..MaxAttempts : Cost(n, p) \in Nat /\ Cost(n, p) <= G
      /\ \A n \in Nat \ {0} : Cost(n + 1, p) = Cost(n, p) + W + p
  BY TimeTypes, CostFacts
<1>2. /\ L * G \in Nat
      /\ \A i \in Index : /\ (i - 1) * G \in Nat /\ i * G = (i - 1) * G + G
                          /\ i * G <= L * G /\ i * G \in Nat
      /\ \A i, j \in Index : i < j => i * G <= (j - 1) * G
  BY <1>1, GroupSums
<1>5. QED
  <2>1. /\ pc = "validate" /\ Pass(0) /\ slow' = slow /\ at = 0 /\ elapsed = began
        /\ \/ pc' = "calling" /\ at' \in Index /\ attempt' = 1
           \/ pc' = "returned"
    BY BeginMoves DEF Within
  <2>2. elapsed' = began /\ began' = began
    BY <1>0, <2>1, PassFacts
  <2>3. CASE pc' = "calling"
    <3>1. /\ at' \in Index /\ attempt' = 1
          /\ (at' - 1) * G \in Nat /\ Cost(1, p) \in Nat
      BY <1>1, <1>2, <2>1, <2>3
    <3> HIDE DEF G, L
    <3> QED
      BY <1>0, <1>1, <2>2, <2>3, <3>1 DEF Within, Behind, G
  <2>4. CASE pc' = "returned"
    BY <1>0, <1>2, <2>2, <2>4 DEF Within
  <2> QED
    BY <2>1, <2>3, <2>4

(* An attempt is paid for by the price. *)
LEMMA AttemptWithin ==
    ASSUME IInv, ClockOK, NEW p \in Nat, Within(p),
           NEW d \in Lapse, AttemptEnds(d), d <= p
    PROVE  Within(p)'
<1> DEFINE G == GroupCost(p)
<1> DEFINE L == Len(CASCADE)
<1>0. elapsed \in Nat /\ began \in Nat
  BY DEF ClockOK
<1>1. /\ p \in Nat /\ W \in Nat /\ G \in Nat /\ Cost(1, p) = p
      /\ \A n \in 1..MaxAttempts : Cost(n, p) \in Nat /\ Cost(n, p) <= G
      /\ \A n \in Nat \ {0} : Cost(n + 1, p) = Cost(n, p) + W + p
  BY TimeTypes, CostFacts
<1>2. /\ L * G \in Nat
      /\ \A i \in Index : /\ (i - 1) * G \in Nat /\ i * G = (i - 1) * G + G
                          /\ i * G <= L * G /\ i * G \in Nat
      /\ \A i, j \in Index : i < j => i * G <= (j - 1) * G
  BY <1>1, GroupSums
<1>5. QED
  <2>1. /\ pc = "calling" /\ at \in Index /\ attempt \in 1..MaxAttempts
        /\ d \in Nat /\ d <= p /\ Pass(d)
        /\ slow' = IF d > Quick THEN slow \cup {at} ELSE slow
        /\ \/ /\ pc' = "backoff" /\ at' = at /\ attempt' = attempt
              /\ attempt < MaxAttempts
           \/ /\ pc' = "calling" /\ at' \in Index /\ at' > at /\ attempt' = 1
              /\ attempt = MaxAttempts
           \/ pc' = "returned" /\ at' = at
    BY AttemptMoves
  <2>2. elapsed' = elapsed + d /\ elapsed' \in Nat /\ began' = began
    BY <1>0, <2>1, PassFacts
  <2> DEFINE b == (at - 1) * G
  <2> DEFINE c == Cost(attempt, p)
  <2>a. b \in Nat /\ c \in Nat /\ c <= G /\ at * G = b + G
    BY <1>1, <1>2, <2>1
  <2>b. elapsed + p <= began + b + c
    BY <2>1 DEF Within, Behind
  <2> HIDE DEF b, c, G
  <2>3. elapsed' <= began + b + c
    BY <1>0, <1>1, <2>1, <2>2, <2>a, <2>b
  <2>4. elapsed' <= began + at * G
    BY <1>0, <1>1, <2>2, <2>3, <2>a
  <2> USE DEF b, c, G
  <2>5. CASE pc' = "backoff" /\ at' = at /\ attempt' = attempt
    BY <2>2, <2>3, <2>5 DEF Within, Behind
  <2>6. CASE pc' = "calling" /\ at' \in Index /\ at' > at /\ attempt' = 1
    <3>1. elapsed' <= began + (at' - 1) * G
      BY <1>0, <1>2, <2>1, <2>2, <2>4, <2>6
    <3>2. Cost(attempt', p) = p
      BY <1>1, <2>6
    <3>3. (at' - 1) * G \in Nat
      BY <1>2, <2>6
    <3>4. elapsed' + p <= began' + Behind(p)' + Cost(attempt', p)
      <4> DEFINE b2 == (at' - 1) * G
      <4> HIDE DEF b2
      <4>1. elapsed' + p <= began + b2 + p
        BY <1>0, <1>1, <2>2, <3>1, <3>3 DEF b2
      <4> QED
        BY <2>2, <3>2, <4>1 DEF b2, Behind
    <3> QED
      BY <2>2, <2>6, <3>4 DEF Within
  <2>7. CASE pc' = "returned"
    BY <1>0, <1>2, <2>1, <2>2, <2>4, <2>7 DEF Within
  <2> QED
    BY <2>1, <2>5, <2>6, <2>7

(* A backoff is what is left between two attempts. *)
LEMMA BackoffWithin ==
    ASSUME IInv, ClockOK, NEW p \in Nat, Within(p),
           NEW d \in Lapse, BackoffEnds(d)
    PROVE  Within(p)'
<1> DEFINE G == GroupCost(p)
<1> DEFINE L == Len(CASCADE)
<1>0. elapsed \in Nat /\ began \in Nat
  BY DEF ClockOK
<1>1. /\ p \in Nat /\ W \in Nat /\ G \in Nat /\ Cost(1, p) = p
      /\ \A n \in 1..MaxAttempts : Cost(n, p) \in Nat /\ Cost(n, p) <= G
      /\ \A n \in Nat \ {0} : Cost(n + 1, p) = Cost(n, p) + W + p
  BY TimeTypes, CostFacts
<1>2. /\ L * G \in Nat
      /\ \A i \in Index : /\ (i - 1) * G \in Nat /\ i * G = (i - 1) * G + G
                          /\ i * G <= L * G /\ i * G \in Nat
      /\ \A i, j \in Index : i < j => i * G <= (j - 1) * G
  BY <1>1, GroupSums
<1>5. QED
  <2>1. /\ pc = "backoff" /\ at \in Index /\ attempt \in 1..(MaxAttempts - 1)
        /\ d \in Nat /\ d <= W /\ Pass(d) /\ slow' = slow
        /\ pc' = "calling" /\ at' = at /\ attempt' = attempt + 1
    BY BackoffMoves
  <2>2. elapsed' = elapsed + d /\ elapsed' \in Nat /\ began' = began
    BY <1>0, <2>1, PassFacts
  <2> DEFINE b == (at - 1) * G
  <2> DEFINE c == Cost(attempt, p)
  <2>3. elapsed <= began + b + c
    BY <2>1 DEF Within, Behind
  <2>a. attempt \in 1..MaxAttempts /\ attempt \in Nat \ {0}
    BY <2>1, MaxAttemptsAssumption
  <2>4. Cost(attempt', p) = c + W + p /\ c \in Nat /\ b \in Nat
    <3>1. Cost(attempt + 1, p) = c + W + p /\ c \in Nat
      BY <1>1, <2>a
    <3>2. b \in Nat
      BY <1>2, <2>1
    <3> QED
      BY <2>1, <3>1, <3>2
  <2> HIDE DEF b, c
  <2>5. elapsed' + p <= began + b + Cost(attempt', p)
    BY <1>0, <1>1, <2>1, <2>2, <2>3, <2>4
  <2> USE DEF b, c
  <2>6. elapsed' + p <= began' + Behind(p)' + Cost(attempt', p)
    BY <2>1, <2>2, <2>5 DEF Behind
  <2> QED
    BY <2>1, <2>2, <2>6 DEF Within

(* Every step keeps the time bound.                                        *)
LEMMA NextTimeInv == IInv /\ TimeInv /\ [TNext]_tvars => TimeInv'
<1> SUFFICES ASSUME IInv, TimeInv, [TNext]_tvars PROVE TimeInv'
  OBVIOUS
<1> USE DEF TimeInv
<1>1. ClockOK /\ slow \subseteq Index /\ trickling \subseteq Index
  BY DEF ClockOK
<1>2. T \in Nat /\ F \in Nat
  BY TimeTypes
<1>3. CASE Begin
  <2>1. ClockOK' /\ trickling' = trickling
    BY <1>1, <1>3, BeginMoves, PassFacts DEF ClockOK
  <2> QED
    BY <1>1, <1>2, <1>3, <2>1, BeginWithin
<1>4. ASSUME NEW d \in Lapse, AttemptEnds(d) PROVE TimeInv'
  <2>1. /\ at \in Index /\ d \in Nat /\ d <= F /\ Pass(d)
        /\ slow' = IF d > Quick THEN slow \cup {at} ELSE slow
        /\ trickling' = IF d > T THEN trickling \cup {at} ELSE trickling
    BY <1>4, AttemptMoves
  <2>2. ClockOK'
    BY <1>1, <2>1, PassFacts DEF ClockOK
  <2>3. Within(F)'
    BY <1>1, <1>2, <1>4, <2>1, AttemptWithin
  <2>4. ASSUME trickling' = {} PROVE Within(T)'
    <3>1. trickling = {} /\ d <= T
      BY <1>2, <2>1, <2>4
    <3> QED
      BY <1>1, <1>2, <1>4, <3>1, AttemptWithin
  <2> QED
    BY <2>2, <2>3, <2>4
<1>5. ASSUME NEW d \in Lapse, BackoffEnds(d) PROVE TimeInv'
  <2>1. d \in Nat /\ Pass(d) /\ slow' = slow /\ trickling' = trickling
    BY <1>5, BackoffMoves
  <2>2. ClockOK'
    BY <1>1, <2>1, PassFacts DEF ClockOK
  <2> QED
    BY <1>1, <1>2, <1>5, <2>1, <2>2, BackoffWithin
<1>6. CASE UNCHANGED tvars
  BY <1>6 DEF ClockOK, Within, Behind, tvars, vars, clock
<1> QED
  BY <1>3, <1>4, <1>5, <1>6 DEF TNext

(* What the account says of the time since the call began. *)
LEMMA WithinBounds ==
    ASSUME IInv, ClockOK, NEW p \in Nat, Within(p)
    PROVE  elapsed - began <= Len(CASCADE) * GroupCost(p)
<1> DEFINE G == GroupCost(p)
<1>0. elapsed \in Nat /\ began \in Nat
  BY DEF ClockOK
<1>1. /\ p \in Nat /\ G \in Nat /\ Len(CASCADE) * G \in Nat
      /\ \A n \in 1..MaxAttempts : Cost(n, p) \in Nat /\ Cost(n, p) <= G
  BY TimeTypes, CostFacts, GroupSums
<1>2. CASE pc \in {"calling", "backoff"}
  <2>1. at \in Index /\ attempt \in 1..MaxAttempts
    BY <1>2, IndexFacts, MaxAttemptsAssumption DEF IInv, TypeOK, ControlInv
  <2>2. /\ (at - 1) * G \in Nat /\ at * G = (at - 1) * G + G
        /\ at * G <= Len(CASCADE) * G
    BY <1>1, <2>1, GroupSums
  <2>3. elapsed <= began + (at - 1) * G + Cost(attempt, p)
    <3>1. Cost(attempt, p) \in Nat
      BY <1>1, <2>1
    <3> QED
      BY <1>0, <1>1, <1>2, <2>2, <3>1 DEF Within, Behind
  <2> HIDE DEF G
  <2>4. elapsed <= began + at * G
    BY <1>0, <1>1, <2>1, <2>2, <2>3
  <2> QED
    BY <1>0, <1>1, <2>2, <2>4 DEF G
<1>3. CASE pc = "validate" \/ pc = "returned"
  BY <1>0, <1>1, <1>3 DEF Within
<1> QED
  BY <1>2, <1>3 DEF IInv, TypeOK

(* A call lasts no longer than its attempts and backoffs can add up to,    *)
(* whether or not its stream still waits: at the timeout for each attempt, *)
(* or at MaxWaits timeouts when a reply kept coming.                       *)
THEOREM CallsAreBounded == TSpec => []CallIsBounded
<1>1. TInit => TimeInv
  BY LapseAssumption DEF TInit, Init, TimeInv, Within, ClockOK
<1>2. IInv /\ TimeInv => CallIsBounded
  <2> SUFFICES ASSUME IInv, TimeInv PROVE CallIsBounded
    OBVIOUS
  <2>1. T \in Nat /\ F \in Nat /\ 1 * T = T
    BY TimeTypes
  <2>2. CASE trickling = {}
    BY <2>1, <2>2, WithinBounds DEF TimeInv, CallIsBounded, Waits, T
  <2>3. CASE trickling # {}
    BY <2>1, <2>3, WithinBounds DEF TimeInv, CallIsBounded, Waits, T, F
  <2> QED
    BY <2>2, <2>3
<1> QED
  BY <1>1, <1>2, NextTimeInv, TimedIInv, PTL DEF TSpec

-----------------------------------------------------------------------------
(* One slow group. *)

Q == Quick
Spare == GroupCost(T) - GroupCost(Q)
Several(sl) == \E i, j \in sl : i # j

(* What an attempt of group a may have cost, and what the groups behind it  *)
(* may have cost beyond that of quick ones.                                *)
Each(a, sl) == IF a \in sl THEN T ELSE Q
Extra(a, sl) == IF \E s \in sl : s < a THEN Spare ELSE 0
SlowCost(a, sl) == (a - 1) * GroupCost(Q) + Extra(a, sl)
Most == Len(CASCADE) * GroupCost(Q) + Spare

(* Slower attempts cost no less.                                           *)
LEMMA CostMonotone ==
    ASSUME NEW d \in Nat, NEW e \in Nat, d <= e, NEW n \in 1..MaxAttempts
    PROVE  /\ Cost(n, d) \in Nat /\ Cost(n, e) \in Nat
           /\ Cost(n, d) - d <= Cost(n, e) - e
           /\ GroupCost(d) <= GroupCost(e)
<1>1. W \in Nat /\ d + W \in Nat /\ e + W \in Nat /\ d + W <= e + W
  BY TimeTypes
<1>2. ASSUME NEW k \in Nat PROVE k * (d + W) <= k * (e + W) /\ k * (d + W) \in Nat /\ k * (e + W) \in Nat
  <2> DEFINE x == d + W
  <2> DEFINE y == e + W
  <2> HIDE DEF x, y
  <2>1. x \in Nat /\ y \in Nat /\ x <= y
    BY <1>1 DEF x, y
  <2>2. x * k <= y * k /\ x * k \in Nat /\ y * k \in Nat
    BY <2>1, TimesMonotone
  <2>3. x * k = k * x /\ y * k = k * y
    BY <2>1
  <2> QED
    BY <2>2, <2>3 DEF x, y
<1>3. ASSUME NEW k \in 1..MaxAttempts
      PROVE  /\ Cost(k, d) \in Nat /\ Cost(k, e) \in Nat
             /\ Cost(k, d) - d <= Cost(k, e) - e
  <2>1. k - 1 \in Nat
    BY MaxAttemptsAssumption
  <2>2. (k - 1) * (d + W) <= (k - 1) * (e + W)
        /\ (k - 1) * (d + W) \in Nat /\ (k - 1) * (e + W) \in Nat
    BY <1>2, <2>1
  <2> QED
    BY <2>2 DEF Cost
<1>4. Cost(MaxAttempts, d) = GroupCost(d) /\ Cost(MaxAttempts, e) = GroupCost(e)
  BY CostFacts
<1>5. MaxAttempts \in 1..MaxAttempts
  BY MaxAttemptsAssumption
<1> QED
  BY <1>3, <1>4, <1>5

(* With at most one slow group, what is spent when a group is left is what *)
(* counts as spent when a later one is entered, and is never above Most.   *)
LEMMA SlowFacts ==
    ASSUME Q <= T, NEW sl \in SUBSET Index, ~Several(sl), NEW a \in Index
    PROVE  /\ Each(a, sl) \in Nat /\ Q <= Each(a, sl) /\ Each(a, sl) <= T
           /\ SlowCost(a, sl) \in Nat /\ Most \in Nat
           /\ SlowCost(a, sl) + GroupCost(Each(a, sl)) <= Most
           /\ \A b \in Index :
                 (a < b /\ \A s \in sl : s <= a)
                    => /\ SlowCost(a, sl) + GroupCost(Each(a, sl)) <= SlowCost(b, sl)
                       /\ Each(b, sl) = Q
<1> DEFINE G == GroupCost(Q)
<1> DEFINE H == GroupCost(T)
<1> DEFINE L == Len(CASCADE)
<1>1. Q \in Nat /\ T \in Nat
  BY StreamAssumption, TimeTypes DEF Q
<1>2. G \in Nat /\ H \in Nat /\ G <= H
  BY <1>1, CostFacts, CostMonotone, MaxAttemptsAssumption
<1>3. Spare \in Nat /\ H = G + Spare
  BY <1>2 DEF Spare
<1>4. /\ L * G \in Nat
      /\ \A i \in Index : /\ i \in Nat /\ (i - 1) * G \in Nat /\ i * G = (i - 1) * G + G
                          /\ i * G <= L * G /\ i * G \in Nat
      /\ \A i, j \in Index : i < j => i * G <= (j - 1) * G
  <2>1. \A i \in Index : i \in Nat
    BY CascadeAssumption DEF Index
  <2> HIDE DEF G
  <2> QED
    BY <1>2, <2>1, GroupSums
<1>5. Each(a, sl) \in {Q, T}
  BY DEF Each
<1>6. GroupCost(Each(a, sl)) = IF a \in sl THEN H ELSE G
  BY DEF Each
<1>7. a \in sl => Extra(a, sl) = 0
  BY <1>4 DEF Extra, Several
<1>8. Extra(a, sl) \in {0, Spare}
  BY DEF Extra
<1> HIDE DEF G, H, L
<1>9. Extra(a, sl) \in Nat /\ (a - 1) * G \in Nat /\ SlowCost(a, sl) = (a - 1) * G + Extra(a, sl)
  BY <1>3, <1>4, <1>8 DEF SlowCost, G
<1>10. Most = L * G + Spare
  BY DEF Most, L, G
<1>11. SlowCost(a, sl) + GroupCost(Each(a, sl)) <= a * G + Spare
       /\ (sl = {} => SlowCost(a, sl) + GroupCost(Each(a, sl)) = a * G)
  <2>1. CASE a \in sl
    BY <1>2, <1>3, <1>4, <1>6, <1>7, <1>9, <2>1
  <2>2. CASE a \notin sl
    <3>1. sl = {} => Extra(a, sl) = 0
      BY DEF Extra
    <3> QED
      BY <1>2, <1>3, <1>4, <1>6, <1>8, <1>9, <2>2, <3>1
  <2> QED
    BY <2>1, <2>2
<1>12. Most \in Nat /\ SlowCost(a, sl) \in Nat /\ a * G + Spare <= Most
  BY <1>3, <1>4, <1>9, <1>10
<1>13. GroupCost(Each(a, sl)) \in Nat
  BY <1>2, <1>6
<1>14. ASSUME NEW b \in Index, a < b, \A s \in sl : s <= a
       PROVE  /\ SlowCost(a, sl) + GroupCost(Each(a, sl)) <= SlowCost(b, sl)
              /\ Each(b, sl) = Q
  <2>1. b \notin sl
    BY <1>4, <1>14
  <2>2. Extra(b, sl) = IF sl = {} THEN 0 ELSE Spare
    BY <1>4, <1>14 DEF Extra
  <2>3. SlowCost(b, sl) = (b - 1) * G + Extra(b, sl) /\ (b - 1) * G \in Nat
    BY <1>4 DEF SlowCost, G
  <2>4. a * G <= (b - 1) * G /\ a * G \in Nat
    BY <1>4, <1>14
  <2> QED
    BY <1>3, <1>11, <1>12, <1>13, <2>1, <2>2, <2>3, <2>4 DEF Each
<1> QED
  BY <1>1, <1>5, <1>11, <1>12, <1>13, <1>14, <1>3, <1>4

OneInv ==
    /\ ClockOK /\ began < CHAT_STREAM_TIMEOUT_SECONDS
    /\ pc = "validate" => elapsed = began
    /\ \A s \in slow : s <= at
    /\ (began = 0 /\ ~Several(slow) /\ trickling = {}) =>
          /\ client # "_TIMEOUT_MESSAGE"
          /\ pc = "calling" =>
                elapsed + Each(at, slow) <= SlowCost(at, slow) + Cost(attempt, Each(at, slow))
          /\ pc = "backoff" =>
                elapsed <= SlowCost(at, slow) + Cost(attempt, Each(at, slow))

(* A stream is not over while the time is within Most. *)
LEMMA StillWaiting ==
    ASSUME ClockOK, NEW d \in Nat, Pass(d), client # "_TIMEOUT_MESSAGE",
           elapsed' < CHAT_STREAM_TIMEOUT_SECONDS
    PROVE  client' # "_TIMEOUT_MESSAGE"
BY PassFacts, StreamAssumption

LEMMA AttemptOneInv ==
    ASSUME Q <= T, Most < CHAT_STREAM_TIMEOUT_SECONDS,
           IInv, OneInv, NEW d \in Lapse, AttemptEnds(d)
    PROVE  OneInv'
<1>1. /\ pc = "calling" /\ at \in Index /\ attempt \in 1..MaxAttempts
      /\ d \in Nat /\ Pass(d)
      /\ slow' = IF d > Quick THEN slow \cup {at} ELSE slow
      /\ trickling' = IF d > T THEN trickling \cup {at} ELSE trickling
      /\ \/ /\ pc' = "backoff" /\ at' = at /\ attempt' = attempt
            /\ attempt < MaxAttempts
         \/ /\ pc' = "calling" /\ at' \in Index /\ at' > at /\ attempt' = 1
            /\ attempt = MaxAttempts
         \/ pc' = "returned" /\ at' = at
  BY AttemptMoves
<1>2. ClockOK /\ elapsed \in Nat /\ began \in Nat /\ slow \in SUBSET Index
      /\ trickling \in SUBSET Index
  BY DEF OneInv, ClockOK
<1>3. Q \in Nat /\ T \in Nat
  BY StreamAssumption, TimeTypes DEF Q
<1>4. /\ elapsed' = elapsed + d /\ elapsed' \in Nat /\ began' = began
      /\ slow' \in SUBSET Index /\ ClockOK'
  BY <1>1, <1>2, PassFacts DEF ClockOK
<1>5. /\ \A s \in slow' : s <= at
      /\ \A s \in slow' : s <= at'
  <2>1. \A i \in Index : i \in Nat
    BY CascadeAssumption DEF Index
  <2>2. \A s \in slow' : s <= at
    BY <1>1, <1>2, <2>1 DEF OneInv
  <2> QED
    BY <1>1, <1>4, <2>1, <2>2
<1>6. ASSUME began = 0, ~Several(slow'), trickling' = {}
      PROVE  /\ elapsed' <= SlowCost(at, slow') + Cost(attempt, Each(at, slow'))
             /\ client' # "_TIMEOUT_MESSAGE"
             /\ pc' = "calling" => elapsed' <= SlowCost(at', slow')
  <2>0. trickling = {} /\ d <= T
    BY <1>1, <1>3, <1>6
  <2>1. ~Several(slow)
    BY <1>1, <1>6 DEF Several
  <2> DEFINE e == Each(at, slow)
  <2> DEFINE e2 == Each(at, slow')
  <2>2. e \in Nat /\ Q <= e /\ e <= T /\ SlowCost(at, slow) \in Nat
    BY <1>1, <1>2, <2>1, SlowFacts
  <2>3. /\ e2 \in Nat /\ Q <= e2 /\ e2 <= T /\ SlowCost(at, slow') \in Nat /\ Most \in Nat
        /\ SlowCost(at, slow') + GroupCost(e2) <= Most
    BY <1>1, <1>4, <1>6, SlowFacts
  <2>4. e <= e2 /\ d <= e2
    BY <1>1, <1>3, <2>0 DEF Each, Q
  <2>5. SlowCost(at, slow) = SlowCost(at, slow')
    BY <1>1, <1>4, <1>2, CascadeAssumption DEF SlowCost, Extra, Index
  <2>6. /\ Cost(attempt, e) \in Nat /\ Cost(attempt, e2) \in Nat
        /\ Cost(attempt, e) - e <= Cost(attempt, e2) - e2
        /\ Cost(attempt, e2) <= GroupCost(e2) /\ GroupCost(e2) \in Nat
    BY <1>1, <2>2, <2>3, <2>4, CostMonotone, CostFacts
  <2>7. elapsed + e <= SlowCost(at, slow) + Cost(attempt, e) /\ client # "_TIMEOUT_MESSAGE"
    BY <1>1, <1>6, <2>0, <2>1 DEF OneInv
  <2> HIDE DEF e, e2
  <2>8. elapsed' <= SlowCost(at, slow') + Cost(attempt, e2)
    BY <1>1, <1>2, <1>4, <2>2, <2>3, <2>4, <2>5, <2>6, <2>7
  <2>9. elapsed' <= SlowCost(at, slow') + GroupCost(e2) /\ elapsed' <= Most
    BY <1>4, <2>3, <2>6, <2>8
  <2>10. client' # "_TIMEOUT_MESSAGE"
    BY <1>1, <1>2, <1>4, <2>3, <2>7, <2>9, StillWaiting, StreamAssumption
  <2>11. ASSUME pc' = "calling" PROVE elapsed' <= SlowCost(at', slow')
    <3>1. at' \in Index /\ at < at' /\ at \in Nat /\ at' \in Nat
      BY <1>1, <2>11, CascadeAssumption DEF Index
    <3>2. SlowCost(at, slow') + GroupCost(e2) <= SlowCost(at', slow')
      BY <1>1, <1>4, <1>5, <1>6, <3>1, SlowFacts DEF e2
    <3>3. SlowCost(at', slow') \in Nat
      BY <1>4, <1>6, <3>1, SlowFacts
    <3> QED
      BY <1>4, <2>3, <2>6, <2>9, <3>2, <3>3
  <2> QED
    BY <2>8, <2>10, <2>11 DEF e2
<1>7. ASSUME began = 0, ~Several(slow'), trickling' = {}, pc' = "calling"
      PROVE  elapsed' + Each(at', slow') <= SlowCost(at', slow') + Cost(attempt', Each(at', slow'))
  <2>1. at' \in Index /\ at < at' /\ attempt' = 1
    BY <1>1, <1>7, CascadeAssumption DEF Index
  <2>2. Each(at', slow') = Q /\ SlowCost(at', slow') \in Nat
    BY <1>1, <1>4, <1>5, <1>7, <2>1, SlowFacts
  <2>3. Cost(attempt', Q) = Q
    BY <1>3, <2>1, CostFacts
  <2> QED
    BY <1>3, <1>4, <1>6, <1>7, <2>2, <2>3
<1> QED
  BY <1>1, <1>4, <1>5, <1>6, <1>7 DEF OneInv

LEMMA BackoffOneInv ==
    ASSUME Q <= T, Most < CHAT_STREAM_TIMEOUT_SECONDS,
           IInv, OneInv, NEW d \in Lapse, BackoffEnds(d)
    PROVE  OneInv'
<1>1. /\ pc = "backoff" /\ at \in Index /\ attempt \in 1..(MaxAttempts - 1)
      /\ d \in Nat /\ d <= W /\ Pass(d) /\ slow' = slow /\ trickling' = trickling
      /\ pc' = "calling" /\ at' = at /\ attempt' = attempt + 1
  BY BackoffMoves
<1>2. ClockOK /\ elapsed \in Nat /\ began \in Nat /\ slow \in SUBSET Index
      /\ trickling \in SUBSET Index
  BY DEF OneInv, ClockOK
<1>3. /\ elapsed' = elapsed + d /\ elapsed' \in Nat /\ began' = began /\ ClockOK'
  BY <1>1, <1>2, PassFacts DEF ClockOK
<1>4. ASSUME began = 0, ~Several(slow), trickling = {}
      PROVE  /\ elapsed' + Each(at, slow) <= SlowCost(at, slow) + Cost(attempt + 1, Each(at, slow))
             /\ client' # "_TIMEOUT_MESSAGE"
  <2> DEFINE e == Each(at, slow)
  <2>1. /\ e \in Nat /\ SlowCost(at, slow) \in Nat /\ Most \in Nat
        /\ SlowCost(at, slow) + GroupCost(e) <= Most
    BY <1>1, <1>2, <1>4, SlowFacts
  <2>2. attempt \in 1..MaxAttempts /\ attempt + 1 \in 1..MaxAttempts /\ attempt \in Nat \ {0}
        /\ W \in Nat
    BY <1>1, MaxAttemptsAssumption, TimeTypes
  <2>3. elapsed <= SlowCost(at, slow) + Cost(attempt, e) /\ client # "_TIMEOUT_MESSAGE"
    BY <1>1, <1>4 DEF OneInv
  <2> HIDE DEF e
  <2>4. /\ Cost(attempt, e) \in Nat /\ Cost(attempt + 1, e) = Cost(attempt, e) + W + e
        /\ Cost(attempt + 1, e) <= GroupCost(e) /\ GroupCost(e) \in Nat
    BY <2>1, <2>2, CostFacts
  <2>5. elapsed' + e <= SlowCost(at, slow) + Cost(attempt + 1, e)
    BY <1>1, <1>2, <1>3, <2>1, <2>2, <2>3, <2>4
  <2>6. elapsed' <= Most
    BY <1>3, <2>1, <2>2, <2>4, <2>5
  <2> QED
    BY <1>1, <1>2, <1>3, <2>1, <2>3, <2>5, <2>6, StillWaiting, StreamAssumption DEF e
<1> QED
  BY <1>1, <1>3, <1>4 DEF OneInv

LEMMA BeginOneInv ==
    ASSUME Q <= T, IInv, OneInv, Begin PROVE OneInv'
<1>1. /\ pc = "validate" /\ Pass(0) /\ slow' = slow /\ trickling' = trickling /\ at = 0
      /\ \/ pc' = "calling" /\ at' \in Index /\ attempt' = 1
         \/ pc' = "returned"
  BY BeginMoves
<1>2. /\ ClockOK /\ elapsed = began /\ began \in Nat /\ slow = {}
      /\ began < CHAT_STREAM_TIMEOUT_SECONDS
  BY <1>1, CascadeAssumption DEF OneInv, ClockOK, Index
<1>3. /\ elapsed' = began /\ elapsed' \in Nat /\ began' = began /\ ClockOK'
  BY <1>1, <1>2, PassFacts DEF ClockOK
<1>4. client # "_TIMEOUT_MESSAGE" => client' # "_TIMEOUT_MESSAGE"
  BY <1>1, <1>2, <1>3, StillWaiting
<1>5. ASSUME pc' = "calling", began = 0, ~Several(slow), trickling = {}
      PROVE  elapsed' + Each(at', slow') <= SlowCost(at', slow') + Cost(attempt', Each(at', slow'))
  <2>1. at' \in Index /\ attempt' = 1 /\ slow' = slow
    BY <1>1, <1>5
  <2>2. Each(at', slow') \in Nat /\ SlowCost(at', slow') \in Nat
    BY <1>2, <1>5, <2>1, SlowFacts
  <2>3. Cost(attempt', Each(at', slow')) = Each(at', slow')
    BY <2>1, <2>2, CostFacts
  <2> QED
    BY <1>3, <1>5, <2>2, <2>3
<1> QED
  BY <1>1, <1>2, <1>3, <1>4, <1>5 DEF OneInv

(* A stream outlasts the first call of its turn when no reply trickled and *)
(* at most one group was slow, whichever it was and whatever else failed:  *)
(* for every cascade and number of attempts for which one slow group and   *)
(* otherwise quick ones fit into the stream.                               *)
THEOREM OneHungGroup ==
    ASSUME Quick <= DEFAULT_TIMEOUT_SECONDS, Most < CHAT_STREAM_TIMEOUT_SECONDS
    PROVE  TSpec => []OneHungGroupIsSurvived
<1>1. TInit => OneInv
  BY LapseAssumption DEF TInit, Init, OneInv, ClockOK
<1>2. IInv /\ OneInv /\ [TNext]_tvars => OneInv'
  <2> SUFFICES ASSUME IInv, OneInv, [TNext]_tvars PROVE OneInv'
    OBVIOUS
  <2>1. Q <= T
    BY DEF Q, T
  <2>2. CASE Begin
    BY <2>1, <2>2, BeginOneInv
  <2>3. ASSUME NEW d \in Lapse, AttemptEnds(d) PROVE OneInv'
    BY <2>1, <2>3, AttemptOneInv
  <2>4. ASSUME NEW d \in Lapse, BackoffEnds(d) PROVE OneInv'
    BY <2>1, <2>4, BackoffOneInv
  <2>5. CASE UNCHANGED tvars
    BY <2>5 DEF OneInv, ClockOK, Several, SlowCost, Extra, Each, tvars, vars, clock
  <2> QED
    BY <2>2, <2>3, <2>4, <2>5 DEF TNext
<1>3. OneInv => OneHungGroupIsSurvived
  BY DEF OneInv, OneHungGroupIsSurvived, Several
<1> QED
  BY <1>1, <1>2, <1>3, TimedIInv, PTL DEF TSpec

(* With the numbers of llm.py and config.py (three groups, three attempts, *)
(* the 20 s timeout, a stream of 120 s) and attempts quick up to 8.5 s, a  *)
(* stream survives one hung group; and a call whose stream is over keeps   *)
(* its worker thread for up to 186 s, unless a reply trickles.             *)
THEOREM ConfiguredBudget ==
    ASSUME Len(CASCADE) = 3, MaxAttempts = 3, CHAT_STREAM_TIMEOUT_SECONDS = 240, Quick <= 17
    PROVE  TSpec => []OneHungGroupIsSurvived /\ [](trickling = {} => elapsed - began <= 372)
<1>1. \A d \in Nat : GroupCost(d) = 3 * d + 4
  BY DEF GroupCost, MaxWait
<1>2. Quick \in Nat /\ T = 40
  BY StreamAssumption DEF T, DEFAULT_TIMEOUT_SECONDS
<1>3. GroupCost(T) = 124 /\ GroupCost(Q) = 3 * Quick + 4
  BY <1>1, <1>2 DEF Q
<1>4. Quick <= DEFAULT_TIMEOUT_SECONDS /\ Most < CHAT_STREAM_TIMEOUT_SECONDS
  BY <1>2, <1>3 DEF Most, Spare, DEFAULT_TIMEOUT_SECONDS
<1>5. CallIsBounded => (trickling = {} => elapsed - began <= 372)
  <2>1. 1 * DEFAULT_TIMEOUT_SECONDS = T
    BY <1>2 DEF T
  <2> QED
    BY <1>3, <2>1 DEF CallIsBounded, Waits
<1> QED
  BY <1>4, <1>5, OneHungGroup, CallsAreBounded, PTL
=============================================================================
