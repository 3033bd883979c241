------------------------- MODULE Guardrails_proofs --------------------------
(***************************************************************************)
(* What the guardrails flag is in the message, and a NIR that comes first  *)
(* is flagged, for messages of every length and every limit.               *)
(***************************************************************************)
EXTENDS Guardrails, WellFoundedInduction, TLAPS

(* The inductive invariant: a result is the one the pipeline computes.     *)
IInv ==
    /\ \E n \in Nat : text \in [1..n -> Item]
    /\ result \in {NotRun, Aggregate(text)} \/ (result = Raised /\ PiiRaises(text))

(* Initially the pipeline has not run. *)
LEMMA InitEstablishes == Init => IInv
<1> SUFFICES ASSUME Init PROVE IInv
  OBVIOUS
<1>1. PICK n \in 0..MaxItems : text \in [1..n -> Item]
  BY DEF Init
<1>2. n \in Nat
  BY LengthAssumption
<1> QED
  BY <1>1, <1>2 DEF Init, IInv

(* One call of the pipeline computes it. *)
LEMMA StepPreserves == IInv /\ [Next]_vars => IInv'
  BY DEF IInv, Next, RunInputGuardrails, vars

(* A set of naturals that is not empty has a least element. *)
LEMMA LeastElement ==
  ASSUME NEW S, S \subseteq Nat, S # {}
  PROVE  \E i \in S : \A j \in S : i =< j
<1> DEFINE less == OpToRel(<, Nat)
<1>1. ASSUME NEW i \in Nat, NEW j \in Nat, i < j
      PROVE  <<i, j>> \in less
  BY <1>1 DEF OpToRel
<1>2. IsWellFoundedOn(less, Nat)
  BY NatLessThanWellFounded
<1> HIDE DEF less
<1>3. PICK i \in S : \A j \in S : ~(<<j, i>> \in less)
  BY <1>2, WFMin
<1>4. ASSUME NEW j \in S
      PROVE  i =< j
  <2>1. ~(j < i)
    BY <1>1, <1>3
  <2> QED
    BY <2>1
<1> QED
  BY <1>3, <1>4

(* What check_pii finds is in the message; an IBAN is found wherever it is.*)
LEMMA PiiIsInTheMessage ==
  ASSUME IInv
  PROVE  /\ "nir_detected" \in CheckPii(text).reason
               => \E i \in Places(Candidate) : text[i].key = "plausible"
         /\ "iban_fr_detected" \in CheckPii(text).reason <=> Places(Iban) # {}
<1> DEFINE nir == {"nir_detected" : n \in {k \in NirMatch(text) : NirKeyIsPlausible(k)}}
           iban == {"iban_fr_detected" : i \in {j \in DOMAIN text : text[j] \in Iban}}
           candidates == {i \in DOMAIN text : text[i] \in Candidate}
<1>1. CheckPii(text).reason = nir \union iban
  BY DEF CheckPii
<1>2. "iban_fr_detected" \in iban <=> Places(Iban) # {}
  BY DEF Places
<1>3. "iban_fr_detected" \notin nir /\ "nir_detected" \notin iban
  OBVIOUS
<1>4. ASSUME "nir_detected" \in nir
      PROVE  \E i \in Places(Candidate) : text[i].key = "plausible"
  <2>1. PICK k \in NirMatch(text) : NirKeyIsPlausible(k)
    BY <1>4
  <2>2. candidates # {} /\ k = text[Min(candidates)]
    BY <2>1 DEF NirMatch
  <2>3. PICK n \in Nat : text \in [1..n -> Item]
    BY DEF IInv
  <2>4. candidates \subseteq Nat
    BY <2>3
  <2>5. Min(candidates) \in candidates
    BY <2>2, <2>4, LeastElement DEF Min
  <2> QED
    BY <2>1, <2>2, <2>5 DEF Places, NirKeyIsPlausible
<1> HIDE DEF nir, iban
<1> QED
  BY <1>1, <1>2, <1>3, <1>4

(* The flags of a result are what the checks gave. *)
LEMMA FlagsOfAggregate ==
  ASSUME NEW t, NEW r
  PROVE  <<"pii:", r>> \in Aggregate(t).flags <=> r \in CheckPii(t).reason
<1>1. "pii:" # "blocked:"
  OBVIOUS
<1> QED
  BY <1>1 DEF Aggregate

(* run_input_guardrails: a flag names something the message contains, and  *)
(* an IBAN is flagged whatever the blocking checks said, unless check_pii  *)
(* has raised.                                                             *)
THEOREM FlagsAreTrue == Spec => []FlagsAreSound
<1>1. Spec => []IInv
  BY InitEstablishes, StepPreserves, PTL DEF Spec
<1>2. IInv => FlagsAreSound
  <2> SUFFICES ASSUME IInv
               PROVE  FlagsAreSound
    OBVIOUS
  <2>1. CASE result = Aggregate(text)
    BY <2>1, PiiIsInTheMessage, FlagsOfAggregate DEF FlagsAreSound
  <2>2. CASE result \in {NotRun, Raised}
    BY <2>2 DEF FlagsAreSound, NotRun, Raised
  <2> QED
    BY <2>1, <2>2 DEF IInv
<1> QED
  BY <1>1, <1>2, PTL

(* Its first candidate is what check_pii looks at in a message.            *)
LEMMA FirstCandidateIsMatched ==
  ASSUME IInv, NEW i \in Places(Nir), \A j \in Places(Candidate) : i <= j
  PROVE  NirMatch(text) = {text[i]}
<1> DEFINE candidates == {j \in DOMAIN text : text[j] \in Candidate}
<1>1. PICK n \in Nat : text \in [1..n -> Item]
  BY DEF IInv
<1>2. candidates \subseteq Nat /\ candidates = Places(Candidate)
  BY <1>1 DEF Places
<1>3. i \in candidates
  BY DEF Places, Nir, Candidate
<1>4. Min(candidates) = i
  <2>1. Min(candidates) \in candidates /\ \A j \in candidates : Min(candidates) <= j
    BY <1>2, <1>3 DEF Min
  <2> HIDE DEF candidates
  <2>2. PICK m : m = Min(candidates)
    OBVIOUS
  <2>3. m \in Nat /\ i \in Nat /\ m <= i /\ i <= m
    BY <1>2, <1>3, <2>1, <2>2
  <2> QED
    BY <2>2, <2>3
<1> QED
  BY <1>3, <1>4 DEF NirMatch

(* check_pii flags the first candidate of a message if it is a NIR grouped *)
(* by spaces, and run_input_guardrails passes the flag on even with a      *)
(* refusal, for messages of every length and every max_length.             *)
THEOREM FirstNirFlagged == Spec => []FirstNirIsFlagged
<1>1. Spec => []IInv
  BY InitEstablishes, StepPreserves, PTL DEF Spec
<1>2. IInv => FirstNirIsFlagged
  <2> SUFFICES ASSUME IInv, NEW i \in Places(Nir), result # NotRun,
                      text[i].grouped = "space", \A j \in Places(Candidate) : i <= j
               PROVE  result.pc = "returned" /\ <<"pii:", "nir_detected">> \in result.flags
    BY DEF FirstNirIsFlagged
  <2>1. NirMatch(text) = {text[i]}
    BY FirstCandidateIsMatched
  <2>2. text[i].key = "plausible" /\ ~PiiRaises(text)
    BY <2>1 DEF Places, Nir, PiiRaises, IntRaises
  <2>3. result = Aggregate(text)
    BY <2>2 DEF IInv, Raised
  <2>4. "nir_detected" \in CheckPii(text).reason
    BY <2>1, <2>2 DEF CheckPii, NirKeyIsPlausible
  <2>5. Aggregate(text).pc = "returned"
    BY DEF Aggregate
  <2> QED
    BY <2>3, <2>4, <2>5, FlagsOfAggregate
<1> QED
  BY <1>1, <1>2, PTL
=============================================================================
