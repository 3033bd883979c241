----------------------------- MODULE Guardrails -----------------------------
(***************************************************************************)
(* The input guardrails: the checks of app/agent/guardrails/input.py and   *)
(* run_input_guardrails of pipeline.py, on one message.                    *)
(*                                                                         *)
(* A message is a sequence of words and of what the checks look for, with  *)
(* punctuation between two of them, so that no pattern reaches over two.   *)
(* A number of 15 digits is a NIR or has another key; its digits are       *)
(* grouped by spaces (or not at all), or by another white space (a         *)
(* no-break space, a tab), which the patterns' \s accepts too.  An IBAN in *)
(* groups of four ends in 15 characters that start a group: when these are *)
(* digits they look like such a number to _NIR_PATTERN.                    *)
(***************************************************************************)
EXTENDS Naturals, Sequences, FiniteSets, FiniteSetsExt

CONSTANTS
    max_length,     \* the longest message accepted, in items
    MaxItems        \* bound: the longest message considered

ASSUME LengthAssumption == max_length \in Nat /\ MaxItems \in Nat

Key == {"plausible", "other"}
Grouping == {"space", "other white space"}

Number == [kind : {"number"}, key : Key, grouped : Grouping]
Nir == {n \in Number : n.key = "plausible"}
IbanWithTail == [kind : {"iban"}, key : Key, grouped : Grouping]
OtherIban == [kind : {"other iban"}]
Iban == IbanWithTail \union OtherIban
Phrase == [kind : {"ignore the instructions"}]
Word == [kind : {"word"}]
Item == Number \union Iban \union Phrase \union Word

(* What _NIR_PATTERN matches. *)
Candidate == Number \union IbanWithTail

VARIABLES text, result
vars == <<text, result>>

Places(kind) == {i \in DOMAIN text : text[i] \in kind}

-----------------------------------------------------------------------------
(* The checks.  A check's result: ok, reason, blocking. *)

CheckLength(t) ==
    LET ok == Len(t) <= max_length
    IN  [ok |-> ok, reason |-> IF ok THEN {} ELSE {"length"}, blocking |-> TRUE]

CheckInjection(t) ==
    LET ok == \A i \in DOMAIN t : t[i] \notin Phrase
    IN  [ok |-> ok, reason |-> IF ok THEN {} ELSE {"injection"}, blocking |-> TRUE]

(* _nir_key_is_plausible: int() is given what is left of the 13 digits     *)
(* when the spaces are taken out.                                          *)
\* Mutated form: the spaces are left in.
IntRaises_SpacesToo(n) == TRUE

IntRaises(n) == n.grouped # "space"

\* Mutated form: 15 digits are taken for a NIR whatever their key.
NirKeyIsPlausible_AnyKey(n) == TRUE

NirKeyIsPlausible(n) == n.key = "plausible"

(* _NIR_PATTERN.search: the first candidate of the message, and no other. *)
NirMatch(t) ==
    LET candidates == {i \in DOMAIN t : t[i] \in Candidate}
    IN  IF candidates = {} THEN {} ELSE {t[Min(candidates)]}

CheckPii(t) ==
    LET nir  == {"nir_detected" : n \in {m \in NirMatch(t) : NirKeyIsPlausible(m)}}
        iban == {"iban_fr_detected" : i \in {j \in DOMAIN t : t[j] \in Iban}}
    IN  [ok |-> TRUE, reason |-> nir \union iban, blocking |-> FALSE]

PiiRaises(t) == \E n \in NirMatch(t) : IntRaises(n)

-----------------------------------------------------------------------------
(* run_input_guardrails: the first failing check of the two that block     *)
(* gives the refusal, and the flags are the refusal's, if any, and those   *)
(* of check_pii.                                                           *)
Aggregate(t) ==
    LET blocking == <<CheckLength(t), CheckInjection(t)>>
        failures == {i \in 1..2 : ~blocking[i].ok}
        refusal == IF failures = {} THEN {} ELSE blocking[Min(failures)].reason
    IN  [pc |-> "returned", ok |-> failures = {}, refusal_reason |-> refusal,
         flags |-> {<<"blocked:", r>> : r \in refusal}
                   \union {<<"pii:", r>> : r \in CheckPii(t).reason}]

NotRun == [pc |-> "called", ok |-> FALSE, refusal_reason |-> {}, flags |-> {}]
Raised == [NotRun EXCEPT !.pc = "raised"]

Init ==
    /\ text \in UNION {[1..n -> Item] : n \in 0..MaxItems}
    /\ result = NotRun

RunInputGuardrails ==
    /\ result = NotRun
    /\ result' = IF PiiRaises(text) THEN Raised ELSE Aggregate(text)
    /\ UNCHANGED text

Next == RunInputGuardrails

Spec == Init /\ [][Next]_vars

-----------------------------------------------------------------------------
(* A flag is never raised for nothing: nir_detected needs 15 digits with a *)
(* plausible key, of a number or at the end of an IBAN; and whenever the   *)
(* pipeline comes to its end an IBAN is flagged exactly when there is one, *)
(* in a message that is refused as well.                                   *)
FlagsAreSound ==
    /\ <<"pii:", "nir_detected">> \in result.flags
          => \E i \in Places(Candidate) : text[i].key = "plausible"
    /\ result.pc = "returned" =>
          (<<"pii:", "iban_fr_detected">> \in result.flags <=> Places(Iban) # {})

(* What check_pii does keep of its promise: when a NIR grouped by spaces   *)
(* stands before every other number of 15 digits and before every IBAN     *)
(* that ends in 15 digits of its own, the pipeline comes to its end and    *)
(* flags it, in a message that is refused as well, whatever follows it.    *)
FirstNirIsFlagged ==
    \A i \in Places(Nir) :
        result # NotRun /\ text[i].grouped = "space" /\ (\A j \in Places(Candidate) : i <= j)
            => result.pc = "returned" /\ <<"pii:", "nir_detected">> \in result.flags

(* check_pii's docstring (input.py:116-118): "Flag (never block) plausible *)
(* French NIR and/or IBAN in `text`" and "detecting PII here never stops   *)
(* the pipeline": a message with a NIR comes out of it, with its flag.     *)
PiiIsFlagged ==
    result # NotRun /\ Places(Nir) # {} =>
        result.pc = "returned" /\ <<"pii:", "nir_detected">> \in result.flags
=============================================================================
