----------------------------- MODULE Classifier -----------------------------
(***************************************************************************)
(* C2 (recovery/classifier.py, recovery/normalize.py): a table of authored *)
(* rules over the four-part failure key, a confidence band, and a cost     *)
(* matrix to which a LOW band hands the decision.  A rule's match is a     *)
(* function on the fields it names; confidences are hundredths.            *)
(***************************************************************************)
EXTENDS Integers, Sequences, FiniteSetsExt

CONSTANTS
    Rules,              \* sequence of [match, class, confidence, family, deliberate]
    SourceSpace,        \* [method -> documented sources]
    SourceAliases,      \* [source -> the source it is read as]
    StepSpace,          \* [method -> recorded steps]
    HighThreshold,
    ModerateThreshold,
    FallbackConfidence,
    Misclassification,  \* [true class -> [predicted class -> cost]]
    ContactCost,        \* [true class -> cost]
    Absent              \* a missing part of a key

FailureClass == {"INFRASTRUCTURE", "LIQUIDITY", "ATTENTION", "TERMINAL"}
ConfidenceBand == {"HIGH", "MODERATE", "LOW"}

KEY_FIELDS == {"method", "source", "step", "reason"}

Confidence == 0..100

ASSUME ClassifierAssumption ==
    /\ DOMAIN Rules \subseteq Nat /\ Rules \in Seq(Range(Rules))
    /\ \A i \in DOMAIN Rules : DOMAIN Rules[i].match \subseteq KEY_FIELDS
-----------------------------------------------------------------------------
(* A method without a configured space passes unchecked.                   *)
source_in_documented_space(method, source) ==
    method \in DOMAIN SourceSpace /\ source # Absent => source \in SourceSpace[method]

(* normalize.py.  A part of an entity is its text, trimmed and in lower    *)
(* case, or Absent when nothing is left; missing is told before the alias. *)
normalize_entity(entity) ==
    LET source == IF entity.source \in DOMAIN SourceAliases
                  THEN SourceAliases[entity.source] ELSE entity.source
    IN  [method |-> entity.method, source |-> source,
         step |-> entity.step, reason |-> entity.reason,
         missing |-> {f \in KEY_FIELDS : entity[f] = Absent},
         source_in_documented_space |-> source_in_documented_space(entity.method, source)]
-----------------------------------------------------------------------------
names(rule, field) == IF field \in DOMAIN rule.match THEN 1 ELSE 0

(* Lexicographic over reason, step, source, method, as one number.         *)
precedence(rule) ==
    8 * names(rule, "reason") + 4 * names(rule, "step")
        + 2 * names(rule, "source") + names(rule, "method")

(* An omitted field is a wildcard; a named one must equal the key's, and an*)
(* absent part of the key equals nothing.                                  *)
matches(rule, key) == \A f \in DOMAIN rule.match : key[f] = rule.match[f]

conflicts_with(left, right) ==
    /\ precedence(left) = precedence(right)
    /\ \A f \in DOMAIN left.match \cap DOMAIN right.match : left.match[f] = right.match[f]

outcome(rule) == <<rule.class, rule.confidence>>

(* What load_classifier refuses.                                           *)
_reject_ambiguous ==
    \E i, j \in DOMAIN Rules : /\ i < j
                               /\ conflicts_with(Rules[i], Rules[j])
                               /\ outcome(Rules[i]) # outcome(Rules[j])

_reject_contradictory_low_confidence ==
    \E i \in DOMAIN Rules : Rules[i].deliberate /\ Rules[i].confidence >= ModerateThreshold

_reject_unknown_rule_steps ==
    \E i \in DOMAIN Rules :
        LET match == Rules[i].match
            allowed == IF "method" \in DOMAIN match
                       THEN IF match.method \in DOMAIN StepSpace
                            THEN StepSpace[match.method] ELSE {}
                       ELSE UNION {StepSpace[m] : m \in DOMAIN StepSpace}
        IN  DOMAIN StepSpace # {} /\ "step" \in DOMAIN match /\ match.step \notin allowed

_parse_rules ==
    \A i \in DOMAIN Rules :
        /\ DOMAIN Rules[i].match # {}
        /\ Rules[i].class \in FailureClass /\ Rules[i].confidence \in Confidence

_parse_costs ==
    /\ Misclassification \in [FailureClass -> [FailureClass -> Nat]]
    /\ \A c \in FailureClass : Misclassification[c][c] = 0
    /\ ContactCost \in [FailureClass -> Nat]

load_classifier ==
    /\ 0 <= ModerateThreshold /\ ModerateThreshold <= HighThreshold /\ HighThreshold <= 100
    /\ _parse_costs /\ _parse_rules /\ ~_reject_ambiguous
    /\ ~_reject_contradictory_low_confidence /\ ~_reject_unknown_rule_steps
-----------------------------------------------------------------------------
worst_case(predicted) == Max({Misclassification[c][predicted] : c \in FailureClass})

total_cost(predicted) ==
    MapThenSumSet(LAMBDA c : Misclassification[c][predicted], FailureClass)

(* Ties on the name, in the order of the alphabet.                         *)
Alphabetical == <<"ATTENTION", "INFRASTRUCTURE", "LIQUIDITY", "TERMINAL">>

cheaper(i, j) ==
    LET a == Alphabetical[i]  b == Alphabetical[j]
    IN  \/ worst_case(a) < worst_case(b)
        \/ worst_case(a) = worst_case(b) /\ total_cost(a) < total_cost(b)
        \/ worst_case(a) = worst_case(b) /\ total_cost(a) = total_cost(b) /\ i <= j

safest_class ==
    Alphabetical[CHOOSE i \in 1..4 : \A j \in 1..4 : cheaper(i, j)]

(* Variant: the moderate threshold is the high one's.                      *)
band_for_generous(confidence) ==
    IF confidence >= ModerateThreshold THEN "HIGH" ELSE "MODERATE"

band_for(confidence) ==
    IF confidence >= HighThreshold THEN "HIGH" ELSE
    IF confidence >= ModerateThreshold THEN "MODERATE" ELSE "LOW"

(* The rules that match and that no matching rule precedes.                *)
Candidates(key) ==
    {i \in DOMAIN Rules :
        /\ matches(Rules[i], key)
        /\ \A j \in DOMAIN Rules :
              matches(Rules[j], key) => precedence(Rules[j]) <= precedence(Rules[i])}

_from_rule(rule, key) ==
    [failure_class |-> IF band_for(rule.confidence) = "LOW" THEN safest_class ELSE rule.class,
     band |-> band_for(rule.confidence), mapped |-> TRUE,
     cause_family |-> rule.family, source_undocumented |-> ~key.source_in_documented_space]

_fallback(key) ==
    [failure_class |-> safest_class,
     band |-> band_for(FallbackConfidence), mapped |-> FALSE,
     cause_family |-> Absent, source_undocumented |-> ~key.source_in_documented_space]

(* The rules are sorted by precedence, then by index, and the first that   *)
(* matches answers.                                                        *)
classify(key) ==
    IF Candidates(key) = {} THEN _fallback(key)
    ELSE _from_rule(Rules[Min(Candidates(key))], key)

(* Exclusion of an instrument is the high-confidence case.                 *)
may_exclude_instrument(classification) == classification.band = "HIGH"
=============================================================================
