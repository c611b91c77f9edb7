------------------------------ MODULE MCCaseRisk ------------------------------
(* Small instances of CaseRisk under the policy in force.  The codes are     *)
(* chosen to differ in kind: two calculated ones, one of them a hard review  *)
(* rule, one reported code below every threshold and one hard rejection.     *)
EXTENDS CaseRisk, TLC

CONSTANTS r1, r2, p1, p2

\* The pure part, over a list of signals that plays no role here.
Policy == INSTANCE RiskPolicy WITH signals <- <<>>, MaxSignals <- 0

Codes == {"missing_consent", "velocity_anomaly", "provider_failure", "tamper_suspected"}

Callbacks == {{"provider_failure"}, {"provider_failure", "tamper_suspected"}}

Adult == {"applicant"}

CalculatedCodes ==
  [f \in Facts |-> Codes \cap
     Policy!Calculators([applicant_consent |-> "applicant" \in f.consent,
                         is_minor |-> FALSE, guardian_consent |-> FALSE,
                         unsupported_document_count |-> 0,
                         recent_case_count |-> IF f.velocity THEN 3 ELSE 1])]

VerdictInForce ==
  [S \in SUBSET Code |->
     Policy!Decision(Policy!SetToSeq({Policy!SignalOf(c) : c \in S}), FALSE)]

Symmetry == Permutations(Recomputers) \cup Permutations(Reporters)

===============================================================================
