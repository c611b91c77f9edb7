------------------------------ MODULE RiskPolicy ------------------------------
(***************************************************************************)
(* The pure part of the risk engine: the signals there are, the calculators *)
(* that derive some of them from the facts of a case, and decide, which     *)
(* turns the list of signals on record into a score, a severity, a decision *)
(* and the reasons for it.  The specification below grows a list of signals *)
(* the way the table does, in any order and with the repetitions that       *)
(* concurrent add_signal calls leave behind, so that a run sees decide on   *)
(* every such list up to a length.                                          *)
(***************************************************************************)
EXTENDS Naturals, FiniteSets, Sequences, FiniteSetsExt, SequencesExt

CONSTANT MaxSignals   \* bound: length of the list

VARIABLE signals      \* risk_signals of one case, in the order of created_at

-----------------------------------------------------------------------------
(* Signals.  Severities are numbered: low 0, medium 1, high 2, critical 3. *)

Signal(code, severity, weight) ==
  [code |-> code, severity |-> severity, weight |-> weight]

\* What the calculators emit, and what a duplicate upload adds.
CaseSignals == {
  Signal("missing_consent", 2, 50), Signal("minor_guardian_missing", 3, 60),
  Signal("unsupported_document", 1, 25), Signal("velocity_anomaly", 2, 40),
  Signal("duplicate_artifact", 2, 40)}

\* What provider callbacks add.
ProviderSignals == {
  Signal("identity_mismatch", 2, 45), Signal("provider_failure", 1, 25),
  Signal("tamper_suspected", 3, 70), Signal("duplicate_identity", 2, 50),
  Signal("provider_needs_review", 0, 10)}

AllSignals == CaseSignals \cup ProviderSignals

SignalOf(code) == CHOOSE s \in AllSignals : s.code = code

\* run_calculators: the codes that follow from the facts of a case.
Calculators(facts) ==
  LET Emit(condition, code) == IF condition THEN {code} ELSE {}
  IN  UNION {Emit(~facts.applicant_consent, "missing_consent"),
             Emit(facts.is_minor /\ ~facts.guardian_consent,
                  "minor_guardian_missing"),
             Emit(facts.unsupported_document_count > 0, "unsupported_document"),
             Emit(facts.recent_case_count >= 3, "velocity_anomaly")}

-----------------------------------------------------------------------------
(* The policy in force.                                                    *)

approve_below == 40
reject_at == 70
hard_review_codes == {"missing_consent", "minor_guardian_missing",
                      "duplicate_artifact", "provider_needs_review",
                      "velocity_anomaly"}
hard_reject_codes == {"tamper_suspected"}

SeverityFromScore(score) == CASE score >= 90 -> 3
                              [] score >= 70 /\ score < 90 -> 2
                              [] score >= 40 /\ score < 70 -> 1
                              [] OTHER -> 0

-----------------------------------------------------------------------------
(* decide.                                                                 *)

\* Mutant: repeated codes are not collapsed.
ByCodeRepeated(list) == DOMAIN list

\* The entries that count: of each code, the first one of the largest weight.
ByCode(list) ==
  {i \in DOMAIN list : \A j \in DOMAIN list : list[j].code = list[i].code =>
     \/ list[j].weight < list[i].weight
     \/ list[j].weight = list[i].weight /\ i <= j}

Score(list) ==
  Min({100, MapThenSumSet(LAMBDA i : list[i].weight, ByCode(list))})

Severity(list) ==
  Max({SeverityFromScore(Score(list))} \cup
      {list[i].severity : i \in ByCode(list)})

\* Mutant: the codes that call for a review are tested before the score.
DecisionReviewFirst(list, dependency_blocked) ==
  LET codes == {s.code : s \in ToSet(list)}
      reject == codes \cap hard_reject_codes # {} \/ Score(list) >= reject_at
      review == codes \cap hard_review_codes # {} \/ Score(list) >= approve_below
      hard == codes \cap hard_review_codes # {}
  IN  CASE dependency_blocked -> "blocked_dependency"
        [] ~dependency_blocked /\ reject /\ ~hard -> "rejected"
        [] ~dependency_blocked /\ (hard \/ (review /\ ~reject)) -> "manual_review"
        [] OTHER -> "approved"

\* Mutant: a score at the threshold itself is not rejected.
DecisionAboveThreshold(list, dependency_blocked) ==
  LET codes == {s.code : s \in ToSet(list)}
      reject == codes \cap hard_reject_codes # {} \/ Score(list) > reject_at
      review == codes \cap hard_review_codes # {} \/ Score(list) >= approve_below
  IN  CASE dependency_blocked -> "blocked_dependency"
        [] ~dependency_blocked /\ reject -> "rejected"
        [] ~dependency_blocked /\ ~reject /\ review -> "manual_review"
        [] OTHER -> "approved"

Decision(list, dependency_blocked) ==
  LET codes == {s.code : s \in ToSet(list)}
      reject == codes \cap hard_reject_codes # {} \/ Score(list) >= reject_at
      review == codes \cap hard_review_codes # {} \/ Score(list) >= approve_below
  IN  CASE dependency_blocked -> "blocked_dependency"
        [] ~dependency_blocked /\ reject -> "rejected"
        [] ~dependency_blocked /\ ~reject /\ review -> "manual_review"
        [] OTHER -> "approved"

\* Codes in the order in which Python compares them.
Alphabet == <<"duplicate_artifact", "duplicate_identity", "identity_mismatch",
              "minor_guardian_missing", "missing_consent", "provider_failure",
              "provider_needs_review", "tamper_suspected",
              "unsupported_document", "velocity_anomaly">>

Place(code) == CHOOSE i \in DOMAIN Alphabet : Alphabet[i] = code

\* The reasons, the heaviest first.
ReasonCodes(list) ==
  SetToSortSeq({list[i] : i \in ByCode(list)},
               LAMBDA r, s : \/ r.weight > s.weight
                             \/ r.weight = s.weight /\ Place(r.code) < Place(s.code))

decide(list, dependency_blocked) ==
  [decision |-> Decision(list, dependency_blocked), score |-> Score(list),
   severity |-> Severity(list), reason_codes |-> ReasonCodes(list)]

-----------------------------------------------------------------------------
Init == signals = <<>>

\* One more row of the table, its code recorded already or not.
AddSignal(s) ==
  /\ Len(signals) < MaxSignals
  /\ signals' = Append(signals, s)

Next == \E s \in AllSignals : AddSignal(s)

Spec == Init /\ [][Next]_signals

-----------------------------------------------------------------------------
(* Properties.                                                             *)

\* The whole result is a function of the set of codes on record: neither the
\* order of the rows nor their repetition changes it.
DependsOnCodes ==
  \A blocked \in BOOLEAN :
    decide(signals, blocked) = decide(SetToSeq(ToSet(signals)), blocked)

Strength(verdict) ==
  CASE verdict = "approved" -> 0 [] verdict = "manual_review" -> 1
    [] verdict = "rejected" -> 2 [] verdict = "blocked_dependency" -> 3

\* One more signal never gives a milder decision, a lower score or severity.
MoreSignalsHarden ==
  [][/\ Strength(Decision(signals, FALSE)) <= Strength(Decision(signals', FALSE))
     /\ Score(signals) <= Score(signals')
     /\ Severity(signals) <= Severity(signals')]_signals

\* The thresholds of the policy are those of the severity scale, which is kept
\* in another file: unless a code decides by itself, a low score is approved, a
\* medium one reviewed, and a high or critical one rejected.
ScoreDecides ==
  {s.code : s \in ToSet(signals)} \cap (hard_review_codes \cup hard_reject_codes) = {} =>
    LET scale == SeverityFromScore(Score(signals))
        verdict == Decision(signals, FALSE)
    IN  /\ verdict = "approved" <=> scale = 0
        /\ verdict = "manual_review" <=> scale = 1
        /\ verdict = "rejected" <=> scale \in {2, 3}

===============================================================================
