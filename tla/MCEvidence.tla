------------------------------- MODULE MCEvidence -------------------------------
(* Small instances of what a decision on a case rests on: documents, the       *)
(* provider's callbacks, the policy, and the trail that remains.  The four     *)
(* components share no variable here, so each is checked while the others      *)
(* rest in an initial state.                                                   *)
(*                                                                             *)
(* Documents: an image, its copy by another applicant, and a PDF file of the   *)
(* first applicant.  Callbacks: those of MCVerificationCallbacks, each handled *)
(* by a replica of its own.  Policy: every list of signals up to a length.     *)
(* Trail: a change, two forbidden requests and a failing login, on a replica   *)
(* of two threads and two connections.                                         *)
EXTENDS MCVerificationCallbacks, Naturals

CONSTANTS scan, copy, pdf, p2, change1, forbidden1, forbidden2, login1

CONSTANTS Document, File, Owner, Image, Handlers, Workers, MaxFaults,
          MaxSignals, Requests, Kind, Threads, Connections

VARIABLES
  ocr_configured, document, step, flagged, original, redacted, jobs, handler, worker,
  abandoned, faults, earlier,
  list,                    \* the signals of RiskPolicy
  stage, effects, events,  \* AuditTrail
  subject                  \* which of the four moves

Documents == INSTANCE DocumentPipeline
Policy == INSTANCE RiskPolicy WITH signals <- list
Trail == INSTANCE AuditTrail WITH pc <- stage

ASSUME BoundsAssumption == Documents!BoundsAssumption /\ Trail!BoundsAssumption

documentVars == <<ocr_configured, document, step, flagged, original, redacted, jobs,
                  handler, worker, abandoned, faults, earlier>>

trailVars == <<stage, effects, events>>

allVars == <<vars, documentVars, list, trailVars, subject>>

-----------------------------------------------------------------------------
Files == (scan :> "same") @@ (copy :> "same") @@ (pdf :> "other")

Owners == (scan :> "anna") @@ (copy :> "ben") @@ (pdf :> "anna")

Spread == (d1 :> p1) @@ (d2 :> p2)

Kinds == (change1 :> "change") @@ (forbidden1 :> "forbidden")
      @@ (forbidden2 :> "forbidden") @@ (login1 :> "bad_login")

-----------------------------------------------------------------------------
EvidenceInit ==
  /\ Documents!Init /\ Init /\ Policy!Init /\ Trail!Init
  /\ subject \in {"documents", "callbacks", "policy", "trail"}
  /\ subject # "documents" => ocr_configured
  /\ subject # "callbacks" => report = [d \in Deliveries |-> b1]

EvidenceNext ==
  /\ \/ subject = "documents" /\ Documents!Next /\ UNCHANGED <<vars, list, trailVars>>
     \/ subject = "callbacks" /\ Next /\ UNCHANGED <<documentVars, list, trailVars>>
     \/ subject = "policy" /\ Policy!Next /\ UNCHANGED <<vars, documentVars, trailVars>>
     \/ subject = "trail" /\ Trail!Next /\ UNCHANGED <<vars, documentVars, list>>
  /\ UNCHANGED subject

EvidenceSpec ==
  /\ EvidenceInit /\ [][EvidenceNext]_allVars
  /\ Documents!Fairness /\ Fairness /\ Trail!Fairness

-----------------------------------------------------------------------------
(* The properties of the instances, by their names.                        *)

\* Every component keeps its types.
TypesOK == TypeOK /\ Documents!TypeOK /\ Trail!TypeOK

\* What a document's row names is in the object store.
ObjectsStored == Documents!ObjectsStored

\* The copy of a file that another applicant had on record is flagged.
DuplicateFlagged == Documents!DuplicateFlagged

\* A file that two applicants have uploaded is flagged for one of them.
CopiesDetected == Documents!CopiesDetected

\* A document stays in processing only if its request or worker failed.
EventuallyProcessed == Documents!EventuallyProcessed

\* A decision is a function of the set of codes on record.
DependsOnCodes == Policy!DependsOnCodes

\* One more signal never gives a milder decision.
MoreSignalsHarden == Policy!MoreSignalsHarden

\* Where no code decides by itself, decisions follow the severity scale.
ScoreDecides == Policy!ScoreDecides

\* Denials that were answered, and changes that took effect, are on the trail.
AnswersAudited == Trail!AnswersAudited

\* Requests that wait for threads and connections end.
EveryRequestEnds == Trail!EveryRequestEnds

===============================================================================
