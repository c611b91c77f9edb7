---------------------------- MODULE MCConsentLedger ----------------------------
(* Small instances of ConsentLedger: two versions of one notice.            *)
EXTENDS ConsentLedger, TLC

CONSTANTS v1, v2, a1, a2, r1, r2, s1

OneGroup == [n \in Notice |-> "kyc/in/en"]

OwnSlots == [n \in Notice |-> n]

Symmetry == Permutations(Admins) \cup Permutations(Recorders)

===============================================================================
