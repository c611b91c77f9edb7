--------------------------------- MODULE MCAccess ---------------------------------
(* Small instances of what stands between a client and the data: API keys and    *)
(* idempotent creation, consent, sessions, the rate limit, and requests for      *)
(* erasure.  They share no variable but the time, so each is checked while the   *)
(* others rest in their initial state.  Of consent, all a receipt needs of the   *)
(* notices is that there is one: notices change on their own, and receipts and   *)
(* submissions follow the creation of one.  Three clients meet one administrator *)
(* of API keys, or one of them two.  Calls of the rate limit are numbered in the *)
(* order in which they begin.                                                    *)
EXTENDS ClientRequests, Naturals, FiniteSets, TLC

CONSTANTS k1, k2, u1, i1, i2, q1, q2, q3, a1, a2

CONSTANTS
  Notice, Group, Slot, Editors, Recorders, Submitters, MaxChanges, MaxReceipts,
  Logins, Refreshes, Logouts, Sendable, Life, MaxSkew,
  Calls, Limit, Window,
  MaxTime,  \* of Sessions and of RateLimit
  Updaters, NoUser, MaxUpdates

VARIABLES
  notice, editor, receipts, recorder, clock, submitter, submitted, minor, changes,
  withdrawn,
  login, expiry, refresh, logout,
  counter, expires, call,
  row, update, trail,
  now,      \* the time, of Sessions and of RateLimit
  subject   \* what moves

Consent == INSTANCE ConsentLedger WITH admin <- editor, Admins <- Editors
User == INSTANCE Sessions
Rate == INSTANCE RateLimit
Retention == INSTANCE RetentionRequests

ASSUME BoundsAssumption ==
  User!BoundsAssumption /\ Rate!BoundsAssumption /\ Retention!BoundsAssumption

consentReceiptVars ==
  <<receipts, recorder, clock, submitter, submitted, minor, withdrawn>>
consentVars == <<notice, editor, changes, consentReceiptVars>>
sessionVars == <<login, expiry, refresh, logout>>
rateVars == <<counter, expires, call>>
retentionVars == <<row, update, trail>>
accessVars ==
  <<vars, consentVars, sessionVars, rateVars, retentionVars, now, subject>>

-----------------------------------------------------------------------------
OneGroup == [n \in Notice |-> "kyc/in/en"]

OwnSlots == [n \in Notice |-> n]

Symmetry ==
  UNION {Permutations(S) : S \in {ApiKeys, IdemKeys, Requests, Admins}}

-----------------------------------------------------------------------------
AccessInit ==
  /\ Init /\ Consent!Init /\ User!Init /\ Rate!Init /\ Retention!Init
  /\ subject \in {"creation", "keys", "notices", "receipts", "sessions", "rate", "retention"}
  /\ subject \notin {"creation", "keys"} =>
       /\ \A k \in ApiKeys : key[k] = "absent"
       /\ \A r \in Requests : cred[r] \in Users /\ intent[r] = NoKey
  /\ subject # "receipts" => ~minor

Begun == {r \in Requests : pc[r] # "idle"}

AdminsBegun == {a \in Admins : admin[a].pc # "idle"}

AccessNext ==
  /\ \/ /\ \/ subject = "creation" /\ Next /\ Cardinality(AdminsBegun') <= 1
           \/ subject = "keys" /\ Next /\ Cardinality(Begun') <= 1
        /\ UNCHANGED <<consentVars, sessionVars, rateVars, retentionVars, now>>
     \/ /\ \/ subject = "notices" /\ Consent!Next /\ UNCHANGED consentReceiptVars
           \/ subject = "receipts" /\ Consent!Next /\ changes' <= 1
        /\ UNCHANGED <<vars, sessionVars, rateVars, retentionVars, now>>
     \/ /\ subject = "sessions" /\ User!Next
        /\ UNCHANGED <<vars, consentVars, rateVars, retentionVars>>
     \/ /\ subject = "rate" /\ Rate!Next
        /\ \A c \in Calls \ {1} : call'[c] # Rate!Idle => call'[c - 1] # Rate!Idle
        /\ UNCHANGED <<vars, consentVars, sessionVars, retentionVars>>
     \/ /\ subject = "retention" /\ Retention!Next
        /\ UNCHANGED <<vars, consentVars, sessionVars, rateVars, now>>
  /\ UNCHANGED subject

AccessSpec == AccessInit /\ [][AccessNext]_accessVars

-----------------------------------------------------------------------------
(* The properties of the instances, by their names.                        *)

\* Every component keeps its types.
TypesOK ==
  /\ subject \in {"creation", "keys"} => TypeOK
  /\ subject \in {"notices", "receipts"} => Consent!TypeOK
  /\ subject = "sessions" => User!TypeOK
  /\ subject = "rate" => Rate!TypeOK
  /\ subject = "retention" => Retention!TypeOK

\* One of several notices of a kind is active.
ExclusiveActivation == Consent!ExclusiveActivation

\* A withdrawal that was committed stands until a later grant.
WithdrawalStands == Consent!WithdrawalStands

\* Nobody passes intake without receipts.
SubmittedWithReceipts == Consent!SubmittedWithReceipts

\* A token that was logged out refreshes nothing.
LogoutHolds == User!LogoutHolds

\* A token that was neither used nor logged out is not forgotten early.
HeldUsable == User!HeldUsable

\* A counter of the rate limit has an expiry, or its creator had no time to set it.
WindowEnds == Rate!WindowEnds

\* A stretch of a window's length admits fewer than twice the limit.
BurstBound == Rate!BurstBound

\* What was completed was approved, by the administrator it names.
ErasureApproved == Retention!ErasureApproved

===============================================================================
