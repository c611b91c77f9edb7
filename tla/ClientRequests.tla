---------------------------- MODULE ClientRequests ----------------------------
(***************************************************************************)
(* The requests of one tenant's clients that create onboarding cases, and   *)
(* the API keys they come with.                                             *)
(*                                                                         *)
(* A client that got no answer sends the request again with the same        *)
(* Idempotency-Key, while the first one may still run.  A request with an   *)
(* API key updates last_used_at of its row before anything else, and keeps  *)
(* the row locked until it commits; so do revocation and rotation.  Users   *)
(* of the dashboard come with a JWT, which locks nothing.                   *)
(***************************************************************************)
CONSTANTS
  ApiKeys,      \* API keys that may be created
  Users,        \* users that may create cases
  IdemKeys,     \* values of the header Idempotency-Key
  NoKey,        \* a request without the header
  Requests,     \* bound: requests that create a case
  NoCase,       \* no case
  Admins        \* bound: requests that create, rotate or revoke an API key

ASSUME ConstantsAssumption ==
  /\ ApiKeys \cap Users = {}
  /\ NoKey \notin IdemKeys
  /\ NoCase \notin Requests

VARIABLES
  key,      \* tenant_api_keys, as committed
  idem,     \* idempotency_keys, as committed: the case of each key
  cases,    \* onboarding_cases, as committed, each named by its request
  pc,       \* how far each request has come
  cred,     \* the credential it came with
  intent,   \* its Idempotency-Key
  found,    \* the case its look-up returned
  answer,   \* the case it was answered with
  admin     \* how far each request of an administrator has come

tables == <<key, idem, cases>>
inputs == <<cred, intent>>
vars == <<tables, pc, inputs, found, answer, admin>>

-----------------------------------------------------------------------------
Credentials == ApiKeys \cup Users

KeyStatus == {"absent", "active", "revoked"}

\* The phases between the lock of the key's row and the end of the request.
InTransaction == {"admitted", "missed", "found", "created", "stored"}

Phase == InTransaction \cup {"idle", "checked", "committed", "conflict", "failed"}

\* old: the keys to be revoked; new: the keys to be inserted.
Admin == [pc : {"idle", "loaded", "flushed", "done"},
          old : SUBSET ApiKeys, new : SUBSET ApiKeys]

Init ==
  /\ key \in [ApiKeys -> {"absent", "active"}]
  /\ idem = [i \in IdemKeys |-> NoCase]
  /\ cases = {}
  /\ pc = [r \in Requests |-> "idle"]
  /\ cred \in [Requests -> Credentials]
  /\ intent \in [Requests -> IdemKeys \cup {NoKey}]
  /\ found = [r \in Requests |-> NoCase]
  /\ answer = [r \in Requests |-> NoCase]
  /\ admin = [a \in Admins |-> [pc |-> "idle", old |-> {}, new |-> {}]]

Advance(r, phase) == pc' = [pc EXCEPT ![r] = phase]

\* Does another transaction hold the row of this key?
LockedByClient(k, r) ==
  \E s \in Requests \ {r} : cred[s] = k /\ pc[s] \in InTransaction

LockedByAdmin(k, a) ==
  \E b \in Admins \ {a} : admin[b].pc = "flushed" /\ k \in admin[b].old

-----------------------------------------------------------------------------
(* Creating a case.                                                        *)

\* get_principal: the key is read and found active, or the token is valid.
Check(r) ==
  /\ pc[r] = "idle"
  /\ cred[r] \in ApiKeys => key[cred[r]] = "active"
  /\ Advance(r, IF cred[r] \in Users THEN "admitted" ELSE "checked")
  /\ UNCHANGED <<tables, inputs, found, answer, admin>>

\* Mutant: last_used_at is written by the commit only.
AdmitUnlocked(r) ==
  /\ pc[r] = "checked"
  /\ Advance(r, "admitted")
  /\ UNCHANGED <<tables, inputs, found, answer, admin>>

\* The flush of last_used_at waits for the row.  It does not ask again whether
\* the key is active.
Admit(r) ==
  /\ pc[r] = "checked"
  /\ ~LockedByClient(cred[r], r)
  /\ \A a \in Admins : ~(admin[a].pc = "flushed" /\ cred[r] \in admin[a].old)
  /\ Advance(r, "admitted")
  /\ UNCHANGED <<tables, inputs, found, answer, admin>>

\* Mutant: the look-up does not compare the key.
LookupAnyKey(r) ==
  /\ pc[r] = "admitted"
  /\ intent[r] # NoKey
  /\ \E i \in IdemKeys :
       /\ found' = [found EXCEPT ![r] = idem[i]]
       /\ Advance(r, IF idem[i] = NoCase THEN "missed" ELSE "found")
  /\ UNCHANGED <<tables, inputs, answer, admin>>

\* idempotency_service.get, only if the header is there.
Lookup(r) ==
  /\ pc[r] = "admitted"
  /\ intent[r] # NoKey
  /\ found' = [found EXCEPT ![r] = idem[intent[r]]]
  /\ Advance(r, IF idem[intent[r]] = NoCase THEN "missed" ELSE "found")
  /\ UNCHANGED <<tables, inputs, answer, admin>>

\* The rows of the case, its audit event, its domain event and its deliveries
\* are flushed; the jobs of the deliveries are scheduled (WebhookDelivery).
Create(r) ==
  /\ \/ pc[r] = "missed"
     \/ pc[r] = "admitted" /\ intent[r] = NoKey
  /\ Advance(r, "created")
  /\ UNCHANGED <<tables, inputs, found, answer, admin>>

\* Mutant: no unique constraint on tenant and key.
StoreUnchecked(r) ==
  /\ pc[r] = "created"
  /\ intent[r] # NoKey
  /\ Advance(r, "stored")
  /\ UNCHANGED <<tables, inputs, found, answer, admin>>

\* Mutant: the key is stored in a transaction of its own.
StoreCommits(r) ==
  /\ pc[r] = "created"
  /\ intent[r] # NoKey
  /\ Advance(r, "stored")
  /\ idem' = [idem EXCEPT ![intent[r]] = r]
  /\ UNCHANGED <<key, cases, inputs, found, answer, admin>>

\* idempotency_service.store: the insertion waits for a transaction that has
\* inserted the same key, and fails if that one, or an earlier one, commits.
Store(r) ==
  /\ pc[r] = "created"
  /\ intent[r] # NoKey
  /\ \A s \in Requests \ {r} : ~(pc[s] = "stored" /\ intent[s] = intent[r])
  /\ Advance(r, IF idem[intent[r]] = NoCase THEN "stored" ELSE "conflict")
  /\ UNCHANGED <<tables, inputs, found, answer, admin>>

HandlerDone(r) ==
  \/ pc[r] \in {"found", "stored"}
  \/ pc[r] = "created" /\ intent[r] = NoKey

\* Mutant: the UPDATE sets every column of the key to what was loaded.
KeysUpdatedWhole(r) ==
  [k \in ApiKeys |-> IF k = cred[r] THEN "active" ELSE key[k]]

\* The keys after the UPDATE of a request: of the columns it loaded only
\* last_used_at has changed.
KeysUpdated(r) == key

\* get_db's commit.
Commit(r) ==
  /\ HandlerDone(r)
  /\ Advance(r, "committed")
  /\ key' = KeysUpdated(r)
  /\ cases' = IF pc[r] = "found" THEN cases ELSE cases \cup {r}
  /\ idem' = IF pc[r] = "stored" THEN [idem EXCEPT ![intent[r]] = r] ELSE idem
  /\ UNCHANGED <<inputs, found, answer, admin>>

\* The client gets the answer; one that is lost is a step that is not taken.
\* FastAPI sends it after get_db's commit before version 0.118 and ahead of it
\* since; any version below 1.0 may be installed.
Respond(r) ==
  /\ answer[r] = NoCase
  /\ pc[r] = "committed" \/ HandlerDone(r)
  /\ answer' = [answer EXCEPT ![r] = IF found[r] = NoCase THEN r ELSE found[r]]
  /\ UNCHANGED <<tables, pc, inputs, found, admin>>

\* An unknown applicant, an error of a store, the death of the process: the
\* transaction is rolled back.
Fail(r) ==
  /\ pc[r] \in InTransaction \cup {"checked"}
  /\ Advance(r, "failed")
  /\ UNCHANGED <<tables, inputs, found, answer, admin>>

-----------------------------------------------------------------------------
(* Managing the keys.                                                      *)

AdminBegin(a, old, new) ==
  /\ admin[a].pc = "idle"
  /\ admin' = [admin EXCEPT ![a] = [pc |-> "loaded", old |-> old, new |-> new]]
  /\ UNCHANGED <<tables, pc, inputs, found, answer>>

\* A new key has a prefix of its own: no other request inserts the same one.
Unused(n) == key[n] = "absent" /\ \A b \in Admins : n \notin admin[b].new

CreateApiKey(a, n) == Unused(n) /\ AdminBegin(a, {}, {n})

\* The old key may be revoked already.
RotateApiKey(a, k, n, expire_old) ==
  /\ key[k] # "absent"
  /\ Unused(n)
  /\ AdminBegin(a, IF expire_old THEN {k} ELSE {}, {n})

RevokeApiKey(a, k) == key[k] # "absent" /\ AdminBegin(a, {k}, {})

\* The UPDATE of the old key waits for its row.
AdminFlush(a) ==
  /\ admin[a].pc = "loaded"
  /\ \A k \in admin[a].old :
       /\ ~LockedByAdmin(k, a)
       /\ \A r \in Requests : ~(cred[r] = k /\ pc[r] \in InTransaction)
  /\ admin' = [admin EXCEPT ![a].pc = "flushed"]
  /\ UNCHANGED <<tables, pc, inputs, found, answer>>

AdminCommit(a) ==
  /\ admin[a].pc = "flushed"
  /\ key' = [k \in ApiKeys |-> CASE k \in admin[a].old -> "revoked"
                                 [] k \in admin[a].new \ admin[a].old -> "active"
                                 [] OTHER -> key[k]]
  /\ admin' = [admin EXCEPT ![a].pc = "done"]
  /\ UNCHANGED <<idem, cases, pc, inputs, found, answer>>

AdminFail(a) ==
  /\ admin[a].pc \in {"loaded", "flushed"}
  /\ admin' = [admin EXCEPT ![a] = [pc |-> "done", old |-> {}, new |-> {}]]
  /\ UNCHANGED <<tables, pc, inputs, found, answer>>

-----------------------------------------------------------------------------
Next ==
  \/ \E r \in Requests :
       \/ Check(r) \/ Admit(r) \/ Lookup(r) \/ Create(r) \/ Store(r)
       \/ Commit(r) \/ Respond(r) \/ Fail(r)
  \/ \E a \in Admins :
       \/ \E n \in ApiKeys : CreateApiKey(a, n)
       \/ \E k, n \in ApiKeys, expire_old \in BOOLEAN :
            RotateApiKey(a, k, n, expire_old)
       \/ \E k \in ApiKeys : RevokeApiKey(a, k)
       \/ AdminFlush(a) \/ AdminCommit(a) \/ AdminFail(a)

Spec == Init /\ [][Next]_vars

-----------------------------------------------------------------------------
(* Properties.                                                             *)

\* Every variable has the shape the tables and handlers give it; a stored key
\* names a case that exists.
TypeOK ==
  /\ key \in [ApiKeys -> KeyStatus]
  /\ idem \in [IdemKeys -> cases \cup {NoCase}]
  /\ cases \subseteq Requests
  /\ pc \in [Requests -> Phase]
  /\ cred \in [Requests -> Credentials]
  /\ intent \in [Requests -> IdemKeys \cup {NoKey}]
  /\ found \in [Requests -> cases \cup {NoCase}]
  /\ answer \in [Requests -> Requests \cup {NoCase}]
  /\ admin \in [Admins -> Admin]

\* However often, and with whatever overlap, a client repeats a request, there
\* is one case for its Idempotency-Key.
OneCasePerKey ==
  \A r, s \in cases : intent[r] = intent[s] /\ intent[r] # NoKey => r = s

\* A client that was answered holds a case of the key it sent.  It exists, unless
\* the answer ran ahead of a commit that is still due or has failed; and but for
\* cases lost in such a way, all answers to a key name the same one.
AnswersHold ==
  \A r \in Requests : answer[r] # NoCase =>
    /\ intent[answer[r]] = intent[r]
    /\ answer[r] \in cases \/ (answer[r] = r /\ pc[r] \in {"created", "stored", "failed"})
    /\ \A s \in Requests :
         /\ answer[s] # NoCase /\ intent[s] = intent[r] /\ intent[r] # NoKey
         /\ \A q \in {r, s} : pc[q] = "failed" => answer[q] # q
         => answer[s] = answer[r]

\* A repeated request never runs into the unique constraint while the client
\* keeps to one API key, whose row lock queues its requests: a conflict takes
\* a case that was created with another credential, or a user of the dashboard.
ConflictNeedsTwoCredentials ==
  \A r \in Requests : pc[r] = "conflict" =>
    \E s \in cases : /\ intent[s] = intent[r]
                     /\ cred[s] # cred[r] \/ cred[r] \in Users

\* Nothing brings a revoked key back, not even a request that had read it as
\* active and writes to its row afterwards.
RevokedForGood ==
  [][\A k \in ApiKeys : key[k] = "revoked" => key'[k] = "revoked"]_vars

===============================================================================
