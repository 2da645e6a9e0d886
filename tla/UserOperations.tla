--------------------------- MODULE UserOperations ----------------------------
(***************************************************************************)
(* User operations (app/modules/user_operations): the creation of a user   *)
(* with his identifiers and the edit of one, approved by a second admin    *)
(* and applied by create_user and admin_update_user of app/modules/        *)
(* identity.  Beside the queue, a platform admin creates users, adds       *)
(* identifiers and attests account numbers directly, and a partner creates *)
(* users under idempotency keys (app/modules/external) and one of the      *)
(* tenant's API keys (app/modules/api_keys).                               *)
(***************************************************************************)
EXTENDS MakerChecker

CONSTANTS
    UserOffers,   \* [op |-> "create", identifiers, verified], or [op |-> "update", target, status]
    People,       \* users older than the model, with an identifier each
    Extras,       \* identifiers an admin may add to a user
    AccountNumbers,  \* the identifiers of that type
    PartnerOffers,   \* per Idempotency-Key, the identifiers its requests name
    ApiKeys

PartnerKeys == DOMAIN PartnerOffers

Creations == {o \in UserOffers : o.op = "create"}

\* A partner's request names an identifier at least.
ASSUME UserAssumption ==
    /\ None \notin {"active", "revoked"}
    /\ None \notin PartnerKeys /\ PartnerKeys \cap Proposals = {}
    /\ \A k \in PartnerKeys : PartnerOffers[k] # {}
    /\ \A pl \in UserOffers :
          \/ pl.op = "create" /\ pl.verified \subseteq pl.identifiers
          \/ pl.op = "update" /\ pl.status \in {"active", "suspended"}

VARIABLES
    users,      \* per user, [identifiers, verified, status, by]
    recorded,   \* the keys with a row in external_user_creations
    apiKeys,    \* per API key, its status, None before it is minted
    lastUsed    \* the API keys whose last_used_at is set

keyTables == <<recorded, apiKeys, lastUsed>>
userTables == <<users, keyTables>>

UserInit ==
    /\ users = {[identifiers |-> {i}, verified |-> {i}, status |-> "active", by |-> None] :
                    i \in People}
    /\ recorded = {}
    /\ apiKeys = [i \in ApiKeys |-> None]
    /\ lastUsed = {}

-----------------------------------------------------------------------------
Known == UNION {u.identifiers : u \in users}

PendingCreation(q) ==
    /\ request[q] # None /\ request[q].kind = "user"
    /\ request[q].status = "PENDING" /\ request[q].payload.op = "create"

\* _assert_create_identifiers_available: with users and with pending requests,
\* read without a lock.
IdentifiersAvailable(ids) ==
    /\ ids \cap Known = {}
    /\ \A q \in Proposals : PendingCreation(q) => ids \cap request[q].payload.identifiers = {}

TargetExists(target) == target \in Known

\* The payload schema: a new user has an email or a phone.
Contactable(ids) == ~(ids \subseteq AccountNumbers)

Admissible(pl) ==
    IF pl.op = "create"
    THEN Contactable(pl.identifiers) /\ IdentifiersAvailable(pl.identifiers)
    ELSE TargetExists(pl.target)

CheckUser(s, a) ==
    /\ \E pl \in UserOffers :
          /\ Admissible(pl)
          /\ Start(s, "user", [admin |-> a, payload |-> pl])
    /\ UNCHANGED <<absVars, request, userTables>>

\* No policy is asked: one approval is enough.
ProposeUser(s, p) ==
    /\ pc[s] = "user"
    /\ File(p, Filed("user", job[s].admin, job[s].payload, None, 1))
    /\ End(s)
    /\ UNCHANGED <<absVars, userTables>>

RequestUserChanges(a, p) == SendBack(a, p, "user") /\ UNCHANGED userTables
ResubmitUser(p) == Resubmit(p, "user") /\ UNCHANGED userTables
WithdrawUser(p) == Withdraw(p, "user") /\ UNCHANGED userTables
LinkUser(s) == Link(s, "user") /\ UNCHANGED userTables

\* Checked again as a proposal is.
ReviseUser(p) ==
    /\ \E pl \in UserOffers :
          /\ request[p] # None => pl.op = request[p].payload.op
          /\ Admissible(pl)
          /\ Revise(p, "user", pl)
    /\ UNCHANGED userTables

\* create_user: an identifier that is taken collides with the unique index
\* (409), and all that the call has staged is rolled back.
CreateUser(ids, verified, by) ==
    /\ ids \cap Known = {}
    /\ users' = users \cup
           {[identifiers |-> ids, verified |-> verified, status |-> "active", by |-> by]}

\* The approval is rolled back with a creation that collides.
ApplyCreate(s, a, p) ==
    LET pl == request[p].payload
    IN  /\ Decides(a, p, "user") /\ pl.op = "create"
        /\ CreateUser(pl.identifiers, pl.verified, p)
        /\ Applied(a, p)
        /\ Start(s, "link", [p |-> p])
        /\ UNCHANGED <<absVars, keyTables>>

\* admin_update_user: the fields the maker named, on whatever the row is now.
ApplyUpdate(s, a, p) ==
    LET pl == request[p].payload
        row == CHOOSE u \in users : pl.target \in u.identifiers
    IN  /\ Decides(a, p, "user") /\ pl.op = "update"
        /\ users' = (users \ {row}) \cup {[row EXCEPT !.status = pl.status]}
        /\ Applied(a, p)
        /\ Start(s, "link", [p |-> p])
        /\ UNCHANGED <<absVars, keyTables>>

-----------------------------------------------------------------------------
(* Around the queue                                                        *)

\* post_user: a platform admin, with no second pair of eyes.  Any identifier
\* will do.
CreateDirectly ==
    /\ \E pl \in Creations : CreateUser(pl.identifiers, pl.verified, None)
    /\ UNCHANGED <<absVars, threads, keyTables>>

\* Stored unverified, and unique as any other; what a pending creation names
\* is not looked at.
AddIdentifier(u, i) ==
    /\ i \notin Known
    /\ users' = (users \ {u}) \cup {[u EXCEPT !.identifiers = @ \cup {i}]}
    /\ UNCHANGED <<absVars, threads, keyTables>>

\* Attested by an admin: account numbers only, and once.
VerifyIdentifier(u, i) ==
    /\ i \in (u.identifiers \cap AccountNumbers) \ u.verified
    /\ users' = (users \ {u}) \cup {[u EXCEPT !.verified = @ \cup {i}]}
    /\ UNCHANGED <<absVars, threads, keyTables>>

CreateApiKey(i) ==
    /\ apiKeys[i] = None
    /\ apiKeys' = [apiKeys EXCEPT ![i] = "active"]
    /\ UNCHANGED <<absVars, threads, users, recorded, lastUsed>>

\* Requests that have passed it already go on.
RevokeApiKey(i) ==
    /\ apiKeys[i] = "active"
    /\ apiKeys' = [apiKeys EXCEPT ![i] = "revoked"]
    /\ UNCHANGED <<absVars, threads, users, recorded, lastUsed>>

\* require_api_key; the use is staged, for whoever commits.
Authenticates(i) == apiKeys[i] = "active"

\* _find_external_creation: a recorded key replays the user it created.
ReceivePartner(s, k, i) ==
    /\ Authenticates(i)
    /\ k \notin recorded
    /\ Start(s, "partner", [key |-> k, with |-> i])
    /\ UNCHANGED <<absVars, request, userTables>>

\* No partner says of an identifier that it is verified.
CreatePartnerUser(s) ==
    LET k == job[s].key
    IN  /\ pc[s] = "partner"
        /\ CreateUser(PartnerOffers[k], {}, k)
        /\ lastUsed' = lastUsed \cup {job[s].with}
        /\ Goto(s, "record")
        /\ UNCHANGED <<absVars, request, recorded, apiKeys, job>>

\* A replay if the key was recorded meanwhile, and a 409 if not, as between
\* the two commits of another request with the key.
RefusePartner(s) ==
    /\ pc[s] = "partner"
    /\ PartnerOffers[job[s].key] \cap Known # {}
    /\ End(s)
    /\ UNCHANGED <<absVars, request, userTables>>

\* The second commit.  (tenant, key) is unique.
RecordKey(s) ==
    /\ pc[s] = "record"
    /\ recorded' = recorded \cup {job[s].key}
    /\ End(s)
    /\ UNCHANGED <<absVars, request, users, apiKeys, lastUsed>>

-----------------------------------------------------------------------------
UserNext ==
    \/ \E s \in Sessions, a \in Admins :
           \/ CheckUser(s, a)
           \/ \E p \in Proposals : ApplyCreate(s, a, p) \/ ApplyUpdate(s, a, p)
    \/ \E s \in Sessions :
           \/ \E p \in Proposals : ProposeUser(s, p)
           \/ LinkUser(s)
           \/ \E k \in PartnerKeys, i \in ApiKeys : ReceivePartner(s, k, i)
           \/ CreatePartnerUser(s)
           \/ RefusePartner(s)
           \/ RecordKey(s)
    \/ \E i \in ApiKeys : CreateApiKey(i) \/ RevokeApiKey(i)
    \/ CreateDirectly
    \/ \E u \in users :
           \/ \E i \in Extras : AddIdentifier(u, i)
           \/ \E i \in AccountNumbers : VerifyIdentifier(u, i)
    \/ \E p \in Proposals :
           \/ \E a \in Admins : RequestUserChanges(a, p)
           \/ ReviseUser(p)
           \/ ResubmitUser(p)
           \/ WithdrawUser(p)

-----------------------------------------------------------------------------
(* Properties                                                              *)

Identifiers ==
    People \cup Extras \cup (UNION {pl.identifiers : pl \in Creations})
        \cup (UNION {PartnerOffers[k] : k \in PartnerKeys})

User ==
    [identifiers: SUBSET Identifiers, verified: SUBSET Identifiers,
     status: {"active", "suspended"}, by: Proposals \cup PartnerKeys \cup {None}]

ExternalUserCreation == SUBSET PartnerKeys
ApiKey == [ApiKeys -> {None, "active", "revoked"}]

UserOperationReview ==
    [by: Admins, action: {"approved", "resubmitted"}, about: UserOffers]

UserOperationRequest ==
    [kind: {"user"}, maker: Admins, payload: UserOffers, target: {None},
     status: Open \cup {"APPLIED", "WITHDRAWN"}, required: {1},
     reviews: Seq(UserOperationReview), linked: BOOLEAN, rows: {<<>>}]

UserTypeOK ==
    /\ users \subseteq User /\ recorded \in ExternalUserCreation
    /\ apiKeys \in ApiKey /\ lastUsed \subseteq ApiKeys

CreatedBy(x) == {u \in users : u.by = x}

\* Racing proposals, and a partner's retries, create a user once, and an
\* identifier is one user's, verified by whoever may say so.  A user whom a
\* partner created left his mark on an API key that was minted, revoked since
\* or not.
OneUserPerIdentifier ==
    /\ \A u, v \in users : u # v => u.identifiers \cap v.identifiers = {}
    /\ \A u \in users : u.by \in PartnerKeys =>
           u.verified \subseteq AccountNumbers /\ lastUsed # {}
    /\ \A i \in lastUsed : apiKeys[i] # None
    /\ \A k \in PartnerKeys :
           Cardinality(CreatedBy(k)) \in (IF k \in recorded THEN {1} ELSE {0, 1})
    /\ \A p \in Proposals :
           request[p] # None /\ request[p].kind = "user" /\ request[p].payload.op = "create" =>
               Cardinality(CreatedBy(p))
                   = IF request[p].status = "APPLIED" THEN 1 ELSE 0

=============================================================================
