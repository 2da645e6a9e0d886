----------------------------- MODULE Approvals -----------------------------
(***************************************************************************)
(* The four maker-checker queues of the back office over one ledger, with  *)
(* the same admins and sessions.                                           *)
(***************************************************************************)
EXTENDS MoneyOperations, UserOperations, ConfigRequests, CommissionBatches

\* What a session at work on a batch knows, and any session.
BatchWork ==
    [p: Proposals, admin: Admins, approvers: SUBSET Admins, todo: SUBSET RowNumbers,
     row: RowNumbers \cup {None}, staged: UNION {[I -> {"posted", "failed"}] : I \in SUBSET RowNumbers},
     fresh: BOOLEAN]

ConfigRows == [scope: Scopes, from: Nat, fee: Nat, by: Proposals \cup {None}]

Work ==
    BatchWork \cup [p: Proposals] \cup [p: Proposals, admin: Admins] \cup [p: Proposals, next: Nat]
        \cup [p: Proposals, admin: Admins, amount: Int]
        \cup [p: Proposals, admin: Admins, old: SUBSET ConfigRows]
        \cup [admin: Admins, payload: UserOffers]
        \cup [admin: Admins, payload: ConfigOffers, target: ConfigRows \cup {None}]
        \cup [key: PartnerKeys, with: ApiKeys]

Transaction == [req: Request, status: Statuses]

\* A row is not the absence of one, and a posting has its key.
ASSUME ApprovalsAssumption ==
    /\ None \notin MoneyOperationRequest \cup UserOperationRequest
                       \cup ConfigChangeRequest \cup CommissionBatch
    /\ None \notin Work \cup Transaction
    /\ \A p \in Proposals :
           /\ MoneyKey(p) \in Keys
           /\ \A i \in RowNumbers : RowKey(p, i) \in Keys

vars == <<absVars, threads, moneyVars, userTables, configVars, disturbed>>

Init ==
    /\ MakerCheckerInit
    /\ MoneyInit
    /\ UserInit
    /\ ConfigInit
    /\ disturbed = {}

\* A session dies, or a statement of it fails.
Cut(s) ==
    /\ pc[s] # "idle"
    /\ End(s)
    /\ disturbed' = IF pc[s] \in {"row", "pay"} THEN disturbed \cup {job[s].p} ELSE disturbed
    /\ UNCHANGED <<absVars, request, moneyVars, userTables, configVars>>

Next ==
    \/ MoneyNext /\ UNCHANGED <<userTables, configVars, disturbed>>
    \/ UserNext /\ UNCHANGED <<moneyVars, configVars, disturbed>>
    \/ ConfigNext /\ UNCHANGED <<moneyVars, userTables, disturbed>>
    \/ BatchNext /\ UNCHANGED <<moneyVars, userTables, configVars>>
    \/ \E s \in Sessions : Cut(s)

Spec == Init /\ [][Next]_vars

-----------------------------------------------------------------------------
(* Properties                                                              *)

\* Types; and a request whose row is locked for every transition is never
\* left waiting with the approvals it needs.
TypeOK ==
    /\ txn \in [Keys -> Transaction \cup {None}]
    /\ book \in [Accounts -> Row]
    /\ \A p \in Proposals : request[p] # None =>
           /\ request[p] \in MoneyOperationRequest \cup UserOperationRequest
                                \cup ConfigChangeRequest \cup CommissionBatch
           /\ request[p].kind # "batch" /\ request[p].status = "PENDING" =>
                 Cardinality(Approvers(request[p].reviews)) < request[p].required
    /\ MoneyTypeOK
    /\ UserTypeOK
    /\ live \subseteq ConfigRows
    /\ \A s \in Sessions : IF pc[s] = "idle" THEN job[s] = None ELSE job[s] \in Work
    /\ disturbed \subseteq Proposals

\* N eyes: whatever revisions and rounds a request went through, what was
\* applied is what the required number of distinct checkers, none of them its
\* maker, approved in writing.
ApprovedIsApplied ==
    \A p \in Proposals :
        request[p] # None /\ request[p].kind # "batch" /\ request[p].status = "APPLIED" =>
            LET row == request[p]
                For == {row.reviews[i].by : i \in {j \in DOMAIN row.reviews :
                           row.reviews[j].action = "approved"
                               /\ row.reviews[j].about = row.payload}}
            IN  Cardinality(For \ {row.maker}) >= row.required

\* What a request says it has done took effect, once, whatever it raced with.
AppliedTookEffect == AppliedMoneyMoved /\ OneUserPerIdentifier

\* A schedule is replaced whole, by an approved change
\* (config_requests/apply.py:424).
ScheduleReplacedWhole == [][ReplacedWhole]_vars

\* What a batch says of itself is what was paid
\* (commission_batches/service.py:113).
BatchTruthful == PostedRowIsPaid /\ BatchToldAsItIs

=============================================================================
