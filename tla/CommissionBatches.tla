-------------------------- MODULE CommissionBatches --------------------------
(***************************************************************************)
(* Commission batches (app/modules/commission_batches): a file of payouts  *)
(* from commission wallets, validated row by row at its upload, approved   *)
(* under the money operations' policy and posted row by row.  No           *)
(* transition locks the batch.                                             *)
(***************************************************************************)
EXTENDS MakerChecker

CONSTANTS
    BatchOffers,  \* uploads: [op, mirror, rows], a row [msisdn, amount]
    Earners,      \* the phone numbers of users with a commission wallet
    WalletOf,     \* per number of Earners, that wallet
    Mains         \* per commission wallet, the main wallet of its owner

ASSUME BatchAssumption ==
    /\ WalletOf \in [Earners -> Guarded]
    /\ Mains \in [{WalletOf[n] : n \in Earners} -> Accounts]
    /\ \A b \in BatchOffers :
           /\ b.op \in {"disbursement", "withdrawal"}
           /\ Len(b.rows) \in Nat /\ DOMAIN b.rows = 1..Len(b.rows)
           /\ \A i \in DOMAIN b.rows : b.rows[i].amount \in Int

\* Positions in a file.
RowNumbers == UNION {DOMAIN b.rows : b \in BatchOffers}

VARIABLE
    disturbed  \* history: batches two sessions worked on at once, or a session died on

-----------------------------------------------------------------------------
(* Upload                                                                  *)

\* A number of a user without the wallet is refused, and so is an amount
\* beyond the wallet's funds.  Balances are read without a lock: the posting
\* decides.
Payable(row) ==
    /\ row.amount > 0
    /\ row.msisdn \in Earners
    /\ row.amount <= Available(book[WalletOf[row.msisdn]])

\* validate_rows, in file order: the first payable row of a number is valid,
\* and every later one that spells its number the same way a duplicate.
ValidateRows(rows) ==
    [i \in DOMAIN rows |->
        IF Payable(rows[i])
           /\ \A j \in 1..(i - 1) : rows[j].msisdn = rows[i].msisdn => ~Payable(rows[j])
        THEN "valid" ELSE "rejected"]

\* The operation of the approval policy.
Operation ==
    [disbursement |-> "commission_disbursement", withdrawal |-> "commission_withdrawal"]

\* create_batch: a file without a valid row is refused.
UploadBatch(a, p) ==
    /\ \E b \in BatchOffers :
          LET verdicts == ValidateRows(b.rows)
          IN  /\ "valid" \in Range(verdicts)
              /\ File(p, [Filed("batch", a, b, None, Required(Operation[b.op]))
                              EXCEPT !.rows = verdicts])
    /\ UNCHANGED <<absVars, pc, job, disturbed>>

-----------------------------------------------------------------------------
(* Review                                                                  *)

BatchAt(s) == pc[s] \in {"decide", "row", "pay", "reject"}
AtWork(p) == {s \in Sessions : BatchAt(s) /\ job[s].p = p}

Disturb(s, p) == disturbed' = IF AtWork(p) \ {s} # {} THEN disturbed \cup {p} ELSE disturbed

\* The batch and its reviews are read without a lock.
OpenBatch(s, a, p) ==
    /\ MayApprove(a, p, "batch")
    /\ Start(s, "decide",
             [p |-> p, admin |-> a, approvers |-> Approvers(request[p].reviews) \cup {a},
              todo |-> {}, row |-> None, staged |-> <<>>, fresh |-> TRUE])
    /\ Disturb(s, p)
    /\ UNCHANGED <<absVars, request>>

\* By any admin, the maker included.
OpenRejection(s, a, p) ==
    /\ Is(p, "batch", {"PENDING"})
    /\ Start(s, "reject", [p |-> p, admin |-> a])
    /\ Disturb(s, p)
    /\ UNCHANGED <<absVars, request>>

\* uq_commission_batch_reviews_approver: one review per admin; a second one
\* waits for the first to be committed, and then fails.
HasReviewed(a, p) == \E i \in DOMAIN request[p].reviews : request[p].reviews[i].by = a

Reviewing(w) == pc[w] \in {"row", "pay"} /\ job[w].fresh

MayReview(s) ==
    LET a == job[s].admin
        p == job[s].p
    IN  ~HasReviewed(a, p) /\ \A w \in AtWork(p) : Reviewing(w) => job[w].admin # a

SecondReview(s) ==
    /\ pc[s] \in {"decide", "reject"}
    /\ HasReviewed(job[s].admin, job[s].p)
    /\ End(s)
    /\ UNCHANGED <<absVars, request, disturbed>>

RejectBatch(s) ==
    LET p == job[s].p
    IN  /\ pc[s] = "reject"
        /\ MayReview(s)
        /\ request' = [request EXCEPT ![p] =
               [Reviewed(job[s].admin, "rejected", p) EXCEPT !.status = "REJECTED"]]
        /\ End(s)
        /\ UNCHANGED <<absVars, disturbed>>

\* What the next commit of session s makes of the batch: the approval, if it
\* is not in yet, and the row statuses staged so far.
Committed(s, staged) ==
    LET p == job[s].p
        row == IF job[s].fresh THEN Reviewed(job[s].admin, "approved", p) ELSE request[p]
    IN  [row EXCEPT !.rows = [i \in DOMAIN @ |-> IF i \in DOMAIN staged THEN staged[i] ELSE @[i]]]

RecordApproval(s) ==
    /\ pc[s] = "decide"
    /\ MayReview(s)
    /\ Cardinality(job[s].approvers) < request[job[s].p].required
    /\ request' = [request EXCEPT ![job[s].p] = Committed(s, job[s].staged)]
    /\ End(s)
    /\ UNCHANGED <<absVars, disturbed>>

-----------------------------------------------------------------------------
(* Applying                                                                *)

RowKey(p, i) == <<p, "row", i>>
Paid(p, i) == txn[RowKey(p, i)] # None

\* From the commission wallet to its owner's main wallet, or to the mirror;
\* the key is derived from the row, and the payout is exempt from the cap.
RowRequest(p, i, b) ==
    LET wallet == WalletOf[b.rows[i].msisdn]
    IN  Transfer(RowKey(p, i), wallet, IF b.op = "disbursement" THEN Mains[wallet] ELSE b.mirror,
                 b.rows[i].amount, TRUE)

\* apply_batch reads the rows that are valid by now, which inserts the review.
ReadRows(s) ==
    LET p == job[s].p
    IN  /\ pc[s] = "decide"
        /\ MayReview(s)
        /\ Cardinality(job[s].approvers) >= request[p].required
        /\ job' = [job EXCEPT ![s].todo =
                      {i \in DOMAIN request[p].rows : request[p].rows[i] = "valid"}]
        /\ Goto(s, "row")
        /\ UNCHANGED <<absVars, request, disturbed>>

Stage(s, i, status) ==
    [job[s] EXCEPT !.todo = @ \ {i}, !.staged = With(@, i, status)]

\* post_transaction's idempotency read: a row paid by an earlier attempt is
\* returned without a commit.
LookUpRow(s) ==
    /\ pc[s] = "row"
    /\ \E i \in job[s].todo :
          IF Paid(job[s].p, i)
          THEN job' = [job EXCEPT ![s] = Stage(s, i, "posted")] /\ UNCHANGED pc
          ELSE job' = [job EXCEPT ![s].row = i] /\ Goto(s, "pay")
    /\ UNCHANGED <<absVars, request, disturbed>>

Posting(s) == RowRequest(job[s].p, job[s].row, request[job[s].p].payload)

\* Mutant: the row is marked posted before it is, so its own commit and any
\* later one carry the mark of the next.
PayRowMarkedAhead(s) ==
    /\ pc[s] = "pay"
    /\ AbsPost(Posting(s))
    /\ request' = [request EXCEPT ![job[s].p] =
           Committed(s, [i \in DOMAIN @.rows |-> "posted"])]
    /\ job' = [job EXCEPT ![s] = [Stage(s, job[s].row, "posted") EXCEPT !.fresh = FALSE]]
    /\ Goto(s, "row")
    /\ UNCHANGED disturbed

\* The posting commits what was staged before it; the mark of this row is
\* staged after and waits for the next commit.
PayRow(s) ==
    /\ pc[s] = "pay"
    /\ Post(Posting(s))
    /\ request' = [request EXCEPT ![job[s].p] = Committed(s, job[s].staged)]
    /\ job' = [job EXCEPT ![s] = [Stage(s, job[s].row, "posted") EXCEPT !.fresh = FALSE]]
    /\ Goto(s, "row")
    /\ UNCHANGED disturbed

\* Another session has paid this row since: the uniqueness error is none of
\* the errors a row absorbs, and what is staged is rolled back.
PayRowConflict(s) ==
    /\ pc[s] = "pay"
    /\ Covered(Posting(s))
    /\ Paid(job[s].p, job[s].row)
    /\ End(s)
    /\ UNCHANGED <<absVars, request, disturbed>>

\* Per-row isolation: the row fails, the others go on.
FailRow(s) ==
    /\ pc[s] = "pay"
    /\ ~Covered(Posting(s))
    /\ job' = [job EXCEPT ![s] = Stage(s, job[s].row, "failed")]
    /\ Goto(s, "row")
    /\ UNCHANGED <<absVars, request, disturbed>>

\* The final commit: the batch's status says whether this run failed a row.
FinishBatch(s) ==
    /\ pc[s] = "row"
    /\ job[s].todo = {}
    /\ request' = [request EXCEPT ![job[s].p] =
           [Committed(s, job[s].staged) EXCEPT
               !.status = IF "failed" \in Range(job[s].staged)
                          THEN "APPLIED_PARTIAL" ELSE "APPLIED"]]
    /\ End(s)
    /\ UNCHANGED <<absVars, disturbed>>

-----------------------------------------------------------------------------
BatchNext ==
    \/ \E s \in Sessions, a \in Admins, p \in Proposals :
           OpenBatch(s, a, p) \/ OpenRejection(s, a, p)
    \/ \E s \in Sessions :
           \/ SecondReview(s)
           \/ RejectBatch(s)
           \/ RecordApproval(s)
           \/ ReadRows(s)
           \/ LookUpRow(s)
           \/ PayRow(s)
           \/ PayRowConflict(s)
           \/ FailRow(s)
           \/ FinishBatch(s)
    \/ \E a \in Admins, p \in Proposals : UploadBatch(a, p)

-----------------------------------------------------------------------------
(* Properties                                                              *)

CommissionBatchRow == {"valid", "rejected", "posted", "failed"}

CommissionBatchReview ==
    [by: Admins, action: {"approved", "rejected"}, about: BatchOffers]

CommissionBatch ==
    [kind: {"batch"}, maker: Admins, payload: BatchOffers, target: {None},
     status: {"PENDING", "APPLIED", "APPLIED_PARTIAL", "REJECTED"}, required: {1, 2},
     reviews: Seq(CommissionBatchReview), linked: {FALSE}, rows: Seq(CommissionBatchRow)]

IsBatch(p) == request[p] # None /\ request[p].kind = "batch"

\* A row that says posted is paid, wherever sessions die and overlap, and a
\* row that was rejected at the upload never is.
PostedRowIsPaid ==
    \A p \in Proposals : IsBatch(p) =>
        \A i \in DOMAIN request[p].rows :
            /\ request[p].rows[i] = "posted" => Paid(p, i)
            /\ request[p].rows[i] = "rejected" => ~Paid(p, i)

\* A batch worked on by one session at a time, to the end, is told as it is:
\* nothing is paid before it is applied or once it is rejected, and afterwards
\* every row is paid or says it failed, and the status says which.
BatchToldAsItIs ==
    \A p \in Proposals : IsBatch(p) /\ p \notin disturbed /\ AtWork(p) = {} =>
        LET status == request[p].status
            row == request[p].rows
            accepted == {i \in DOMAIN row : row[i] # "rejected"}
        IN  /\ status \in {"PENDING", "REJECTED"} => \A i \in DOMAIN row : ~Paid(p, i)
            /\ status \in {"APPLIED", "APPLIED_PARTIAL"} =>
                  /\ \A i \in accepted : row[i] = IF Paid(p, i) THEN "posted" ELSE "failed"
                  /\ status = "APPLIED" <=> \A i \in accepted : Paid(p, i)

=============================================================================
