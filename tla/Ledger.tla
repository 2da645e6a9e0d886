------------------------------- MODULE Ledger -------------------------------
(***************************************************************************)
(* The ledger of app/modules/ledger as concurrent database sessions run    *)
(* it.  One action is one statement: a handler posting through             *)
(* post_transaction, a handler settling a PENDING airtime reservation, or  *)
(* the snapshot drift sweep.  Statements of different sessions interleave  *)
(* freely (READ COMMITTED), reads see committed rows and the session's     *)
(* own writes, and a session's writes become visible, and its row locks    *)
(* free, at its commit.  A session may die between any two statements.     *)
(***************************************************************************)
EXTENDS LedgerData

CONSTANTS
    Handlers,   \* sessions of API requests
    Sweepers,   \* sessions of the beat's drift sweep
    Unseeded,   \* accounts with no snapshot row at the start
    Batch       \* snapshot rows one sweep examines

Sessions == Handlers \cup Sweepers

ASSUME SessionAssumption ==
    /\ None \notin Sessions
    /\ Handlers \cap Sweepers = {}
    /\ Unseeded \subseteq Accounts
    /\ Batch \in Nat \ {0}

VARIABLES
    \* committed rows
    txn,        \* transactions, by idempotency key, with their entries
    book,       \* per account, the sums over its committed entries
    snap,       \* account_balance_snapshots
    outbox,     \* keys whose transaction has a reward_outbox row
    uncapped,   \* history: balance credited past the ceiling check, per account
    \* row locks and uncommitted writes
    forUpdate,  \* account row -> session holding it FOR UPDATE
    keyShare,   \* account row -> sessions holding it FOR KEY SHARE
    inflight,   \* key -> session with an uncommitted transactions row
    claim,      \* key -> session holding its airtime recharge FOR UPDATE
    rowLock,    \* snapshot row -> session that wrote it
    dirty,      \* snapshot row -> the uncommitted version of its writer
    \* the sessions' program
    pc, job, checked, seed, cached

durable == <<txn, book, snap, outbox, uncapped>>
locks == <<forUpdate, keyShare, inflight, claim, rowLock, dirty>>
vars == <<durable, locks, pc, job, checked, seed, cached>>

Free(S) == [x \in S |-> None]
NoRows == [a \in Accounts |-> None]

Init ==
    /\ txn = Free(Keys)
    /\ book = [a \in Accounts |-> [bal |-> Opening[a], res |-> 0]]
    /\ snap = [a \in Accounts |-> IF a \in Unseeded THEN None ELSE book[a]]
    /\ outbox = {}
    /\ uncapped = [a \in Accounts |-> 0]
    /\ forUpdate = Free(Accounts)
    /\ keyShare = [a \in Accounts |-> {}]
    /\ inflight = Free(Keys)
    /\ claim = Free(Keys)
    /\ rowLock = Free(Accounts)
    /\ dirty = NoRows
    /\ pc = [p \in Sessions |-> "idle"]
    /\ job = Free(Sessions)
    /\ checked = [p \in Sessions |-> {}]
    /\ seed = Free(Sessions)
    /\ cached = [p \in Sessions |-> NoRows]

-----------------------------------------------------------------------------
(* Helpers                                                                 *)

Idle(p) == pc[p] = "idle"
Held(p) == {a \in Accounts : forUpdate[a] = p}
Written(p) == {a \in Accounts : rowLock[a] = p}
InBatch(p) == {a \in Accounts : cached[p][a] # None}

\* a is the next of S in account-id order.
IsFirst(a, S) == a \in S /\ \A b \in S : a <= b

\* Mutant: no credit is locked, so no ceiling is checked under a lock.
NeedsLockDebitsOnly(r) == {a \in Guarded : r.delta[a] < 0}

\* The accounts a guard will fire on: the floor for a net debit, the ceiling
\* for a net credit unless the request is exempt from it (is_reversal or
\* skip_receive_cap).
NeedsLock(r) ==
    {a \in Guarded : r.delta[a] < 0}
        \cup {a \in Capped : r.delta[a] > 0 /\ ~r.exempt}

\* The cached row, or the sums over the ledger while there is no row.
DeriveBalance(a) == IF snap[a] # None THEN snap[a] ELSE book[a]

\* Mutant: the floor compares the balance and forgets the reservations.
GuardPassesIgnoringHolds(r, a, row) ==
    IF r.delta[a] < 0
    THEN row.bal + r.delta[a] >= 0
    ELSE Cap[a] # None => row.bal + r.delta[a] <= Cap[a]

GuardPasses(r, a, row) ==
    IF r.delta[a] < 0
    THEN Available(row) + r.delta[a] >= 0
    ELSE Cap[a] # None => row.bal + r.delta[a] <= Cap[a]

\* What the session's own work adds to the row of account a.
Delta(j, a) ==
    IF j.kind = "post" THEN EntryDelta(j.req, a) ELSE FlipDelta(j.req, j.to, a)

\* The foreign keys of the entries: each leg share-locks its account row,
\* which a session's own FOR UPDATE lock already covers.
Unshared(p) == {a \in Legs(job[p].req) \ Held(p) : p \notin keyShare[a]}
EntriesWritten(p) == job[p].kind = "settle" \/ Unshared(p) = {}
Unapplied(p) == Legs(job[p].req) \ Written(p)

\* Mutant: the session ends with its database transaction left open.
UnlockNothing(f, p) == f

Unlock(f, p) == [x \in DOMAIN f |-> IF f[x] = p THEN None ELSE f[x]]

\* COMMIT and ROLLBACK both end the database transaction of p.
EndTransaction(p) ==
    /\ forUpdate' = Unlock(forUpdate, p)
    /\ keyShare' = [a \in Accounts |-> keyShare[a] \ {p}]
    /\ inflight' = Unlock(inflight, p)
    /\ claim' = Unlock(claim, p)
    /\ rowLock' = Unlock(rowLock, p)
    /\ dirty' = [a \in Accounts |-> IF rowLock[a] = p THEN None ELSE dirty[a]]
    /\ pc' = [pc EXCEPT ![p] = "idle"]
    /\ job' = [job EXCEPT ![p] = None]
    /\ checked' = [checked EXCEPT ![p] = {}]
    /\ seed' = [seed EXCEPT ![p] = None]
    /\ cached' = [cached EXCEPT ![p] = NoRows]

-----------------------------------------------------------------------------
(* post_transaction                                                        *)

\* The balance assertion, the account load and the idempotency read.  An
\* unbalanced request is refused and a spent key returns the transaction it
\* was spent on; neither writes anything, so neither is a step here.
PostBegin(p, r) ==
    /\ Idle(p)
    /\ Balanced(r)
    /\ txn[r.key] = None
    /\ pc' = [pc EXCEPT ![p] = "guard"]
    /\ job' = [job EXCEPT ![p] = [kind |-> "post", req |-> r, to |-> r.status]]
    /\ UNCHANGED <<durable, locks, checked, seed, cached>>

\* Mutant: accounts are locked in the order of the request's legs.
LockAccountAnyOrder(p, a) ==
    /\ pc[p] = "guard"
    /\ a \in NeedsLock(job[p].req) \ Held(p)
    /\ forUpdate[a] = None
    /\ keyShare[a] = {}
    /\ forUpdate' = [forUpdate EXCEPT ![a] = p]
    /\ UNCHANGED <<durable, keyShare, inflight, claim, rowLock, dirty,
                   pc, job, checked, seed, cached>>

\* The guard's SELECT ... FOR UPDATE, one account at a time in id order.
LockAccount(p, a) ==
    /\ pc[p] = "guard"
    /\ IsFirst(a, NeedsLock(job[p].req) \ Held(p))
    /\ forUpdate[a] = None
    /\ keyShare[a] = {}
    /\ forUpdate' = [forUpdate EXCEPT ![a] = p]
    /\ UNCHANGED <<durable, keyShare, inflight, claim, rowLock, dirty,
                   pc, job, checked, seed, cached>>

\* With every lock held, the balances are read and checked one by one.
CheckBalance(p, a) ==
    /\ pc[p] = "guard"
    /\ NeedsLock(job[p].req) \subseteq Held(p)
    /\ IsFirst(a, NeedsLock(job[p].req) \ checked[p])
    /\ IF GuardPasses(job[p].req, a, DeriveBalance(a))
       THEN checked' = [checked EXCEPT ![p] = @ \cup {a}] /\ UNCHANGED pc
       ELSE pc' = [pc EXCEPT ![p] = "rejected"] /\ UNCHANGED checked
    /\ UNCHANGED <<durable, locks, job, seed, cached>>

\* Mutant: the key is not unique.
InsertTransactionAnyKey(p) ==
    /\ pc[p] = "guard"
    /\ NeedsLock(job[p].req) \subseteq checked[p]
    /\ inflight' = [inflight EXCEPT ![job[p].req.key] = p]
    /\ pc' = [pc EXCEPT ![p] = "write"]
    /\ UNCHANGED <<durable, forUpdate, keyShare, claim, rowLock, dirty,
                   job, checked, seed, cached>>

\* Mutant: a mid-flow commit (a lazily created counter account) frees the
\* account locks between the checks and the money legs.
InsertTransactionMidCommit(p) ==
    /\ pc[p] = "guard"
    /\ NeedsLock(job[p].req) \subseteq checked[p]
    /\ inflight[job[p].req.key] = None
    /\ txn[job[p].req.key] = None
    /\ inflight' = [inflight EXCEPT ![job[p].req.key] = p]
    /\ pc' = [pc EXCEPT ![p] = "write"]
    /\ forUpdate' = [a \in Accounts |-> IF forUpdate[a] = p THEN None ELSE forUpdate[a]]
    /\ UNCHANGED <<durable, keyShare, claim, rowLock, dirty, job, checked, seed, cached>>

\* The flush of the transactions row.  UNIQUE (tenant_id, idempotency_key)
\* waits for a session that has inserted the same key and not ended, and
\* raises IntegrityError if that key has been committed since PostBegin.
InsertTransaction(p) ==
    /\ pc[p] = "guard"
    /\ NeedsLock(job[p].req) \subseteq checked[p]
    /\ inflight[job[p].req.key] = None
    /\ IF txn[job[p].req.key] = None
       THEN /\ inflight' = [inflight EXCEPT ![job[p].req.key] = p]
            /\ pc' = [pc EXCEPT ![p] = "write"]
       ELSE /\ pc' = [pc EXCEPT ![p] = "integrity_error"]
            /\ UNCHANGED inflight
    /\ UNCHANGED <<durable, forUpdate, keyShare, claim, rowLock, dirty,
                   job, checked, seed, cached>>

\* The flush of the entries.  The legs come in the order the calling service
\* built them, so any leg may be the next.
InsertEntry(p, a) ==
    /\ pc[p] = "write"
    /\ job[p].kind = "post"
    /\ a \in Unshared(p)
    /\ forUpdate[a] = None
    /\ keyShare' = [keyShare EXCEPT ![a] = @ \cup {p}]
    /\ UNCHANGED <<durable, forUpdate, inflight, claim, rowLock, dirty,
                   pc, job, checked, seed, cached>>

-----------------------------------------------------------------------------
(* apply_deltas, called by post_transaction and by both settlements        *)

WriteRow(p, a, row) ==
    /\ rowLock[a] = None
    /\ rowLock' = [rowLock EXCEPT ![a] = p]
    /\ dirty' = [dirty EXCEPT ![a] = row]
    /\ UNCHANGED <<durable, forUpdate, keyShare, inflight, claim, job, checked, cached>>

\* UPDATE ... SET balance = balance + delta, resolved under the row lock.
UpdateSnapshot(p, a) ==
    /\ pc[p] = "write"
    /\ EntriesWritten(p)
    /\ IsFirst(a, Unapplied(p))
    /\ snap[a] # None
    /\ WriteRow(p, a, Plus(snap[a], Delta(job[p], a)))
    /\ UNCHANGED <<pc, seed>>

\* The UPDATE met no committed row: derive the seed from the ledger, the
\* session's own entries included.
SeedRead(p, a) ==
    /\ pc[p] = "write"
    /\ EntriesWritten(p)
    /\ IsFirst(a, Unapplied(p))
    /\ snap[a] = None
    /\ seed' = [seed EXCEPT ![p] = Plus(book[a], Delta(job[p], a))]
    /\ pc' = [pc EXCEPT ![p] = "seed"]
    /\ UNCHANGED <<durable, locks, job, checked, cached>>

\* Mutant: the conflict branch writes the value computed before blocking.
SeedInsertStale(p, a) ==
    /\ pc[p] = "seed"
    /\ IsFirst(a, Unapplied(p))
    /\ WriteRow(p, a, seed[p])
    /\ pc' = [pc EXCEPT ![p] = "write"]
    /\ seed' = [seed EXCEPT ![p] = None]

\* INSERT ... ON CONFLICT: waits for another inserter of the row, and adds
\* the delta to its row if that one committed.
SeedInsert(p, a) ==
    /\ pc[p] = "seed"
    /\ IsFirst(a, Unapplied(p))
    /\ WriteRow(p, a, IF snap[a] = None THEN seed[p]
                      ELSE Plus(snap[a], Delta(job[p], a)))
    /\ pc' = [pc EXCEPT ![p] = "write"]
    /\ seed' = [seed EXCEPT ![p] = None]

\* Mutant: the reservation of a rewardable purchase is already rewarded.
RewardedAtOnce(j) == j.req.trigger

\* A rewardable transaction leaves a reward_outbox row in the commit that makes
\* it COMPLETED: the posting's, or the settlement's for a PENDING one.
Rewarded(j) == j.req.trigger /\ j.to = "COMPLETED"

\* What the commit credits without a ceiling check.
ExemptCredit(j, a) ==
    IF j.kind = "post" /\ j.req.exempt /\ j.req.delta[a] > 0 THEN j.req.delta[a] ELSE 0

\* The commit of a posting or a settlement.
Commit(p) ==
    LET j == job[p]
        k == j.req.key
    IN  /\ pc[p] = "write"
        /\ EntriesWritten(p)
        /\ Unapplied(p) = {}
        /\ txn' = [txn EXCEPT ![k] = [req |-> j.req, status |-> j.to]]
        /\ book' = [a \in Accounts |-> Plus(book[a], Delta(j, a))]
        /\ snap' = [a \in Accounts |-> IF rowLock[a] = p THEN dirty[a] ELSE snap[a]]
        /\ outbox' = IF Rewarded(j) THEN outbox \cup {k} ELSE outbox
        /\ uncapped' = [a \in Accounts |-> uncapped[a] + ExemptCredit(j, a)]
        /\ EndTransaction(p)

-----------------------------------------------------------------------------
(* Settling an airtime reservation                                         *)

\* The provider's answer, its callback or an operator locks the recharge row,
\* reads again that it is PENDING, and flips the entries.
SettleClaim(p, k, to) ==
    /\ Idle(p)
    /\ txn[k] # None
    /\ txn[k].status = "PENDING"
    /\ claim[k] = None
    /\ claim' = [claim EXCEPT ![k] = p]
    /\ pc' = [pc EXCEPT ![p] = "write"]
    /\ job' = [job EXCEPT ![p] = [kind |-> "settle", req |-> txn[k].req, to |-> to]]
    /\ UNCHANGED <<durable, forUpdate, keyShare, inflight, rowLock, dirty,
                   checked, seed, cached>>

-----------------------------------------------------------------------------
(* drift_sweep_async                                                       *)

\* Read a batch of cached rows, least recently verified first.  Which rows
\* those are depends on the sweeps before the model starts: any batch.
SweepRead(p, B) ==
    LET rows == {a \in Accounts : snap[a] # None}
    IN  /\ Idle(p)
        /\ B \subseteq rows
        /\ Cardinality(B) <= Batch
        /\ B = rows \/ Cardinality(B) = Batch
        /\ B # {}
        /\ cached' = [cached EXCEPT ![p] = [a \in Accounts |-> IF a \in B THEN snap[a] ELSE None]]
        /\ pc' = [pc EXCEPT ![p] = "sweep"]
        /\ UNCHANGED <<durable, locks, job, checked, seed>>

\* UPDATE ... SET last_verified_at WHERE account_id IN (...) locks the rows in
\* whatever order the plan visits them.
SweepMark(p, a) ==
    /\ pc[p] = "sweep"
    /\ a \in InBatch(p) \ Written(p)
    /\ WriteRow(p, a, snap[a])
    /\ UNCHANGED <<pc, seed>>

\* With the rows locked, re-derive each, rewrite those whose cached figures
\* disagreed, and commit.  No ledger sum can move under these locks, so the
\* reads and the rewrites of the batch are one step.
SweepRepair(p) ==
    /\ pc[p] = "sweep"
    /\ InBatch(p) \subseteq Written(p)
    /\ snap' = [a \in Accounts |->
            IF a \notin InBatch(p) THEN snap[a]
            ELSE IF cached[p][a] # book[a] THEN book[a] ELSE dirty[a]]
    /\ EndTransaction(p)
    /\ UNCHANGED <<txn, book, outbox, uncapped>>

-----------------------------------------------------------------------------
\* Mutant: the handler swallows the exception, and its session goes back to
\* the pool with the database transaction open.
RollbackLeftOpen(p) ==
    /\ ~Idle(p)
    /\ pc' = [pc EXCEPT ![p] = "idle"]
    /\ job' = [job EXCEPT ![p] = None]
    /\ checked' = [checked EXCEPT ![p] = {}]
    /\ seed' = [seed EXCEPT ![p] = None]
    /\ cached' = [cached EXCEPT ![p] = NoRows]
    /\ UNCHANGED <<durable, locks>>

\* ROLLBACK: an exception reached the session's end, the process died, or the
\* database chose the session as the victim of a deadlock.
Rollback(p) ==
    /\ ~Idle(p)
    /\ EndTransaction(p)
    /\ UNCHANGED durable

HandlerStep(p) ==
    \/ \E a \in Accounts :
           \/ LockAccount(p, a)
           \/ CheckBalance(p, a)
           \/ InsertEntry(p, a)
           \/ UpdateSnapshot(p, a)
           \/ SeedRead(p, a)
           \/ SeedInsert(p, a)
    \/ InsertTransaction(p)
    \/ Commit(p)

SweeperStep(p) ==
    \/ \E a \in Accounts : SweepMark(p, a)
    \/ SweepRepair(p)

Next ==
    \/ \E p \in Handlers :
           \/ \E r \in Requests : PostBegin(p, r)
           \/ \E k \in Keys, to \in {"COMPLETED", "REVERSED"} : SettleClaim(p, k, to)
           \/ HandlerStep(p)
    \/ \E p \in Sweepers :
           \/ \E B \in SUBSET Accounts : SweepRead(p, B)
           \/ SweeperStep(p)
    \/ \E p \in Sessions : Rollback(p)

Spec == Init /\ [][Next]_vars

-----------------------------------------------------------------------------
(* Properties                                                              *)

\* The types of the tables, of the lock tables and of the sessions' locals.
TypeOK ==
    /\ txn \in [Keys -> TxnRow \cup {None}]
    /\ book \in [Accounts -> Row]
    /\ snap \in [Accounts -> Row \cup {None}]
    /\ outbox \subseteq Keys
    /\ uncapped \in [Accounts -> Nat]
    /\ forUpdate \in [Accounts -> Sessions \cup {None}]
    /\ keyShare \in [Accounts -> SUBSET Sessions]
    /\ inflight \in [Keys -> Sessions \cup {None}]
    /\ claim \in [Keys -> Sessions \cup {None}]
    /\ rowLock \in [Accounts -> Sessions \cup {None}]
    /\ dirty \in [Accounts -> Row \cup {None}]
    /\ pc \in [Sessions -> {"idle", "guard", "rejected", "integrity_error",
                            "write", "seed", "sweep"}]
    /\ job \in [Sessions -> Job \cup {None}]
    /\ checked \in [Sessions -> SUBSET Accounts]
    /\ seed \in [Sessions -> Row \cup {None}]
    /\ cached \in [Sessions -> [Accounts -> Row \cup {None}]]

\* A session between two requests has left no row locked or half written,
\* however its last one ended.
NothingLeft ==
    \A p \in Sessions : Idle(p) =>
        /\ Held(p) = {} /\ Written(p) = {}
        /\ \A a \in Accounts : p \notin keyShare[a]
        /\ \A k \in Keys : p \notin {inflight[k], claim[k]}

\* The tables and the locals are of their types, and what a session holds in
\* them ends with its transaction.
WellFormed == TypeOK /\ NothingLeft

\* The entries of the transaction under key k, as sum_from_ledger counts them.
EntrySum(k, a) ==
    CASE txn[k] = None -> Zero
      [] txn[k] # None /\ txn[k].status = "COMPLETED" ->
             [bal |-> txn[k].req.delta[a], res |-> 0]
      [] txn[k] # None /\ txn[k].status = "PENDING" ->
             [bal |-> 0, res |-> -txn[k].req.delta[a]]
      [] OTHER -> Zero

\* The sums the cache is maintained against are the sums over all the entries
\* ever committed: no flip counts an entry twice, drops one, or leaves a hold
\* behind (signed sums of COMPLETED and of PENDING entries, REVERSED in
\* neither).
BookIsLedgerSum ==
    \A a \in Accounts :
        /\ book[a].bal = Opening[a] + SumFunction([k \in Keys |-> EntrySum(k, a).bal])
        /\ book[a].res = SumFunction([k \in Keys |-> EntrySum(k, a).res])

\* The cached balance never durably disagrees with the ledger, whatever the
\* interleaving of posters, settlers, seeders of missing rows and the sweep,
\* and wherever one of them dies (snapshots.py, "Correctness rests on").
\* Under load, three rows of 413 have been seen short of one posting, for a
\* reason not understood (reconciliation.py:9-14): the statements modelled here
\* do not do it, so that its cause is not explained, and not excluded elsewhere.
\* SeedInsertStale, the insert as it once was, leaves such a row.
SnapshotMatchesLedger ==
    \A a \in Accounts : snap[a] # None => snap[a] = book[a]

\* No guarded account is ever overdrawn, holds included (invariant #11).
NoOverdraft == \A a \in Guarded : Available(book[a]) >= 0

\* A wallet exceeds its max_balance by no more than the credits that are
\* exempt from it: refunds and earned payouts.
CeilingRespected ==
    \A a \in Capped : Cap[a] # None => book[a].bal <= Cap[a] + uncapped[a]

\* A balance check that passed still passes when the money moves: between the
\* check and the commit the account stays locked and its funds (for a debit)
\* or its headroom (for a credit) do not shrink.
ChecksStayValid ==
    \A p \in Sessions : \A a \in checked[p] :
        /\ forUpdate[a] = p
        /\ job[p].req.delta[a] < 0 => Available(book[a]) + job[p].req.delta[a] >= 0
        /\ job[p].req.delta[a] > 0 /\ Cap[a] # None =>
               book[a].bal + job[p].req.delta[a] <= Cap[a] + uncapped[a]

\* NFR-0100: the completed entries of the whole ledger sum to zero, and so do
\* the holds.
SumToZero ==
    /\ SumFunction([a \in Accounts |-> book[a].bal]) = SumFunction(Opening)
    /\ SumFunction([a \in Accounts |-> book[a].res]) = 0

\* The books agree with the entries account by account, and balance as a whole.
BooksBalance == BookIsLedgerSum /\ SumToZero

\* The reward intent is neither lost nor duplicated nor early: a rewardable
\* transaction has its outbox row exactly when it is COMPLETED.
RewardIntent ==
    \A k \in Keys :
        k \in outbox <=>
            txn[k] # None /\ txn[k].req.trigger /\ txn[k].status = "COMPLETED"

\* The ledger is append-only: a committed transaction keeps its key and its
\* legs for ever, and only a PENDING one changes status, once.
AppendOnly ==
    [][\A k \in Keys :
          txn[k] # None =>
              /\ txn'[k] # None
              /\ txn'[k].req = txn[k].req
              /\ txn'[k].status # txn[k].status => txn[k].status = "PENDING"]_vars

\* The statements of a session together are one atomic posting or settlement:
\* the ledger implements its abstract specification.
Atomic == INSTANCE AtomicLedger
AtomicSpec == Atomic!AbsSpec

=============================================================================
