# Wallet & Rewards: a verification project

TLA+ models, model-checking runs and machine-checked proofs for the backend of
the wallet and rewards platform (`src/backend/app`): a FastAPI application on
PostgreSQL (`READ COMMITTED`, pinned in `database.py`), with Redis for sessions
and counters and a Celery beat for sweeps. The admin console and the mobile
apps are clients of its API and keep no money state.

Everything here is translated from the code. Paths below are under
`src/backend/app/` unless they start with `docs/` (`src/docs/`) or `tests/`
(`src/backend/tests/`).

## 1. Inventory

Each part with its state, its operations, what it calls, where it is hard, and
what has to hold. **M** names the module that models it.

### The ledger (M: `Ledger`, `AtomicLedger`)

| part | state | operations | hard | must hold |
|---|---|---|---|---|
| postings, `modules/ledger/service.py` | `transactions` (unique per tenant and Idempotency-Key), `ledger_entries` (append-only) | `post_transaction`: balance assertion, idempotency read, guard (`FOR UPDATE` in account-id order, overdraft and ceiling under the lock), inserts, snapshot deltas, reward intent, one commit | concurrent debits of a wallet; one key posted twice at once; a crash between statements; lock order | a key moves money once; no guarded wallet is overdrawn; ceilings; sums are zero; all or nothing |
| snapshots, `ledger/snapshots.py` | `account_balance_snapshots`, a cache of two sums | `apply_deltas` (UPDATE, or seed and INSERT .. ON CONFLICT), deltas for a status flip | two sessions seeding one row; a flip that moves money without a new entry | the cache equals the sums in every committed state |
| drift sweep, `ledger/reconciliation.py` | `last_verified_at` | `drift_sweep_async` (beat) | reads before it locks | repairs, never damages; reports only drift |
| accounts, `modules/accounts` | `accounts` | `derive_balance`, `lock_account_for_update`, provisioning | helpers that commit in the middle of a caller's transaction | a balance checked is the balance at the commit |

Every money flow below ends in one or more calls of `post_transaction`; the
row lock taken there is what serialises them.

### Money flows

| part | state | operations | hard | must hold |
|---|---|---|---|---|
| internal redemption (M: `Redemption`), `modules/redemption` | `points_conversion_rates`, `internal_redemptions` | burn, payout, compensating unwind, pair row | a saga of separately committed postings; retries that overlap; rate changes; crashes | no double burn; a burn is paid or returned, not both |
| airtime (M: `Payments`, settlement also in `Ledger`), `modules/airtime` | `airtime_recharges` (PENDING, COMPLETED, REVERSED) | reserve, call the provider, settle from the request, the callback or an operator | crash between reservation and recharge row; late or repeated provider answers | settled once; every hold has a row to settle it by; vended iff paid |
| p2p, fund, external, cash-in, cash-out (M: `Payments`, gates: `Flows`), treasury (M: `MoneyOperations`) | none of their own | gates, price, one posting | gates read before the lock, in an order of their own per flow | what is posted is what the rows allow and cost; limits and ceilings; balanced legs |
| wallet view and statement, `modules/identity` (M: `Payments`) | none; reads `transactions` and `ledger_entries` | balances; a row per transaction and wallet, with its fee, tax and commission | legs that cancel, holds, replays, two wallets of one user in one transaction | rows explain balances; a charge is shown once, to whose it is |
| commissions (M: `Pricing`, `Schedules`, `Flows`) and commission batches (M: `CommissionBatches`) | rates; `commission_batches` and rows | banded lookup; upload, approve, pay row by row | the apply commits per row under its own approval; no row lock on the batch | a row is paid once; no rejected batch has paid rows |

### Rewards (M: `Rewards`, `RuleEvaluator`)

| part | state | operations | hard | must hold |
|---|---|---|---|---|
| outbox, `rewards/outbox.py` | `reward_outbox` (written by the posting's commit, M) | immediate attempt after the commit, beat sweep, retry up to a maximum | attempt and sweep on one row; the row lock ends at the first inner commit | every intent processed or exhausted; each reward paid once |
| issuance, `rewards/service.py` | `reward_events` (unique) | budget check under lock, posting, event row | the posting's commit frees the budget lock before the row it is counted from exists | how far a budget can be exceeded; reward iff event row |
| rule evaluator and referral evaluator (M: `Registration`), `modules/rules` | progress, streaks, milestones | evaluate an event | progress committed by the first firing; out-of-order events; lost updates | each milestone once; streak arithmetic |
| event ingestion, `modules/events` | ingestion log (dedup) | normalise, log, evaluate, commit; by the consumer loop or synchronously by `POST /external` | the log row is committed early by a posting; two events of a user at once | an acknowledged event has all its rewards, each once |
| budgets, multipliers | caps, windows; factors | spent sums, factor | concurrent firings at the cap | by how much spending may exceed the cap |
| rules and multipliers as admins keep them (M: `Segments`) | `rules`, `multipliers`, each for a segment or for all | create, edit, deactivate, delete | bound to a segment that is being deleted | no dangling target |

### Maker-checker and configuration (M: `MakerChecker`, composed in `Approvals`)

| part | state | operations | hard | must hold |
|---|---|---|---|---|
| configuration requests, `config_requests` (M: `ConfigRequests`, `Schedules`) | request, approvals, round | propose, revise, approve, reject, apply | quorum after a revision; two requests for one scope | only a full quorum of distinct non-proposers of the current round applies |
| money operations, `money_operations` (M: `MoneyOperations`) | as above | the last approval posts money | commits of helpers inside the approval | APPLIED iff posted |
| user operations, `user_operations` (M: `UserOperations`) | as above; users with unique identifiers | create, update a user | the availability of an identifier is read without a lock; users come from elsewhere too (directly, a partner's API) | one user per identifier; APPLIED iff done |
| API keys, `api_keys`, `auth/api_key.py` (M: `UserOperations`) | keys, `last_used_at` | issue, revoke, authenticate | revoked under a request | a partner's key makes one user |
| pricing, taxes (M: `Pricing`), limits (M: `Payments`), all seven kinds of rows (M: `Schedules`) | configured bands and windows | resolve a charge, split it; sum a rolling window; create, replace, delete a scope | rounding; sums without a lock; half a schedule | legs balance, no negative part; limit respected; bands disjoint |
| services, roles (M: `Services`, assignment also `Catalogue`) | services with allow-lists, derived from a base; grants and denials per role | create, edit, delete; the gate of a payment; readiness | a base edited after its derived services were saved; roles that disagree | what the rows say is what the gate does |
| user types, instruments (M: `Catalogue`) | a tree of types in categories; currencies | create, edit in place, retire; spread over the users | guards at two ends of an edge; two requests that do not see each other's rows; helpers that commit half of an instrument | two levels, no active type under a retired one; every user has his wallets |
| tenants (M: `Services`) | the tenant, its base instrument, roles and grants | save: create what is missing | saved twice at once; beside edits of what it creates | what was denied is not granted again |

### Identity (M: `Registration`, `Access`; users' types, supervisors and wallets: `Catalogue`)

| part | state | operations | hard | must hold |
|---|---|---|---|---|
| identity, `modules/identity` | users, OTPs and their quota, PIN hashes, access locks | signup, verify, login, lock | OTP used twice at once; login racing an access lock | an OTP once; a locked user has no session |
| sessions and lockout, `auth/` | Redis sets and counters | create, kill all, count failures | read-then-delete; two calls per count | a kill leaves nothing behind; bounded guesses |
| step-up and PIN change | a staged PIN, a fee | stage, look up the accounts of the charges, charge, commit | a helper's rollback in between; a key another flow has used | fee iff change |

### Other

| part | state | operations | hard | must hold |
|---|---|---|---|---|
| segments, `modules/segments` (M: `Segments`) | groups, segments with criteria, `user_segments` (manual or by criteria) | create, edit, delete, assign by hand; recompute (beat or on request) | recomputes overlapping each other and edits that read before they lock; documents that do not parse | tiers of a group exclude each other; an evaluated segment holds whom its criteria chose |

Analytics and audit are reports and an append-only log; the admin console
(`src/admin-ui`) and the mobile apps (`src/mobile`) are clients.

## 2. Modules

```
LedgerData ── AtomicLedger ──┬── Redemption ──┬── RedemptionProofs
    │              ▲         │                └── MCRedemption
    │              │         ├── Payments ──┬── MCPayments
    │              │         │      │       └── PaymentsProofs (EXTENDS also Sums)
    │              │         │      └ (INSTANCE) Pricing
    │              │         └── MakerChecker ──┬── MoneyOperations ──┐
    │              │                            ├── UserOperations ───┤            ┌── MCApprovals
    │              │                            ├── ConfigRequests ───┼── Approvals ┤
    │              │                            └── CommissionBatches ┘            └── ApprovalsProofs
    └── Ledger ────┘ (INSTANCE: Ledger implements AtomicLedger)
          └── LedgerLocks ──┬── MCLedger
                            └── LedgerProofs (EXTENDS also Sums)

Requests ──┬── Registration ── Access ───────────────────────────┐          ┌── MCTenant
           └── Catalogue ── Services ── Schedules ── Flows ──────┴── Tenant ┤
                                                                            └── TenantProofs
RuleEvaluator ── Rewards ──┬── MCRewards (INSTANCE: Rewards implements RewardOnce)
                           └── RewardsProofs
Segments ──┬── MCSegments
           └── SegmentsProofs
```

| module | models |
|---|---|
| `LedgerData` | requests, their legs and the arithmetic of `entry_deltas` and `deltas_for_status_flip` |
| `AtomicLedger` | what the ledger promises: a posting or a settlement is one step, a key is spent once, a guarded account has the funds when money moves |
| `Ledger` | the same work as the code does it: one action per database statement of concurrent sessions |
| `LedgerLocks` | which session each statement waits for, deadlocks, the database's victim, fairness, and two statements of the docstrings that interleavings refute |
| `LedgerProofs` | the inductive invariant; its proofs, the books, the deadlocks and the refinement |
| `Sums` | facts about sums over finite sets, which the proofs about money need |
| `Redemption` | the burn/payout/unwind saga over the atomic ledger |
| `RedemptionProofs` | its inductive invariant and proofs |
| `RuleEvaluator` | the six kinds of rule as operators on a progress row, and what a user is shown of it |
| `Rewards` | the outbox, its two drains, event ingestion, budgets and issuance |
| `RewardOnce` | what the pipeline promises: each firing is paid at most once, and logged at most once after it |
| `RewardsProofs` | proofs about `Rewards`, the refinement of `RewardOnce` among them |
| `MakerChecker` | what the queues share: requests, review threads, rounds and quorum, row locks, sessions, the posting that commits what is staged |
| `MoneyOperations`, `UserOperations`, `ConfigRequests`, `CommissionBatches` | one queue each, with what an approved request runs; users who come from elsewhere and API keys in `UserOperations` |
| `Approvals` | the composition of the four queues over one ledger, and sessions that die |
| `ApprovalsProofs` | proofs that only what enough checkers approved is applied, of where a request may go, and that the ledger, the users, the batches and the schedules follow what was applied |
| `Pricing` | the assembly of a charge (fee, tax, commission) |
| `Payments` | p2p, cash-in, cash-out, fund, external payments and airtime with the rolling limits, over the atomic ledger; what a user reads of its states |
| `PaymentsProofs` | proofs that charges balance, that recharges settle as the provider acted, that money moves through the ledger only, and that caps, balances and statement rows agree |
| `Requests` | sessions that serve one request at a time, and the budget of requests |
| `Registration` | phone, OTP and its quota, registration token, first PIN and the referral it pays |
| `Access` | login, step-up, lockout, sessions, access locks and the paid PIN change, together with `Registration` |
| `Catalogue` | the tree of user types, instruments with the accounts of the system, users' types, supervisors and the wallets they get |
| `Services` | base and derived services, roles, the gate of a payment, the readiness shown, the saving of a tenant |
| `Schedules` | the seven kinds of configured rows: applied requests on them, and their resolution |
| `Flows` | the gates of the seven payment flows, in each flow's order |
| `Tenant` | the composition of `Access` and `Flows` (and so of all the modules above it) |
| `TenantProofs` | proofs of what each part of the tenant promises, whatever the others do meanwhile |
| `Segments` | segments, their members, overlapping recomputes and the admins' edits; rules and multipliers bound to segments |
| `SegmentsProofs` | proofs that segments hold the users their criteria chose, and that what targets them finds them |
| `MC...` | instances for TLC |

Definitions whose comment starts with "Mutant" are not part of any
specification. Each is a plausible bug of the definition that follows it, kept
to show that the properties notice it.

## 3. The ledger model and the code

| action | code |
|---|---|
| `PostBegin` | `_assert_balanced`, `_load_and_assert_accounts`, `_find_by_idempotency`; an unbalanced request or a spent key ends the call without a write and is no step |
| `LockAccount` | `lock_account_for_update` of each account of `_needs_lock`, in id order |
| `CheckBalance` | `derive_balance` and the floor or ceiling of `_enforce_balance_guard`; failing raises (`"rejected"`) |
| `InsertTransaction` | the flush of the `transactions` row: waits for an uncommitted row of the same key, raises `IntegrityError` for a committed one |
| `InsertEntry` | the flush of the entries; their foreign key takes `FOR KEY SHARE` on each account row, which waits for a `FOR UPDATE` holder |
| `UpdateSnapshot`, `SeedRead`, `SeedInsert` | `apply_deltas`: UPDATE .. SET balance = balance + delta, or, when that meets no row, `sum_from_ledger` and INSERT .. ON CONFLICT DO UPDATE |
| `Commit` | the commit, with the `reward_outbox` row of `enqueue` when the transaction is rewardable and COMPLETED |
| `SettleClaim` | `_lock_pending_recharge` (`FOR UPDATE`, re-read of PENDING), then `_apply_completed` or `_apply_reversed` with the flip's deltas through the same `apply_deltas` |
| `SweepRead`, `SweepMark`, `SweepRepair` | `find_drift` (cached rows read without a lock, then locked by the `last_verified_at` UPDATE, then summed) and the repair |
| `Rollback` | an exception reaching `get_async_session`, a dead process, a deadlock victim |

State: `txn`, `book` (the sums over committed entries), `snap`, `outbox` are
committed rows; `uncapped` is history. `forUpdate`, `keyShare`, `inflight`,
`claim`, `rowLock` are PostgreSQL's locks, `dirty` the uncommitted version of a
snapshot row; `pc`, `job`, `checked`, `seed`, `cached` are the locals of each
session. Reads see committed rows and the session's own writes.

Abstractions:

- A request carries the net of its legs per account. The guard, the snapshot
  deltas and the balance assertion all accumulate per account first; legs of
  one account that cancel each other are not enumerated.
- Amounts are small integers in minor units. Reference numbers, descriptions
  and fee columns are left out.
- Accounts exist from the start; `Opening` stands for transactions older than
  the model, and an account of `Unseeded` has no snapshot row yet.
- Legs reach the flush in whatever order the calling service listed them.
- PENDING postings are the airtime reservation: debit of a wallet, credits to
  accounts no guard protects (`PendingAssumption`). A settled recharge always
  finds the snapshot rows its reservation wrote, but the model does not assume
  it.
- `max_balance` does not change during a run.
- The sweep's sums and rewrites of a batch are one step, since every row of it
  is locked by then and no sum moves without its row.
- Nothing here explains a drift the repository reports. A 50-way load run left 3
  of 413 accounts, on the points path, with a cached balance short of exactly
  one posting, by a mechanism "not yet understood"
  (`ledger/reconciliation.py:9-14`, `tests/ledger/test_snapshot_concurrency.py:9`).
  `SnapshotMatchesLedger` says that the statements modelled here, under
  PostgreSQL's `READ COMMITTED`, do not do that. The insert as the comment at
  `snapshots.py:213` says it once was does (`SeedInsertStale`, the property's
  mutant), and may be what the run met; a cause outside these statements is not
  excluded.
- The `IntegrityError` branch around the commit is not modelled: the flush
  before it has already claimed the key, so the commit cannot conflict (this is
  the finding of `LedgerReplayRace`).

## 4. The redemption model and the code

`Redemption` uses `AtomicLedger`: a posting is one step `Post`, which is what
`LedgerProofs!Implements` proves of `Ledger`. What the saga depends on
inside a posting is kept apart: the idempotency read of the payout
(`StartPayout`), the guard's locks (`LockWallets`), its verdict and the insert
(`Pay`, `PayConflict`, `PayRefused`).

| action | code (`redemption/internal.py`) |
|---|---|
| `Begin` | the gates: an ACTIVE rate, no pair row for the key; the rate is kept for the rest of the request |
| `LockPoints`, `CheckPoints`, `RefuseBurn` | `_burn_points`: lock, derived balance, both caps, the balance |
| `Burn`, `BurnReplayed` | its posting, whose commit frees the lock; or the burn of an earlier attempt returned without a commit, the lock kept |
| `StartPayout`, `LockWallets`, `Pay` | the payout's `post_transaction` |
| `PayRefused`, `Unwind` | the `except`: a refused payout is compensated under the derived key, the original error re-raised |
| `PayConflict` | a payout committed since the read: the uniqueness error leaves a session that can only roll back, the unwind attempted on it fails too |
| `WritePair` | the pair row, unique per key; the loser of that race gets the error |
| `Cut` | a dead process, a lost connection, a deadlock victim: any statement may fail, and the unwind with it |
| `ChangeRate` | `rates.py`, an approved change or deletion |
| `OtherPosting` | rewards, top-ups and other traffic on these accounts; nobody else debits points (`OthersAssumption`) |

Abstractions: one user; amounts in minor units, the quote rounded half up as in
`quote_fiat_amount`; the two wallet locks are taken together; the rate read and
the pair-row read are one step; gates that refuse before any write are left out
(RBAC, step-up, access lock, pricing and limits); creating a missing system
account (before the points lock) is left out.

## 5. The rewards model and the code

What a session has written and not committed is in its job (`staged`); the next
commit of that session, whichever statement issues it, applies it and frees
every lock (`CommitStaged`, `Unlock`). So the posting of an evaluation's first
firing commits the progress rows of all of them.

| action | code |
|---|---|
| `Pay` | a rewardable posting and its `reward_outbox` row (`RewardIntent` of `Ledger`) |
| `ClaimPending` | `attempt_immediate`: the row, `FOR UPDATE SKIP LOCKED`, in a session of its own (`Pool`) |
| `Sweep` | `recon_sweep_async`: the oldest `Batch` rows that are PENDING or FAILED below `MAX_ATTEMPTS` |
| `DrainRow` | `_drain_row`, which rebuilds the event |
| `Deliver`, `Reject` | `process_external_event`: deduplicated on the log row, which is flushed and not committed; a disabled or unknown source is only logged |
| `Decide`, `EvaluateRule`, `InsertWakes` | `evaluate_active_rules_for_event`: one rule after the other, the progress row read or inserted without a lock; an insert that meets an uncommitted row of the same key waits for it and fails if it commits |
| `SkipIssued`, `CheckBudgets` | `issue_points_reward` and `issue_cashback_reward`: the idempotency read, then `check_budget_available` under `FOR UPDATE` of the budgets |
| `Post` | its `post_transaction`: commits everything staged and frees the budgets |
| `Record` | the `reward_events` row, staged for a commit to come |
| `Finish` | PROCESSED, or the ingestion log's final commit |
| `RecordFailure`, `Drained` | the rollback, `attempts + 1`, and the loop's next row or its end |
| `Fault`, `Crash`, `Reconfigure` | a statement fails, the process dies, treasury refills the cashback wallet |

`RuleEvaluator` is functional: `Evaluate(rule, row, event, transactions)` is the
decision and the new row; `Creatable` is what the schema lets an admin create,
`Standing` what `rewards/read_service.py` shows a user of a rule. `MCRewards`
compares the streak against a definition that does not mention a progress row.

What the code does that a reader may not expect, and the model keeps:

- `rollback()` expires every loaded row, also with `expire_on_commit=False`, so
  a loser of a unique insert raises again in the handler that records it. After
  a failure the drain loop may go on or end, and the model allows both.
- Progress is written without a row lock and updates can be lost. A first-time
  rule *with* a minimum amount may therefore fire twice; `FirstTimeOnce` speaks
  of those without, whose row is inserted by the transaction that pays. Two
  workers that count two events of one user for one milestone read the same
  counter, and the later commit takes the reset of the other back: three visits
  pay twice at a threshold of two. One consumer loop
  reads the topic, but `POST /external` (`events/router.py:61`) processes an
  event in the request, beside the loop and other requests. `stale` counts, per
  rule, the commits that wrote over a row changed since it was read, and
  `MilestoneEarned` gives each of them at most `threshold - 1` events that were
  counted twice. It speaks of rules that start over; one that does not pays on
  every event past its threshold (`evaluator.py:281`).
- The budget lock ends with the posting's own commit, before the
  `reward_events` row that the next check sums is visible. The docstrings
  (`rewards/service.py:242`, `budgets/service.py:136`) say two concurrent
  firings cannot both pass. They can; `BudgetOverrun` states by how much.
- A crash after the first firing's posting loses the later one-shot firings of
  the same event: their progress rows already say they fired.
- The multiplier is resolved again on a retry, so a points row of
  `reward_events` may carry another amount than the ledger (`PaidIsRecorded`
  claims equality for cashback only).
- A streak restarts when events arrive out of order.
- The weeks of a streak begin on a Sunday (`toordinal() // 7`), those of its
  docstring on a Monday ("ISO weeks since the epoch", `evaluator.py:363-365`).
  `StreakCountsPeriods` has the code's weeks (`Sundays`) and fails for the
  docstring's.

Abstractions: one user; every intent of the tenant is in rewards mode; budgets'
windows do not end during a run; which users a rule is for is left open (the
binding to a segment itself is in `Segments`); a commit writes the whole progress
row it has staged, where the `UPDATE` writes the columns that differ from the
row read: a write-back that leaves the counter alone cannot take it back in the
code, and counts as `stale` here; the branch for a missing points account is
unreachable (`UserPointsAccountMissing` is never raised).

## 6. The approvals models and the code

`MakerChecker` has the review thread; each queue has its payloads and what an
approved one runs. A call that is refused rolls back and leaves no trace, so it
is no step, except where it had committed something before.

| action | code |
|---|---|
| `ProposeMoney`; `CheckUser`, `ProposeUser`; `CheckConfig`, `ProposeConfig` | `propose_*`: for users and configuration the conflict reads take no lock, and the insert comes later |
| `Progress`, `SendBack`, `Revise`, `Resubmit`, `Withdraw` (per queue: `ApproveMoney`, `RequestUserChanges`, `ReviseConfig`, ...) | the transitions under the request's row lock; a resubmission starts a new round |
| `Decides`, `Quorum`, `Applied` | `distinct_approver_ids`, `QuorumPassed`: the last approval, which applies the payload |
| `ApplyFund`; `ApplyFirstFund`, `PostFirstFund`, `RefuseFirstFund` | `fund_user`; the first fund of a currency creates `system_cash_inflow`, whose helper commits the request as APPLIED before the money is posted |
| `ReadWithdrawal`, `PostWithdrawal`, `RefuseWithdrawal` | `withdraw_from_user`: the amount of a withdrawal of all is resolved on an unlocked read |
| `ApplyAdjustment`, `CreateBankMirror`, `RenameBankMirror` | `adjust_system_wallet`, `create_bank_mirror`, and the renaming that needs no approval |
| `ApplyCreate`, `ApplyUpdate` | `create_user` and `admin_update_user` on approval |
| `Link` (per queue) | `_link_result`, a second commit |
| `CreateDirectly`, `AddIdentifier`, `VerifyIdentifier` | users around the queue: a platform admin, identifiers added and attested |
| `CreateApiKey`, `RevokeApiKey`, `ReceivePartner`, `CreatePartnerUser`, `RefusePartner`, `RecordKey` | API keys, and `external_create_user` in two commits: the user, then the row that remembers the partner's Idempotency-Key |
| `ApplyFirstBand`, `ApplyNextBand`, `BandCollides` | a creation of several bands: the service commits each |
| `ReadScope`, `ReplaceScope` | `replace_*`: delete what was read, insert the new rows, one commit |
| `UploadBatch`, `ValidateRows` | the upload, with its verdict per row |
| `OpenBatch`, `OpenRejection`, `SecondReview`, `RejectBatch`, `RecordApproval` | the decisions on a batch, with no row lock |
| `ReadRows`, `LookUpRow`, `PayRow`, `PayRowConflict`, `FailRow`, `FinishBatch` | its payment, each row a posting with a commit |
| `Cut` | a session dies |

What happens, and is excluded from the properties by a named history variable
or said by none:

- `bare`: a first fund refused or cut after its helper's commit is APPLIED
  without money.
- `disturbed`: the docstrings of the batch (`apply.py:59`, `service.py:321`)
  promise one transaction, but every posting commits. A crash leaves a PENDING
  batch with paid rows, which another checker may reject and which the admin
  who approved cannot approve, nor reject, again; two approvals of a quorum may
  overlap. `PostedRowIsPaid` holds all the same.
- `stacked`: two proposals for one scope may pass the conflict read together;
  and a creation is APPLIED, hence open no more, while it still has bands to
  add, so that a change of the scope may be proposed and approved between two of
  them (`Filling`): it replaces what it read, and the next band is added to that.
- A creation of several bands that fails at a later band is APPLIED with part
  of the schedule live, against the comment "all-or-none" at
  `config_requests/apply.py:427`.
- `external_create_user` says that a concurrent retry under the same key is
  answered with the first one's user. Between the two commits it is not: the
  look-up finds no row yet and the identifier is taken, a 409
  (`external/service.py:192`). Two concurrent requests of one key with two
  payloads create two users.
- `last_used_at` of an API key is not stamped on a replay.

Abstractions: the last writer of a staged row wins at the commit; audit rows are
left out; a file's rows are its numbers and amounts; a user is his identifiers
and his status; a checker who approves a payload revised after he saw it is not
told apart from one who saw it. `ConfigRequests` has rows of one kind;
`Schedules` has what the queue applies, of every kind.

## 7. The payment models and the code

`Pricing` translates `assemble_charges` and what it calls: the band that
applies, percentages rounded half up, inclusive or on top, the taxes on fee and
commission, the commission's split with a parent, and the legs. `Payments` uses
it for every posting (`Posting`).

| action | code |
|---|---|
| `Begin` | the request and its idempotency fast path (p2p has none, so a retry is counted against itself) |
| `CheckLimits`, `RefuseLimits` | `check_limits` and the wallet caps: sums over committed transactions, no lock |
| `CheckFunds` | the service's own balance check, before the ledger's |
| `Post`, `Replay`, `RefusePost` | `post_transaction`; for airtime a PENDING reservation |
| `WriteRow` | the recharge row, a second commit |
| `CallProvider`, `Finalize` | the call and the settlement by the request (`_lock_pending_recharge`) |
| `ProviderEnds`, `Callback`, `Resolve` | the provider's own progress, its callback (late, repeated or never), an operator |
| `Crash` | the process dies |

What happens, and the properties do not exclude by accident:

- Two requests read the sums before either posts and pass together
  (`crowded`).
- A replay of a PENDING recharge calls the provider again, so airtime may be
  vended twice (`VendedAsSettled` speaks of one call where it says refunded
  means not vended). An answer after a reversal is dropped.
- A crash between the reservation and the recharge row leaves a hold that no
  path releases (`cut`), and whose retry counts it as spent.
- `fund` records no initiator, so its service caps never count
  (`external/service.py:351`); cash-in, cash-out and merchant credits skip the
  receive caps (`LimitsHeld` is restricted accordingly).
- An inclusive fee above the principal leaves an unbalanced posting, refused by
  the ledger (`CashOut` in the instance).

Abstractions: gates that refuse before any write are in `Flows`; one rolling
window, longer than the run; the limits of one check are read in one step (the
sums only grow); `withdraw_all`'s amount is resolved by the order.

**What is shown.** The second part of `Payments` adds no action: it reads the states
of the first. `Balances` is `get_my_wallet`, `Statement` the rows of
`_build_recent_txns_payload` for the wallets a filter leaves, `CommissionShown`
its rule that a commission wallet's credit silences the other rows of the
transaction, `Principals` the two sides of `_resolve_principals`. With the admin
panel's filter on main wallets, the code looks for that credit among the
filtered movements only (`identity/service.py:1642`), so the main wallet's row
then shows the commission too, against the comment there; `ChargesShownOnce`
speaks of the unfiltered statement. A row takes its commission from the wallet's
movement on a commission wallet and from `transactions.commission_amount` on a
main one; the first is net of a tax carved out of the commission and the second
is not, so `ChargesShownOnce` allows both figures, of one of which the earner is
told.

**What is configured.** `Schedules` has one row type for the seven kinds
(pricing, commission, limit, wallet limit, tax, step-up policy, points rate).

| definition | code |
|---|---|
| `Apply` | `apply_config_request` with `validate_band_payload`; an update or delete reads its scope |
| `CreatePricing`, ..., `CreateRate` | `create_*`: one row, one commit, with the service's own checks |
| `ReplacePricing`, ... | `replace_*_for_scope`: what was read goes, the new rows come |
| `DeletePricing`, ... | `delete_*_for_scope` |
| `FindPricing`, `FindCommission`, `FindLimit`, ... (`Beats`, `First`) | the resolution: a typed row beats the one for any type, a low band a higher one |

`layered` names the scopes where a creation came upon rows, or two requests were
at work at once: their bands may overlap. The models' comments call bands
half-open (`shared/models/pricing.py:51`, `:69`); both bounds belong to the band.
Two bands without a lower bound pass the check of the bands of a request
(`config_requests/apply.py:359`) when the earlier one ends; the unique scope
refuses them at the flush, and the whole replacement with them (`Collide`). A
band without a lower bound is the fallback of the resolution, so it may lie
under the others: `BandsDisjoint` speaks of the rows that have one.

**What is asked.** `Flows` has one action per gate, and per flow the sequence of
them (`P2PGates`, `CashInGates`, ...). Between two gates anything may change;
only the user's type, and the wallet cap of that type, are read once and kept.

| action | code |
|---|---|
| `ReadType`, `ResolveService`, `CheckService` | `resolve_user_type`, `resolve_service_code`, `assert_service_allowed` |
| `RequirePermission`, `CheckStanding` | `require_permission`, the access level |
| `FindExisting` | the idempotency fast path of the flows that have one |
| `CheckPayee`, `CheckAgent`, `FindWallets` | not to oneself, cash out at retail users, wallets there |
| `CheckConfigured` | `pricing_config_exists` and `limit_config_exists` |
| `CheckLimits`, `CheckSend`, `CheckReceive`, `EnforceStepUp` | the caps, the policy and the PIN |
| `ResolveFee`, `CalculateCommission`, `ResolveEarner` | the price, the earner's and the parent's share and the wallet it goes to |
| `CheckFunds`, `Post` | the ledger's verdict is left open |

Without a policy `EnforceStepUp` asks for the PIN, as `enforce_step_up` does
(fail-closed, `step_up/service.py:62-67`, `:102`, and
`tests/step_up/test_p2p_step_up.py:283`); `PaymentsGoverned` follows the gate.
The transfer's own comment, "No-op when no policy exists"
(`payments/service.py:313`), says the opposite.

`stirred` names the payments under which a rule has changed (`Stir` in
`Tenant`). A limit is its maximum here, an order carries the right PIN or none,
and there is one currency.

## 8. The registration and access models and the code

Every Redis command and every database commit is a step.

| action | code |
|---|---|
| `ReadQuota`, `SpendQuota`, `MinutePasses`, `HourPasses` | `auth/rate_limit.py`: the minute's key and the hour's counter, read and then written |
| `FindPhone`, `Register`, `SendOtp`, `ReadOtp`, `UseOtp`, `MintToken`, `TakeToken`, `ReadPin`, `WritePin` | signup (`identity/service.py`), the unique phone, the OTP's row read and marked, the registration token in Redis, the first PIN |
| `ReadReferral`, `FireRule`, `PayReferrer`, `PayReferee`, `StageRewarded`, `FinishReferral`, `PayFails` | `fire_referral_rewards` and its stamps; each payment's posting commits |
| `Login`, `StepUp`, `ChangePin`, `Gate`, `Compare` | the three paths that compare a PIN, behind `is_locked_out` |
| `Count`, `Lock`, `Drop`, `Reset`, `CounterExpires`, `LockoutLapses` | `record_failed_attempt` (INCR, EXPIRE at the first), SET, DEL, and the two expiries |
| `Issue`, `Index` | `create_session`: the token's key, then its entry in the user's index |
| `UseSession`, `SlideIndex` | `read_session` and its two EXPIREs |
| `Logout`, `Unlist` | `delete_session` |
| `SetLevel`, `Members`, `Kill`, `Unindex`, `CommitLevel` | the admin's access lock: the sessions are killed before the commit |
| `ClearLockout`, `ClearCounter` | the admin's unlock |
| `StageChange`, `ChargeConflict` | `change_pin`: the new hash and the `pin_changes` row are flushed; the user's row is held from then on, and another change of his waits (`UserHeld`) |
| `AccountLost` | a system account of the charges is created by another request at the same time: `_get_or_create_system_account` rolls back, the flush with it, and returns an account as if nothing had happened; the request ends at the read of an expired row |
| `ChargePosted`, `ChargeReused`, `ChargeRefused` | the posting of the fee, which commits what is staged; or the ledger's answer to a spent key, after which `change_pin`'s own commit does; or a refusal |
| `CommitPin` | the admin's PIN reset |
| `OtpExpires`, `TokenExpires`, `Tick`, `Crash` | time and failure |

What happens, and is named by a history variable:

- `wrong` does not count comparisons of requests that died before recording
  them, and a crash between INCR and SET leaves a counter at the threshold with
  no lock; the next failure locks. The comment speaks of a rolling window; the
  expiry is set at the first failure only. The lock and the deletion of the
  counter are two commands: when an admin unlocks between them, the late deletion
  also clears the failures counted since, and the user has another round of
  guesses. `wrong` starts again there, as it does at the unlock itself (`Drop`).
- `late`: a login in flight while an access lock kills the sessions creates one
  afterwards. `torn`: a read cut between its two EXPIREs leaves an index that
  ends before its token, after which no kill finds the token.
- `crowded` (of the quota): two requests that read it together both send. The
  hour's INCR and EXPIRE are two commands.
- `Spent`: a PIN change sent with a key another flow has used finds that
  transaction, charges nothing and changes the PIN (`ChargeReused`), against
  "atomically with the charge" (`pin_change/service.py:305`). `PinChangePaid` speaks of the other keys.
- `raced`, `rivals`: two overlapping verifications of one OTP both get a token;
  two overlapping first PINs are both written, and both fire the referral.
- Stamps are kept per referral, so a second active rule pays nothing, though
  the docstring says every active rule fires. A referral payment that fails is
  rolled back and nothing retries it.

Abstractions: of the referral code's validation, only whether it exists; a PIN
change without a fee is left out; an OTP's windows pass only while somebody may
still ask for one; `Tick` does not fall between two Redis commands of a request (the
session TTL is an hour); the PIN a client sends is open.

## 9. The segments and campaigns models and the code

One action per statement that takes or waits for a lock.

| action | code |
|---|---|
| `Begin`, `LockSegments` | the recompute's `SELECT .. FOR UPDATE`: its snapshot of the dynamic segments, then the rows as they are when it has them |
| `Evaluate` | quarantine of groups with a document that does not parse (`ValidOf`), metrics, candidates, winners, and each segment's delta |
| `Commit`, `Abort` | the commit of the tenant's recompute, all or nothing; the time limit, an error or a deadlock's victim |
| `CreateGroup`, `DeleteGroup`, `CreateSegment` | one commit each; a group goes when it is empty |
| `ReadForUpdate`, `Update` | `update_segment`: an unlocked read, and a write of the fields that differ from it |
| `ReadMember`, `InsertMember` | `add_user_to_segment`: the insert's foreign key waits for a recompute |
| `DropMembers`, `DropSegment` | `delete_segment`: the guard against bound rules and multipliers, members first, then the row |
| `ReceiveRule`, `InsertRule`, `ReadRule`, `UpdateRule`, `DeactivateRule` | `rules/service.py`: the segment looked up, the row written later; the foreign key waits for a recompute that has the segment |
| `ReceiveMultiplier`, `InsertMultiplier`, `DeleteMultiplier` | `multipliers/service.py`: nothing looked up, the foreign keys and the unique key at the flush |
| `Fail` | a request's error: a row gone, a taken key, a foreign key, a deadlock's victim |
| `Corrupt` | a release or a hand-edit that leaves a document invalid |

What happens, and is named by a history variable:

- `lens`: a segment that joins a group while a recompute waits for its locks is
  not in the recompute's snapshot, so a user may hold two tiers of the group
  until the next one (`Missed`). A segment that moves keeps the rows of its old
  group until then, and clearing the criteria freezes them.
- `outrun`: whether the stamp has to go is decided on the unlocked read. If that
  found no stamp yet, and the first recompute commits in between, SQLAlchemy
  sees `NULL` assigned to `NULL` and writes nothing: the new criteria carry the
  stamp of the old ones, against the docstring (`segments/service.py:243`),
  until the next recompute.
- `TierExclusive` speaks of rows by criteria: a user assigned by hand to one
  tier may match another. An assignment by hand of a user who is a member by
  criteria returns that row, and a later recompute may remove it.
- A delete takes the members and then waits for the segment's row, held by a
  recompute that may wait for those members: the database aborts one (`Abort`,
  `Fail`). A member who joins in between makes the delete fail by foreign key,
  and so does a rule or multiplier bound in between.
- The docstring of `create_multiplier` promises a concurrent retry of one key
  the first one's row, never a 409 or 500. The flush is not guarded, so the
  retry gets a server error.

Abstractions: one tenant; a metric is any value per user, read at one instant; a
user without a value counts as 0, as in the code; names, descriptions, previews
and counts are left out, and of rules and multipliers all but their targets and
status.

## 10. The catalogue and services models and the code

`Catalogue`: the configuration is read without a lock, decided on, and written
by a commit; what is read in one statement is one step.

| action | code |
|---|---|
| `EditType`, `ReadChildren`, `ReadParent`, `WriteType` | an applied request on a user type: `create_user_type`, or `replace_user_type_for_scope` with `_assert_no_active_children`, `_assert_has_no_children` and `_assert_hierarchy_valid`; the update writes the columns that differ from what it read |
| `CreatePerson`, `CommitUser` | `create_user` from the validated type to its commit |
| `ChangeType`, `CommitRetype` | `change_user_type`: the row is flushed first and held, the wallets follow |
| `ReadCurrencies`, `ReadHeld` | `provision_user_accounts` inside either |
| `WriteUser` | the flush of the row, whose supervisor must be allowed for the type (`Allowed`, `Fits`) |
| `UpdatePerson`, `CommitUpdate` | `admin_update_user`: the type and the supervisor, without wallets |
| `CreateAccount` | an admin's account |
| `CreateCoin` | `create_instrument`: the row is flushed, and a second one of its code waits (`InsertFree`) |
| `Inflow` | `get_or_create_system_cash_inflow`: it finds the account; or creates it with a commit, the instrument's too; or loses a race for it and rolls the instrument back |
| `SystemAccounts` | the accounts of fees, commission and taxes, flushed; one lost to a race rolls back what is not committed |
| `BackfillMains`, `BackfillCommissions`, `CommitCoin` | the two passes of `_backfill_one_type` and the commit; after a rollback the audit's read of the instrument fails the request (`row`) |
| `EditCoin` | status edits and soft delete |

`Services` has one action per edit (`CreateVariant`, `UpdateService`,
`DeleteVariant`, `SetPermission`, `RemovePermission`, `CreateRole`, `UpdateRole`,
`AssignRole`, `RemoveRole`) and the checks as operators: `Admits`
(`resolve_service_code`, then `assert_service_allowed`), `Permits`
(`has_permission`), `RoleReady` (`compute_service_readiness`). `SaveTenant` reads
what the base catalogue lacks, `CommitCatalog` writes it. A new user gets his
type's role (`DefaultRole`).

What happens, and is named by the properties:

- `crossed`: two edits of the type tree at once are not serialised, and may
  compose to three levels or an active type under a retired one.
- `overlapped`: a user created while an instrument is spread is in neither
  select, and stays without the wallet. A change of type instead meets the
  other's account, and one of the two requests fails.
- `unspread`: a user created while an instrument is disabled has no wallet in it
  when it is enabled again; nothing spreads it later.
- `updated`: `admin_update_user` changes the type without provisioning
  (`docs/`, spec of 2026-08-26, 6.3, asks for the commission wallet).
- `partial`: the instrument's row committed by the helper, and no backfill yet. A
  request that dies there, or whose backfill meets an account inserted
  meanwhile, leaves an active instrument that reached nobody, and a second
  creation is refused for its code, against "partial state is impossible"
  (`instruments/service.py:94-97`). `WalletsComplete` speaks of the others.
- A change of type does not give the new type's default role.
- Saving a tenant brings a deleted base instrument back without wallets for the
  users there are (`unspread`).
- A base narrowed until it has nothing in common with a derived service's list
  leaves an empty intersection, which counts as unrestricted
  (`services/service.py:293`), although the docstring says that every derived
  service tightens with its base; the derived list still applies.
- An empty list is documented as restricting to nobody (`services/schemas.py`)
  and restricts nothing. A disabled base is no policy at all, and a request for
  the base's own code is not checked for its status.
- Readiness without a role is called conclusive (`services/schemas.py:67`). It
  looks at all roles together, so a denial on one hides what another would
  inherit from the base.

Abstractions: one base flow and one of the two alike allow-lists; an empty list
stands for `NULL`; points instruments are left out, and of the accounts of the system
all but what their creation does to the request that asks for them.
The user of `Registration` and the users
of `Catalogue` are different ones: registration's first commit is `create_user`,
which `Catalogue` takes apart.

## 11. Runs

| run | instance | shows |
|---|---|---|
| `LedgerSafety` | two handlers, one sweep, four accounts (two capped wallets, a commission wallet, an unguarded one without a snapshot row), five requests of four keys | `WellFormed`, `BooksBalance`, `SnapshotMatchesLedger`, `NoOverdraft`, `CeilingRespected`, `ChecksStayValid`, `RewardIntent`, and the refinement `AtomicSpec` |
| `LedgerLiveness` | a cash-in and a commission payout that can deadlock, a transfer opposite to the cash-in, and a sweep of two rows | `DeadlockNeedsUnorderedLocks`, and `EveryRequestEnds` under `FairSpec` |
| `LedgerDeadlock` | the cash-in and the payout | violation of `NoDeadlock` |
| `LedgerReplayRace` | two transfers, two handlers | violation of `SpentKeyIsReplayed` |
| `LedgerFalseDrift` | two transfers and the sweep | violation of `SweepReportsOnlyDrift` |
| `RedemptionSafety` | two requests of one user, two keys sent at most twice, three rates, a top-up, a reward, points earned | `TypeOK`, `PointsFloor`, `BurnIsSettled`, `FirstAttemptExact` |
| `RedemptionReplay` | the same with one rate | violation of `PaidBurnStands` |
| `RewardsSafety` | one user, two payments and three external events, a handler, a sweep and two workers of external events, three rules (first payment, payments above an amount, every second visit), one points budget, an empty cashback wallet that may be refilled | `TypeOK`, `FiringsExact`, `BudgetOverrun`, `StreakCountsPeriods` (over all ordered sequences of up to five events), the refinement `OnceSpec`, `EveryIntentEnds` under `FairSpec` |
| `ApprovalsSafety` | two proposals of any kind, three admins, two sessions, quorums of one and of two; two currencies, one without a float yet; two mirrors and a third to come; a partner with one API key and two Idempotency-Keys | `TypeOK`, `ApprovedIsApplied`, `AppliedTookEffect`, `ScheduleReplacedWhole`, `BatchTruthful` |
| `PaymentsSafety` | two wallets and a commission wallet, one order of each shape (two transfers, a recharge, a fund, a cash-in and a cash-out with commission, that of the cash-out with a tax within it, a cash-out whose inclusive fee exceeds its principal), two sessions, three requests | `TypeOK`, `ShownTruthfully`, `RechargeSettled` |
| `TenantSafety` | two sessions, 24 scenarios of up to seven requests (`MCBudgets`): the user who registers and logs in; five types, two of them the platform's; two further users, one above the other, one instrument; a base service with one variant, two roles; nine configured rows, twelve payloads; orders of all seven flows | `TypeOK`, `TriesBounded`, `SuspendedHasNoSession`, `PinChangePaid`, `RegistrationOnce`, `HierarchyKept`, `WalletsComplete`, `PolicyBinds`, `BandsDisjoint`, `PaymentsGoverned` |
| `SegmentsSafety` | one user, three segments in two groups (one of each seeded and protected), two metrics, a rule, a multiplier, two recomputes, two admins, two edits | `TypeOK`, `SegmentsExact` |

What the properties say:

- `WellFormed`: types, and that a session that has ended holds no lock, key or
  share lock (`NothingLeft`), whichever way it ended.
- `BooksBalance` (`BookIsLedgerSum` and `SumToZero`), `SnapshotMatchesLedger`: the incremental
  figures are the sums over all entries, the whole ledger sums to zero, and the
  cache agrees with it.
- `NoOverdraft`, `CeilingRespected`, `ChecksStayValid`: the guards hold when
  the money moves, not only when they are evaluated.
- `RewardIntent`: an outbox row exactly for the rewardable COMPLETED
  transactions.
- `AtomicSpec`: all the statements of a session are together one atomic posting
  or settlement, so history is kept too (`AppendOnly`, proved on its own).
- `DeadlockNeedsUnorderedLocks`: what the guard's lock order is good for. A
  cycle of waits needs a credit to a guarded account the guard does not lock, or
  a sweep that marks several rows in the order of its plan.
- `PointsFloor`: concurrent redemptions never overdraw the points, though the
  ledger has no floor for them.
- `BurnIsSettled`: when nobody works on a burned key and none of its attempts
  died, it has been paid or given back.
- `FirstAttemptExact`: a key sent once is never both paid and given back, and
  its pair row says what its transactions moved, across rate changes.

- `FiringsExact`: one-shot and counting rules pay what was earned, whatever is
  retried or redelivered (`FirstTimeOnce`, `MilestoneEarned`, the latter with
  two workers of one user's events); a rule that has
  paid is not shown as locked (`PaidIsShown`), and the reward history agrees
  with the ledger (`PaidIsRecorded`).
- `StreakCountsPeriods`: a streak rule counts periods, not events; its weeks
  begin on a Sunday.
- `BudgetOverrun`: how far concurrent firings can pass a cap.
- `OnceSpec`, `EveryIntentEnds`: a firing is paid at most once, and every
  intent ends.
- `ApprovedIsApplied`: what is applied is what a quorum of others approved,
  across revisions and rounds.
- `AppliedTookEffect` (`AppliedMoneyMoved` and `OneUserPerIdentifier`),
  `ScheduleReplacedWhole`: an
  applied request did what it says, and only that.
- `BatchTruthful` (`PostedRowIsPaid` and `BatchToldAsItIs`): a batch's rows and status agree with
  the ledger.
- `ShownTruthfully`: the rolling limits hold for a wallet whose requests do not
  overlap, across services, retries, crashes and late settlements
  (`LimitsHeld`); the completed rows of a wallet add up to its balance and the
  pending ones to its hold, under any filter (`RowsExplainBalance`); no fee, tax or
  commission is shown twice or to somebody else (`ChargesShownOnce`).
- `RechargeSettled` (`RechargeMirrorsHold` and `VendedAsSettled`): a recharge row, its reservation, its
  reward intent and the provider's airtime agree.
- `TriesBounded`: the number of wrong PINs compared in a row.
- `SuspendedHasNoSession`: an access lock leaves no live session behind, but for
  those of logins it overlapped (`late`), which it does miss.
- `PinChangePaid`: the change and its fee are one, whatever ends the request
  between the flush and the posting's commit.
- `RegistrationOnce`: one token per OTP, one first PIN, one payment per side of
  a referral, no more OTPs than the quota (`QuotaKept`).
- `HierarchyKept`: edits of the type tree, one at a time, keep two levels, the
  category and no active type under a retired one (`TypeTreeKept`), and a user's
  supervisor is one his type may have (`SupervisorsFit`).
- `WalletsComplete`: who can be paid in a currency has the wallets for it,
  whichever came first, the user, the type or the instrument.
- `PolicyBinds` (`NarrowedBaseBinds` and `UnreadyIsUnusable`): a base's present
  list binds its derived services, and a service without a role is nobody's.
- `BandsDisjoint`: of the bands with a lower bound, one at most holds an amount,
  for prices as for commissions, however edits fail half way.
- `PaymentsGoverned`: each of the seven flows, asking in its own order, lets
  through what all the rows together allow, and charges what they say. It is
  stated without the gates, so a gate a flow leaves out shows.
- `SegmentsExact`: no user is by criteria in two tiers of a group that were
  evaluated in it, whatever overlaps (`TierExclusive`), and a segment that says
  it is evaluated holds whom its present criteria chose (`MembershipExact`); no
  rule or multiplier targets a segment that is gone (`BindingsKept`).

The violations, each a disagreement between the code and its own text:

1. **Deadlock** (`ledger/service.py:519`). The guard's comment says inverse
   order of wallet locks is the only way to deadlock. The foreign key of the
   entries share-locks every leg's account after the ordered locks; a cash-in
   crediting an agent's uncapped commission wallet and a payout of that wallet
   wait for each other. The database aborts one (`LedgerLiveness` shows that
   everything still ends).
2. **Replay race** (`ledger/service.py:280`). The loser of a race for one key
   is documented to get the winner's transaction; the error is raised by the
   flush, outside the handler, and the caller gets a server error. No money
   moves twice: `AtomicSpec` holds.
3. **False drift** (`ledger/reconciliation.py:80`). The sweep compares a cache
   read before it waited with a ledger summed after. It reports drift that is
   not there and rewrites the row, with the right figures
   (`SnapshotMatchesLedger` holds).
4. **Redemption replay** (`redemption/internal.py:389`). The documentation says
   a failed attempt nets to zero and a replay resumes without a second payout.
   A retry that overlaps the first attempt can be refused by the wallet the
   first has just drained, and unwinds the burn that was paid; a retry after an
   unwound attempt finds the burn spent and pays. In both the user keeps the
   points and the money.

Further disagreements, met while modelling, with no run of their own. A property
that touches one says so in its comment:

- **Milestone race** (`rules/evaluator.py:163`, section 5). Pay-PRD-0522
  (`docs/02-prd.md:302`) partitions events by user so that counters stay
  correct. `POST /external` is not partitioned, and the counter is read without
  a lock: three events pay a milestone of two twice. `RewardsSafety` meets this;
  `MilestoneEarned` states how much it can cost.
- **ISO weeks** (`rules/evaluator.py:370`, section 5). The docstring's ISO weeks
  begin on a Monday, the code's on a Sunday: a Saturday and the next day are two
  weeks.
- **Partial instrument** (`payments/service.py:491`, section 10). "Partial state
  is impossible" in `create_instrument`; the helper's commit leaves an active
  instrument without wallets when the request then dies. `WalletsComplete`
  excepts such an instrument (`partial`).
- **PIN change under a used key** (`ledger/service.py:236`, section 8).
  "Atomically with the charge"; under a key that another flow has posted with,
  the PIN changes and nothing is charged. `PinChangePaid` excepts such a key
  (`Spent`).
- **Step-up without a policy** (`step_up/service.py:102`, section 7). "No-op when
  no policy exists" in the transfer; the gate it calls asks for the PIN, as its
  own docstring and a test say. Here the comment is what is out of date, and
  `PaymentsGoverned` follows the gate.

### Bounds, and why they are enough

- Two handlers: the guards, seeds and claims are pairwise races, and the third
  party that matters, the sweep, is present. In `LedgerLiveness` the payout and
  the opposite transfer share a key, so at most one of them commits. The proofs
  cover any number of sessions.
- Four accounts and up to three legs: each class of account the guard
  distinguishes (capped, guarded, unguarded, without a row) and each order of
  two locks occurs. Openings and amounts are chosen so that each transfer can
  be refused for funds, for held funds and for the ceiling.
- No two credits that are not exempt race for one wallet's headroom in
  `LedgerSafety`: the headroom is contended by a credit and a debit, and by a
  credit and an exempt one. `CeilingKept` covers the rest.
- Each key is spent at most once, so the state space is finite without a bound
  on steps. A request may be attempted and crash any number of times.
- `Batch = 2` of three or four rows: the sweep misses rows as well as meeting
  them.
- `MaxAttempts = 2` per redemption key: a retry beside the first attempt and a
  retry after it. Points, funds and cap are such that a second redemption may
  or may not be covered, the cashback wallet runs dry, and the user's ceiling
  refuses a payout.
- Handlers and redeemers are interchangeable and declared symmetric in
  `LedgerSafety` and `RedemptionSafety`, admins, sessions and proposals in
  `ApprovalsSafety`, sessions in `PaymentsSafety` and `TenantSafety`, recomputes
  and admins in `SegmentsSafety`; the liveness runs use no symmetry.

- `RewardsSafety`: the immediate attempt and the sweep race for the two
  payments, which make a first-time rule race with itself; a tenant takes
  rewards either from payments or from events, so the two workers of external
  events race with each other, and three events let one of them read a row the
  other resets, with a milestone of two;
  `MAX_ATTEMPTS = 2` and `MaxFaults = 1` give an exhausted row and a retried
  one. The streak's reference check covers every ordered sequence of up to five
  events over five periods.
- `ApprovalsSafety`: two proposals and two sessions are a pair of racing
  requests or a pair of racing decisions; three admins are a maker and a
  quorum; `MaxRounds = 1` is one resubmission. `OneQueue` leaves out states in
  which proposals of different kinds are open together, except a batch beside a
  withdrawal from the wallet it pays from (the others share no row); second
  rounds and second batches beside another proposal; filings when both proposals
  are made; two money requests without
  a common account; renamed mirrors without a mirror request; and it lets users
  from elsewhere, with the API key, run beside one creation. The two rows of a
  batch are on one wallet that covers one of them.
- `PaymentsSafety`: two orders reach each cap; two commission-paying orders put
  the commission on the commission wallet and on the main one; three requests are two that
  overlap and a retry, or a request, its retry and a stranger.
- `TenantSafety`: `MaxAttempts = 2` with two sessions separates the threshold
  from the overshoot; `Ttl = 2` lets a session slide. Three edits of the type
  tree retire a child, retire its parent and bring the child back; the three
  types of the tenant are a parent, a child and a new one. One user and two
  creations of an instrument put either first, and both at once. Two roles are
  one that grants and one that denies. `LONG_WINDOW_MAX = 2` lets a third OTP be
  refused by the hour. A payment meets one change of each kind of rule, and of a
  service two; the configured rows have an open band, a typed one and one for any
  type, and the payloads a band that ends where the next begins. Each behaviour is given the requests of
  one scenario (`MCBudgets`), which bounds the run: the components of two scenarios
  share the sessions and little else.

- `SegmentsSafety`: two recomputes are one that waits for the other (one at a
  time where rules or multipliers are about, `OneRecompute`); two edits
  are a delete beside a move, or an edit beside a corrupted document; one user
  is enough because users are evaluated apart, and he may be active or not.

Deadlock checking is on in the runs of the ledger and of redemption: an idle
session may always begin, crash or sweep. The others give their clients a
bounded number of requests and may stop.

### Fairness

`FairSpec` of `LedgerLocks` assumes, and the code justifies:

- strong fairness of each session's own next statement: a statement waiting for
  a lock is queued by PostgreSQL and granted the lock when it comes free, even
  if it is taken and released again and again meanwhile;
- weak fairness of `RaisedRollback`: `get_async_session` rolls back whatever
  exception leaves a handler;
- weak fairness of `DeadlockVictim`: the database's deadlock detector.

`FairSpec` of `Rewards`: weak fairness of each worker's next statement, of
`ClaimPending` (the attempt follows the commit in the same request) and of
`Sweep` (the beat starts it every minute). A drain that would wait for a row
lock skips it, and the two waits left (the unique insert, the budgets) are for
sessions that are fair themselves.

No liveness is claimed of a recharge: one whose provider never answers waits
for an operator.

Nothing forces a client to send a request, a provider to answer or a process to
die, and no fairness is assumed of them.

## 12. Proofs

All theorems hold for every value of the constants that satisfies the named
assumptions, which the instances satisfy: `DataAssumption`, `PendingAssumption`
and `SessionAssumption` of the ledger; `RedemptionAssumption`, `OthersAssumption`
and the `PostingsAssumption` of `Redemption`; `RewardsAssumption`;
`MakerCheckerAssumption`, `MoneyAssumption`, `UserAssumption`,
`ConfigAssumption`, `BatchAssumption` and `ApprovalsAssumption`; `PaymentsAssumption`,
`PartiesAssumption`, `TariffAssumption` and the `PostingsAssumption` of
`Payments`; `StatementsAssumption` and `EarnersAssumption`; `RegistrationAssumption`,
`AccessAssumption`, `CatalogueAssumption`, `ServicesAssumption`,
`SchedulesAssumption` and `FlowsAssumption`; `SegmentsAssumption` and
`CampaignsAssumption`. They type the constants, and say of the requests a client
may send what the request schemas say. Accounts and idempotency keys are
finitely many, as the rows of a table are: without that a sum over them is not
defined. So are the amounts of rewards (`FiniteAmounts`): there is a largest.

**Ledger.** `SnapshotMatchesLedger` alone is not inductive: a session writes a
row now and commits it later. `IInv` says what the session
knows in between: a row it has written holds the committed sums plus its own
delta (`DirtyRows`); a seed it computed is fresh while the row is missing
(`FreshSeeds`); a poster about to move money has checked every guarded leg and
owns its key (`PostersReady`); a settler has claimed its recharge and the
transaction is still PENDING (`SettlersReady`); a key being inserted is unspent
(`KeysMatch`). With `ChecksStayValid` this gives the funds at the commit, and
the commit step re-establishes the sums. `LedgerProofs!Invariance` proves
`Spec => []IInv`; from it `SnapshotsCorrect`, `FundsSuffice`, `CeilingKept`,
`ChecksLast` and `IntentCorrect`.

`HistoryKept` proves `AppendOnly`, and `Implements` proves
`Spec => AtomicSpec`: the variables are shared, a commit is `AbsPost` or
`AbsSettle` (the guard's condition is the abstract one because the check still
holds), every other step leaves `txn` and `book` alone.

`BooksCorrect` proves double entry: each account holds the sum of its committed
entries (`BookIsLedgerSum`), and the accounts together hold what they opened
with (`SumToZero`). A commit adds one key's entries, or exchanges one key's held
entries for final ones, so one term of each sum changes (`CommitEntry`); what it
adds over all accounts is the sum of a balanced request's legs (`DeltaTotals`).
`Sums` carries this: a sum over a finite set is the term of one member and the
sum of the rest, whichever member is taken (`SumSplits`), by induction on the
set. The library's induction theorems take an operator and so cannot be used;
the induction rests on the least element of a set of naturals (`FirstNatural`)
instead, with the family of sets for which a fact holds in the operator's place.

`DeadlocksExplained` proves that a circle of waiting sessions holds one that
locks out of order. Were there none, a session that waits to write a snapshot row
would wait for one that waits for a later row (`ApplyingAscends`), so no session
is writing rows (`NoneApplying`), hence none is past its guard (`NoneMoving`), and
each waits in its guard for an account whose holder waits for a later one
(`GuardAscends`): a finite set of accounts has no endless ascent
(`NoEndlessAscent`). The invariant it needs, `LocksOrdered`: in its guard a
session holds accounts below those it still has to lock (`GuardOrdered`), it
inserts its key and entries and claims a recharge past the guard
(`InsertsLate`), and it writes the snapshot rows after them, in id order
(`RowsOrdered`). It says of each kind of lock at which statements a session may
hold it, none of them when it is idle: `TypeCorrect` (`WellFormed`).

**Redemption.** `RInv`: a request between its check and
its burn holds the points and they cover it (`PointsHeld`), hence two requests
are never both in between, and `PointsFloor`; a posted burn is paid, given
back, or owned by a request that will do either (`BurnOwned`), hence
`BurnIsSettled`; a key sent once has one request at most, which finds nothing
it has not done itself (`SentOnce`, `Fresh`), and its legs are the ones its key
stands for (`LegsMatch`, `LegsPosted`), hence `FirstAttemptExact`. Theorems:
`RedemptionTypes`, `RedemptionInv`, `PointsNeverOverdrawn`, `BurnsSettle`,
`FirstAttemptIsExact`.

**Pricing.** (`PaymentsProofs`.) For all amounts and flags, `ChargesBalance`: the legs
`assemble_charges` adds sum to zero whenever a tax fits into what it is carved
from and an inclusive fee into the principal; `OverchargeIsUnbalanced`: when the
fee does not fit, the legs do not balance and the ledger's first check refuses
the posting. The lemmas follow the code: what one split leaves (`TaxSplit`), the
fee and the commission each on their own (`FeeIsCarved`, `CommissionBalances`),
then the legs together.

**Statements.** (`PaymentsProofs`.) `StatementsTrue` is `ShownTruthfully`, in three
parts on top of the invariant of the payments.

- The caps (`CapsInv`): on a wallet whose requests never overlapped, a cap holds
  not only of what is committed but of the request past its check and of the
  recharge still reserved (`Live`). That is inductive, because the check that
  lets the next one through finds nothing else under way (`PassingKeeps`), so
  the sums it reads are all there is.
- The balances (`BooksInv`): a balance is its opening and the movements of the
  completed transactions, a hold minus those of the pending ones (`BookedChanges`:
  a step changes one term of the sum). The rows are those movements, indexed by
  row rather than by key (`RowsAddUp`, with `SumAlong` of `Sums`); a wallet no leg
  touches has none and does not move (`LeglessStays`).
- The charges: a wallet's row of a transaction is one row (`RowsByAccount`), the
  fee and the tax stand on the payer's (`BearerPays`), the commission on the
  wallet it was credited to or else on the cash agent's (`CommissionStands`); a
  field that one row carries is told once (`ToldOnce`).

The last part corrected the property, which had said that the commission shown is
the one quoted: with a tax carved out of the commission, the commission wallet's
row shows what is left of it.

**Rewards.** `Inv` is `TypeOK` with what each label of a worker says of the
tables (`Knows`), that an event enters the log once (`LogHeld`), and that what
was paid is a reward of its rule for a committed event (`Happened`). From it
`TypeCorrect`, and `Implements`: a posting is `PayOnce`, a history row `LogOnce`,
the commit of an event `Open`, its refusal `Close`, everything else a stutter. `RecordedIsPaid` adds
`Recorded`: without a fault, a payment without a history row has a worker about
to write it. `FirstPaidOnce` (a part of `FiringsExact`) needs the most: a
one-time rule without a completed row has not been paid and no settled event was
of it; a worker's claim to pay it rests on a row, committed or its own
uncommitted one, whose unique key it holds; and two workers never both claim
(`OnceTables`, `OnceLocals`, `Sole`, on top of `Disciplined`, the order in which
a worker evaluates and issues).

The other parts of `FiringsExact` depend on what a step does to rows, keys and
locals only, and `Shapes` sorts the actions by that: a worker lets go, begins an
event, decides on a rule, goes on, commits, or loses what it staged.

- `PaidRewardsShow` (`DirectInv`): whoever is paid for an event was paid with
  the rows of all rules the event made due (`ShownTables`), because all are
  decided before the first posting commits; and a row a session has yet to
  commit, written from however stale a row, says that its rule fired
  (`ShownLocals`), so no commit takes that back.
- `MilestonesEarned` (`EarningInv`): what was paid, what logged events have yet
  to be paid (`Owes`), and what is counted, is at most what was logged and what
  stale writes have counted again (`EarnedTables`). What a worker has staged
  follows from the row it read, `base`, by one event (`MilestoneCounts`), and its
  commit logs that event with it (`EarnedLocals`). If the row is still `base`,
  the commit adds one event on both sides; if not, it replaces a count below the
  threshold by another, and `stale` grows.
- `FiringsSound` puts them together.

`OverrunBounded` (`BudgetInv`): a cap covers what the history says was spent and
what workers have weighed but not yet recorded, up to one largest reward per
other session (`Covered`), and the pool bounds the sessions (`Connected`). A
worker weighs its amount against all that is recorded, so with it the recorded
part still fits, and what the others may add is theirs alone (`WeighedCovers`);
recording moves an amount from one side to the other (`RecordCovers`).

**Approvals.** `ApprovedIsApplied` alone is not inductive: the step that applies
a request gives only its last approval. `IInv` keeps the types of rows and
locals (`Typed`); a session that holds a row found the request ready to be
applied, it still is, and no other session holds it (`HeldReady`); and of every
request the approvals of the current round are of its present wording, by
others than the maker, fewer than required while it waits and enough once it is
applied (`AllConsidered`). The lemmas are about the review thread: what an
approval, a resubmission and a revision make of the current round. Each action
is shown to be one of the moves a request may make (`RowStep`); that alone is
the action property `RowsGoAsQueued`, for the three queues that lock their
rows.

What an applied request did takes an invariant per queue (`FullInv`). A step of
one queue moves requests and sessions of its own kind only (`StepOf`,
`OthersSee`), and posts under its own keys only (`MoneyPostsOnly`,
`BatchPostsOnly`), so the other three need to hold of the ledger alone; each
queue keeps its own (`MoneyKept`, `UserKept`, `BatchKept`, `ScopesStep`), and
so does a session that dies (`CutKept`).

- `MoneyInv`: a session between two commits of a request knows its payload, the
  amount it read, and that the request is in `bare` (`MoneyWork`). Without the
  last, a first fund would be APPLIED without money or excuse.
- `UserInv`: a creation has its user exactly if it is applied (`RequestFits`), a
  key on record has its user (`KeysFit`), and a session about to record one has
  created him (`OnUser`).
- `BatchInv`: a batch nobody has disturbed has one session at work at most, and
  while it pays, every accepted row is still to pay and unpaid, or staged with
  what became of it (`Calm`, `MidWay`): the marks of the last row are not yet
  committed when its money is, so the table alone says too little. Disturbed or
  not, a staged row that says posted is paid (`OnRows`), hence `PostedRowIsPaid`.
- `ScopeInv`: a session about to replace a schedule has read all of it, as long
  as nobody else is at work on the scope (`HasRead`, `Filling`).

Theorems: `QueuesAgree` (`FullInv`), `AppliedTakesEffect`, `BatchesTellTheTruth`,
`SchedulesReplacedWhole`, `TypeCorrect`. They need no `OneQueue`: any number of
requests of all four kinds may be at work together.

**Payments.** `IInv` relates, key by key, the transaction, the recharge row, the
reward intent and what the provider did: they have one status (`Mirrors`), a
posting without a row has a session that will write it or lost it
(`Reachable`), the provider's verdicts are true of it (`Honest`), and a row the
request or the provider settled agrees with the airtime handed out (`Earned`).
It gives `TypeCorrect` (no overdraft among it) and `RechargesSettle`.
`ThroughLedger` proves the refinement: every step posts, settles or leaves the
ledger's variables alone.

**Tenant.** Each theorem has an inductive invariant of its own, over the
variables of one part, and a lemma by which the actions of the other parts leave
these alone: the sessions are shared, so each invariant names the labels it
speaks of.

- `ChangesPaid` (`Paid`): between its flush and its end a change is staged, under
  a key that has changed nothing yet (`Staging`), and it is the only one of the
  user (`Solitary`), because the flush holds his row; so the commit that takes
  the fee makes the one change of its key, and a rollback in between leaves
  neither.
- `SchedulesHold` (`BandsInv`): the rows a session has yet to write are bands of
  one schedule (`Drawn`); alone on its scope, it finds there what it has read
  (`Fresh`), and sessions that are not alone have been seen (`Apartness`).
- `SuspendedIsOut` (`LockInv`): a live token is in the index, which outlives it
  but for a read about to extend it (`Listed`); the lock carries all of them
  from its reading to its last deletion (`Served`).
- `HierarchyHolds` (`TreeInv`, `SupervisorsInv`): what an edit nobody crosses
  has checked still holds when it writes (`Current`, `ChildrenAllow`, `Fit`;
  `Abreast` for users).
- `WalletsHold` (`WalletsInv`): a request about a user has, or is about to
  insert, his wallets in every instrument it has not met another request on;
  the same of an instrument and its users, whether its row is staged, committed
  by a helper or lost (`Provisions`, `Backfills`, `Met`).
- `RegistersOnce` (`QuotaInv`, `OtpInv`, `FirstInv`): until two requests have
  been seen at the quota, at a password or at the first PIN, one has the step
  to itself; a copy of the referral has every stamp paid for (`Claim`).
- `TriesAreBounded` (`Guesses`): without a lock, the wrong PINs are those
  counted and those of requests about to count, below the threshold but for
  requests about to lock; with it, only requests past the gate compare.
- `FlowsAreGoverned` (`Governed`): the gates to come are the last ones of the
  flow (`Queue`), and every gate passed gave an answer that still holds while no
  rule has changed (`Found`). That each flow asks all it must, and in an order in
  which an answer does not change under a later gate, is `GatesOrdered`, proved
  flow by flow.
- `TenantTyped` needs all of them at once, and what a request brings with it to
  write: a token or a status (`AccountInv`), permissions (`RightsInv`), accounts
  (`HoldingsInv`).

**Segments.** `IInv` is `TypeOK`, what each label of a recompute or an admin's
request says of the rows (`Jobs`), that a segment seen in a group is a dynamic
segment of it (`LensesTrue`), and `SegmentsExact`. The recompute reads the users
with a value of a metric, and only for documents that match a user without any
the rest; `WinnersChosen` proves for every document, priority and value that
this shortcut finds the users the criteria mean, and `ChosenApart` that two
segments of a group never win the same user. `SegmentsTyped`,
`SegmentsTellTheTruth`.

Where a proof failed for a reason, the model was wrong or said more than the
code: two `CASE`s had overlapping guards, two fallback bands were accepted, an
unlock between the lock and the deletion broke `TriesBounded`. That of
`ScheduleReplacedWhole` failed at the second band of a creation. In
`ApprovalsSafety` the row that is there from the start collided with that band,
so that TLC never saw one added; it collides with the third now, and without
`Filling` TLC finds a schedule left with a band of the creation beside those of
a change approved before it. `stacked` names the case.

Two properties of the rewards once said more than the code does.
`MilestoneEarned` did not ask for a rule that starts over, nor account for stale
writes, and with a second worker of the events its induction breaks; without
either TLC finds it violated. `PaidIsShown` spoke of composite rules, too. These
read what was paid in between, so two drains of one event can decide
differently, and the one that loses the race to record loses the row that shows
its decision; no run is large enough for that.

## 13. Only model-checked

- `StreakCountsPeriods`: what the evaluator makes of a sequence of events, by
  induction over the sequence.
- `PolicyBinds`: it relates what the gate, the permission and the console make of
  the same rows; a proof would speak of the definitions, not of the steps.
- `EveryRequestEnds`, `EveryIntentEnds`: liveness under fairness.
- What is shown of rules that count, and of composite rules: no property says it.
- The violations: they are counterexamples.

## 14. Not modelled, and why

- **Catalog and admin names.** Read-only summaries, and display names nothing
  decides on.
- **Analytics and audit.** Reports, and a log no flow reads.
- **Admin console, mobile apps and scripts.** Clients of the API, or run beside
  the application.
- **Cryptography, parsing, formatting.** No behaviour of the kind these models
  are for: signatures of external requests, the secret of an API key, the CSV of
  a batch, the field mapping of an event source.
- Of the modelled components: the throttle of API keys and their binding to a
  merchant; the accounts of the system but for floats, bank mirrors and what
  creating one does to its request; names
  and profiles; which tax row applies to a payment (`Pricing` is given its
  rate); which users a rule is for (open in `Rewards`); services of more than one
  base flow; the rolling of the limits' windows; budgets' windows and their CRUD;
  a PIN change without a fee; all listings.

A key one of whose redemption attempts died between the legs is excused by
`BurnIsSettled`: nothing but a client's retry resumes it, and the retry is
refused when the remaining points no longer pass the balance check that precedes
the idempotency read.

## 15. Plan

The rules of `Rewards` bound to the members of `Segments`; the tax row of a
payment in `Flows`.
