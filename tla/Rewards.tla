------------------------------- MODULE Rewards -------------------------------
(***************************************************************************)
(* The rewards pipeline of one user: intents in reward_outbox drained by   *)
(* the immediate attempt of the payment that wrote them and by the         *)
(* reconciliation sweep (app/modules/rewards/outbox.py), external events   *)
(* ingested once (app/modules/events/service.py), rules evaluated against  *)
(* a progress row (RuleEvaluator), and firings issued under budgets        *)
(* (app/modules/rewards/service.py, app/modules/budgets/service.py).       *)
(*                                                                         *)
(* A session's uncommitted writes live in its job and are applied by its   *)
(* next commit, whichever statement that belongs to: the posting of the    *)
(* first firing commits everything staged so far and frees every lock.     *)
(* post_transaction is one step (AtomicLedger).                            *)
(***************************************************************************)
EXTENDS RuleEvaluator, FiniteSetsExt, Functions

CONSTANTS
    Handlers,    \* money requests, which end with the immediate attempt
    Sweepers,    \* runs of rewards.recon_sweep
    Consumers,   \* loops of scripts/run_consumer.py, and requests to POST /external
    Internal,    \* transactions that write an intent
    External,    \* events of an external source
    Event,       \* per event: [type, amount, at]
    Rules, Rule, \* the active rules, and the record of each
    Rank,        \* the order in which the query for them returns them
    Budgets,     \* active budgets: [scope, pays, cap]
    Boosts,      \* bonus multipliers that may be resolved for each rule
    Funds,       \* opening balance of the cashback wallet
    TopUpTo,     \* treasury refills it to this amount
    Batch,       \* rows claimed by one sweep
    Pool,        \* database connections
    MAX_ATTEMPTS,
    MaxFaults    \* bound: faults and crashes

Workers == Handlers \cup Sweepers \cup Consumers
Events == Internal \cup External
Firings == Rules \X Events

\* Bonus multipliers, which operators start and stop, multiply points only.
RewardAmounts(r) ==
    {Rule[r].reward * m : m \in IF Rule[r].pays = "points" THEN Boosts[r] ELSE {1}}

Amounts == UNION {RewardAmounts(r) : r \in Rules}
Largest == Max(Amounts \cup {0})

RewardOutbox == [status: {"PENDING", "PROCESSED", "FAILED"}, attempts: Nat]
EventIngestionLog == {"PROCESSED", "REJECTED"}

RewardBudget == [scope: Rules \cup {None}, pays: {"points", "cashback"}, cap: Nat]

ASSUME RewardsAssumption ==
    /\ None \notin Workers \cup Events \cup Rules \cup Int \cup RewardOutbox
                       \cup UserRuleProgress \cup EventIngestionLog
    /\ Handlers \cap Sweepers = {} /\ Consumers \cap (Handlers \cup Sweepers) = {}
    /\ Internal \cap External = {}
    /\ Event \in [Events -> [type: STRING, amount: Nat, at: Nat]]
    /\ Rank \in [Rules -> Nat]
    /\ Rule \in [Rules -> RuleRow] /\ \A r \in Rules : Creatable(Rule[r])
    /\ Budgets \subseteq RewardBudget
    /\ Boosts \in [Rules -> SUBSET (Nat \ {0})]
    /\ Funds \in Nat /\ TopUpTo \in Nat /\ MaxFaults \in Nat
    /\ {Batch, Pool, MAX_ATTEMPTS} \subseteq Nat \ {0}

\* There are finitely many rules, and bonuses to each.
ASSUME FiniteAmounts == IsFiniteSet(Amounts)

VARIABLES
    \* committed rows
    outbox,        \* reward_outbox, per transaction
    ingested,      \* event_ingestion_log: status per external event
    progress,      \* user_rule_progress, per rule
    posted,        \* per firing: amount of the transaction under its key
    rewardEvents,  \* reward_events: reward_value per firing
    funds,         \* balance of cashback_provider_wallet
    businessType,  \* of the tenant: rewards come from payments or from events
    sourceActive,  \* the source is registered and active
    \* locks: the worker holding each
    rowLock,       \* outbox rows
    logKey,        \* uncommitted inserts into event_ingestion_log
    progressKey,   \* uncommitted inserts into user_rule_progress
    budgetLock,    \* budget rows FOR UPDATE
    \* the workers' program
    pc, job,
    \* history
    stale,         \* per rule: commits that wrote over a row changed since it was read
    faults

rows == <<outbox, ingested, progress, stale, posted, rewardEvents, funds>>
config == <<businessType, sourceActive>>
locks == <<rowLock, logKey, progressKey, budgetLock>>
vars == <<rows, config, locks, pc, job, faults>>

NoRows == [r \in Rules |-> None]

IdleJob ==
    [claimed |-> {}, event |-> None, left |-> {}, staged |-> NoRows, base |-> NoRows,
     firings |-> {}, rule |-> None, amount |-> None]

Init ==
    /\ outbox = [e \in Internal |-> None]
    /\ ingested = [e \in External |-> None]
    /\ progress = NoRows
    /\ posted = [f \in Firings |-> None]
    /\ rewardEvents = [f \in Firings |-> None]
    /\ funds = Funds
    /\ stale = [r \in Rules |-> 0]
    /\ businessType \in {"both", "rewards"}
    /\ sourceActive = FALSE
    /\ rowLock = [e \in Internal |-> None]
    /\ logKey = [e \in External |-> None]
    /\ progressKey = [r \in Rules |-> None]
    /\ budgetLock = [b \in Budgets |-> None]
    /\ pc = [w \in Workers |-> "idle"]
    /\ job = [w \in Workers |-> IdleJob]
    /\ faults = 0

-----------------------------------------------------------------------------
(* Transactions                                                            *)

Freed(lock, w) == [k \in DOMAIN lock |-> IF lock[k] = w THEN None ELSE lock[k]]

Unlock(w) ==
    /\ rowLock' = Freed(rowLock, w)
    /\ logKey' = Freed(logKey, w)
    /\ progressKey' = Freed(progressKey, w)
    /\ budgetLock' = Freed(budgetLock, w)

\* What a commit of w makes durable besides the statement that commits.
CommitStaged(w) ==
    /\ progress' = [r \in Rules |-> IF job[w].staged[r] # None
                                    THEN job[w].staged[r] ELSE progress[r]]
    /\ stale' = [r \in Rules |-> IF job[w].staged[r] # None /\ job[w].base[r] # progress[r]
                                 THEN stale[r] + 1 ELSE stale[r]]
    /\ ingested' = [x \in External |-> IF logKey[x] = w THEN "PROCESSED"
                                       ELSE ingested[x]]
    /\ Unlock(w)

Goto(w, label) == pc' = [pc EXCEPT ![w] = label]

\* The session is closed: what it had not committed is lost.
End(w) ==
    /\ Goto(w, "idle")
    /\ job' = [job EXCEPT ![w] = IdleJob]
    /\ Unlock(w)

\* An exception reaches the drain loop, or the consumer: rollback.
Fail(w) ==
    /\ Goto(w, IF w \in Consumers THEN "idle" ELSE "failed")
    /\ job' = [job EXCEPT ![w] = IF w \in Consumers THEN IdleJob
                                 ELSE [IdleJob EXCEPT !.claimed = job[w].claimed,
                                                      !.event = job[w].event]]
    /\ Unlock(w)
    /\ UNCHANGED rows

-----------------------------------------------------------------------------
(* Money requests and the outbox                                           *)

\* A payment commits with its intent; the handler goes on to its reward.
Pay(h, e) ==
    /\ businessType = "both"
    /\ pc[h] = "idle"
    /\ outbox[e] = None
    /\ outbox' = [outbox EXCEPT ![e] = [status |-> "PENDING", attempts |-> 0]]
    /\ Goto(h, "claim")
    /\ UNCHANGED <<ingested, progress, stale, posted, rewardEvents, funds, config, locks,
                   job, faults>>

\* A session is opened on a free connection.
CanConnect == Cardinality({w \in Workers : pc[w] \notin {"idle", "claim"}}) < Pool

\* FOR UPDATE SKIP LOCKED.
Claim(w, claimed) ==
    /\ CanConnect
    /\ rowLock' = [e \in Internal |-> IF e \in claimed THEN w ELSE rowLock[e]]
    /\ job' = [job EXCEPT ![w] = [IdleJob EXCEPT !.claimed = claimed]]
    /\ Goto(w, "drain")
    /\ UNCHANGED <<rows, config, logKey, progressKey, budgetLock, faults>>

Unlocked(status) ==
    {e \in Internal : outbox[e] # None /\ outbox[e].status \in status /\ rowLock[e] = None}

ClaimPending(h) ==
    /\ pc[h] = "claim"
    /\ Claim(h, Unlocked({"PENDING"}))

Retryable == {e \in Unlocked({"PENDING", "FAILED"}) : outbox[e].attempts < MAX_ATTEMPTS}

OldestOf(S) == {e \in S : \A f \in S : Event[e].at <= Event[f].at}

Sweep(s) ==
    /\ pc[s] = "idle"
    /\ Retryable # {}
    /\ \E S \in kSubset(IF Cardinality(Retryable) < Batch THEN Cardinality(Retryable)
                        ELSE Batch, Retryable) :
           /\ \A e \in S, f \in Retryable \ S : Event[e].at <= Event[f].at
           /\ Claim(s, S)

Candidates(e) == {r \in Rules : IsCandidate(Rule[r], Event[e])}

DrainRow(w, e) ==
    /\ pc[w] = "drain"
    /\ e \in IF w \in Sweepers THEN OldestOf(job[w].claimed) ELSE job[w].claimed
    /\ job' = [job EXCEPT ![w] =
           [job[w] EXCEPT !.claimed = job[w].claimed \ {e}, !.event = e, !.left = Candidates(e)]]
    /\ Goto(w, IF Candidates(e) = {} THEN "issue" ELSE "evaluate")
    /\ UNCHANGED <<rows, config, locks, faults>>

Drained(w) ==
    /\ pc[w] = "drain"
    /\ job[w].claimed = {}
    /\ End(w)
    /\ UNCHANGED <<rows, config, faults>>

\* Mutant: a failure does not count as an attempt.
FailedUncounted(row) == [row EXCEPT !.status = "FAILED"]

\* Whatever its status became meanwhile.
Failed(row) == [status |-> "FAILED", attempts |-> row.attempts + 1]

\* The rollback has expired the other claimed rows; whether the loop can go on
\* to the next or the session is given up is left open.
RecordFailure(w) ==
    /\ pc[w] = "failed"
    /\ rowLock[job[w].event] = None
    /\ outbox' = [outbox EXCEPT ![job[w].event] = Failed(@)]
    /\ \/ job' = [job EXCEPT ![w].event = None] /\ Goto(w, "drain")
       \/ job' = [job EXCEPT ![w] = IdleJob] /\ Goto(w, "idle")
    /\ UNCHANGED <<ingested, progress, stale, posted, rewardEvents, funds, config, locks, faults>>

-----------------------------------------------------------------------------
(* External events, of a tenant in rewards mode: in any other mode they are *)
(* rejected, logged and of no further effect.                              *)

\* Mutant: an event already in the log is evaluated again.
DeliverAgain(c, x) ==
    /\ pc[c] = "idle"
    /\ CanConnect
    /\ businessType = "rewards" /\ sourceActive
    /\ logKey[x] = None
    /\ logKey' = [logKey EXCEPT ![x] = c]
    /\ job' = [job EXCEPT ![c] = [IdleJob EXCEPT !.event = x, !.left = Candidates(x)]]
    /\ Goto(c, "evaluate")
    /\ UNCHANGED <<rows, config, rowLock, progressKey, budgetLock, faults>>

\* The ingestion row is inserted, not committed.  A second delivery waits for
\* the first to commit or roll back, and changes nothing if it committed.
Deliver(c, x) ==
    /\ pc[c] = "idle"
    /\ CanConnect
    /\ businessType = "rewards" /\ sourceActive
    /\ ingested[x] = None
    /\ logKey[x] = None
    /\ logKey' = [logKey EXCEPT ![x] = c]
    /\ job' = [job EXCEPT ![c] = [IdleJob EXCEPT !.event = x, !.left = Candidates(x)]]
    /\ Goto(c, IF Candidates(x) = {} THEN "issue" ELSE "evaluate")
    /\ UNCHANGED <<rows, config, rowLock, progressKey, budgetLock, faults>>

\* The rejection is logged under the key a later delivery needs.
Reject(c, x) ==
    /\ pc[c] = "idle"
    /\ CanConnect
    /\ businessType = "rewards" /\ ~sourceActive
    /\ ingested[x] = None
    /\ logKey[x] = None
    /\ ingested' = [ingested EXCEPT ![x] = "REJECTED"]
    /\ UNCHANGED <<outbox, progress, stale, posted, rewardEvents, funds, config, locks,
                   pc, job, faults>>

-----------------------------------------------------------------------------
(* Evaluation                                                              *)

\* The user's COMPLETED transactions.
Transactions == {Event[e] : e \in {i \in Internal : outbox[i] # None}}

FirstOf(S) == CHOOSE r \in S : \A q \in S : Rank[r] <= Rank[q]

\* w evaluates r from the row it read, which its session keeps; a row that
\* changes is staged.
Decide(w, r, row) ==
    LET made == Evaluate(Rule[r], row, Event[job[w].event], Transactions)
        left == job[w].left \ {r}
        staged == [job[w].staged EXCEPT ![r] = IF made.row = progress[r] THEN None
                                               ELSE made.row]
        firings == IF made.fires THEN job[w].firings \cup {r} ELSE job[w].firings
    IN /\ job' = [job EXCEPT ![w] =
               [job[w] EXCEPT !.left = left, !.staged = staged, !.base[r] = progress[r],
                              !.firings = firings]]
       /\ Goto(w, IF left = {} THEN "issue" ELSE "evaluate")

\* Mutant: no unique constraint stops a second first row.
EvaluateRuleUnguarded(w, r) ==
    /\ pc[w] = "evaluate"
    /\ job[w].left # {} /\ r = FirstOf(job[w].left)
    /\ Decide(w, r, IF progress[r] = None THEN FreshProgress ELSE progress[r])
    /\ UNCHANGED <<rows, config, locks, faults>>

\* The row is read without a lock, or inserted.
EvaluateRule(w, r) ==
    /\ pc[w] = "evaluate"
    /\ job[w].left # {} /\ r = FirstOf(job[w].left)
    /\ \/ /\ progress[r] # None
          /\ Decide(w, r, progress[r])
          /\ UNCHANGED locks
       \/ /\ progress[r] = None
          /\ progressKey[r] = None
          /\ Decide(w, r, FreshProgress)
          /\ progressKey' = [progressKey EXCEPT ![r] = w]
          /\ UNCHANGED <<rowLock, logKey, budgetLock>>
       \/ /\ progress[r] = None
          /\ progressKey[r] # None
          /\ job' = [job EXCEPT ![w].rule = r]
          /\ Goto(w, "insert")
          /\ UNCHANGED locks
    /\ UNCHANGED <<rows, config, faults>>

\* The session that inserted the row first is over: if it committed, the
\* insert that waited fails, and its rollback expires the rule being
\* evaluated, whose next attribute cannot be read.
InsertWakes(w) ==
    LET r == job[w].rule
    IN /\ pc[w] = "insert"
       /\ progressKey[r] = None
       /\ \/ /\ progress[r] = None
             /\ Decide(w, r, FreshProgress)
             /\ progressKey' = [progressKey EXCEPT ![r] = w]
             /\ UNCHANGED <<rows, rowLock, logKey, budgetLock>>
          \/ /\ progress[r] # None
             /\ Fail(w)
       /\ UNCHANGED <<config, faults>>

-----------------------------------------------------------------------------
(* Issuance                                                                *)

FiringOf(w) == <<job[w].rule, job[w].event>>

Applicable(r) == {b \in Budgets : b.pays = Rule[r].pays /\ b.scope \in {r, None}}

\* What reward_events say was spent of a budget; no window expires.
Consumed(b) ==
    SumFunctionOnSet(rewardEvents,
        {f \in Firings : /\ rewardEvents[f] # None
                         /\ Rule[f[1]].pays = b.pays
                         /\ b.scope \in {f[1], None}})

\* Mutant: the firing itself is not weighed.
FitsBeforehand(r, n) == \A b \in Applicable(r) : Consumed(b) <= b.cap

BudgetsAllow(r, n) == \A b \in Applicable(r) : Consumed(b) + n <= b.cap

\* The fast path of a firing already recorded.
SkipIssued(w, r) ==
    /\ pc[w] = "issue"
    /\ job[w].firings # {} /\ r = FirstOf(job[w].firings)
    /\ rewardEvents[<<r, job[w].event>>] # None
    /\ job' = [job EXCEPT ![w].firings = @ \ {r}]
    /\ UNCHANGED <<rows, config, locks, pc, faults>>

\* The matching budget rows are locked and the amount n weighed against each.
CheckBudgets(w, r, n) ==
    /\ pc[w] = "issue"
    /\ job[w].firings # {} /\ r = FirstOf(job[w].firings)
    /\ n \in RewardAmounts(r)
    /\ rewardEvents[<<r, job[w].event>>] = None
    /\ \A b \in Applicable(r) : budgetLock[b] \in {None, w}
    /\ \/ /\ BudgetsAllow(r, n)
          /\ budgetLock' = [b \in Budgets |-> IF b \in Applicable(r) THEN w
                                             ELSE budgetLock[b]]
          /\ job' = [job EXCEPT ![w] = [job[w] EXCEPT !.rule = r, !.amount = n]]
          /\ Goto(w, "post")
          /\ UNCHANGED <<rows, rowLock, logKey, progressKey>>
       \/ /\ ~BudgetsAllow(r, n)
          /\ Fail(w)
    /\ UNCHANGED <<config, faults>>

\* Mutant: cashback is paid from a wallet that has run dry.
PostUnfunded(w) ==
    /\ pc[w] = "post"
    /\ posted[FiringOf(w)] = None
    /\ posted' = [posted EXCEPT ![FiringOf(w)] = job[w].amount]
    /\ funds' = IF Rule[job[w].rule].pays = "cashback" THEN funds - job[w].amount ELSE funds
    /\ CommitStaged(w)
    /\ job' = [job EXCEPT ![w].staged = NoRows]
    /\ Goto(w, "record")
    /\ UNCHANGED <<outbox, rewardEvents, config, faults>>

\* post_transaction under the firing's key.  A spent key returns without a
\* commit, so the locks stay; a posting commits what the session has staged.
Post(w) ==
    LET f == FiringOf(w)
        cash == IF Rule[job[w].rule].pays = "cashback" THEN job[w].amount ELSE 0
    IN /\ pc[w] = "post"
       /\ \/ /\ posted[f] # None
             /\ Goto(w, "record")
             /\ UNCHANGED <<rows, locks, job>>
          \/ /\ posted[f] = None
             /\ cash <= funds
             /\ posted' = [posted EXCEPT ![f] = job[w].amount]
             /\ funds' = funds - cash
             /\ CommitStaged(w)
             /\ job' = [job EXCEPT ![w].staged = NoRows]
             /\ Goto(w, "record")
             /\ UNCHANGED <<outbox, rewardEvents>>
          \/ /\ posted[f] = None
             /\ cash > funds
             /\ Fail(w)
       /\ UNCHANGED <<config, faults>>

\* The locals of w once it is through with a firing.
Through(w) == [job[w] EXCEPT !.staged = NoRows, !.firings = job[w].firings \ {job[w].rule}]

\* The history row is inserted and committed.  When another session recorded
\* the firing meanwhile, the rollback loses what was staged; the code then
\* means to go on with the winner's row, but has expired the rule it needs.
Record(w) ==
    LET f == FiringOf(w)
    IN /\ pc[w] = "record"
       /\ \/ /\ rewardEvents[f] = None
             /\ rewardEvents' = [rewardEvents EXCEPT ![f] = job[w].amount]
             /\ CommitStaged(w)
             /\ job' = [job EXCEPT ![w] = Through(w)]
             /\ Goto(w, "issue")
             /\ UNCHANGED <<outbox, posted, funds>>
          \/ /\ rewardEvents[f] # None
             /\ \/ Fail(w)
                \/ /\ job' = [job EXCEPT ![w] = Through(w)]
                   /\ Goto(w, "issue")
                   /\ Unlock(w)
                   /\ UNCHANGED rows
       /\ UNCHANGED <<config, faults>>

\* The caller's commit, with the outbox row PROCESSED.
Finish(w) ==
    /\ pc[w] = "issue"
    /\ job[w].firings = {}
    /\ CommitStaged(w)
    /\ \/ /\ w \in Consumers
          /\ Goto(w, "idle")
          /\ job' = [job EXCEPT ![w] = IdleJob]
          /\ UNCHANGED outbox
       \/ /\ w \notin Consumers
          /\ rowLock[job[w].event] \in {None, w}
          /\ outbox' = [outbox EXCEPT ![job[w].event].status = "PROCESSED"]
          /\ Goto(w, "drain")
          /\ job' = [job EXCEPT ![w] = [IdleJob EXCEPT !.claimed = job[w].claimed]]
    /\ UNCHANGED <<posted, rewardEvents, funds, config, faults>>

-----------------------------------------------------------------------------
(* Operators, faults and crashes                                           *)

Reconfigure ==
    /\ \/ businessType = "rewards" /\ sourceActive' = TRUE /\ UNCHANGED <<businessType, funds>>
       \/ funds < TopUpTo /\ funds' = TopUpTo /\ UNCHANGED config
    /\ UNCHANGED <<outbox, ingested, progress, stale, posted, rewardEvents, locks, pc, job,
                   faults>>

\* A statement of the drain raises: a lost connection, a timeout.
Fault(w) ==
    /\ pc[w] \in {"evaluate", "insert", "issue", "post", "record"}
    /\ faults < MaxFaults
    /\ faults' = faults + 1
    /\ Fail(w)
    /\ UNCHANGED config

\* The process dies, or the recovery after a failure fails as well.
Crash(w) ==
    /\ pc[w] # "idle"
    /\ faults < MaxFaults
    /\ faults' = faults + 1
    /\ End(w)
    /\ UNCHANGED <<rows, config>>

Step(w) ==
    \/ \E e \in Internal : DrainRow(w, e)
    \/ \E r \in Rules : EvaluateRule(w, r) \/ SkipIssued(w, r)
    \/ \E r \in Rules, n \in Amounts : CheckBudgets(w, r, n)
    \/ Drained(w) \/ RecordFailure(w) \/ InsertWakes(w)
    \/ Post(w) \/ Record(w) \/ Finish(w)

Next ==
    \/ \E h \in Handlers : ClaimPending(h) \/ \E e \in Internal : Pay(h, e)
    \/ \E s \in Sweepers : Sweep(s)
    \/ \E c \in Consumers, x \in External : Deliver(c, x) \/ Reject(c, x)
    \/ \E w \in Workers : Step(w) \/ Fault(w) \/ Crash(w)
    \/ Reconfigure

Spec == Init /\ [][Next]_vars

\* The database serves a session that is not blocked, and celery beat starts a
\* sweep every minute.
FairSpec ==
    /\ Spec
    /\ \A w \in Workers : WF_vars(Step(w))
    /\ \A h \in Handlers : WF_vars(ClaimPending(h))
    /\ \A s \in Sweepers : WF_vars(Sweep(s))

-----------------------------------------------------------------------------
(* Properties                                                              *)

TypeOK ==
    /\ outbox \in [Internal -> {None} \cup RewardOutbox]
    /\ ingested \in [External -> {None} \cup EventIngestionLog]
    /\ progress \in [Rules -> {None} \cup UserRuleProgress]
    /\ posted \in [Firings -> {None} \cup Amounts]
    /\ rewardEvents \in [Firings -> {None} \cup Amounts]
    /\ businessType \in {"both", "rewards"}
    /\ funds \in Nat /\ sourceActive \in BOOLEAN /\ stale \in [Rules -> Nat]
    /\ rowLock \in [Internal -> {None} \cup Handlers \cup Sweepers]
    /\ logKey \in [External -> {None} \cup Consumers]
    /\ progressKey \in [Rules -> {None} \cup Workers]
    /\ budgetLock \in [Budgets -> {None} \cup Workers]
    /\ pc \in [Workers -> {"idle", "claim", "drain", "evaluate", "insert", "issue",
                           "post", "record", "failed"}]
    /\ job \in [Workers -> [claimed: SUBSET Internal, event: Events \cup {None},
                            left: SUBSET Rules, staged: [Rules -> {None} \cup UserRuleProgress],
                            base: [Rules -> {None} \cup UserRuleProgress],
                            firings: SUBSET Rules, rule: Rules \cup {None},
                            amount: Amounts \cup {None}]]
    /\ faults \in 0..MaxFaults

Paid(r) == {e \in Events : posted[<<r, e>>] # None}

\* A first-time rule without a minimum amount pays a user once, however many
\* first events are evaluated at the same time, retried or redelivered: the
\* row that says it fired is inserted by the transaction that pays.
FirstTimeOnce ==
    \A r \in Rules :
        Rule[r].kind = "first_time" /\ Rule[r].minAmount = None
            => Cardinality(Paid(r)) <= 1

\* A milestone over external events that starts over is paid once per threshold
\* of events ingested, although deliveries are repeated and attempts fail after
\* the counter was committed: log row and counter are committed together.  The
\* counter is read without a lock (evaluator.py:163), so two workers, the
\* consumer and a request to POST /external, can count from one row; each write
\* over a row that changed meanwhile hides at most threshold - 1 events that had
\* been paid for, and nothing else does.  A milestone that does not start over
\* pays on every event past its threshold.
MilestoneEarned ==
    \A r \in Rules :
        /\ Rule[r].kind = "milestone" /\ Rule[r].resets
        /\ {e \in Events : r \in Candidates(e)} \subseteq External
        => Cardinality(Paid(r)) * Rule[r].threshold
               <= Cardinality({x \in External : ingested[x] = "PROCESSED"})
                      + stale[r] * (Rule[r].threshold - 1)

\* A reward that was paid, by a rule that its event alone decides, is never
\* shown as still locked (rewards/read_service.py:89): progress becomes
\* durable with the payment, and no stale row takes it back.
PaidIsShown ==
    \A r \in Rules :
        Rule[r].kind \in {"first_time", "value_based", "campaign"} /\ Paid(r) # {}
            => Standing(Rule[r], progress[r]) # "locked"

\* The budget lock does not last to the history row, so a cap can be overrun,
\* but only by one reward of each other session open at the time.
BudgetOverrun ==
    \A b \in Budgets : Consumed(b) <= b.cap + (Pool - 1) * Largest

\* Without a fault nothing is paid that the history does not show, except for
\* the firing a worker is about to record; and cashback is recorded exactly.
PaidIsRecorded ==
    \A f \in Firings :
        /\ posted[f] # None /\ faults = 0
               => \/ rewardEvents[f] # None
                  \/ \E w \in Workers : pc[w] = "record" /\ FiringOf(w) = f
        /\ Rule[f[1]].pays = "cashback" /\ rewardEvents[f] # None
               => rewardEvents[f] = posted[f]

\* What the rules pay is what was earned (rules/evaluator.py:163,
\* rewards/outbox.py:180): one-shot and counting rules pay under retries,
\* redeliveries and racing drains what they would pay without; and what was
\* paid is recorded and shows.
FiringsExact == FirstTimeOnce /\ MilestoneEarned /\ PaidIsShown /\ PaidIsRecorded

\* What the pipeline promises, whatever interleaves, fails or is redelivered.
Once == INSTANCE RewardOnce WITH
    stage <- [e \in Events |->
                 IF e \in Internal THEN IF outbox[e] = None THEN "unknown" ELSE "open"
                 ELSE IF ingested[e] = "REJECTED" THEN "closed" ELSE "open"],
    paid <- posted,
    logged <- rewardEvents

OnceSpec == Once!OnceSpec

\* An intent ends PROCESSED or out of attempts, and when a late failure flips
\* it back, it ends again.
EveryIntentEnds ==
    \A e \in Internal :
        outbox[e] # None ~> outbox[e] # None /\ (\/ outbox[e].status = "PROCESSED"
                                                \/ outbox[e].attempts >= MAX_ATTEMPTS)

=============================================================================
