----------------------------- MODULE Redemption -----------------------------
(***************************************************************************)
(* Internal redemption (app/modules/redemption/internal.py): a user burns  *)
(* points and is paid money, as a saga of two ledger postings with a       *)
(* compensating third.  The ledger is the atomic one, so a posting is one  *)
(* step; what interleaves here are the steps of concurrent requests of one *)
(* user, some of them retries under the same Idempotency-Key, with the     *)
(* other traffic of the accounts and with changes of the conversion rate.  *)
(***************************************************************************)
EXTENDS AtomicLedger

CONSTANTS
    Redeemers,      \* sessions of POST /redemption/internal
    ClientKeys,     \* Idempotency-Key headers
    Amount,         \* points_amount of the request sent under each key
    Points,         \* the user's points account
    Sink,           \* points_redemption_wallet
    Cashback,       \* cashback_provider_wallet
    Wallet,         \* the user's financial wallet
    Rates,          \* conversion rates that may be active
    OtherRequests,  \* rewards, top-ups and other postings on these accounts
    MaxAttempts     \* bound: how often a client sends one key

Rate ==
    [points: Nat \ {0}, value: Nat \ {0},
     maxPoints: (Nat \ {0}) \cup {None}, maxPct: (1..100) \cup {None}]

ASSUME RedemptionAssumption ==
    /\ None \notin Redeemers \cup Rates \cup [key: ClientKeys, rate: Rates]
    /\ Amount \in [ClientKeys -> Nat \ {0}]
    /\ {Points, Sink, Cashback, Wallet} \subseteq Accounts
    /\ Points \notin {Sink, Cashback, Wallet}
    /\ Sink \notin {Cashback, Wallet} /\ Cashback # Wallet
    /\ {Cashback, Wallet} \subseteq Guarded /\ Wallet \in Capped
    /\ {Points, Sink} \cap Guarded = {}
    /\ Opening[Points] \in Nat
    /\ Rates \subseteq Rate
    /\ ClientKeys \X {"burn", "payout", "unwind"} \subseteq Keys
    /\ OtherRequests \subseteq Requests
    /\ MaxAttempts \in Nat

\* Nobody else debits points, and nobody else derives these keys.
ASSUME OthersAssumption ==
    \A r \in OtherRequests :
        /\ r.status = "COMPLETED"
        /\ r.delta[Points] >= 0
        /\ r.key \notin ClientKeys \X {"burn", "payout", "unwind"}

VARIABLES
    \* committed rows, with txn and book
    pair,       \* internal_redemptions, by client key
    rate,       \* the ACTIVE conversion rate, None when there is none
    \* row locks
    forUpdate,  \* account -> the redeemer holding it FOR UPDATE
    \* the sessions' program
    pc, job,
    \* history
    attempts,   \* how often each key was sent
    cut         \* keys one of whose attempts died or lost its session

tables == <<txn, book, pair, rate>>
vars == <<tables, forUpdate, pc, job, attempts, cut>>

Init ==
    /\ AbsInit
    /\ pair = [k \in ClientKeys |-> None]
    /\ rate \in Rates
    /\ forUpdate = [a \in Accounts |-> None]
    /\ pc = [p \in Redeemers |-> "idle"]
    /\ job = [p \in Redeemers |-> None]
    /\ attempts = [k \in ClientKeys |-> 0]
    /\ cut = {}

-----------------------------------------------------------------------------
(* The three postings                                                      *)

\* n points at rate rt, in minor units, rounded half up.
QuoteFiat(n, rt) == (2 * n * rt.value + rt.points) \div (2 * rt.points)

Transfer(key, from, to, n, exempt) ==
    [key |-> key,
     delta |-> [a \in Accounts |-> IF a = from THEN -n ELSE IF a = to THEN n ELSE 0],
     status |-> "COMPLETED", exempt |-> exempt, trigger |-> FALSE]

BurnRequest(k) == Transfer(<<k, "burn">>, Points, Sink, Amount[k], FALSE)
PayoutRequest(k, rt) ==
    Transfer(<<k, "payout">>, Cashback, Wallet, QuoteFiat(Amount[k], rt), FALSE)
UnwindRequest(k) == Transfer(<<k, "unwind">>, Sink, Points, Amount[k], TRUE)

\* Every posting of a redemption is one the ledger may be asked for.
ASSUME PostingsAssumption ==
    \A k \in ClientKeys :
        /\ {BurnRequest(k), UnwindRequest(k)} \subseteq Requests
        /\ \A rt \in Rates : PayoutRequest(k, rt) \in Requests

Posted(k, leg) == txn[<<k, leg>>] # None

-----------------------------------------------------------------------------
(* Sessions                                                                *)

Release(p) == forUpdate' = [a \in Accounts |-> IF forUpdate[a] = p THEN None ELSE forUpdate[a]]

\* The account rows of r are not locked by a session other than p.
Unblocked(p, r) == \A a \in Legs(r) : forUpdate[a] \in {None, p}

\* post_transaction commits: the money moves and p's locks come free.
Post(p, r) == Unblocked(p, r) /\ AbsPost(r) /\ Release(p)

Goto(p, label) == pc' = [pc EXCEPT ![p] = label]

End(p) ==
    /\ Goto(p, "idle")
    /\ job' = [job EXCEPT ![p] = None]
    /\ Release(p)

\* Mutant: no rate is needed to redeem.
BeginWithoutRate(p, k) ==
    /\ pc[p] = "idle"
    /\ pair[k] = None
    /\ attempts[k] < MaxAttempts
    /\ attempts' = [attempts EXCEPT ![k] = @ + 1]
    /\ job' = [job EXCEPT ![p] = [key |-> k, rate |-> rate]]
    /\ Goto(p, "lock")
    /\ UNCHANGED <<tables, forUpdate, cut>>

\* The gates: an ACTIVE rate, and no pair row for the key yet (a redemption
\* that has one is answered with it, and writes nothing).
Begin(p, k) ==
    /\ pc[p] = "idle"
    /\ rate # None
    /\ pair[k] = None
    /\ attempts[k] < MaxAttempts
    /\ attempts' = [attempts EXCEPT ![k] = @ + 1]
    /\ job' = [job EXCEPT ![p] = [key |-> k, rate |-> rate]]
    /\ Goto(p, "lock")
    /\ UNCHANGED <<tables, forUpdate, cut>>

\* Mutant: the points are not locked.
LockPointsNot(p) ==
    /\ pc[p] = "lock"
    /\ Goto(p, "check")
    /\ UNCHANGED <<tables, forUpdate, job, attempts, cut>>

LockPoints(p) ==
    /\ pc[p] = "lock"
    /\ forUpdate[Points] = None
    /\ forUpdate' = [forUpdate EXCEPT ![Points] = p]
    /\ Goto(p, "check")
    /\ UNCHANGED <<tables, job, attempts, cut>>

\* The caps of the rate row, and the points themselves.
BurnAllowed(n, rt, available) ==
    /\ rt.maxPoints # None => n <= rt.maxPoints
    /\ rt.maxPct # None => 100 * n <= rt.maxPct * available
    /\ n <= available

CheckPoints(p) ==
    /\ pc[p] = "check"
    /\ BurnAllowed(Amount[job[p].key], job[p].rate, Available(book[Points]))
    /\ Goto(p, "burn")
    /\ UNCHANGED <<tables, forUpdate, job, attempts, cut>>

\* redemption_txn_cap_exceeded or insufficient_funds.
RefuseBurn(p) ==
    /\ pc[p] = "check"
    /\ ~BurnAllowed(Amount[job[p].key], job[p].rate, Available(book[Points]))
    /\ End(p)
    /\ UNCHANGED <<tables, attempts, cut>>

Burn(p) ==
    /\ pc[p] = "burn"
    /\ Post(p, BurnRequest(job[p].key))
    /\ Goto(p, "payout")
    /\ UNCHANGED <<pair, rate, job, attempts, cut>>

\* post_transaction finds the burn of an earlier attempt and returns it
\* without a commit: the points stay locked.
BurnReplayed(p) ==
    /\ pc[p] = "burn"
    /\ Posted(job[p].key, "burn")
    /\ Goto(p, "payout")
    /\ UNCHANGED <<tables, forUpdate, job, attempts, cut>>

\* The payout's balance assertion (a quote that rounds to nothing fails it)
\* and its idempotency read.
StartPayout(p) ==
    LET k == job[p].key
    IN  /\ pc[p] = "payout"
        /\ Goto(p, IF ~Balanced(PayoutRequest(k, job[p].rate)) THEN "unwind"
                   ELSE IF Posted(k, "payout") THEN "pair"
                   ELSE "fund")
        /\ UNCHANGED <<tables, forUpdate, job, attempts, cut>>

\* The ledger's guard locks the two wallets.
LockWallets(p) ==
    /\ pc[p] = "fund"
    /\ forUpdate[Cashback] = None
    /\ forUpdate[Wallet] = None
    /\ forUpdate' = [forUpdate EXCEPT ![Cashback] = p, ![Wallet] = p]
    /\ Goto(p, "pay")
    /\ UNCHANGED <<tables, job, attempts, cut>>

\* The guard's verdict: funds in the cashback wallet, room in the user's.
Fundable(r) ==
    /\ Available(book[Cashback]) + r.delta[Cashback] >= 0
    /\ Cap[Wallet] # None => book[Wallet].bal + r.delta[Wallet] <= Cap[Wallet]

\* Mutant: the payout is quoted again, at the rate that is active by then.
PayAtActiveRate(p) ==
    /\ pc[p] = "pay"
    /\ rate # None
    /\ Fundable(PayoutRequest(job[p].key, rate))
    /\ Post(p, PayoutRequest(job[p].key, rate))
    /\ Goto(p, "pair")
    /\ UNCHANGED <<pair, rate, job, attempts, cut>>

Pay(p) ==
    LET r == PayoutRequest(job[p].key, job[p].rate)
    IN  /\ pc[p] = "pay"
        /\ Fundable(r)
        /\ Post(p, r)
        /\ Goto(p, "pair")
        /\ UNCHANGED <<pair, rate, job, attempts, cut>>

\* Another attempt has paid since this one looked.  The uniqueness error
\* leaves a session that can only roll back, so the unwind attempted in the
\* except block fails with it.
PayConflict(p) ==
    /\ pc[p] = "pay"
    /\ Fundable(PayoutRequest(job[p].key, job[p].rate))
    /\ Posted(job[p].key, "payout")
    /\ End(p)
    /\ UNCHANGED <<tables, attempts, cut>>

\* Mutant: the error of the payout propagates and the burn stands.
PayRefusedOnly(p) ==
    /\ pc[p] = "pay"
    /\ ~Fundable(PayoutRequest(job[p].key, job[p].rate))
    /\ End(p)
    /\ UNCHANGED <<tables, attempts, cut>>

PayRefused(p) ==
    /\ pc[p] = "pay"
    /\ ~Fundable(PayoutRequest(job[p].key, job[p].rate))
    /\ Goto(p, "unwind")
    /\ UNCHANGED <<tables, forUpdate, job, attempts, cut>>

\* Give the points back under the derived key, once, and answer the error.
Unwind(p) ==
    LET k == job[p].key
    IN  /\ pc[p] = "unwind"
        /\ IF Posted(k, "unwind") THEN UNCHANGED <<txn, book>>
           ELSE Unblocked(p, UnwindRequest(k)) /\ AbsPost(UnwindRequest(k))
        /\ End(p)
        /\ UNCHANGED <<pair, rate, attempts, cut>>

\* The pair row is unique per key; the loser of that race gets the error.
WritePair(p) ==
    LET k == job[p].key
        fiat == QuoteFiat(Amount[k], job[p].rate)
    IN  /\ pc[p] = "pair"
        /\ pair' = IF pair[k] # None THEN pair
                   ELSE [pair EXCEPT ![k] = [points |-> Amount[k], fiat |-> fiat]]
        /\ End(p)
        /\ UNCHANGED <<txn, book, rate, attempts, cut>>

\* The process dies, or a statement fails (a deadlock's victim, a lost
\* connection): the database transaction is gone, and an unwind attempted on
\* it fails as well.
Cut(p) ==
    /\ pc[p] # "idle"
    /\ End(p)
    /\ cut' = cut \cup {job[p].key}
    /\ UNCHANGED <<tables, attempts>>

-----------------------------------------------------------------------------
(* The rest of the system                                                  *)

\* An approved change request replaces or deletes the rate.
ChangeRate(new) ==
    /\ rate' = new
    /\ UNCHANGED <<txn, book, pair, forUpdate, pc, job, attempts, cut>>

OtherPosting(r) ==
    /\ \A a \in Legs(r) : forUpdate[a] = None
    /\ AbsPost(r)
    /\ UNCHANGED <<pair, rate, forUpdate, pc, job, attempts, cut>>

Next ==
    \/ \E p \in Redeemers :
           \/ \E k \in ClientKeys : Begin(p, k)
           \/ LockPoints(p)
           \/ CheckPoints(p)
           \/ RefuseBurn(p)
           \/ Burn(p)
           \/ BurnReplayed(p)
           \/ StartPayout(p)
           \/ LockWallets(p)
           \/ Pay(p)
           \/ PayConflict(p)
           \/ PayRefused(p)
           \/ Unwind(p)
           \/ WritePair(p)
           \/ Cut(p)
    \/ \E new \in Rates \cup {None} : ChangeRate(new)
    \/ \E r \in OtherRequests : OtherPosting(r)

Spec == Init /\ [][Next]_vars

-----------------------------------------------------------------------------
(* Properties                                                              *)

\* Types; a request in progress has a rate (Pay-PRD-1220, fail-closed).
TypeOK ==
    /\ txn \in [Keys -> TxnRow \cup {None}]
    /\ book \in [Accounts -> Row]
    /\ pair \in [ClientKeys -> [points: Nat, fiat: Nat] \cup {None}]
    /\ rate \in Rates \cup {None}
    /\ forUpdate \in [Accounts -> Redeemers \cup {None}]
    /\ pc \in [Redeemers -> {"idle", "lock", "check", "burn", "payout", "fund",
                             "pay", "unwind", "pair"}]
    /\ job \in [Redeemers -> [key: ClientKeys, rate: Rates] \cup {None}]
    /\ \A p \in Redeemers : pc[p] # "idle" => job[p] # None
    /\ attempts \in [ClientKeys -> 0..MaxAttempts]
    /\ cut \subseteq ClientKeys

\* Concurrent redemptions never burn the same points twice: the ledger has no
\* floor for points accounts, the redemption's own lock is all there is.
PointsFloor == Available(book[Points]) >= 0

Working(k) == \E p \in Redeemers : pc[p] # "idle" /\ job[p].key = k

\* A burn is never left alone by requests that run to their end: when nobody
\* is working on its key, it has been paid out or given back.
BurnIsSettled ==
    \A k \in ClientKeys :
        Posted(k, "burn") /\ ~Working(k) /\ k \notin cut
            => Posted(k, "payout") \/ Posted(k, "unwind")

\* A key that was sent once is exact: it is paid or given back but not both,
\* and its pair row says what its two transactions moved, whatever happened
\* to the rate meanwhile.
FirstAttemptExact ==
    \A k \in ClientKeys : attempts[k] <= 1 =>
        /\ ~(Posted(k, "payout") /\ Posted(k, "unwind"))
        /\ pair[k] # None =>
              /\ txn[<<k, "burn">>].req.delta[Points] = -pair[k].points
              /\ txn[<<k, "payout">>].req.delta[Wallet] = pair[k].fiat

\* The docs: a failed attempt "nets to zero" and "a replay ... resumes
\* idempotently": a redemption that was paid keeps its points burned.
PaidBurnStands ==
    \A k \in ClientKeys : Posted(k, "payout") => ~Posted(k, "unwind")

=============================================================================
