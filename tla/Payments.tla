------------------------------ MODULE Payments ------------------------------
(***************************************************************************)
(* The payment flows of a wallet (app/modules/payments, cashin, cashout,   *)
(* external, airtime) with their rolling limits (app/modules/limits).  A   *)
(* request passes its gates on unlocked reads, then posts; the ledger is   *)
(* the atomic one.  An airtime purchase posts a reservation and leaves it  *)
(* to the provider, its callback or an operator to settle it.              *)
(*                                                                         *)
(* An order is what a client sends under one idempotency key: [kind, payer,*)
(* payee, amount, earner], the wallets as accounts.  One rolling window is *)
(* modelled, long enough for every order of a behaviour.                   *)
(***************************************************************************)
EXTENDS AtomicLedger

CONSTANTS
    Order,       \* per key, its order; earner is None when no commission is paid
    Tariff,      \* per kind: the bands, tax rates and flags of module Pricing
    FeeAccount, ServiceTax, CommissionTax, Pool,
    SendCap,     \* wallet caps [count, value], each may be None
    ReceiveCap,
    ServiceCap,  \* per kind, the caps of its limit config
    Owner,             \* per account its user, None for a system account
    CommissionWallets, \* the accounts that hold commission for review
    Sessions,
    MaxRequests  \* bound: requests the clients send, retries included

P == INSTANCE Pricing

Kinds == {"p2p", "cash_in", "cashout", "merchant_cashin", "withdraw", "fund", "airtime_recharge"}

OrdersOf(kind) == {k \in Keys : Order[k].kind = kind}
Recharges == OrdersOf("airtime_recharge")

AirtimeRecharge ==
    [status: Statuses, by: {None, "request", "provider", "operator"}]

ASSUME PaymentsAssumption ==
    /\ DOMAIN Order = Keys
    /\ None \notin Keys \cup AirtimeRecharge
    /\ \A k \in Keys : Order[k].kind \in Kinds /\ Order[k].amount \in Nat \ {0}
    /\ \A k \in Keys : Order[k].payer \in Accounts /\ Order[k].payee \in Accounts
    /\ \A k \in Recharges : Order[k].payer \in Guarded /\ Order[k].payee \notin Guarded
    /\ MaxRequests \in Nat

\* A fund comes from a system account, and commission is paid by the agents'
\* and merchants' flows only; the accounts that charges go to are the system's.
ASSUME PartiesAssumption ==
    /\ {FeeAccount, ServiceTax, CommissionTax, Pool} \subseteq Accounts \ Guarded
    /\ \A k \in OrdersOf("fund") : Order[k].payer \notin Guarded
    /\ \A k \in Keys :
           /\ Order[k].earner \in Accounts \cup {None}
           /\ Order[k].earner # None => Order[k].kind \in {"cash_in", "cashout", "merchant_cashin"}

\* A cap bounds a count and a value; charges are not negative.
Caps == [count: Nat \cup {None}, value: Nat \cup {None}]

ASSUME TariffAssumption ==
    /\ {SendCap, ReceiveCap} \subseteq Caps /\ ServiceCap \in [Kinds -> Caps]
    /\ \A k \in Keys :
           LET tariff == Tariff[Order[k].kind]
           IN  /\ P!Amounts(tariff, Order[k].amount) \in
                      [principal: Nat, fee: Nat, commission: Nat, parent: Nat,
                       feeTax: Nat, commissionTax: Nat, parentTax: Nat]
               /\ tariff.flags \in [fee: BOOLEAN, feeTax: BOOLEAN, commissionTax: BOOLEAN]

VARIABLES
    \* committed rows, with txn and book
    recharge,   \* per key, the airtime_recharges row: [status, by]
    intents,    \* per key, the reward_outbox rows written
    \* the sessions' program
    pc, job,
    sent,       \* requests sent so far
    \* the airtime provider
    asked,      \* per key, the provisioning calls it received
    accepted,   \* of these, the ones it accepted and has not finished
    vended,     \* airtime handed out
    verdicts,   \* callbacks it has sent, which may arrive late, twice or never
    \* history
    crowded,    \* wallets two open movements of which passed their limits together
    cut         \* keys a session died on

provider == <<asked, accepted, vended, verdicts>>
vars == <<txn, book, recharge, intents, pc, job, sent, provider, crowded, cut>>

Init ==
    /\ AbsInit
    /\ recharge = [k \in Keys |-> None]
    /\ intents = [k \in Keys |-> 0]
    /\ pc = [s \in Sessions |-> "idle"]
    /\ job = [s \in Sessions |-> None]
    /\ sent = 0
    /\ asked = [k \in Keys |-> 0]
    /\ accepted = [k \in Keys |-> 0]
    /\ vended = [k \in Keys |-> 0]
    /\ verdicts = [k \in Keys |-> {}]
    /\ crowded = {} /\ cut = {}

-----------------------------------------------------------------------------
(* The posting of an order                                                 *)

Account(o) ==
    [payer |-> o.payer, payee |-> o.payee, fee |-> FeeAccount, serviceTax |-> ServiceTax,
     pool |-> Pool, earner |-> o.earner, parent |-> None, commissionTax |-> CommissionTax]

ChargesOf(o) ==
    P!Charges(P!Amounts(Tariff[o.kind], o.amount), Tariff[o.kind].flags, FALSE)

Charged == [k \in Keys |-> ChargesOf(Order[k])]

Postings ==
    [k \in Keys |->
        [key |-> k,
         delta |-> [a \in Accounts |->
             SumFunction([r \in P!Roles |-> IF Account(Order[k])[r] = a THEN Charged[k][r] ELSE 0])],
         status |-> IF Order[k].kind = "airtime_recharge" THEN "PENDING" ELSE "COMPLETED",
         exempt |-> FALSE,
         trigger |-> Order[k].kind \in {"p2p", "cash_in", "cashout"}]]

Posting(k) == Postings[k]

ASSUME PostingsAssumption == \A k \in Keys : Posting(k) \in Requests

\* The wallet has a leg of this direction in the posting of k.
HasDebit(k, w) == \E r \in P!Roles : Account(Order[k])[r] = w /\ Charged[k][r] < 0
HasCredit(k, w) == \E r \in P!Roles : Account(Order[k])[r] = w /\ Charged[k][r] > 0

-----------------------------------------------------------------------------
(* Limits                                                                  *)

Completed == {k \in Keys : txn[k] # None /\ txn[k].status = "COMPLETED"}

\* Movements on the wallet of any service: the principal counts, not the legs.
Sent(w) == {j \in Completed : HasDebit(j, w)}
Received(w) == {j \in Completed : HasCredit(j, w)}

\* Whose limits are checked, and who is recorded as the initiator.  A fund is
\* checked against the funded user and recorded as the system's.
Subject(o) == IF o.kind = "fund" THEN o.payee ELSE o.payer
Initiated(w, kind) == {j \in Completed \cap OrdersOf(kind) : kind # "fund" /\ Order[j].payer = w}

Value(keys) == SumFunctionOnSet([k \in Keys |-> Order[k].amount], keys)

Fits(cap, keys, n) ==
    /\ cap.count # None => Cardinality(keys) + 1 <= cap.count
    /\ cap.value # None => Value(keys) + n <= cap.value

\* What GET /me/limits shows the owner of a wallet: used, and allowed.
Consumption(w) ==
    LET Used(keys, cap) == [count |-> Cardinality(keys), value |-> Value(keys), cap |-> cap]
    IN  [send |-> Used(Sent(w), SendCap), receive |-> Used(Received(w), ReceiveCap)]

\* Receive caps are checked by p2p and fund; the other credits skip them.
ReceiveChecked(o) == o.kind \in {"p2p", "fund"}

LimitsAllow(k) ==
    LET o == Order[k]
    IN  /\ Fits(ServiceCap[o.kind], Initiated(Subject(o), o.kind), o.amount)
        /\ o.kind # "fund" => Fits(SendCap, Sent(o.payer), o.amount)
        /\ ReceiveChecked(o) => Fits(ReceiveCap, Received(o.payee), o.amount)

-----------------------------------------------------------------------------
(* Sessions                                                                *)

Goto(s, label) == pc' = [pc EXCEPT ![s] = label]
End(s) == Goto(s, "idle") /\ job' = [job EXCEPT ![s] = None]

\* Sessions that have passed the limits for an order and not yet ended, and
\* reservations: movements the aggregates do not see.
Passed == {job[s] : s \in {t \in Sessions : pc[t] \in {"funds", "post", "row"}}}
Reserved == {k \in Keys : txn[k] # None /\ txn[k].status = "PENDING"}

\* Every flow but p2p looks its key up before the limits (a retry would
\* otherwise be counted against itself): a recharge that is still PENDING is
\* provisioned once more, anything else is answered.
Begin(s, k) ==
    /\ pc[s] = "idle"
    /\ sent < MaxRequests
    /\ Order[k].kind \in Kinds \ {"p2p", "airtime_recharge"} => txn[k] = None
    /\ recharge[k] # None => recharge[k].status = "PENDING"
    /\ Goto(s, IF recharge[k] = None THEN "limits" ELSE "vend")
    /\ job' = [job EXCEPT ![s] = k]
    /\ sent' = sent + 1
    /\ UNCHANGED <<txn, book, recharge, intents, provider, crowded, cut>>

CheckLimits(s) ==
    LET k == job[s]
        touched == {Order[k].payer, Order[k].payee}
        open == (Passed \cup Reserved) \ {k}
    IN  /\ pc[s] = "limits"
        /\ LimitsAllow(k)
        /\ Goto(s, "funds")
        /\ crowded' = crowded \cup
               {w \in touched : \E j \in open : HasDebit(j, w) \/ HasCredit(j, w)}
        /\ UNCHANGED <<txn, book, recharge, intents, job, sent, provider, cut>>

\* 429, or 409 for the recipient's caps.
RefuseLimits(s) ==
    /\ pc[s] = "limits"
    /\ ~LimitsAllow(job[s])
    /\ End(s)
    /\ UNCHANGED <<txn, book, recharge, intents, sent, provider, crowded, cut>>

\* The advisory overdraft check: the fee included, reservations held back.
Affordable(k) ==
    LET o == Order[k]
    IN  o.payer \in Guarded => Available(book[o.payer]) + Posting(k).delta[o.payer] >= 0

CheckFunds(s) ==
    /\ pc[s] = "funds"
    /\ IF Affordable(job[s]) THEN Goto(s, "post") /\ UNCHANGED job ELSE End(s)
    /\ UNCHANGED <<txn, book, recharge, intents, sent, provider, crowded, cut>>

\* The posting commits, with the reward intent where the flow has one.
Post(s) ==
    LET k == job[s]
    IN  /\ pc[s] = "post"
        /\ AbsPost(Posting(k))
        /\ intents' = [intents EXCEPT ![k] = IF Posting(k).trigger THEN @ + 1 ELSE @]
        /\ IF k \in Recharges THEN Goto(s, "row") /\ UNCHANGED job ELSE End(s)
        /\ UNCHANGED <<recharge, sent, provider, crowded, cut>>

\* Mutant: the reward intent is written on a replay too.
ReplayRewarded(s) ==
    LET k == job[s]
    IN  /\ pc[s] = "post"
        /\ txn[k] # None
        /\ intents' = [intents EXCEPT ![k] = IF Posting(k).trigger THEN @ + 1 ELSE @]
        /\ IF k \in Recharges THEN Goto(s, "row") /\ UNCHANGED job ELSE End(s)
        /\ UNCHANGED <<txn, book, recharge, sent, provider, crowded, cut>>

\* The key was posted meanwhile and post_transaction returns it.
Replay(s) ==
    LET k == job[s]
    IN  /\ pc[s] = "post"
        /\ txn[k] # None
        /\ IF k \in Recharges THEN Goto(s, "row") /\ UNCHANGED job ELSE End(s)
        /\ UNCHANGED <<txn, book, recharge, intents, sent, provider, crowded, cut>>

\* The ledger's guard, under the wallet lock.
RefusePost(s) ==
    /\ pc[s] = "post"
    /\ txn[job[s]] = None
    /\ \/ ~Affordable(job[s])
       \/ ~Balanced(Posting(job[s]))
    /\ End(s)
    /\ UNCHANGED <<txn, book, recharge, intents, sent, provider, crowded, cut>>

-----------------------------------------------------------------------------
(* Airtime                                                                 *)

\* The row that lets anyone settle the reservation; a concurrent request
\* under the key may have written it (unique violation, 500).
WriteRow(s) ==
    LET k == job[s]
    IN  /\ pc[s] = "row"
        /\ IF recharge[k] = None
           THEN /\ recharge' = [recharge EXCEPT ![k] = [status |-> "PENDING", by |-> None]]
                /\ Goto(s, "vend")
                /\ UNCHANGED job
           ELSE End(s) /\ UNCHANGED recharge
        /\ UNCHANGED <<txn, book, intents, sent, provider, crowded, cut>>

\* _apply_completed and _apply_reversed, in one commit: the reservation, the
\* row, and the reward intent of a vend.
Settled(k, to, by) ==
    /\ AbsSettle(k, to)
    /\ recharge' = [recharge EXCEPT ![k] = [status |-> to, by |-> by]]
    /\ intents' = [intents EXCEPT ![k] = IF to = "COMPLETED" THEN @ + 1 ELSE @]

Outcome == [success |-> "COMPLETED", failed |-> "REVERSED"]

\* The provider is called with no transaction open.  It vends, fails, or
\* accepts and answers later.
CallProvider(s) ==
    LET k == job[s]
    IN  /\ pc[s] = "vend"
        /\ asked' = [asked EXCEPT ![k] = @ + 1]
        /\ \E answer \in {"success", "failed", "pending"} :
              /\ vended' = [vended EXCEPT ![k] = IF answer = "success" THEN @ + 1 ELSE @]
              /\ accepted' = [accepted EXCEPT ![k] = IF answer = "pending" THEN @ + 1 ELSE @]
              /\ IF answer = "pending" THEN End(s)
                 ELSE /\ Goto(s, IF answer = "success" THEN "completed" ELSE "reversed")
                      /\ UNCHANGED job
        /\ UNCHANGED <<txn, book, recharge, intents, sent, verdicts, crowded, cut>>

\* Mutant: the row is not read again under its lock.
FinalizeUnread(s) ==
    LET k == job[s]
        to == IF pc[s] = "completed" THEN "COMPLETED" ELSE "REVERSED"
    IN  /\ pc[s] \in {"completed", "reversed"}
        /\ \/ Settled(k, to, "request")
           \/ /\ txn[k].status # "PENDING"
              /\ recharge' = [recharge EXCEPT ![k] = [status |-> to, by |-> "request"]]
              /\ UNCHANGED <<txn, book, intents>>
        /\ End(s)
        /\ UNCHANGED <<sent, provider, crowded, cut>>

\* The answer is applied under the row lock, to a recharge still PENDING.
Finalize(s) ==
    LET k == job[s]
        to == IF pc[s] = "completed" THEN "COMPLETED" ELSE "REVERSED"
    IN  /\ pc[s] \in {"completed", "reversed"}
        /\ IF recharge[k].status = "PENDING"
           THEN Settled(k, to, "request")
           ELSE UNCHANGED <<txn, book, recharge, intents>>
        /\ End(s)
        /\ UNCHANGED <<sent, provider, crowded, cut>>

\* An accepted call ends: airtime is handed out or not, and a callback sent.
ProviderEnds(k) ==
    /\ accepted[k] > 0
    /\ accepted' = [accepted EXCEPT ![k] = @ - 1]
    /\ \E answer \in {"success", "failed"} :
          /\ vended' = [vended EXCEPT ![k] = IF answer = "success" THEN @ + 1 ELSE @]
          /\ verdicts' = [verdicts EXCEPT ![k] = @ \cup {Outcome[answer]}]
    /\ UNCHANGED <<txn, book, recharge, intents, pc, job, sent, asked, crowded, cut>>

\* process_provider_callback; a settled recharge is refused (409).
Callback(k) ==
    /\ recharge[k] # None
    /\ recharge[k].status = "PENDING"
    /\ \E to \in verdicts[k] : Settled(k, to, "provider")
    /\ UNCHANGED <<pc, job, sent, provider, crowded, cut>>

\* resolve_recharge: the operator decides for a provider that does not answer.
Resolve(k) ==
    /\ recharge[k] # None
    /\ recharge[k].status = "PENDING"
    /\ \E to \in {"COMPLETED", "REVERSED"} : Settled(k, to, "operator")
    /\ UNCHANGED <<pc, job, sent, provider, crowded, cut>>

\* The request's process dies; what it committed stays.
Crash(s) ==
    /\ pc[s] \notin {"idle", "limits", "funds"}
    /\ cut' = cut \cup {job[s]}
    /\ End(s)
    /\ UNCHANGED <<txn, book, recharge, intents, sent, provider, crowded>>

-----------------------------------------------------------------------------
Next ==
    \/ \E s \in Sessions :
          \/ \E k \in Keys : Begin(s, k)
          \/ CheckLimits(s)
          \/ RefuseLimits(s)
          \/ CheckFunds(s)
          \/ Post(s)
          \/ Replay(s)
          \/ RefusePost(s)
          \/ WriteRow(s)
          \/ CallProvider(s)
          \/ Finalize(s)
          \/ Crash(s)
    \/ \E k \in Keys : ProviderEnds(k) \/ Callback(k) \/ Resolve(k)

Spec == Init /\ [][Next]_vars

-----------------------------------------------------------------------------
(* Properties                                                              *)

\* Every variable keeps its type.  A request writes at most one reward intent
\* however often it is sent, and no guarded wallet's available balance is
\* below zero.
TypeOK ==
    /\ \A k \in Keys : txn[k] # None => txn[k].status \in Statuses
    /\ \A w \in Guarded : Available(book[w]) >= 0
    /\ recharge \in [Keys -> {None} \cup AirtimeRecharge]
    /\ intents \in [Keys -> 0..1]
    /\ pc \in [Sessions -> {"idle", "limits", "funds", "post", "row", "vend", "completed", "reversed"}]
    /\ job \in [Sessions -> Keys \cup {None}]
    /\ sent \in 0..MaxRequests
    /\ asked \in [Keys -> Nat] /\ accepted \in [Keys -> Nat] /\ vended \in [Keys -> Nat]
    /\ verdicts \in [Keys -> SUBSET {"COMPLETED", "REVERSED"}]
    /\ crowded \subseteq Accounts /\ cut \subseteq Keys

Under(count, value, cap) ==
    /\ cap.count # None => count <= cap.count
    /\ cap.value # None => value <= cap.value

Overdrawn(used) == ~Under(used.count, used.value, used.cap)

\* check_limits and the wallet caps (limits/service.py:195, :454, :535) read
\* committed sums with no lock.  A wallet whose movements never overlapped
\* stays within the caps of every service and of its wallet, whatever the
\* services, retries, crashes and late settlements, and its owner is never
\* shown (limits/service.py:674) more used than is allowed; the receive caps
\* hold as long as the wallet is credited by transfers and funds only.
LimitsHeld ==
    \A w \in Guarded \ crowded :
        /\ \A kind \in Kinds :
               LET keys == Initiated(w, kind)
               IN  Under(Cardinality(keys), Value(keys), ServiceCap[kind])
        /\ ~Overdrawn(Consumption(w).send)
        /\ (\A j \in Received(w) : Order[j].kind \in {"p2p", "fund"}) =>
               ~Overdrawn(Consumption(w).receive)

\* A recharge row and the reservation it stands for carry one status at every
\* commit, and the reward intent exists exactly when it was completed
\* (airtime/service.py:184, :503).  A reservation with no row to settle it by
\* is one whose request is still at work or died in between.
RechargeMirrorsHold ==
    \A k \in Recharges :
        /\ recharge[k] # None =>
               /\ txn[k] # None
               /\ txn[k].status = recharge[k].status
               /\ intents[k] = 1 <=> recharge[k].status = "COMPLETED"
        /\ recharge[k] = None /\ txn[k] # None =>
               /\ txn[k].status = "PENDING"
               /\ k \in cut \/ \E s \in Sessions : job[s] = k /\ pc[s] = "row"

\* Money follows the airtime (airtime/service.py:632): unless an operator
\* decided, a recharge is charged only for airtime the provider handed out,
\* and one provisioned once and refunded was never handed out.
VendedAsSettled ==
    \A k \in Recharges :
        recharge[k] # None /\ recharge[k].by \in {"request", "provider"} =>
            /\ recharge[k].status = "COMPLETED" => vended[k] >= 1
            /\ recharge[k].status = "REVERSED" /\ asked[k] = 1 => vended[k] = 0

\* Recharge row, reservation, intent and provider agree.
RechargeSettled == RechargeMirrorsHold /\ VendedAsSettled

-----------------------------------------------------------------------------
(* Statements: what a user reads of his money (app/modules/identity:       *)
(* get_my_wallet and list_user_transactions): the balances of his wallets, *)
(* and a row per transaction and wallet it moved, with the charges that    *)
(* were his.  Every read is of committed rows, so it is of a state.        *)

\* A user has one wallet in a currency, besides the one that holds commission
\* (uq_accounts_user_scoped); the accounts of charges have no user.
ASSUME StatementsAssumption ==
    /\ DOMAIN Owner = Accounts
    /\ CommissionWallets \subseteq Guarded
    /\ \A a \in CommissionWallets : Owner[a] # None
    /\ \A a \in {FeeAccount, ServiceTax, CommissionTax, Pool} : Owner[a] = None
    /\ \A a, b \in Accounts \ CommissionWallets : Owner[a] = Owner[b] /\ Owner[a] # None => a = b

\* Who takes or hands out the cash earns the commission, if there is any.
CashAgent(o) == IF o.kind = "cashout" THEN o.payee ELSE o.payer

\* Held commission is not paid with, and reaches its wallet as commission only.
ASSUME EarnersAssumption ==
    \A k \in Keys :
        LET o == Order[k]
        IN  /\ {o.payer, o.payee} \cap CommissionWallets = {}
            /\ o.earner # None => Owner[o.earner] = Owner[CashAgent(o)] /\ Owner[o.earner] # None
            /\ o.earner = None => P!Amounts(Tariff[o.kind], o.amount).commission = 0

Users == {Owner[a] : a \in Accounts} \ {None}
Own(u) == {a \in Accounts : Owner[a] = u}

\* The accounts of get_my_wallet.
Balances(u) ==
    [a \in Own(u) |->
        [balance |-> book[a].bal, reserved |-> book[a].res, available |-> Available(book[a])]]

-----------------------------------------------------------------------------
(* The rows                                                                *)

Posted == {k \in Keys : txn[k] # None}

\* The caller's legs, netted per wallet.
Net(k, a) == txn[k].req.delta[a]

\* _user_txns_stmt: transactions with a leg on one of the wallets.
Touching(wallets) == {k \in Posted : \E a \in wallets : HasDebit(k, a) \/ HasCredit(k, a)}

\* A wallet whose legs cancel has no row.
Moved(k, wallets) == {a \in wallets : Net(k, a) # 0}

IsInitiator(u, k) == Order[k].kind # "fund" /\ Owner[Order[k].payer] = u

Quoted(k) == P!Amounts(Tariff[Order[k].kind], Order[k].amount)
CommissionAmount(k) == Quoted(k).commission
TaxAmount(k) == Quoted(k).feeTax + Quoted(k).commissionTax

\* Mutant: the earning wallet's row does not silence the others.
CommissionTwice(u, k, a, rows) ==
    IF a \in CommissionWallets /\ Net(k, a) > 0 THEN Net(k, a)
    ELSE IF \/ Order[k].kind = "cash_in" /\ IsInitiator(u, k)
            \/ Order[k].kind = "cashout" /\ Net(k, a) > 0
         THEN CommissionAmount(k)
         ELSE 0

\* A commission wallet's credit is the commission; the other wallets of the
\* transaction then show none.  With no such credit it is told by the service.
CommissionShown(u, k, a, rows) ==
    IF a \in CommissionWallets /\ Net(k, a) > 0 THEN Net(k, a)
    ELSE IF \E b \in rows \cap CommissionWallets : Net(k, b) > 0 THEN 0
    ELSE IF \/ Order[k].kind = "cash_in" /\ IsInitiator(u, k)
            \/ Order[k].kind = "cashout" /\ Net(k, a) > 0
         THEN CommissionAmount(k)
         ELSE 0

\* Fee and tax are the initiator's, on the wallet that bore them.
Bears(u, k, a) == IsInitiator(u, k) /\ a \notin CommissionWallets

Line(u, k, a, rows) ==
    [txn |-> k, wallet |-> a, status |-> txn[k].status,
     direction |-> IF Net(k, a) > 0 THEN "in" ELSE "out",
     amount |-> IF Net(k, a) > 0 THEN Net(k, a) ELSE -Net(k, a),
     fee |-> IF Bears(u, k, a) THEN Quoted(k).fee ELSE 0,
     tax |-> IF Bears(u, k, a) THEN TaxAmount(k) ELSE 0,
     commission |-> CommissionShown(u, k, a, rows)]

\* _build_recent_txns_payload, of the wallets that a filter leaves.
Statement(u, wallets) ==
    UNION {LET rows == Moved(k, wallets) IN {Line(u, k, a, rows) : a \in rows} :
               k \in Touching(wallets)}

\* The page's total counts transactions.
Matching(wallets) == Cardinality(Touching(wallets))

\* The wallet filter of the admin panel: main wallets, or those of commission.
Filters(u) == {Own(u), Own(u) \ CommissionWallets, Own(u) \cap CommissionWallets}

\* _resolve_principals: the largest debit and credit of a user's wallet.
Sides(k, sign) ==
    LET size(r) == sign * Charged[k][r]
        legs == {r \in P!Roles : size(r) > 0 /\ Owner[Account(Order[k])[r]] # None}
    IN  {Account(Order[k])[r] : r \in {q \in legs : \A t \in legs : size(t) <= size(q)}}

Principals(k) == {Owner[a] : a \in Sides(k, 1) \cup Sides(k, -1)}

-----------------------------------------------------------------------------
(* Properties                                                              *)

Signed(row) == IF row.direction = "in" THEN row.amount ELSE -row.amount

SignedSum(rows, status) ==
    SumFunctionOnSet([row \in rows |-> Signed(row)], {row \in rows : row.status = status})

RowsOf(k) ==
    UNION {LET rows == Moved(k, Own(u)) IN {Line(u, k, a, rows) : a \in rows} : u \in Users}

\* The completed rows of a wallet explain its balance and the pending ones its
\* hold, whatever was posted, settled, reversed or retried (identity/service.py
\* :1086, :1419), and under any filter.
RowsExplainBalance ==
    \A u \in Users : \A wallets \in Filters(u) :
        LET statement == Statement(u, wallets)
        IN  /\ Cardinality({row.txn : row \in statement}) <= Matching(wallets)
            /\ \A a \in wallets :
                  LET rows == {row \in statement : row.wallet = a}
                  IN  /\ Opening[a] + SignedSum(rows, "COMPLETED") = Balances(u)[a].balance
                      /\ -SignedSum(rows, "PENDING") = Balances(u)[a].reserved

\* No charge is shown to two parties, or on two wallets of one, and commission
\* only to who earned it, on a wallet of his (identity/service.py:1640): what a
\* commission wallet was credited, or on a main wallet what was quoted, a tax
\* within it included.  Whoever is shown a fee is a side of the transaction.
ChargesShownOnce ==
    \A k \in Posted :
        LET rows == RowsOf(k)
            told(field) == SumFunction([row \in rows |-> row[field]])
        IN  /\ told("fee") \in {0, Quoted(k).fee}
            /\ told("tax") \in {0, TaxAmount(k)}
            /\ told("commission") \in {0, Charged[k].earner, CommissionAmount(k)}
            /\ \A row \in rows :
                   /\ row.commission > 0 => Owner[row.wallet] = Owner[Order[k].earner]
                   /\ row.fee > 0 => Owner[row.wallet] \in Principals(k)

\* What a user is shown of his money is what the ledger did: the limits, the
\* balances and the rows.
ShownTruthfully == LimitsHeld /\ RowsExplainBalance /\ ChargesShownOnce

=============================================================================
