--------------------------- MODULE MoneyOperations ---------------------------
(***************************************************************************)
(* Money operations (app/modules/money_operations) and the treasury        *)
(* functions that an approved one runs (app/modules/treasury): funding a   *)
(* user from the float, withdrawing to a bank mirror, adjusting a system   *)
(* wallet, creating a bank mirror.  Renaming a mirror needs no approval.   *)
(***************************************************************************)
EXTENDS MakerChecker

CONSTANTS
    MoneyOffers,  \* payloads: [op, account, amount, mirror], or [op, currency, name]
    CurrencyOf,   \* of every account
    Floats,       \* the system_cash_inflow accounts, one per currency
    Mirrors,      \* ids of operator_adjustment accounts, there or to come
    Mirrored,     \* per mirror older than the model, its name
    Names,        \* that a mirror may have
    All           \* the amount of a withdraw_all

ASSUME MoneyAssumption ==
    /\ CurrencyOf \in [Accounts -> {CurrencyOf[f] : f \in Floats}]
    /\ \A f, g \in Floats : CurrencyOf[f] = CurrencyOf[g] => f = g
    /\ DOMAIN Mirrored \subseteq Mirrors
    /\ Floats \subseteq Guarded /\ Mirrors \subseteq Accounts \ Guarded
    /\ \A pl \in MoneyOffers :
          \/ pl.op = "mirror"
          \/ pl.op \in {"fund", "adjust"} /\ pl.account \in Accounts /\ pl.amount \in Int
          \/ pl.op = "withdraw" /\ pl.account \in Guarded /\ pl.amount \in Int \cup {All}
    /\ \A m \in DOMAIN Mirrored : Mirrored[m] \in Names

VARIABLES
    floats,    \* the accounts of Floats that exist
    mirrors,   \* per mirror that exists, [name, by]
    \* history
    bare       \* requests committed as APPLIED ahead of their posting

moneyVars == <<floats, mirrors, bare>>

\* A float nobody has needed yet is not there.
MoneyInit ==
    /\ floats \in {fs \in SUBSET Floats : \A f \in Floats \ fs : Opening[f] = 0}
    /\ mirrors = [m \in DOMAIN Mirrored |-> [name |-> Mirrored[m], by |-> None]]
    /\ bare = {}

-----------------------------------------------------------------------------
(* Payloads and their postings                                             *)

\* An amount is positive, or everything; an adjustment is signed.
ValidPayload(pl) ==
    CASE pl.op = "fund"     -> pl.amount > 0
      [] pl.op = "withdraw" -> pl.amount # All => pl.amount > 0
      [] pl.op = "adjust"   -> pl.amount # 0
      [] pl.op = "mirror"   -> pl.name \in Names

FloatFor(a) == CHOOSE f \in Floats : CurrencyOf[f] = CurrencyOf[a]

MirrorFits(pl) == pl.mirror \in DOMAIN mirrors /\ CurrencyOf[pl.mirror] = CurrencyOf[pl.account]

\* The key is derived from the request, so it is posted once.
MoneyKey(p) == <<p, "money-op">>

Fund(p, pl) == Transfer(MoneyKey(p), FloatFor(pl.account), pl.account, pl.amount, FALSE)

Withdrawal(p, pl, n) == Transfer(MoneyKey(p), pl.account, pl.mirror, n, FALSE)

Adjustment(p, pl) ==
    IF pl.amount > 0
    THEN Transfer(MoneyKey(p), pl.mirror, pl.account, pl.amount, FALSE)
    ELSE Transfer(MoneyKey(p), pl.account, pl.mirror, -pl.amount, FALSE)

-----------------------------------------------------------------------------
(* The queue                                                               *)

ProposeMoney(a, p) ==
    /\ \E pl \in MoneyOffers :
          ValidPayload(pl) /\ File(p, Filed("money", a, pl, None, Required(pl.op)))
    /\ UNCHANGED <<absVars, pc, job, moneyVars>>

ApproveMoney(a, p) == Progress(a, p, "money") /\ UNCHANGED moneyVars
RequestMoneyChanges(a, p) == SendBack(a, p, "money") /\ UNCHANGED moneyVars
ResubmitMoney(p) == Resubmit(p, "money") /\ UNCHANGED moneyVars
WithdrawMoney(p) == Withdraw(p, "money") /\ UNCHANGED moneyVars
LinkMoney(s) == Link(s, "money") /\ UNCHANGED moneyVars

\* The operation stays what it was.
ReviseMoney(p) ==
    /\ \E pl \in MoneyOffers :
          /\ request[p] # None => pl.op = request[p].payload.op
          /\ ValidPayload(pl)
          /\ Revise(p, "money", pl)
    /\ UNCHANGED moneyVars

-----------------------------------------------------------------------------
(* The last approval runs the operation and becomes part of its commit     *)

Runs(a, p, op) == Decides(a, p, "money") /\ request[p].payload.op = op

\* Mutant: the transition is committed first and the money posted after.
ApplyFundFirst(s, a, p) ==
    LET pl == request[p].payload
    IN  /\ Runs(a, p, "fund")
        /\ FloatFor(pl.account) \in floats
        /\ Applied(a, p)
        /\ Start(s, "post", [p |-> p])
        /\ UNCHANGED <<absVars, moneyVars>>

ApplyFund(s, a, p) ==
    LET pl == request[p].payload
    IN  /\ Runs(a, p, "fund")
        /\ FloatFor(pl.account) \in floats
        /\ Post(Fund(p, pl))
        /\ Applied(a, p)
        /\ Start(s, "link", [p |-> p])
        /\ UNCHANGED moneyVars

\* The first fund of a currency: creating the float commits, and with it the
\* transition staged before.  Of two first funds the later one loses the
\* insert, and with the rollback everything it has loaded.
ApplyFirstFund(s, a, p) ==
    LET f == FloatFor(request[p].payload.account)
    IN  /\ Runs(a, p, "fund")
        /\ f \notin floats
        /\ floats' = floats \cup {f}
        /\ Applied(a, p)
        /\ bare' = bare \cup {p}
        /\ Start(s, "post", [p |-> p])
        /\ UNCHANGED <<absVars, mirrors>>

\* Its posting, which needs money in the float by then.
PostFirstFund(s) ==
    /\ pc[s] = "post"
    /\ Post(Fund(job[s].p, request[job[s].p].payload))
    /\ Goto(s, "link")
    /\ UNCHANGED <<request, job, moneyVars>>

RefuseFirstFund(s) ==
    LET r == Fund(job[s].p, request[job[s].p].payload)
    IN  /\ pc[s] = "post"
        /\ ~(Covered(r) /\ Fits(r))
        /\ End(s)
        /\ UNCHANGED <<absVars, request, moneyVars>>

\* What to withdraw is read before the wallet is locked: all that is
\* available, or an amount that is.
ReadWithdrawal(s, a, p) ==
    LET pl == request[p].payload
        free == Available(book[pl.account])
        n == IF pl.amount = All THEN free ELSE pl.amount
    IN  /\ Runs(a, p, "withdraw")
        /\ MirrorFits(pl)
        /\ 0 < n /\ n <= free
        /\ Start(s, "withdraw", [p |-> p, admin |-> a, amount |-> n])
        /\ UNCHANGED <<absVars, request, moneyVars>>

PostWithdrawal(s) ==
    LET p == job[s].p
    IN  /\ pc[s] = "withdraw"
        /\ Post(Withdrawal(p, request[p].payload, job[s].amount))
        /\ Applied(job[s].admin, p)
        /\ Goto(s, "link")
        /\ UNCHANGED <<job, moneyVars>>

RefuseWithdrawal(s) ==
    LET p == job[s].p
    IN  /\ pc[s] = "withdraw"
        /\ ~Covered(Withdrawal(p, request[p].payload, job[s].amount))
        /\ End(s)
        /\ UNCHANGED <<absVars, request, moneyVars>>

\* Either way between a system wallet and a mirror of its currency.
ApplyAdjustment(s, a, p) ==
    LET pl == request[p].payload
    IN  /\ Runs(a, p, "adjust")
        /\ pl.account \in floats
        /\ MirrorFits(pl)
        /\ Post(Adjustment(p, pl))
        /\ Applied(a, p)
        /\ Start(s, "link", [p |-> p])
        /\ UNCHANGED moneyVars

\* uq_accounts_bank_mirror
NameTaken(m, name) ==
    \E o \in DOMAIN mirrors \ {m} : mirrors[o].name = name /\ CurrencyOf[o] = CurrencyOf[m]

\* No transaction, no second commit.
CreateBankMirror(a, p) ==
    /\ Runs(a, p, "mirror")
    /\ \E m \in Mirrors \ DOMAIN mirrors :
          /\ CurrencyOf[m] = request[p].payload.currency
          /\ ~NameTaken(m, request[p].payload.name)
          /\ mirrors' = With(mirrors, m, [name |-> request[p].payload.name, by |-> p])
    /\ Applied(a, p)
    /\ UNCHANGED <<absVars, pc, job, floats, bare>>

RenameBankMirror ==
    /\ \E m \in DOMAIN mirrors, name \in Names :
          /\ name # mirrors[m].name /\ ~NameTaken(m, name)
          /\ mirrors' = [mirrors EXCEPT ![m].name = name]
    /\ UNCHANGED <<absVars, threads, floats, bare>>

-----------------------------------------------------------------------------
MoneyNext ==
    \/ \E s \in Sessions, a \in Admins, p \in Proposals :
           \/ ApplyFund(s, a, p)
           \/ ApplyFirstFund(s, a, p)
           \/ ReadWithdrawal(s, a, p)
           \/ ApplyAdjustment(s, a, p)
    \/ \E s \in Sessions :
           \/ PostFirstFund(s)
           \/ RefuseFirstFund(s)
           \/ PostWithdrawal(s)
           \/ RefuseWithdrawal(s)
           \/ LinkMoney(s)
    \/ \E p \in Proposals :
           \/ \E a \in Admins :
                  \/ ProposeMoney(a, p)
                  \/ ApproveMoney(a, p)
                  \/ CreateBankMirror(a, p)
                  \/ RequestMoneyChanges(a, p)
           \/ ReviseMoney(p)
           \/ ResubmitMoney(p)
           \/ WithdrawMoney(p)
    \/ RenameBankMirror

-----------------------------------------------------------------------------
(* Properties                                                              *)

MoneyOperationReview ==
    [by: Admins, action: {"approved", "resubmitted"}, about: MoneyOffers]

MoneyOperationRequest ==
    [kind: {"money"}, maker: Admins, payload: MoneyOffers, target: {None},
     status: Open \cup {"APPLIED", "WITHDRAWN"}, required: {1, 2},
     reviews: Seq(MoneyOperationReview), linked: BOOLEAN, rows: {<<>>}]

Mirror == [name: Names, by: Proposals \cup {None}]

MoneyTypeOK ==
    /\ floats \subseteq Floats
    /\ DOMAIN mirrors \subseteq Mirrors /\ mirrors \in [DOMAIN mirrors -> Mirror]
    /\ bare \subseteq Proposals

\* The posting a money request stands for; a withdraw_all takes any amount.
IsItsPosting(p, pl, r) ==
    CASE pl.op = "fund"     -> r = Fund(p, pl)
      [] pl.op = "withdraw" -> LET n == r.delta[pl.mirror]
                               IN  n > 0 /\ pl.amount \in {n, All} /\ r = Withdrawal(p, pl, n)
      [] pl.op = "adjust"   -> r = Adjustment(p, pl)
      [] OTHER              -> FALSE

\* An applied request moved the money its payload says, or made its one
\* mirror; any other request did neither.  A fund that had to create the
\* float may be APPLIED without its money.
AppliedMoneyMoved ==
    \A p \in Proposals :
        LET t == txn[MoneyKey(p)]
            made == {m \in DOMAIN mirrors : mirrors[m].by = p}
            pl == request[p].payload
        IN  IF request[p] = None \/ request[p].kind # "money" \/ request[p].status # "APPLIED"
            THEN t = None /\ made = {}
            ELSE IF pl.op = "mirror"
                 THEN t = None /\ Cardinality(made) = 1
                 ELSE /\ made = {}
                      /\ t = None => p \in bare
                      /\ t # None => IsItsPosting(p, pl, t.req)

=============================================================================
