------------------------------- MODULE Flows --------------------------------
(***************************************************************************)
(* The gates of a payment: which rules each flow asks, in which order, and *)
(* what it posts (app/modules/payments, cashin, cashout, airtime,          *)
(* external).  Each gate is a read of its own; the rules may change        *)
(* between two of them, and only the user's type is read once and kept.    *)
(*                                                                         *)
(* One currency, and one base service that all flows stand on.  The        *)
(* rolling sums behind the limits, the legs of a posting with their taxes  *)
(* and the recharge it may start are the modules Payments' and Pricing's,  *)
(* the PIN check of a step-up is module Access's: here a limit is its      *)
(* maximum and an order carries the right PIN or none.                     *)
(***************************************************************************)
EXTENDS Schedules

CONSTANTS
    Orders,     \* what clients send: [key, flow, payer, payee, code, amount, pin]
    OrderKeys   \* their idempotency keys

Subscriber == {"p2p", "cash_in", "cash_out", "airtime_recharge"}
External == {"fund", "withdraw", "merchant_cashin"}
Commissioned == {"cash_in", "cash_out", "merchant_cashin"}

ASSUME FlowsAssumption ==
    /\ \A o \in Orders : /\ o.flow \in Subscriber \cup External
                         /\ o.key \in OrderKeys /\ o.code \in Variants \cup {None}

VARIABLES
    receipts,   \* per key, the flow of the transaction posted under it, or None
    \* history
    stirred     \* sessions in whose payment a rule has changed since it began

flowsVars == <<receipts, stirred>>

FlowsInit ==
    /\ receipts = [k \in OrderKeys |-> None]
    /\ stirred = {}

-----------------------------------------------------------------------------
(* The order of the gates                                                  *)

P2PGates ==
    <<"type", "code", "permission", "service", "standing", "configured", "payee", "wallets",
      "limits", "send", "receive", "step_up", "fee", "funds", "post">>

CashInGates ==
    <<"type", "code", "permission", "replay", "standing", "service", "payee", "configured",
      "wallets", "limits", "send", "step_up", "fee", "commission", "earner", "funds", "post">>

CashOutGates ==
    <<"type", "code", "permission", "replay", "standing", "service", "payee", "agent",
      "configured", "wallets", "limits", "send", "step_up", "fee", "commission", "earner",
      "funds", "post">>

AirtimeGates ==
    <<"type", "code", "permission", "replay", "standing", "service", "configured", "wallets",
      "limits", "send", "step_up", "fee", "funds", "post">>

FundGates ==
    <<"wallets", "replay", "code", "service", "type", "configured", "limits", "receive", "post">>

WithdrawGates ==
    <<"wallets", "replay", "code", "service", "type", "configured", "funds", "limits", "send",
      "post">>

MerchantGates ==
    <<"wallets", "payee", "replay", "type", "code", "service", "configured", "limits", "send",
      "fee", "commission", "earner", "funds", "post">>

Gates ==
    [p2p |-> P2PGates, cash_in |-> CashInGates, cash_out |-> CashOutGates,
     airtime_recharge |-> AirtimeGates, fund |-> FundGates, withdraw |-> WithdrawGates,
     merchant_cashin |-> MerchantGates]

-----------------------------------------------------------------------------
(* Sessions.  job is [order, gates, type, code, cap, fee, commission,      *)
(* parent, pays]: the gates to come and what the ones passed have found.   *)

\* Whose type, limits and price apply: the funded user's for a fund.
Judged(o) == IF o.flow = "fund" THEN o.payee ELSE o.payer
Earner(o) == IF o.flow = "cash_out" THEN o.payee ELSE o.payer
Parties(o) == {o.payer, o.payee} \ {None}

Paying == {s \in Sessions : pc[s] = "pay"}

Send(s) ==
    /\ Request(s, "pay")
    /\ \E o \in Orders :
          /\ \A u \in Parties(o) : typeOf[u] # None
          /\ Work(s, "pay", [order |-> o, gates |-> Gates[o.flow], type |-> None, code |-> None,
                             cap |-> None, fee |-> 0, commission |-> 0, parent |-> 0,
                             pays |-> "main"])
    /\ stirred' = stirred \ {s}
    /\ UNCHANGED <<receipts, catalogueVars, servicesVars, schedulesVars>>

At(s, gate) == pc[s] = "pay" /\ Head(job[s].gates) = gate

\* A gate that is passed leaves j behind, one that is not ends the request.
Turn(s, gate, passed, j) ==
    /\ At(s, gate)
    /\ IF passed THEN Work(s, "pay", [j EXCEPT !.gates = Tail(@)]) ELSE End(s)
    /\ UNCHANGED <<left, flowsVars, catalogueVars, servicesVars, schedulesVars>>

Ask(s, gate, passed) == Turn(s, gate, passed, job[s])

-----------------------------------------------------------------------------
(* Who pays for what                                                       *)

\* resolve_user_type; the session keeps the answer.
ReadType(s) == Turn(s, "type", TRUE, [job[s] EXCEPT !.type = typeOf[Judged(job[s].order)]])

\* fund and withdraw come here before the type is read, and name no caller.
ResolveService(s) ==
    LET j == job[s]
        code == IF j.order.code = None THEN Base ELSE j.order.code
    IN  Turn(s, "code", Resolves(code, j.type), [j EXCEPT !.code = code])

RolesOf(u) == {r \in Roles : <<u, r>> \in holders}

RequirePermission(s) ==
    Ask(s, "permission", Permits(RolesOf(job[s].order.payer), job[s].code))

\* A key already posted under: the cash flows take any transaction for
\* theirs, a recharge looks for its own row, and the external flows refuse a
\* transaction of another flow.  Each of them answers, and ends.
FindExisting(s) ==
    LET o == job[s].order
        found == receipts[o.key]
    IN  Ask(s, "replay", found = None \/ (o.flow = "airtime_recharge" /\ found # o.flow))

\* The user's status is the client's, in module Access.
CheckStanding(s, active) == Ask(s, "standing", active)

CheckService(s) == Ask(s, "service", Allows(job[s].code, job[s].type))

CheckPayee(s) == Ask(s, "payee", job[s].order.payer # job[s].order.payee)

\* Cash is paid out by retail users, of a retired type too.
CheckAgent(s) ==
    LET type == typeOf[job[s].order.payee]
    IN  Ask(s, "agent", types[type].status # "absent" /\ Category[type] = "retail")

\* Mutant: a price alone configures a service.
ConfiguredByPrice(code, type) == PricingExists(code, type)

Configured(code, type) == PricingExists(code, type) /\ LimitExists(code, type)

CheckConfigured(s) == Ask(s, "configured", Configured(job[s].code, job[s].type))

WalletsThere(o) == \A u \in Parties(o) : <<u, "main", Currency>> \in wallets

FindWallets(s) == Ask(s, "wallets", WalletsThere(job[s].order))

-----------------------------------------------------------------------------
(* How much                                                                *)

\* No row, no bound.
Within(row, n) == row # None => n <= row.terms

CheckLimits(s) ==
    LET j == job[s] IN Ask(s, "limits", Within(FindLimit(j.code, j.type), j.order.amount))

\* The session keeps the row for the checks of that type to come.
CheckSend(s) ==
    LET j == job[s]
        row == FindWalletLimit(j.type)
    IN  Turn(s, "send", Within(row, j.order.amount), [j EXCEPT !.cap = row])

CheckReceive(s) ==
    LET j == job[s]
        o == j.order
        known == o.flow = "p2p" /\ typeOf[o.payee] = j.type
        row == IF known THEN j.cap ELSE FindWalletLimit(typeOf[o.payee])
    IN  Ask(s, "receive", Within(row, o.amount))

\* The policy is that of the flow, whichever service derives from it.
Trusted(n) ==
    LET policy == FindPolicy(Base) IN policy # None /\ n <= policy.terms

EnforceStepUp(s) ==
    LET o == job[s].order IN Ask(s, "step_up", o.pin \/ Trusted(o.amount))

-----------------------------------------------------------------------------
(* What it costs and earns                                                 *)

Priced(code, type, n) == FindPricing(code, type, n) # None
Fee(code, type, n) == FindPricing(code, type, n).terms

ResolveFee(s) ==
    LET j == job[s]
        priced == Priced(j.code, j.type, j.order.amount)
    IN  Turn(s, "fee", priced,
             [j EXCEPT !.fee = IF priced THEN Fee(j.code, j.type, j.order.amount) ELSE 0])

\* The parent's share falls away with the parent, the type or the wallet.
ParentPaid(u, pays) ==
    LET p == superior[u]
    IN  p # None /\ Eligible(typeOf[p]) /\ <<p, pays, Currency>> \in wallets

Commission(code, u, n) ==
    LET band == FindCommission(code, typeOf[u], n)
    IN  IF band = None
        THEN [own |-> 0, parent |-> 0, pays |-> "main"]
        ELSE [own |-> band.terms, pays |-> band.pays,
              parent |-> IF ParentPaid(u, band.pays) THEN band.parent ELSE 0]

CalculateCommission(s) ==
    LET j == job[s]
        c == Commission(j.code, Earner(j.order), j.order.amount)
    IN  Turn(s, "commission", TRUE,
             [j EXCEPT !.commission = c.own, !.parent = c.parent, !.pays = c.pays])

ResolveEarner(s) ==
    LET j == job[s]
    IN  Ask(s, "earner", j.commission > 0 => <<Earner(j.order), j.pays, Currency>> \in wallets)

\* The balance is the ledger's.
CheckFunds(s) == \E covered \in BOOLEAN : Ask(s, "funds", covered)

\* post_transaction gives a key's transaction back, whichever flow it is of;
\* with a new one, the ledger may still refuse.
Post(s) ==
    LET o == job[s].order
    IN  /\ At(s, "post")
        /\ \/ /\ receipts[o.key] = None
              /\ receipts' = [receipts EXCEPT ![o.key] = o.flow]
           \/ UNCHANGED receipts
        /\ End(s)
        /\ UNCHANGED <<left, stirred, catalogueVars, servicesVars, schedulesVars>>

FlowsNext(active) ==
    \E s \in Sessions :
        \/ Send(s)
        \/ ReadType(s)
        \/ ResolveService(s)
        \/ RequirePermission(s)
        \/ FindExisting(s)
        \/ CheckStanding(s, active)
        \/ CheckService(s)
        \/ CheckPayee(s)
        \/ CheckAgent(s)
        \/ CheckConfigured(s)
        \/ FindWallets(s)
        \/ CheckLimits(s)
        \/ CheckSend(s)
        \/ CheckReceive(s)
        \/ EnforceStepUp(s)
        \/ ResolveFee(s)
        \/ CalculateCommission(s)
        \/ ResolveEarner(s)
        \/ CheckFunds(s)
        \/ Post(s)

-----------------------------------------------------------------------------
(* Properties                                                              *)

\* What the tenant's rows say of a payment, all at once and not gate by gate.
Entitled(j) ==
    LET o == j.order
    IN  /\ o.flow \in Subscriber => Permits(RolesOf(o.payer), j.code)
        /\ IF o.flow \in {"fund", "withdraw"} THEN Resolves(j.code, None)
                                             ELSE Admits(j.code, typeOf[o.payer])
        /\ o.flow \in {"p2p"} \cup Commissioned => o.payer # o.payee
        /\ o.flow = "cash_out" => Category[typeOf[o.payee]] = "retail"
        /\ WalletsThere(o)

Affordable(j) ==
    LET o == j.order
        type == typeOf[Judged(o)]
        limit == FindLimit(j.code, type)
    IN  /\ For("pricing", j.code, type) # {} /\ limit # None /\ o.amount <= limit.terms
        /\ o.flow # "fund" => Within(FindWalletLimit(type), o.amount)
        /\ o.flow \in {"p2p", "fund"} => Within(FindWalletLimit(typeOf[o.payee]), o.amount)
        /\ o.flow \in Subscriber /\ ~o.pin => Trusted(o.amount)

Charged(j) ==
    LET o == j.order
        c == Commission(j.code, Earner(o), o.amount)
    IN  /\ o.flow \notin {"fund", "withdraw"} => j.fee = Fee(j.code, typeOf[o.payer], o.amount)
        /\ o.flow \in Commissioned =>
              /\ <<j.commission, j.parent, j.pays>> = <<c.own, c.parent, c.pays>>
              /\ c.own > 0 => <<Earner(o), c.pays, Currency>> \in wallets
              /\ c.parent > 0 => <<superior[Earner(o)], c.pays, Currency>> \in wallets

\* Each flow asks for all that governs it, in its own order, and charges what
\* the rows say for the user's type (payments/service.py:182,
\* cashin/service.py:154, external/service.py:335): when no rule has changed
\* under a payment, what it is about to post is what the rules allow.  Without
\* a policy Affordable wants the PIN, as step_up/service.py:62-67 has it and the
\* comment at payments/service.py:313 ("No-op when no policy exists") has not.
PaymentsGoverned ==
    \A s \in Sessions :
        At(s, "post") /\ s \notin stirred => Entitled(job[s]) /\ Affordable(job[s]) /\ Charged(job[s])

=============================================================================
