------------------------------ MODULE MCTenant ------------------------------
(***************************************************************************)
(* Two sessions; each behaviour is given the requests of one scenario.     *)
(***************************************************************************)
EXTENDS Tenant, TLC

CONSTANTS Consumer, Super, T1, T2, T3, p1, p2, c1, p2p, gift, teller, guest, k1, k2

MCTypes == {Consumer, Super, T1, T2, T3}
\* Two system types, and two of the tenant's own, one under the other.
MCSeeded == Consumer :> None @@ Super :> None @@ T1 :> None @@ T2 :> T1
MCCategory == [t \in MCTypes |-> IF t = Consumer THEN "consumer" ELSE "retail"]

\* A retail user pays, a retail user above him is paid; one of his two roles
\* lets him.
MCEnrolled == p1 :> T2 @@ p2 :> T1
MCSuperiors == p1 :> p2 @@ p2 :> None
MCStaff == {p1, p2} \X {teller, guest}
MCDefaultRole == [t \in MCTypes |-> IF t = Consumer THEN teller ELSE None]
MCSeasoned == {<<teller, p2p>>}

Order(flow, payer, payee, amount) ==
    [key |-> k1, flow |-> flow, payer |-> payer, payee |-> payee, code |-> None,
     amount |-> amount, pin |-> FALSE]

\* Above one, a payment takes the PIN, and an agent earns.
MCOrders ==
    {Order(flow, p1, p2, n) : flow \in {"p2p", "cash_in", "cash_out", "merchant_cashin"}, n \in 1..2}
    \cup {Order("airtime_recharge", p1, None, 1), Order("withdraw", p1, None, 1),
          Order("fund", None, p1, 1), [Order("cash_out", p1, p2, 2) EXCEPT !.pin = TRUE],
          [Order("p2p", p1, p2, 2) EXCEPT !.code = gift, !.pin = TRUE]}

Row(kind, code, type, from, to, terms) ==
    [kind |-> kind, code |-> code, type |-> type, from |-> from, to |-> to, terms |-> terms,
     parent |-> 0, pays |-> None]

Band(code, type, from, to, terms) == Row("pricing", code, type, from, to, terms)
Share(from, to, own, parent, pays) ==
    [Row("commission", p2p, T2, from, to, own) EXCEPT !.parent = parent, !.pays = pays]

MCBooked ==
    {Band(p2p, None, 0, None, 1), Band(gift, None, None, None, 0),
     Row("limit", p2p, None, None, None, 2), Row("limit", gift, None, None, None, 2),
     Row("wallet_limit", None, None, None, None, 2), Share(1, None, 1, 1, "commission"),
     Row("tax", None, None, None, None, 1), Row("step_up", p2p, None, None, None, 1),
     Row("rate", None, None, None, None, 1)}

Singles ==
    {<<Row("limit", p2p, T2, None, None, 1)>>, <<Row("limit", p2p, None, None, None, 1)>>,
     <<Row("wallet_limit", None, T1, None, None, 1)>>,
     <<Row("wallet_limit", None, None, None, None, 1)>>,
     <<Row("tax", None, None, None, None, 2)>>, <<Row("step_up", p2p, None, None, None, 2)>>,
     <<Row("rate", None, None, None, None, 2)>>}

Banding ==
    {<<Band(p2p, None, 0, 1, 1), Band(p2p, None, 2, None, 2)>>, <<Band(p2p, T2, 1, 2, 0)>>,
     <<Band(p2p, T2, 2, 3, 0), Band(p2p, T2, 0, 2, 1)>>,
     <<Band(p2p, T2, None, 2, 1), Band(p2p, T2, 0, 1, 0)>>,
     <<Share(1, 1, 1, 0, "main"), Share(2, None, 2, 1, "commission")>>}

MCPlans ==
    {[op |-> op, rows |-> rs] : op \in {"create", "update"}, rs \in Singles \cup Banding}
    \cup {[op |-> "delete", rows |-> <<r>>] : r \in MCBooked}

NoBudget ==
    [kind \in {"otp", "verify", "set", "login", "stepup", "change", "use", "logout", "level",
               "clear", "type", "person", "retype", "update", "account", "coin", "coinedit",
               "service", "permission", "role", "save", "config", "pay"} |-> 0]

MCBudgets ==
    {\* one more password than an hour allows
     "otp" :> 3 @@ NoBudget,
     \* registration, twice over
     "otp" :> 2 @@ "verify" :> 3 @@ "set" :> 2 @@ NoBudget,
     \* wrong PINs on every path, with an unlock
     "login" :> 3 @@ "stepup" :> 1 @@ "clear" :> 1 @@ NoBudget,
     \* sessions against a login lock
     "login" :> 2 @@ "use" :> 1 @@ "logout" :> 1 @@ "level" :> 1 @@ NoBudget,
     "login" :> 2 @@ "use" :> 1 @@ "level" :> 2 @@ NoBudget,
     \* a paid change and its retries
     "change" :> 3 @@ "level" :> 1 @@ NoBudget,
     \* edits of the type tree
     "type" :> 3 @@ NoBudget,
     \* users, their types and the instruments
     "person" :> 1 @@ "retype" :> 1 @@ "coin" :> 1 @@ "coinedit" :> 1 @@ NoBudget,
     "retype" :> 1 @@ "update" :> 1 @@ "coin" :> 1 @@ "coinedit" :> 1 @@ NoBudget,
     "person" :> 1 @@ "coin" :> 2 @@ "coinedit" :> 1 @@ "account" :> 1 @@ NoBudget,
     \* users under their supervisors
     "retype" :> 1 @@ "update" :> 1 @@ "type" :> 1 @@ NoBudget,
     "retype" :> 2 @@ "update" :> 1 @@ NoBudget,
     \* a tenant saved again
     "person" :> 1 @@ "role" :> 1 @@ "save" :> 1 @@ "coinedit" :> 1 @@ NoBudget,
     "permission" :> 1 @@ "role" :> 1 @@ "save" :> 2 @@ NoBudget,
     \* services and roles
     "service" :> 3 @@ "permission" :> 3 @@ NoBudget,
     \* the schedules alone
     "config" :> 3 @@ NoBudget,
     \* a payment while a rule changes
     "pay" :> 1 @@ "config" :> 1 @@ NoBudget,
     "pay" :> 1 @@ "service" :> 2 @@ NoBudget,
     "pay" :> 1 @@ "permission" :> 1 @@ NoBudget,
     "pay" :> 1 @@ "type" :> 1 @@ NoBudget,
     "pay" :> 1 @@ "retype" :> 1 @@ NoBudget,
     "pay" :> 1 @@ "role" :> 1 @@ NoBudget,
     "pay" :> 1 @@ "update" :> 1 @@ "level" :> 1 @@ NoBudget,
     \* two payments under one key
     "pay" :> 2 @@ NoBudget}

\* Sessions do the same work, and no step chooses among them.
MCSymmetry == Permutations(Sessions)

=============================================================================
