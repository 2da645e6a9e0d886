------------------------------ MODULE Pricing ------------------------------
(***************************************************************************)
(* What a payment costs and which legs its posting has: the fee and        *)
(* commission bands (app/modules/pricing/service.py, app/modules/          *)
(* commissions/service.py), the tax on both (app/modules/taxes/service.py) *)
(* and the charge assembler (app/modules/pricing/assembler.py).  Amounts   *)
(* are integers, in units of the sixth decimal; rates are fractions        *)
(* [num, den].                                                             *)
(***************************************************************************)
EXTENDS Integers

CONSTANT None   \* no cap, no account

Free == [num |-> 0, den |-> 1]

\* n times the rate, quantized HALF_UP.
Portion(rate, n) == (2 * rate.num * n + rate.den) \div (2 * rate.den)

\* A band [fixed, rate, cap]: the cap bounds the variable part only.
BandAmount(band, n) ==
    band.fixed + IF band.cap # None /\ band.rate.num * n > band.cap * band.rate.den
                 THEN band.cap
                 ELSE Portion(band.rate, n)

-----------------------------------------------------------------------------
(* The charge assembler.  m has the amounts [principal, fee, commission,   *)
(* parent, feeTax, commissionTax, parentTax], f the flags [fee, feeTax,    *)
(* commissionTax], TRUE for inclusive.  The result is what each leg moves, *)
(* debits negative; 0 stands for a leg that is left out.                   *)

Roles == {"payer", "payee", "fee", "serviceTax", "pool", "earner", "parent", "commissionTax"}

\* The ledger forbids a leg that moves nothing or less.
Leg(n) == IF n > 0 THEN n ELSE 0

\* A tax comes on top of its base, or out of it.
OnTop(inclusive, tax) == IF inclusive THEN 0 ELSE tax
Within(inclusive, tax) == IF inclusive THEN tax ELSE 0

\* A parent leg needs an account to pay and something to pay it.
ParentPaid(m, hasParent) == hasParent /\ m.parent > 0

Charges(m, f, hasParent) ==
    LET feeOnTop == OnTop(f.feeTax, m.feeTax)
        taxOn(tax) == OnTop(f.commissionTax, tax)
        taxIn(tax) == Within(f.commissionTax, tax)
        parent(n) == IF ParentPaid(m, hasParent) THEN Leg(n) ELSE 0
    IN  [payer |-> -Leg(IF f.fee THEN m.principal ELSE m.principal + m.fee + feeOnTop),
         payee |-> Leg(IF f.fee THEN m.principal - m.fee - feeOnTop ELSE m.principal),
         fee |-> Leg(m.fee - Within(f.feeTax, m.feeTax)),
         serviceTax |-> Leg(m.feeTax),
         pool |-> -(Leg(m.commission + taxOn(m.commissionTax)) + parent(m.parent + taxOn(m.parentTax))),
         earner |-> Leg(m.commission - taxIn(m.commissionTax)),
         parent |-> parent(m.parent - taxIn(m.parentTax)),
         commissionTax |-> Leg(m.commissionTax) + parent(m.parentTax)]

Total(c) == c.payer + c.payee + c.fee + c.serviceTax + c.pool + c.earner + c.parent + c.commissionTax

-----------------------------------------------------------------------------
(* A tariff: the bands, tax rates and flags that resolve for one service.  *)

Amounts(t, n) ==
    LET fee == BandAmount(t.fee, n)
        commission == BandAmount(t.commission, n)
        parent == BandAmount(t.parent, n)
    IN  [principal |-> n, fee |-> fee, commission |-> commission, parent |-> parent,
         feeTax |-> Portion(t.feeTax, fee), commissionTax |-> Portion(t.commissionTax, commission),
         parentTax |-> Portion(t.commissionTax, parent)]

=============================================================================
