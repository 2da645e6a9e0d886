----------------------------- MODULE MCPayments -----------------------------
(***************************************************************************)
(* Two wallets, an agent's among them with his commission wallet, and one  *)
(* order of each shape: two transfers, a recharge, a fund, a cash-in and a *)
(* cash-out that pay commission, one to that wallet and one, with a tax    *)
(* within it, to the main, and a cash-out whose inclusive fee exceeds its  *)
(* principal.                                                              *)
(***************************************************************************)
EXTENDS Payments, TLC

CONSTANTS Pay, PayAgain, Top, Fund, CashIn, CashOut, Draw, Alice, Agent

MCAlice == 1
MCAgent == 2
MCSystem == 3   \* cash inflow and merchant holding
MCFees == 4     \* fees, taxes and the commission pool
MCEarned == 5   \* the agent's commission wallet
MCAccounts == 1..5
MCGuarded == {MCAlice, MCAgent, MCEarned}
MCCapped == {MCAlice, MCAgent}
MCCap == [a \in MCCapped |-> None]
MCOpening == <<4, 2, -6, 0, 0>>
MCOwner == <<Alice, Agent, None, None, Agent>>
MCCommissionWallets == {MCEarned}

MCOrder(kind, payer, payee, amount, earner) ==
    [kind |-> kind, payer |-> payer, payee |-> payee, amount |-> amount, earner |-> earner]

MCOrders ==
    Pay :> MCOrder("p2p", MCAlice, MCAgent, 2, None)
        @@ PayAgain :> MCOrder("p2p", MCAlice, MCAgent, 1, None)
        @@ Top :> MCOrder("airtime_recharge", MCAlice, MCSystem, 2, None)
        @@ Fund :> MCOrder("fund", MCSystem, MCAgent, 2, None)
        @@ CashIn :> MCOrder("cash_in", MCAgent, MCAlice, 2, MCEarned)
        @@ CashOut :> MCOrder("cashout", MCAlice, MCAgent, 1, MCAgent)
        @@ Draw :> MCOrder("cashout", MCAlice, MCAgent, 3, MCAgent)

MCBand(fixed) == [fixed |-> fixed, rate |-> P!Free, cap |-> None]

MCPlain(fee, commission, inclusive) ==
    [fee |-> MCBand(fee), commission |-> MCBand(commission), parent |-> MCBand(0),
     feeTax |-> P!Free, commissionTax |-> P!Free,
     flags |-> [fee |-> inclusive, feeTax |-> FALSE, commissionTax |-> FALSE]]

MCTariff ==
    [kind \in Kinds |->
        CASE kind = "p2p" -> MCPlain(1, 0, FALSE)
          [] kind = "cash_in" -> MCPlain(0, 1, FALSE)
          [] kind = "cashout" ->
                 [MCPlain(2, 2, TRUE) EXCEPT !.commissionTax = [num |-> 1, den |-> 2],
                                             !.flags.commissionTax = TRUE]
          [] OTHER -> MCPlain(0, 0, FALSE)]

MCFree == [count |-> None, value |-> None]

\* The second transfer breaks the service's cap, a transfer and the recharge
\* the sender's, a transfer and the fund the receiver's.
MCSendCap == [count |-> None, value |-> 3]
MCReceiveCap == [count |-> 1, value |-> None]
MCServiceCap == [kind \in Kinds |-> IF kind = "p2p" THEN [count |-> 1, value |-> None] ELSE MCFree]

MCRequests == {Posting(k) : k \in Keys}

MCSymmetry == Permutations(Sessions)

=============================================================================
