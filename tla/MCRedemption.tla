---------------------------- MODULE MCRedemption ----------------------------
(***************************************************************************)
(* One user with 4 points and two redemptions to make, of 3 and 2 points.  *)
(***************************************************************************)
EXTENDS Redemption, TLC

CONSTANTS K1, K2, O1, O2, O3

MCPoints == 1
MCSink == 2
MCCashback == 3
MCWallet == 4
MCAccounts == 1..4
MCGuarded == {MCCashback, MCWallet}
MCCapped == {MCWallet}
MCCap == [a \in MCCapped |-> 4]
MCOpening == <<4, -4, 2, 0>>
MCAmount == [k \in ClientKeys |-> IF k = K1 THEN 3 ELSE 2]

\* One point a unit; a dearer rate with both caps, at which 2 points are worth
\* one unit after rounding; and one at which they round to nothing.
MCRates ==
    {[points |-> 1, value |-> 1, maxPoints |-> None, maxPct |-> None],
     [points |-> 3, value |-> 1, maxPoints |-> 3, maxPct |-> 50],
     [points |-> 7, value |-> 1, maxPoints |-> None, maxPct |-> None]}

\* A rate at which no quote is rounded and no cap bites.
MCOneRate == {[points |-> 1, value |-> 1, maxPoints |-> None, maxPct |-> None]}

\* A treasury top-up of the cashback wallet from its mirror (the sink stands
\* for it), a cashback reward to another user, and points earned.
MCOthers ==
    {Transfer(O1, MCSink, MCCashback, 2, FALSE),
     Transfer(O2, MCCashback, MCSink, 1, TRUE),
     Transfer(O3, MCSink, MCPoints, 1, FALSE)}

RedeemerSymmetry == Permutations(Redeemers)

MCKeys == (ClientKeys \X {"burn", "payout", "unwind"}) \cup {O1, O2, O3}

MCRequests ==
    MCOthers
        \cup {BurnRequest(k) : k \in ClientKeys}
        \cup {UnwindRequest(k) : k \in ClientKeys}
        \cup {PayoutRequest(k, rt) : k \in ClientKeys, rt \in Rates}

=============================================================================
