------------------------------ MODULE MCLedger ------------------------------
(***************************************************************************)
(* Small instances of Ledger and LedgerLocks.  Accounts 1 and 2 are two    *)
(* users' main wallets, 3 is the commission wallet of the first, 4 stands  *)
(* for the accounts no guard protects (merchant holding, fee and pool      *)
(* accounts).                                                              *)
(***************************************************************************)
EXTENDS LedgerLocks, TLC

CONSTANTS K1, K2, K3, K4

MCAccounts == 1..4
MCGuarded == {1, 2, 3}
MCCapped == {1, 2}
MCCap == [a \in MCCapped |-> IF a = 1 THEN 5 ELSE 3]
Uncapped == [a \in MCCapped |-> None]
MCOpening == <<4, 1, 3, -8>>

Req(k, d, status, exempt, trigger) ==
    [key |-> k, delta |-> d, status |-> status, exempt |-> exempt, trigger |-> trigger]

\* Two opposite transfers (the first with a fee), an airtime reservation, a
\* commission payout with a fee, which is exempt from the ceiling, and the key
\* of the first transfer with a body that forgets its fee leg.
MCRequests ==
    {Req(K1, <<-3, 2, 0, 1>>, "COMPLETED", FALSE, TRUE),
     Req(K2, <<2, -2, 0, 0>>, "COMPLETED", FALSE, FALSE),
     Req(K3, <<-2, 0, 0, 2>>, "PENDING", FALSE, TRUE),
     Req(K4, <<0, 2, -3, 1>>, "COMPLETED", TRUE, FALSE),
     Req(K1, <<-3, 2, 0, 0>>, "COMPLETED", FALSE, FALSE)}

\* A cash-in by the agent (1), which also credits the commission wallet, and
\* the payout of that wallet to the agent's main wallet.
CommissionRequests ==
    {Req(K1, <<-2, 2, 1, -1>>, "COMPLETED", FALSE, FALSE),
     Req(K2, <<1, 0, -1, 0>>, "COMPLETED", TRUE, FALSE)}

\* Two opposite transfers, the first with a fee.
TransferRequests ==
    {Req(K1, <<-2, 1, 0, 1>>, "COMPLETED", FALSE, FALSE),
     Req(K2, <<1, -1, 0, 0>>, "COMPLETED", FALSE, FALSE)}

\* The commission requests, and a transfer from the customer to the agent in
\* the place of the payout (under its key).
CrossingRequests ==
    CommissionRequests \cup {Req(K2, <<1, -1, 0, 0>>, "COMPLETED", FALSE, FALSE)}

HandlerSymmetry == Permutations(Handlers)

=============================================================================
