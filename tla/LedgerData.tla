----------------------------- MODULE LedgerData -----------------------------
(***************************************************************************)
(* The data of the double-entry ledger: accounts, posting requests, and    *)
(* the arithmetic that turns a request into balance movements.             *)
(*                                                                         *)
(* A request carries, per account, the NET of its legs (CREDIT positive,   *)
(* DEBIT negative): every computation of app/modules/ledger that reads the *)
(* legs accumulates them per account first.  Accounts are numbered in      *)
(* account-id order, the order the code sorts them in.                     *)
(***************************************************************************)
EXTENDS Integers, FiniteSets, FiniteSetsExt, Functions

CONSTANTS
    Accounts,   \* account ids of one tenant and currency
    Guarded,    \* accounts of _OVERDRAFT_GUARDED_ACCOUNT_TYPES
    Capped,     \* owned accounts of _CEILING_GUARDED_ACCOUNT_TYPES
    Cap,        \* the owner's max_balance, None when none is configured
    Keys,       \* idempotency keys of the tenant
    Requests,   \* the PostTransactionRequests callers may send
    Opening,    \* balances carried by transactions older than the model
    None        \* no transaction, no row, no holder

Statuses == {"PENDING", "COMPLETED", "REVERSED"}

Request ==
    [key: Keys, delta: [Accounts -> Int], status: {"PENDING", "COMPLETED"},
     exempt: BOOLEAN, trigger: BOOLEAN]

\* A snapshot row, or the pair the two SUMs of sum_from_ledger return.
Row == [bal: Int, res: Int]

\* A committed transaction, and what a session has been asked to do.
TxnRow == [req: Requests, status: Statuses]
Job == [kind: {"post", "settle"}, req: Requests, to: Statuses]

ASSUME DataAssumption ==
    /\ Accounts \subseteq Nat
    /\ IsFiniteSet(Accounts) /\ IsFiniteSet(Keys)
    /\ Capped \subseteq Guarded
    /\ Guarded \subseteq Accounts
    /\ Cap \in [Capped -> Nat \cup {None}]
    /\ Requests \subseteq Request
    /\ Opening \in [Accounts -> Int]
    /\ \A a \in Guarded : Opening[a] >= 0
    /\ \A a \in Capped : Cap[a] # None => Opening[a] <= Cap[a]
    /\ None \notin Row \cup TxnRow \cup Job \cup Nat

\* Only airtime posts PENDING, and it debits a guarded wallet and credits
\* merchant holding and fee accounts, which no guard protects.
ASSUME PendingAssumption ==
    \A r \in Requests :
        r.status = "PENDING" => \A a \in Guarded : r.delta[a] <= 0

Legs(r) == {a \in Accounts : r.delta[a] # 0}

\* Credits equal debits and are not zero.
Balanced(r) ==
    /\ SumFunction(r.delta) = 0
    /\ Legs(r) # {}

Zero == [bal |-> 0, res |-> 0]
Plus(row, d) == [bal |-> row.bal + d.bal, res |-> row.res + d.res]

\* Deltas of a new transaction's entries: COMPLETED entries move the balance,
\* PENDING ones the reservation (a pending DEBIT raises the amount held).
EntryDelta(r, a) ==
    [bal |-> IF r.status = "COMPLETED" THEN r.delta[a] ELSE 0,
     res |-> IF r.status = "PENDING" THEN -r.delta[a] ELSE 0]

\* Mutant: reversing leaves the hold in place.
FlipDeltaKeepsHold(r, to, a) ==
    [bal |-> IF to = "COMPLETED" THEN r.delta[a] ELSE 0,
     res |-> IF to = "COMPLETED" THEN r.delta[a] ELSE 0]

\* Deltas of flipping a PENDING transaction's entries to a final status:
\* the hold is released, and settling also realises the money.
FlipDelta(r, to, a) ==
    [bal |-> IF to = "COMPLETED" THEN r.delta[a] ELSE 0,
     res |-> r.delta[a]]

Available(row) == row.bal - row.res

=============================================================================
