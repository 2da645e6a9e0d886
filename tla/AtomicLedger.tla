---------------------------- MODULE AtomicLedger ----------------------------
(***************************************************************************)
(* What the ledger promises its callers: a posting and a settlement are    *)
(* single indivisible steps, an idempotency key is spent once, and no      *)
(* guarded account is ever overdrawn.  Ledger.tla, where the same work is  *)
(* a sequence of database statements of concurrent sessions, implements    *)
(* this specification.                                                     *)
(***************************************************************************)
EXTENDS LedgerData

VARIABLES
    txn,    \* the transaction committed under each key, with its status
    book    \* per account, the sums over its ledger entries

absVars == <<txn, book>>

AbsInit ==
    /\ txn = [k \in Keys |-> None]
    /\ book = [a \in Accounts |-> [bal |-> Opening[a], res |-> 0]]

Move(d(_)) == book' = [a \in Accounts |-> Plus(book[a], d(a))]

\* A posting spends an unused key, and a guarded account it debits has the
\* funds at the very moment the money moves.
AbsPost(r) ==
    /\ txn[r.key] = None
    /\ Balanced(r)
    /\ \A a \in Guarded :
           r.delta[a] < 0 => Available(book[a]) + r.delta[a] >= 0
    /\ txn' = [txn EXCEPT ![r.key] = [req |-> r, status |-> r.status]]
    /\ Move(LAMBDA a : EntryDelta(r, a))

\* A reservation is settled or reversed once.
AbsSettle(k, to) ==
    /\ txn[k] # None
    /\ txn[k].status = "PENDING"
    /\ txn' = [txn EXCEPT ![k].status = to]
    /\ Move(LAMBDA a : FlipDelta(txn[k].req, to, a))

AbsNext ==
    \/ \E r \in Requests : AbsPost(r)
    \/ \E k \in Keys, to \in {"COMPLETED", "REVERSED"} : AbsSettle(k, to)

AbsSpec == AbsInit /\ [][AbsNext]_absVars

=============================================================================
