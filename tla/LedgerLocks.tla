----------------------------- MODULE LedgerLocks -----------------------------
(***************************************************************************)
(* Who waits for whom in Ledger, deadlocks among the waiting sessions, and *)
(* the fairness under which every request ends.                            *)
(***************************************************************************)
EXTENDS Ledger

Others(S, p) == S \ {None, p}

\* The statements p may issue next, each as the set of sessions it waits for:
\* a statement whose set is empty can run.
Waits(p) ==
    LET r == job[p].req
        toLock == NeedsLock(r) \ Held(p)
    IN  CASE pc[p] = "guard" /\ toLock # {} ->
                 {Others({forUpdate[a]} \cup keyShare[a], p) :
                      a \in {b \in toLock : IsFirst(b, toLock)}}
          [] pc[p] = "guard" /\ toLock = {} /\ NeedsLock(r) \subseteq checked[p] ->
                 {Others({inflight[r.key]}, p)}
          [] pc[p] = "write" /\ ~EntriesWritten(p) ->
                 {Others({forUpdate[a]}, p) : a \in Unshared(p)}
          [] \/ pc[p] = "seed"
             \/ pc[p] = "write" /\ EntriesWritten(p) /\ Unapplied(p) # {} ->
                 {Others(IF pc[p] = "write" /\ snap[a] = None THEN {} ELSE {rowLock[a]}, p) :
                      a \in {b \in Unapplied(p) : IsFirst(b, Unapplied(p))}}
          [] pc[p] = "sweep" /\ ~(InBatch(p) \subseteq Written(p)) ->
                 {Others({rowLock[a]}, p) : a \in InBatch(p) \ Written(p)}
          [] OTHER -> {{}}

\* Every statement any member of D could issue waits for a member of D.
Deadlocked(D) ==
    /\ D # {}
    /\ \A p \in D : \A W \in Waits(p) : W \cap D # {}

\* Lock waits never form a cycle: _enforce_balance_guard locks every account
\* in id order before it reads a balance, because "inverse-order locking of
\* two wallets is the only way concurrent transactions could deadlock here".
NoDeadlock == \A D \in SUBSET Sessions : ~Deadlocked(D)

\* What the guard's order does give: sessions that wait for each other in a
\* cycle include one that locks outside that order, either a posting past its
\* guard that inserts an entry on a guarded account it has not locked (a
\* credit without a ceiling), or a sweep that marks several snapshot rows.
\* Opposite transfers, unguarded accounts and settlements close no cycle alone.
DeadlockNeedsUnorderedLocks ==
    \A D \in SUBSET Sessions : Deadlocked(D) =>
        \E p \in D :
            \/ /\ pc[p] = "write" /\ job[p].kind = "post"
               /\ \E a \in Unshared(p) \cap Guarded : a \notin NeedsLock(job[p].req)
            \/ pc[p] = "sweep" /\ Cardinality(InBatch(p)) > 1

\* Postgres aborts one session of a deadlock.
DeadlockVictim(p) ==
    /\ \E D \in SUBSET Sessions : p \in D /\ Deadlocked(D)
    /\ Rollback(p)

\* An exception raised in a handler reaches the end of its session.
RaisedRollback(p) ==
    /\ pc[p] \in {"rejected", "integrity_error"}
    /\ Rollback(p)

\* A session that is not waiting runs, and a lock that keeps coming free is
\* eventually granted to each waiter (the database queues them).  Nothing
\* makes a client send a request, a provider answer, or a process die.
FairSpec ==
    /\ Spec
    /\ \A p \in Handlers : SF_vars(HandlerStep(p))
    /\ \A p \in Sweepers : SF_vars(SweeperStep(p))
    /\ \A p \in Sessions : WF_vars(RaisedRollback(p)) /\ WF_vars(DeadlockVictim(p))

\* Every request, settlement and sweep ends: nobody waits for ever for a lock
\* whose holder neither ends nor is a victim.
EveryRequestEnds == \A p \in Sessions : ~Idle(p) ~> Idle(p)

-----------------------------------------------------------------------------
(* What the docstrings say of the ledger and its statements, interleaved   *)
(* with another session's, do not do.  NoDeadlock above is a third.        *)

\* post_transaction: "if a transaction with the same `(tenant_id,
\* idempotency_key)` already exists, that existing transaction is returned".
\* A session that loses the race for a key is answered with the winner's
\* transaction, never with the database's uniqueness error.
SpentKeyIsReplayed == \A p \in Handlers : pc[p] # "integrity_error"

\* drift_sweep_async: "Number of accounts repaired (0 when the cache agrees
\* with the ledger)".  A row the sweep is about to report and rewrite
\* disagrees with the ledger, as the locked row now stands.
SweepReportsOnlyDrift ==
    \A p \in Sweepers : \A a \in InBatch(p) :
        pc[p] = "sweep" /\ InBatch(p) \subseteq Written(p) /\ cached[p][a] # book[a]
            => dirty[a] # book[a]

=============================================================================
