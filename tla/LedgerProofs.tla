---------------------------- MODULE LedgerProofs ----------------------------
(***************************************************************************)
(* Proofs that Ledger keeps its invariants, whatever the accounts, the     *)
(* requests, the number of sessions and the ceilings.                      *)
(***************************************************************************)
EXTENDS LedgerLocks, Sums, TLAPS

-----------------------------------------------------------------------------
(* The inductive invariant: what each session knows at each point of its   *)
(* program, and what the locks it holds keep true meanwhile.               *)

Posting(p) == job[p].kind = "post"
Moving(p) == pc[p] \in {"write", "seed"}

\* A session past its begin has the job it was given; one that is idle or
\* sweeping has checked no balance.
JobAssigned ==
    \A p \in Sessions :
        IF pc[p] \in {"idle", "sweep"} THEN checked[p] = {}
        ELSE job[p] \in Job /\ checked[p] \subseteq NeedsLock(job[p].req)

\* A poster has a balanced request; once it moves money every guarded leg has
\* been checked and its key is its own.
PostersReady ==
    \A p \in Sessions :
        pc[p] \in {"guard", "write", "seed"} /\ Posting(p) =>
            /\ Balanced(job[p].req)
            /\ job[p].to = job[p].req.status
            /\ Moving(p) =>
                  /\ NeedsLock(job[p].req) \subseteq checked[p]
                  /\ inflight[job[p].req.key] = p

\* Only posters wait in the guard, and whoever is not posting moves the money
\* of a reservation it has claimed and found PENDING.
SettlersReady ==
    \A p \in Sessions :
        pc[p] \in {"guard", "write", "seed"} /\ ~Posting(p) =>
            /\ Moving(p)
            /\ claim[job[p].req.key] = p
            /\ txn[job[p].req.key] # None
            /\ txn[job[p].req.key].req = job[p].req
            /\ txn[job[p].req.key].status = "PENDING"
            /\ job[p].req.status = "PENDING"
            /\ job[p].to \in {"COMPLETED", "REVERSED"}

\* A key being inserted is not spent, and a spent one keeps its request.
KeysMatch ==
    \A k \in Keys :
        /\ inflight[k] # None => txn[k] = None
        /\ txn[k] # None =>
              /\ txn[k].req.key = k
              /\ txn[k].status = "PENDING" => txn[k].req.status = "PENDING"

\* The uncommitted version of a snapshot row is the committed sums plus what
\* its writer is about to commit; the sweep's is the committed row.
DirtyRows ==
    \A a \in Accounts : \A p \in Sessions :
        rowLock[a] = p =>
            \/ Moving(p) /\ dirty[a] = Plus(book[a], Delta(job[p], a))
            \/ pc[p] = "sweep" /\ dirty[a] = book[a]

\* A seed is not stale while the row it was computed for is still missing.
FreshSeeds ==
    \A p \in Sessions : \A a \in Accounts :
        pc[p] = "seed" /\ IsFirst(a, Unapplied(p)) /\ snap[a] = None =>
            seed[p] = Plus(book[a], Delta(job[p], a))

\* A row the sweep has read still exists.
SweptRowsExist ==
    \A p \in Sessions : pc[p] = "sweep" => \A a \in InBatch(p) : snap[a] # None

IInv ==
    /\ TypeOK
    /\ JobAssigned
    /\ PostersReady
    /\ SettlersReady
    /\ KeysMatch
    /\ DirtyRows
    /\ FreshSeeds
    /\ SweptRowsExist
    /\ SnapshotMatchesLedger
    /\ ChecksStayValid
    /\ NoOverdraft
    /\ CeilingRespected
    /\ RewardIntent

-----------------------------------------------------------------------------
(* Which locks a session holds at which point, and in which order it takes *)
(* them: what bounds the cycles of waiting sessions.                       *)

\* The accounts of the guard are locked in id order, and held to the end.
GuardOrdered(p) ==
    \A a \in Held(p) :
        /\ pc[p] \notin {"idle", "sweep"} /\ a \in NeedsLock(job[p].req)
        /\ pc[p] = "guard" => \A b \in NeedsLock(job[p].req) \ Held(p) : a < b

\* A key or an entry is inserted, and a recharge is claimed, by a session past
\* its guard.
InsertsLate(p) ==
    /\ \A a \in Accounts : p \in keyShare[a] => Moving(p)
    /\ \A k \in Keys : p \in {inflight[k], claim[k]} => Moving(p)

\* Snapshot rows are written after the entries, in id order, or by the sweep.
RowsOrdered(p) ==
    /\ \A a \in Written(p) :
           \/ /\ Moving(p) /\ EntriesWritten(p) /\ a \in Legs(job[p].req)
              /\ \A b \in Unapplied(p) : a < b
           \/ pc[p] = "sweep" /\ a \in InBatch(p)
    /\ pc[p] = "seed" => EntriesWritten(p) /\ Unapplied(p) # {}

LocksOrdered == \A p \in Sessions : GuardOrdered(p) /\ InsertsLate(p) /\ RowsOrdered(p)

-----------------------------------------------------------------------------
(* Operators on rows                                                       *)

\* What a session adds to a snapshot row is a pair of numbers.
LEMMA DeltaType ==
    ASSUME NEW j \in Job, NEW a \in Accounts
    PROVE  Delta(j, a) \in Row
BY DataAssumption DEF Job, Delta, EntryDelta, FlipDelta, Row, Request

\* A job carries one of the requests, whose fields have their types.
LEMMA JobType ==
    ASSUME NEW j \in Job
    PROVE  /\ j.req \in Requests
           /\ j.req.key \in Keys
           /\ j.req.delta \in [Accounts -> Int]
           /\ j.req.status \in {"PENDING", "COMPLETED"}
           /\ j.req.exempt \in BOOLEAN
           /\ j.req.trigger \in BOOLEAN
           /\ j.to \in Statuses
           /\ j.kind \in {"post", "settle"}
BY DataAssumption DEF Job, Request

LEMMA PlusType ==
    ASSUME NEW x \in Row, NEW d \in Row
    PROVE  Plus(x, d) \in Row
BY DEF Plus, Row

-----------------------------------------------------------------------------
(* Types                                                                   *)

\* Ending a database transaction keeps the types of all it touches.
LEMMA EndTransactionType ==
    ASSUME TypeOK, NEW p \in Sessions, EndTransaction(p)
    PROVE  /\ forUpdate' \in [Accounts -> Sessions \cup {None}]
           /\ keyShare' \in [Accounts -> SUBSET Sessions]
           /\ inflight' \in [Keys -> Sessions \cup {None}]
           /\ claim' \in [Keys -> Sessions \cup {None}]
           /\ rowLock' \in [Accounts -> Sessions \cup {None}]
           /\ dirty' \in [Accounts -> Row \cup {None}]
           /\ pc' \in [Sessions -> {"idle", "guard", "rejected", "integrity_error",
                                    "write", "seed", "sweep"}]
           /\ job' \in [Sessions -> Job \cup {None}]
           /\ checked' \in [Sessions -> SUBSET Accounts]
           /\ seed' \in [Sessions -> Row \cup {None}]
           /\ cached' \in [Sessions -> [Accounts -> Row \cup {None}]]
BY DEF TypeOK, EndTransaction, Unlock, NoRows

LEMMA InitType == Init => TypeOK
<1> SUFFICES ASSUME Init PROVE TypeOK
  OBVIOUS
<1>1. book \in [Accounts -> Row]
  BY DataAssumption DEF Init, Row
<1>2. snap \in [Accounts -> Row \cup {None}]
  BY <1>1 DEF Init
<1>3. uncapped \in [Accounts -> Nat]
  BY DEF Init
<1> QED
  BY <1>1, <1>2, <1>3 DEF Init, TypeOK, Free, NoRows, Sessions

\* Every step keeps the types.
LEMMA StepType == TypeOK /\ JobAssigned /\ [Next]_vars => TypeOK'
<1> SUFFICES ASSUME TypeOK, JobAssigned, [Next]_vars
             PROVE  TypeOK'
  OBVIOUS
<1> USE DEF TypeOK, durable, locks
<1>1. ASSUME NEW p \in Handlers, NEW r \in Requests, PostBegin(p, r)
      PROVE  TypeOK'
  <2>1. [kind |-> "post", req |-> r, to |-> r.status] \in Job
    BY DataAssumption DEF Job, Request, Statuses
  <2> QED
    BY <1>1, <2>1 DEF PostBegin, Sessions
<1>2. ASSUME NEW p \in Handlers, NEW k \in Keys, NEW to \in {"COMPLETED", "REVERSED"},
             SettleClaim(p, k, to)
      PROVE  TypeOK'
  <2>1. [kind |-> "settle", req |-> txn[k].req, to |-> to] \in Job
    BY <1>2 DEF SettleClaim, Job, TxnRow, Statuses
  <2> QED
    BY <1>2, <2>1 DEF SettleClaim, Sessions
<1>3. ASSUME NEW p \in Handlers, NEW a \in Accounts, LockAccount(p, a)
      PROVE  TypeOK'
  BY <1>3 DEF LockAccount, Sessions
<1>4. ASSUME NEW p \in Handlers, NEW a \in Accounts, CheckBalance(p, a)
      PROVE  TypeOK'
  <2>1. p \in Sessions /\ checked[p] \cup {a} \in SUBSET Accounts
    BY DEF Sessions
  <2>2. checked' \in [Sessions -> SUBSET Accounts]
    BY <1>4, <2>1 DEF CheckBalance
  <2> QED
    BY <1>4, <2>1, <2>2 DEF CheckBalance
<1>5. ASSUME NEW p \in Handlers, NEW a \in Accounts, InsertEntry(p, a)
      PROVE  TypeOK'
  BY <1>5 DEF InsertEntry, Sessions
<1>6. ASSUME NEW p \in Handlers, NEW a \in Accounts, UpdateSnapshot(p, a)
      PROVE  TypeOK'
  <2>1. Plus(snap[a], Delta(job[p], a)) \in Row
    BY <1>6, DeltaType, PlusType DEF UpdateSnapshot, JobAssigned, Sessions
  <2> QED
    BY <1>6, <2>1 DEF UpdateSnapshot, WriteRow, Sessions
<1>7. ASSUME NEW p \in Handlers, NEW a \in Accounts, SeedRead(p, a)
      PROVE  TypeOK'
  <2>1. Plus(book[a], Delta(job[p], a)) \in Row
    BY <1>7, DeltaType, PlusType DEF SeedRead, JobAssigned, Sessions
  <2> QED
    BY <1>7, <2>1 DEF SeedRead, Sessions
<1>8. ASSUME NEW p \in Handlers, NEW a \in Accounts, SeedInsert(p, a)
      PROVE  TypeOK'
  <2>1. snap[a] # None => Plus(snap[a], Delta(job[p], a)) \in Row
    BY <1>8, DeltaType, PlusType DEF SeedInsert, JobAssigned, Sessions
  <2> QED
    BY <1>8, <2>1 DEF SeedInsert, WriteRow, Sessions
<1>9. ASSUME NEW p \in Handlers, InsertTransaction(p)
      PROVE  TypeOK'
  <2>1. p \in Sessions
    BY DEF Sessions
  <2>a. inflight' = inflight \/ inflight' = [inflight EXCEPT ![job[p].req.key] = p]
    BY <1>9 DEF InsertTransaction
  <2>2. inflight' \in [Keys -> Sessions \cup {None}]
    BY <2>1, <2>a
  <2>b. \/ pc' = [pc EXCEPT ![p] = "write"]
        \/ pc' = [pc EXCEPT ![p] = "integrity_error"]
    BY <1>9 DEF InsertTransaction
  <2>3. pc' \in [Sessions -> {"idle", "guard", "rejected", "integrity_error",
                             "write", "seed", "sweep"}]
    BY <2>1, <2>b
  <2> QED
    BY <1>9, <2>2, <2>3 DEF InsertTransaction
<1>10. ASSUME NEW p \in Handlers, Commit(p)
       PROVE  TypeOK'
  <2>1. job[p] \in Job /\ p \in Sessions
    BY <1>10 DEF Commit, JobAssigned, Sessions
  <2>2. book' \in [Accounts -> Row]
    BY <1>10, <2>1, DeltaType, PlusType DEF Commit
  <2>3. txn' \in [Keys -> TxnRow \cup {None}]
    BY <1>10, <2>1, DataAssumption DEF Commit, Job, TxnRow, Request
  <2>4. snap' \in [Accounts -> Row \cup {None}]
    BY <1>10 DEF Commit
  <2>5. outbox' \subseteq Keys
    BY <1>10, <2>1, DataAssumption DEF Commit, Job, Request
  <2>6. uncapped' \in [Accounts -> Nat]
    BY <1>10, <2>1, DataAssumption DEF Commit, ExemptCredit, Job, Request
  <2>7. EndTransaction(p)
    BY <1>10 DEF Commit
  <2> QED
    BY <2>1, <2>2, <2>3, <2>4, <2>5, <2>6, <2>7, EndTransactionType
<1>11. ASSUME NEW p \in Sweepers, NEW B \in SUBSET Accounts, SweepRead(p, B)
       PROVE  TypeOK'
  BY <1>11 DEF SweepRead, Sessions
<1>12. ASSUME NEW p \in Sweepers, NEW a \in Accounts, SweepMark(p, a)
       PROVE  TypeOK'
  BY <1>12 DEF SweepMark, WriteRow, Sessions
<1>13. ASSUME NEW p \in Sweepers, SweepRepair(p)
       PROVE  TypeOK'
  <2>1. snap' \in [Accounts -> Row \cup {None}]
    BY <1>13 DEF SweepRepair
  <2> QED
    BY <1>13, <2>1, EndTransactionType DEF SweepRepair, Sessions
<1>14. ASSUME NEW p \in Sessions, Rollback(p)
       PROVE  TypeOK'
  BY <1>14, EndTransactionType DEF Rollback
<1>15. CASE UNCHANGED vars
  BY <1>15 DEF vars
<1> QED
  BY <1>1, <1>2, <1>3, <1>4, <1>5, <1>6, <1>7, <1>8, <1>9, <1>10, <1>11,
     <1>12, <1>13, <1>14, <1>15 DEF Next, HandlerStep, SweeperStep


-----------------------------------------------------------------------------
(* What a step leaves to the other sessions                                *)

\* Writing a snapshot row adds it to its writer's rows and nobody else's.
LEMMA WriteRowFrame ==
    ASSUME TypeOK, NEW p \in Sessions, NEW a \in Accounts, NEW row, WriteRow(p, a, row)
    PROVE  /\ Written(p)' = Written(p) \cup {a}
           /\ \A q \in Sessions \ {p} : Written(q)' = Written(q)
           /\ \A b \in Accounts \ {a} : rowLock'[b] = rowLock[b] /\ dirty'[b] = dirty[b]
           /\ rowLock'[a] = p /\ dirty'[a] = row
BY SessionAssumption DEF TypeOK, WriteRow, Written

\* Ending a database transaction frees what its session held and nothing else.
LEMMA EndTransactionFrame ==
    ASSUME TypeOK, NEW p \in Sessions, EndTransaction(p)
    PROVE  /\ pc'[p] = "idle" /\ checked'[p] = {}
           /\ \A a \in Accounts : rowLock'[a] # p
           /\ \A q \in Sessions \ {p} :
                 /\ pc'[q] = pc[q]
                 /\ job'[q] = job[q]
                 /\ checked'[q] = checked[q]
                 /\ seed'[q] = seed[q]
                 /\ cached'[q] = cached[q]
                 /\ Written(q)' = Written(q)
                 /\ \A k \in Keys : (inflight'[k] = q) = (inflight[k] = q)
                 /\ \A k \in Keys : (claim'[k] = q) = (claim[k] = q)
                 /\ \A a \in Accounts : (forUpdate'[a] = q) = (forUpdate[a] = q)
                 /\ \A a \in Accounts :
                       /\ (rowLock'[a] = q) = (rowLock[a] = q)
                       /\ rowLock[a] = q => dirty'[a] = dirty[a]
           /\ \A k \in Keys : inflight'[k] # None => inflight'[k] = inflight[k] /\ inflight[k] # p
<1> USE SessionAssumption DEF TypeOK, EndTransaction, Unlock
<1>1. ASSUME NEW q \in Sessions \ {p}
      PROVE  /\ pc'[q] = pc[q]
             /\ job'[q] = job[q]
             /\ checked'[q] = checked[q]
             /\ seed'[q] = seed[q]
             /\ cached'[q] = cached[q]
  OBVIOUS
<1>2. ASSUME NEW q \in Sessions \ {p}, NEW a \in Accounts
      PROVE  /\ (forUpdate'[a] = q) = (forUpdate[a] = q)
             /\ (rowLock'[a] = q) = (rowLock[a] = q)
             /\ rowLock[a] = q => dirty'[a] = dirty[a]
  OBVIOUS
<1>3. ASSUME NEW q \in Sessions \ {p}, NEW k \in Keys
      PROVE  /\ (inflight'[k] = q) = (inflight[k] = q)
             /\ (claim'[k] = q) = (claim[k] = q)
  OBVIOUS
<1>4. ASSUME NEW q \in Sessions \ {p}
      PROVE  Written(q)' = Written(q)
  BY <1>2 DEF Written
<1>5. /\ pc'[p] = "idle" /\ checked'[p] = {}
      /\ \A a \in Accounts : rowLock'[a] # p
      /\ \A k \in Keys : inflight'[k] # None => inflight'[k] = inflight[k] /\ inflight[k] # p
  OBVIOUS
<1> HIDE DEF TypeOK, EndTransaction, Unlock
<1> QED
  BY <1>1, <1>2, <1>3, <1>4, <1>5


\* A statement that commits nothing disturbs no property of committed rows.
LEMMA DurableFrame ==
    ASSUME SnapshotMatchesLedger, NoOverdraft, CeilingRespected, RewardIntent,
           UNCHANGED durable
    PROVE  SnapshotMatchesLedger' /\ NoOverdraft' /\ CeilingRespected' /\ RewardIntent'
BY DEF durable, SnapshotMatchesLedger, NoOverdraft, CeilingRespected, RewardIntent

-----------------------------------------------------------------------------
(* The invariant: post_transaction up to its writes                        *)

LEMMA PostBeginKeeps ==
    ASSUME IInv, TypeOK', NEW p \in Handlers, NEW r \in Requests, PostBegin(p, r)
    PROVE  IInv'
<1> USE DEF IInv, TypeOK, Sessions, durable, locks
<1>1. job'[p] \in Job /\ job'[p].req = r /\ job'[p].kind = "post" /\ pc'[p] = "guard"
  BY DataAssumption DEF PostBegin, Job, Request, Statuses
<1>2. JobAssigned'
  <2> SUFFICES ASSUME NEW q \in Sessions
               PROVE  (IF pc[q] \in {"idle", "sweep"} THEN checked[q] = {}
                       ELSE job[q] \in Job /\ checked[q] \subseteq NeedsLock(job[q].req))'
    BY DEF JobAssigned
  <2>1. CASE q = p
    BY <1>1, <2>1 DEF PostBegin, JobAssigned, Idle
  <2>2. CASE q # p
    BY <2>2 DEF PostBegin, JobAssigned
  <2> QED
    BY <2>1, <2>2
<1>3. PostersReady'
  BY DEF PostBegin, PostersReady, Posting, Moving
<1>4. SettlersReady'
  BY DEF PostBegin, SettlersReady, Posting, Moving
<1>5. KeysMatch' /\ SweptRowsExist'
  BY DEF PostBegin, KeysMatch, SweptRowsExist, InBatch
<1>6. DirtyRows'
  <2> SUFFICES ASSUME NEW a \in Accounts, NEW q \in Sessions, rowLock[a] = q
               PROVE  (\/ Moving(q) /\ dirty[a] = Plus(book[a], Delta(job[q], a))
                       \/ pc[q] = "sweep" /\ dirty[a] = book[a])'
    BY DEF DirtyRows, PostBegin
  <2>1. q # p
    BY DEF PostBegin, Idle, DirtyRows, Moving
  <2> QED
    BY <2>1 DEF PostBegin, DirtyRows, Moving, Delta
<1>7. FreshSeeds'
  BY SMTT(30) DEF PostBegin, FreshSeeds, Unapplied, Written, Delta
<1>8. ChecksStayValid'
  BY DEF PostBegin, ChecksStayValid, JobAssigned, Idle
<1>9. SnapshotMatchesLedger' /\ NoOverdraft' /\ CeilingRespected' /\ RewardIntent'
  BY DurableFrame DEF PostBegin
<1> QED
  BY <1>2, <1>3, <1>4, <1>5, <1>6, <1>7, <1>8, <1>9

LEMMA LockAccountKeeps ==
    ASSUME IInv, TypeOK', NEW p \in Handlers, NEW a \in Accounts, LockAccount(p, a)
    PROVE  IInv'
<1> USE DEF IInv, TypeOK, Sessions, durable, locks
<1>1. JobAssigned' /\ PostersReady' /\ SettlersReady'
  BY DEF LockAccount, JobAssigned, PostersReady, SettlersReady, Posting, Moving
<1>2. KeysMatch' /\ SweptRowsExist'
  BY DEF LockAccount, KeysMatch, SweptRowsExist, InBatch
<1>3. DirtyRows' /\ FreshSeeds'
  BY DEF LockAccount, DirtyRows, FreshSeeds, Unapplied, Written, Delta, Moving
<1>4. ChecksStayValid'
  <2>1. \A b \in Accounts : forUpdate[b] # None => forUpdate'[b] = forUpdate[b]
    BY DEF LockAccount
  <2>2. \A q \in Sessions : \A b \in checked[q] : b \in Accounts /\ forUpdate[b] = q
    BY DEF ChecksStayValid
  <2>3. \A q \in Sessions : \A b \in checked[q] : forUpdate'[b] = q
    BY <2>1, <2>2, SessionAssumption
  <2> QED
    BY <2>3 DEF LockAccount, ChecksStayValid
<1>5. SnapshotMatchesLedger' /\ NoOverdraft' /\ CeilingRespected' /\ RewardIntent'
  BY DurableFrame DEF LockAccount
<1> QED
  BY <1>1, <1>2, <1>3, <1>4, <1>5

\* The heart of the guard: what it read is the ledger's own figure.
LEMMA CheckedBalance ==
    ASSUME SnapshotMatchesLedger, NEW a \in Accounts
    PROVE  DeriveBalance(a) = book[a]
BY DEF SnapshotMatchesLedger, DeriveBalance

LEMMA CheckBalanceKeeps ==
    ASSUME IInv, TypeOK', NEW p \in Handlers, NEW a \in Accounts, CheckBalance(p, a)
    PROVE  IInv'
<1> USE DEF IInv, TypeOK, Sessions, durable, locks
<1>1. /\ pc[p] = "guard" /\ job[p] \in Job /\ Posting(p)
      /\ a \in NeedsLock(job[p].req) \ checked[p]
      /\ forUpdate[a] = p
      /\ checked[p] \subseteq NeedsLock(job[p].req)
  BY DEF CheckBalance, JobAssigned, SettlersReady, Moving, IsFirst, Held
<1>2. /\ job' = job
      /\ \A q \in Sessions : q # p => pc'[q] = pc[q] /\ checked'[q] = checked[q]
      /\ pc'[p] \in {"guard", "rejected"}
      /\ pc'[p] = "guard" => pc' = pc
      /\ checked'[p] \in {checked[p], checked[p] \cup {a}}
      /\ a \in checked'[p] => GuardPasses(job[p].req, a, book[a])
  BY <1>1, CheckedBalance DEF CheckBalance
<1>3. JobAssigned'
  <2> SUFFICES ASSUME NEW q \in Sessions
               PROVE  (IF pc[q] \in {"idle", "sweep"} THEN checked[q] = {}
                       ELSE job[q] \in Job /\ checked[q] \subseteq NeedsLock(job[q].req))'
    BY DEF JobAssigned
  <2>1. CASE q = p
    BY <1>1, <1>2, <2>1
  <2>2. CASE q # p
    BY <1>2, <2>2 DEF JobAssigned
  <2> QED
    BY <2>1, <2>2
<1>4. PostersReady'
  BY <1>1, <1>2 DEF CheckBalance, PostersReady, Posting, Moving
<1>5. SettlersReady'
  BY <1>1, <1>2 DEF CheckBalance, SettlersReady, Posting, Moving
<1>6. KeysMatch' /\ SweptRowsExist'
  BY <1>1, <1>2 DEF CheckBalance, KeysMatch, SweptRowsExist, InBatch
<1>7. DirtyRows' /\ FreshSeeds'
  BY <1>1, <1>2, SMTT(30) DEF CheckBalance, DirtyRows, FreshSeeds, Unapplied, Written, Delta, Moving
<1>8. ChecksStayValid'
  <2> SUFFICES ASSUME NEW q \in Sessions, NEW b \in checked'[q]
               PROVE  /\ forUpdate[b] = q
                      /\ job[q].req.delta[b] < 0 => Available(book[b]) + job[q].req.delta[b] >= 0
                      /\ job[q].req.delta[b] > 0 /\ Cap[b] # None =>
                             book[b].bal + job[q].req.delta[b] <= Cap[b] + uncapped[b]
    BY DEF CheckBalance, ChecksStayValid
  <2>1. CASE b \in checked[q]
    BY <2>1 DEF ChecksStayValid
  <2>2. CASE b \notin checked[q]
    <3>1. q = p /\ b = a /\ GuardPasses(job[p].req, a, book[a])
      BY <1>2, <2>2
    <3>2. job[p].req.delta[a] > 0 => a \in Capped
      BY <1>1, DataAssumption DEF NeedsLock, Job, Request
    <3>3. job[p].req.delta[a] \in Int /\ book[a].bal \in Int /\ uncapped[a] \in Nat
      BY <1>1, DataAssumption DEF Job, Request, Row
    <3> QED
      BY <1>1, <3>1, <3>2, <3>3, DataAssumption DEF GuardPasses
  <2> QED
    BY <2>1, <2>2
<1>9. SnapshotMatchesLedger' /\ NoOverdraft' /\ CeilingRespected' /\ RewardIntent'
  BY DurableFrame DEF CheckBalance
<1> QED
  BY <1>3, <1>4, <1>5, <1>6, <1>7, <1>8, <1>9

LEMMA InsertTransactionKeeps ==
    ASSUME IInv, TypeOK', NEW p \in Handlers, InsertTransaction(p)
    PROVE  IInv'
<1> USE DEF IInv, TypeOK, Sessions, durable, locks
<1>1. pc[p] = "guard" /\ job[p] \in Job /\ Posting(p) /\ job[p].req.key \in Keys
  <2>1. pc[p] = "guard" /\ job[p] \in Job
    BY DEF InsertTransaction, JobAssigned
  <2>2. Posting(p)
    BY <2>1 DEF SettlersReady, Moving
  <2> QED
    BY <2>1, <2>2, JobType
<1>2. /\ \A q \in Sessions : q # p => pc'[q] = pc[q]
      /\ job' = job /\ checked' = checked
      /\ pc'[p] \in {"write", "integrity_error"}
      /\ pc'[p] = "write" => txn[job[p].req.key] = None /\ inflight'[job[p].req.key] = p
      /\ \A k \in Keys : inflight'[k] # inflight[k] =>
             inflight[k] = None /\ txn[k] = None
  BY <1>1 DEF InsertTransaction
<1>3. JobAssigned'
  BY <1>1, <1>2 DEF InsertTransaction, JobAssigned
<1>4. PostersReady'
  <2> SUFFICES ASSUME NEW q \in Sessions, pc'[q] \in {"guard", "write", "seed"}, Posting(q)
               PROVE  /\ Balanced(job[q].req)
                      /\ job[q].to = job[q].req.status
                      /\ Moving(q)' =>
                            /\ NeedsLock(job[q].req) \subseteq checked[q]
                            /\ inflight'[job[q].req.key] = q
    BY <1>2 DEF PostersReady, Posting
  <2>1. CASE q = p
    BY <1>1, <1>2, <2>1 DEF InsertTransaction, PostersReady, Moving
  <2>2. CASE q # p
    <3>1. job[q].req.key \in Keys
      BY <1>2, <2>2, DataAssumption DEF JobAssigned, Job, Request
    <3> QED
      BY <1>2, <2>2, <3>1, SessionAssumption DEF PostersReady, Moving
  <2> QED
    BY <2>1, <2>2
<1>5. SettlersReady'
  BY <1>1, <1>2 DEF InsertTransaction, SettlersReady, Posting, Moving
<1>6. KeysMatch' /\ SweptRowsExist'
  BY <1>1, <1>2 DEF InsertTransaction, KeysMatch, SweptRowsExist, InBatch
<1>7. DirtyRows' /\ FreshSeeds'
  BY <1>1, <1>2 DEF InsertTransaction, DirtyRows, FreshSeeds, Unapplied, Written, Delta, Moving
<1>8. ChecksStayValid'
  BY DEF InsertTransaction, ChecksStayValid
<1>9. SnapshotMatchesLedger' /\ NoOverdraft' /\ CeilingRespected' /\ RewardIntent'
  BY DurableFrame DEF InsertTransaction
<1> QED
  BY <1>3, <1>4, <1>5, <1>6, <1>7, <1>8, <1>9

LEMMA InsertEntryKeeps ==
    ASSUME IInv, TypeOK', NEW p \in Handlers, NEW a \in Accounts, InsertEntry(p, a)
    PROVE  IInv'
<1> USE DEF IInv, TypeOK, Sessions, durable, locks
<1>1. JobAssigned' /\ PostersReady' /\ SettlersReady'
  BY DEF InsertEntry, JobAssigned, PostersReady, SettlersReady, Posting, Moving
<1>2. KeysMatch' /\ SweptRowsExist' /\ ChecksStayValid'
  BY DEF InsertEntry, KeysMatch, SweptRowsExist, InBatch, ChecksStayValid
<1>3. DirtyRows' /\ FreshSeeds'
  BY DEF InsertEntry, DirtyRows, FreshSeeds, Unapplied, Written, Delta, Moving
<1>4. SnapshotMatchesLedger' /\ NoOverdraft' /\ CeilingRespected' /\ RewardIntent'
  BY DurableFrame DEF InsertEntry
<1> QED
  BY <1>1, <1>2, <1>3, <1>4

-----------------------------------------------------------------------------
(* The invariant: apply_deltas                                             *)

LEMMA UpdateSnapshotKeeps ==
    ASSUME IInv, TypeOK', NEW p \in Handlers, NEW a \in Accounts, UpdateSnapshot(p, a)
    PROVE  IInv'
<1> USE DEF IInv, TypeOK, Sessions, durable, locks
<1>1. /\ pc[p] = "write" /\ rowLock[a] = None
      /\ WriteRow(p, a, Plus(book[a], Delta(job[p], a)))
      /\ pc' = pc /\ job' = job /\ seed' = seed /\ UNCHANGED durable
  BY DEF UpdateSnapshot, WriteRow, SnapshotMatchesLedger
<1>2. /\ \A q \in Sessions \ {p} : Written(q)' = Written(q)
      /\ \A b \in Accounts \ {a} : rowLock'[b] = rowLock[b] /\ dirty'[b] = dirty[b]
      /\ rowLock'[a] = p /\ dirty'[a] = Plus(book[a], Delta(job[p], a))
  BY <1>1, WriteRowFrame
<1>3. JobAssigned' /\ PostersReady' /\ SettlersReady'
  BY SMTT(30) DEF UpdateSnapshot, WriteRow, JobAssigned, PostersReady, SettlersReady, Posting, Moving
<1>4. KeysMatch' /\ SweptRowsExist' /\ ChecksStayValid'
  BY DEF UpdateSnapshot, WriteRow, KeysMatch, SweptRowsExist, InBatch, ChecksStayValid
<1>5. DirtyRows'
  BY <1>1, <1>2, SMTT(30) DEF DirtyRows, Moving, Delta
<1>6. FreshSeeds'
  <2> SUFFICES ASSUME NEW q \in Sessions, NEW b \in Accounts, pc[q] = "seed",
                      IsFirst(b, Unapplied(q)'), snap[b] = None
               PROVE  seed[q] = Plus(book[b], Delta(job[q], b))
    BY <1>1 DEF FreshSeeds, Delta
  <2>1. q # p
    BY <1>1
  <2>2. Unapplied(q)' = Unapplied(q)
    BY <1>1, <1>2, <2>1 DEF Unapplied
  <2> QED
    BY <2>2 DEF FreshSeeds
<1>7. SnapshotMatchesLedger' /\ NoOverdraft' /\ CeilingRespected' /\ RewardIntent'
  BY <1>1, DurableFrame
<1> QED
  BY <1>3, <1>4, <1>5, <1>6, <1>7

LEMMA SeedReadKeeps ==
    ASSUME IInv, TypeOK', NEW p \in Handlers, NEW a \in Accounts, SeedRead(p, a)
    PROVE  IInv'
<1> USE DEF IInv, TypeOK, Sessions, durable, locks
<1>1. /\ pc[p] = "write" /\ IsFirst(a, Unapplied(p))
      /\ pc' = [pc EXCEPT ![p] = "seed"]
      /\ seed' = [seed EXCEPT ![p] = Plus(book[a], Delta(job[p], a))]
      /\ UNCHANGED <<durable, locks, job, checked, cached>>
  BY DEF SeedRead
<1>2. JobAssigned'
  BY <1>1 DEF JobAssigned
<1>3. PostersReady'
  BY <1>1 DEF PostersReady, Posting, Moving
<1>4. SettlersReady'
  <2> SUFFICES ASSUME NEW q \in Sessions, pc'[q] \in {"guard", "write", "seed"}, ~Posting(q)
               PROVE  /\ Moving(q)'
                      /\ claim[job[q].req.key] = q
                      /\ txn[job[q].req.key] # None
                      /\ txn[job[q].req.key].req = job[q].req
                      /\ txn[job[q].req.key].status = "PENDING"
                      /\ job[q].req.status = "PENDING"
                      /\ job[q].to \in {"COMPLETED", "REVERSED"}
    BY <1>1 DEF SettlersReady, Posting
  <2>1. pc[q] \in {"guard", "write", "seed"} /\ (Moving(q) => Moving(q)')
    BY <1>1 DEF Moving
  <2> QED
    BY <2>1 DEF SettlersReady
<1>5. KeysMatch' /\ SweptRowsExist' /\ ChecksStayValid'
  BY <1>1 DEF KeysMatch, SweptRowsExist, InBatch, ChecksStayValid
<1>6. DirtyRows'
  BY <1>1 DEF DirtyRows, Moving, Delta
<1>7. FreshSeeds'
  <2>0. \A q \in Sessions : Unapplied(q)' = Unapplied(q)
    BY <1>1 DEF Unapplied, Written
  <2> SUFFICES ASSUME NEW q \in Sessions, NEW b \in Accounts, pc'[q] = "seed",
                      IsFirst(b, Unapplied(q)), snap[b] = None
               PROVE  seed'[q] = Plus(book[b], Delta(job[q], b))
    BY <1>1, <2>0 DEF FreshSeeds, Delta
  <2>1. CASE q = p
    <3>0. a \in Nat /\ b \in Nat
      BY DataAssumption
    <3>1. a = b
      BY <1>1, <2>1, <3>0 DEF IsFirst
    <3> QED
      BY <1>1, <2>1, <3>1
  <2>2. CASE q # p
    BY <1>1, <2>2 DEF FreshSeeds
  <2> QED
    BY <2>1, <2>2
<1>8. SnapshotMatchesLedger' /\ NoOverdraft' /\ CeilingRespected' /\ RewardIntent'
  BY <1>1, DurableFrame
<1> QED
  BY <1>2, <1>3, <1>4, <1>5, <1>6, <1>7, <1>8

LEMMA SeedInsertKeeps ==
    ASSUME IInv, TypeOK', NEW p \in Handlers, NEW a \in Accounts, SeedInsert(p, a)
    PROVE  IInv'
<1> USE DEF IInv, TypeOK, Sessions, durable, locks
<1>1. /\ pc[p] = "seed" /\ rowLock[a] = None
      /\ WriteRow(p, a, Plus(book[a], Delta(job[p], a)))
      /\ pc' = [pc EXCEPT ![p] = "write"] /\ seed' = [seed EXCEPT ![p] = None]
      /\ job' = job /\ UNCHANGED durable
  BY DEF SeedInsert, WriteRow, SnapshotMatchesLedger, FreshSeeds
<1>2. /\ \A q \in Sessions \ {p} : Written(q)' = Written(q)
      /\ \A b \in Accounts \ {a} : rowLock'[b] = rowLock[b] /\ dirty'[b] = dirty[b]
      /\ rowLock'[a] = p /\ dirty'[a] = Plus(book[a], Delta(job[p], a))
  BY <1>1, WriteRowFrame
<1>a. /\ checked' = checked /\ inflight' = inflight /\ claim' = claim /\ txn' = txn
      /\ \A q \in Sessions : Moving(q)' = Moving(q) /\ Posting(q)' = Posting(q)
      /\ \A q \in Sessions : (pc'[q] \in {"idle", "sweep"}) = (pc[q] \in {"idle", "sweep"})
      /\ \A q \in Sessions :
             (pc'[q] \in {"guard", "write", "seed"}) = (pc[q] \in {"guard", "write", "seed"})
  BY <1>1 DEF WriteRow, Moving, Posting
<1>b. JobAssigned'
  BY <1>1, <1>a DEF JobAssigned
<1>c. PostersReady'
  BY <1>1, <1>a DEF PostersReady
<1>d. SettlersReady'
  BY <1>1, <1>a DEF SettlersReady
<1>3. JobAssigned' /\ PostersReady' /\ SettlersReady'
  BY <1>b, <1>c, <1>d
<1>4. KeysMatch' /\ SweptRowsExist' /\ ChecksStayValid'
  BY <1>1 DEF WriteRow, KeysMatch, SweptRowsExist, InBatch, ChecksStayValid
<1>5. DirtyRows'
  BY <1>1, <1>2, SMTT(30) DEF DirtyRows, Moving, Delta
<1>6. FreshSeeds'
  <2> SUFFICES ASSUME NEW q \in Sessions, NEW b \in Accounts, pc'[q] = "seed",
                      IsFirst(b, Unapplied(q)'), snap[b] = None
               PROVE  seed'[q] = Plus(book[b], Delta(job[q], b))
    BY <1>1 DEF FreshSeeds, Delta
  <2>1. q # p
    BY <1>1
  <2>2. Unapplied(q)' = Unapplied(q)
    BY <1>1, <1>2, <2>1 DEF Unapplied
  <2> QED
    BY <1>1, <2>1, <2>2 DEF FreshSeeds
<1>7. SnapshotMatchesLedger' /\ NoOverdraft' /\ CeilingRespected' /\ RewardIntent'
  BY <1>1, DurableFrame
<1> QED
  BY <1>3, <1>4, <1>5, <1>6, <1>7

-----------------------------------------------------------------------------
(* The invariant: settlements and the drift sweep                          *)

LEMMA SettleClaimKeeps ==
    ASSUME IInv, TypeOK', NEW p \in Handlers, NEW k \in Keys,
           NEW to \in {"COMPLETED", "REVERSED"}, SettleClaim(p, k, to)
    PROVE  IInv'
<1> USE DEF IInv, TypeOK, Sessions, durable, locks
<1>1. /\ pc[p] = "idle" /\ claim[k] = None
      /\ txn[k] # None /\ txn[k].status = "PENDING" /\ txn[k].req.key = k
      /\ txn[k].req.status = "PENDING"
      /\ claim' = [claim EXCEPT ![k] = p]
      /\ pc' = [pc EXCEPT ![p] = "write"]
      /\ job'[p] = [kind |-> "settle", req |-> txn[k].req, to |-> to]
      /\ \A q \in Sessions : q # p => job'[q] = job[q]
      /\ UNCHANGED <<durable, forUpdate, keyShare, inflight, rowLock, dirty,
                     checked, seed, cached>>
  BY DEF SettleClaim, Idle, KeysMatch
<1>2. job'[p] \in Job
  BY <1>1 DEF Job, TxnRow, Statuses
<1>3. JobAssigned'
  <2> SUFFICES ASSUME NEW q \in Sessions
               PROVE  (IF pc[q] \in {"idle", "sweep"} THEN checked[q] = {}
                       ELSE job[q] \in Job /\ checked[q] \subseteq NeedsLock(job[q].req))'
    BY DEF JobAssigned
  <2>1. CASE q = p
    BY <1>1, <1>2, <2>1 DEF JobAssigned
  <2>2. CASE q # p
    BY <1>1, <2>2 DEF JobAssigned
  <2> QED
    BY <2>1, <2>2
<1>4. PostersReady'
  <2> SUFFICES ASSUME NEW q \in Sessions, pc'[q] \in {"guard", "write", "seed"}, Posting(q)'
               PROVE  /\ Balanced(job'[q].req)
                      /\ job'[q].to = job'[q].req.status
                      /\ Moving(q)' =>
                            /\ NeedsLock(job'[q].req) \subseteq checked[q]
                            /\ inflight[job'[q].req.key] = q
    BY <1>1 DEF PostersReady
  <2>1. q # p
    BY <1>1 DEF Posting
  <2> QED
    BY <1>1, <2>1 DEF PostersReady, Posting, Moving
<1>5. SettlersReady'
  <2> SUFFICES ASSUME NEW q \in Sessions, pc'[q] \in {"guard", "write", "seed"}, ~Posting(q)'
               PROVE  /\ Moving(q)'
                      /\ claim'[job'[q].req.key] = q
                      /\ txn[job'[q].req.key] # None
                      /\ txn[job'[q].req.key].req = job'[q].req
                      /\ txn[job'[q].req.key].status = "PENDING"
                      /\ job'[q].req.status = "PENDING"
                      /\ job'[q].to \in {"COMPLETED", "REVERSED"}
    BY <1>1, ZenonT(30) DEF SettlersReady
  <2>1. CASE q = p
    BY <1>1, <2>1 DEF Moving
  <2>2. CASE q # p
    <3>1. job'[q] = job[q] /\ pc'[q] = pc[q] /\ ~Posting(q)
      BY <1>1, <2>2 DEF Posting
    <3>2. claim[job[q].req.key] = q /\ job[q].req.key # k
      BY <1>1, <3>1, SessionAssumption DEF SettlersReady
    <3> QED
      BY <1>1, <3>1, <3>2 DEF SettlersReady, Moving
  <2> QED
    BY <2>1, <2>2
<1>6. KeysMatch' /\ SweptRowsExist'
  BY <1>1 DEF KeysMatch, SweptRowsExist, InBatch
<1>7. DirtyRows'
  <2> SUFFICES ASSUME NEW a \in Accounts, NEW q \in Sessions, rowLock[a] = q
               PROVE  (\/ Moving(q) /\ dirty[a] = Plus(book[a], Delta(job[q], a))
                       \/ pc[q] = "sweep" /\ dirty[a] = book[a])'
    BY <1>1 DEF DirtyRows
  <2>1. q # p
    BY <1>1 DEF DirtyRows, Moving
  <2> QED
    BY <1>1, <2>1 DEF DirtyRows, Moving, Delta
<1>8. FreshSeeds'
  <2> SUFFICES ASSUME NEW q \in Sessions, NEW b \in Accounts, pc'[q] = "seed",
                      IsFirst(b, Unapplied(q)'), snap[b] = None
               PROVE  seed[q] = Plus(book[b], Delta(job'[q], b))
    BY <1>1 DEF FreshSeeds, Delta
  <2>1. q # p /\ job'[q] = job[q]
    BY <1>1
  <2>2. Unapplied(q)' = Unapplied(q)
    BY <1>1, <2>1 DEF Unapplied, Written
  <2> QED
    BY <1>1, <2>1, <2>2 DEF FreshSeeds
<1>9. ChecksStayValid'
  <2> SUFFICES ASSUME NEW q \in Sessions, NEW a \in checked[q]
               PROVE  (/\ forUpdate[a] = q
                       /\ job[q].req.delta[a] < 0 =>
                              Available(book[a]) + job[q].req.delta[a] >= 0
                       /\ job[q].req.delta[a] > 0 /\ Cap[a] # None =>
                              book[a].bal + job[q].req.delta[a] <= Cap[a] + uncapped[a])'
    BY <1>1 DEF ChecksStayValid
  <2>1. q # p /\ job'[q] = job[q]
    BY <1>1 DEF JobAssigned
  <2> QED
    BY <1>1, <2>1 DEF ChecksStayValid
<1>10. SnapshotMatchesLedger' /\ NoOverdraft' /\ CeilingRespected' /\ RewardIntent'
  BY <1>1, DurableFrame
<1> QED
  BY <1>3, <1>4, <1>5, <1>6, <1>7, <1>8, <1>9, <1>10

LEMMA SweepReadKeeps ==
    ASSUME IInv, TypeOK', NEW p \in Sweepers, NEW B \in SUBSET Accounts, SweepRead(p, B)
    PROVE  IInv'
<1> USE DEF IInv, TypeOK, Sessions, durable, locks
<1>1. /\ pc[p] = "idle"
      /\ pc' = [pc EXCEPT ![p] = "sweep"]
      /\ \A b \in Accounts : cached'[p][b] # None => snap[b] # None
      /\ \A q \in Sessions : q # p => cached'[q] = cached[q]
      /\ UNCHANGED <<durable, locks, job, checked, seed>>
  BY DEF SweepRead, Idle
<1>2. JobAssigned' /\ PostersReady' /\ SettlersReady'
  BY <1>1 DEF JobAssigned, PostersReady, SettlersReady, Posting, Moving
<1>3. KeysMatch' /\ ChecksStayValid'
  BY <1>1 DEF KeysMatch, ChecksStayValid
<1>4. SweptRowsExist'
  BY <1>1 DEF SweptRowsExist, InBatch
<1>5. DirtyRows'
  <2> SUFFICES ASSUME NEW a \in Accounts, NEW q \in Sessions, rowLock[a] = q
               PROVE  (\/ Moving(q) /\ dirty[a] = Plus(book[a], Delta(job[q], a))
                       \/ pc[q] = "sweep" /\ dirty[a] = book[a])'
    BY <1>1 DEF DirtyRows
  <2>1. q # p
    BY <1>1 DEF DirtyRows, Moving
  <2> QED
    BY <1>1, <2>1 DEF DirtyRows, Moving, Delta
<1>6. FreshSeeds'
  <2>1. \A q \in Sessions : Unapplied(q)' = Unapplied(q)
    BY <1>1 DEF Unapplied, Written
  <2> QED
    BY <1>1, <2>1 DEF FreshSeeds, Delta
<1>7. SnapshotMatchesLedger' /\ NoOverdraft' /\ CeilingRespected' /\ RewardIntent'
  BY <1>1, DurableFrame
<1> QED
  BY <1>2, <1>3, <1>4, <1>5, <1>6, <1>7

LEMMA SweepMarkKeeps ==
    ASSUME IInv, TypeOK', NEW p \in Sweepers, NEW a \in Accounts, SweepMark(p, a)
    PROVE  IInv'
<1> USE DEF IInv, TypeOK, Sessions, durable, locks
<1>1. /\ pc[p] = "sweep" /\ rowLock[a] = None
      /\ WriteRow(p, a, book[a])
      /\ pc' = pc /\ job' = job /\ seed' = seed /\ UNCHANGED durable
  BY DEF SweepMark, WriteRow, SnapshotMatchesLedger, SweptRowsExist
<1>2. /\ \A q \in Sessions \ {p} : Written(q)' = Written(q)
      /\ \A b \in Accounts \ {a} : rowLock'[b] = rowLock[b] /\ dirty'[b] = dirty[b]
      /\ rowLock'[a] = p /\ dirty'[a] = book[a]
  BY <1>1, WriteRowFrame
<1>3. JobAssigned' /\ PostersReady' /\ SettlersReady'
  BY <1>1, SMTT(30) DEF WriteRow, JobAssigned, PostersReady, SettlersReady, Posting, Moving
<1>4. KeysMatch' /\ SweptRowsExist' /\ ChecksStayValid'
  BY <1>1 DEF WriteRow, KeysMatch, SweptRowsExist, InBatch, ChecksStayValid
<1>5. DirtyRows'
  BY <1>1, <1>2 DEF DirtyRows, Moving, Delta
<1>6. FreshSeeds'
  <2> SUFFICES ASSUME NEW q \in Sessions, NEW b \in Accounts, pc[q] = "seed",
                      IsFirst(b, Unapplied(q)'), snap[b] = None
               PROVE  seed[q] = Plus(book[b], Delta(job[q], b))
    BY <1>1 DEF FreshSeeds, Delta
  <2>1. q # p
    BY <1>1
  <2>2. Unapplied(q)' = Unapplied(q)
    BY <1>1, <1>2, <2>1 DEF Unapplied
  <2> QED
    BY <2>2 DEF FreshSeeds
<1>7. SnapshotMatchesLedger' /\ NoOverdraft' /\ CeilingRespected' /\ RewardIntent'
  BY <1>1, DurableFrame
<1> QED
  BY <1>3, <1>4, <1>5, <1>6, <1>7

-----------------------------------------------------------------------------
(* The invariant: the ends of database transactions                        *)

\* A session that ends without moving the ledger keeps what the invariant says
\* of the sessions: the others' knowledge rests on nothing it held.
LEMMA QuietEnd ==
    ASSUME IInv, NEW p \in Sessions, EndTransaction(p), txn' = txn, book' = book,
           uncapped' = uncapped, \A a \in Accounts : snap[a] # None => snap'[a] # None
    PROVE  /\ JobAssigned' /\ PostersReady' /\ SettlersReady' /\ KeysMatch'
           /\ DirtyRows' /\ FreshSeeds' /\ SweptRowsExist' /\ ChecksStayValid'
<1> USE DEF IInv, TypeOK
<1>1. /\ pc'[p] = "idle" /\ checked'[p] = {}
      /\ \A a \in Accounts : rowLock'[a] # p
      /\ \A q \in Sessions \ {p} :
            /\ pc'[q] = pc[q]
            /\ job'[q] = job[q]
            /\ checked'[q] = checked[q]
            /\ seed'[q] = seed[q]
            /\ cached'[q] = cached[q]
            /\ Written(q)' = Written(q)
      /\ \A k \in Keys : inflight'[k] # None => inflight'[k] = inflight[k]
  BY EndTransactionFrame
<1>2. \A q \in Sessions \ {p} :
         /\ \A k \in Keys : (inflight'[k] = q) = (inflight[k] = q)
         /\ \A k \in Keys : (claim'[k] = q) = (claim[k] = q)
         /\ \A a \in Accounts : (forUpdate'[a] = q) = (forUpdate[a] = q)
         /\ \A a \in Accounts :
               /\ (rowLock'[a] = q) = (rowLock[a] = q)
               /\ rowLock[a] = q => dirty'[a] = dirty[a]
  BY EndTransactionFrame
<1>3. JobAssigned'
  BY <1>1 DEF JobAssigned
<1>4. \A q \in Sessions : pc[q] \notin {"idle", "sweep"} => job[q].req.key \in Keys
  BY JobType DEF JobAssigned
<1>5. PostersReady'
  <2> SUFFICES ASSUME NEW q \in Sessions, pc'[q] \in {"guard", "write", "seed"}, Posting(q)'
               PROVE  /\ Balanced(job'[q].req)
                      /\ job'[q].to = job'[q].req.status
                      /\ Moving(q)' =>
                            /\ NeedsLock(job'[q].req) \subseteq checked'[q]
                            /\ inflight'[job'[q].req.key] = q
    BY DEF PostersReady
  <2>1. q # p
    BY <1>1
  <2>2. job[q].req.key \in Keys
    BY <1>1, <1>4, <2>1
  <2>3. (inflight'[job[q].req.key] = q) = (inflight[job[q].req.key] = q)
    BY <1>2, <2>1, <2>2
  <2> QED
    BY <1>1, <2>1, <2>3 DEF PostersReady, Posting, Moving
<1>6. SettlersReady'
  <2> SUFFICES ASSUME NEW q \in Sessions, pc'[q] \in {"guard", "write", "seed"}, ~Posting(q)'
               PROVE  /\ Moving(q)'
                      /\ claim'[job'[q].req.key] = q
                      /\ txn[job'[q].req.key] # None
                      /\ txn[job'[q].req.key].req = job'[q].req
                      /\ txn[job'[q].req.key].status = "PENDING"
                      /\ job'[q].req.status = "PENDING"
                      /\ job'[q].to \in {"COMPLETED", "REVERSED"}
    BY DEF SettlersReady
  <2>1. q # p
    BY <1>1
  <2>2. job[q].req.key \in Keys
    BY <1>1, <1>4, <2>1
  <2>3. (claim'[job[q].req.key] = q) = (claim[job[q].req.key] = q)
    BY <1>2, <2>1, <2>2
  <2> QED
    BY <1>1, <2>1, <2>3 DEF SettlersReady, Posting, Moving
<1>7. KeysMatch'
  BY <1>1 DEF KeysMatch
<1>8. DirtyRows'
  <2> SUFFICES ASSUME NEW a \in Accounts, NEW q \in Sessions, rowLock'[a] = q
               PROVE  (\/ Moving(q) /\ dirty[a] = Plus(book[a], Delta(job[q], a))
                       \/ pc[q] = "sweep" /\ dirty[a] = book[a])'
    BY DEF DirtyRows
  <2>1. q # p
    BY <1>1
  <2>2. rowLock[a] = q /\ dirty'[a] = dirty[a]
    BY <1>2, <2>1
  <2> QED
    BY <1>1, <2>1, <2>2 DEF DirtyRows, Moving, Delta
<1>9. FreshSeeds'
  <2> SUFFICES ASSUME NEW q \in Sessions, NEW b \in Accounts, pc'[q] = "seed",
                      IsFirst(b, Unapplied(q)'), snap'[b] = None
               PROVE  seed'[q] = Plus(book[b], Delta(job'[q], b))
    BY DEF FreshSeeds, Delta
  <2>1. q # p /\ snap[b] = None
    BY <1>1
  <2>2. Unapplied(q)' = Unapplied(q)
    BY <1>1, <2>1 DEF Unapplied
  <2> QED
    BY <1>1, <2>1, <2>2 DEF FreshSeeds
<1>10. SweptRowsExist'
  BY <1>1, SMTT(30) DEF SweptRowsExist, InBatch
<1>11. ChecksStayValid'
  <2> SUFFICES ASSUME NEW q \in Sessions, NEW a \in checked'[q]
               PROVE  /\ forUpdate'[a] = q
                      /\ job'[q].req.delta[a] < 0 =>
                             Available(book[a]) + job'[q].req.delta[a] >= 0
                      /\ job'[q].req.delta[a] > 0 /\ Cap[a] # None =>
                             book[a].bal + job'[q].req.delta[a] <= Cap[a] + uncapped[a]
    BY DEF ChecksStayValid
  <2>1. q # p /\ a \in checked[q] /\ a \in Accounts /\ job'[q] = job[q]
    BY <1>1
  <2> QED
    BY <1>2, <2>1 DEF ChecksStayValid
<1> QED
  BY <1>3, <1>5, <1>6, <1>7, <1>8, <1>9, <1>10, <1>11

LEMMA RollbackKeeps ==
    ASSUME IInv, TypeOK', NEW p \in Sessions, Rollback(p)
    PROVE  IInv'
<1>1. EndTransaction(p) /\ UNCHANGED durable
  BY DEF Rollback
<1> QED
  BY <1>1, QuietEnd, DurableFrame DEF IInv, durable

LEMMA SweepRepairKeeps ==
    ASSUME IInv, TypeOK', NEW p \in Sweepers, SweepRepair(p)
    PROVE  IInv'
<1> USE DEF IInv, TypeOK
<1>1. /\ p \in Sessions /\ EndTransaction(p) /\ pc[p] = "sweep"
      /\ txn' = txn /\ book' = book /\ outbox' = outbox /\ uncapped' = uncapped
  BY DEF SweepRepair, Sessions
<1>2. \A a \in InBatch(p) : dirty[a] = book[a]
  BY <1>1 DEF SweepRepair, Written, DirtyRows, Moving
<1>3. \A a \in Accounts : snap'[a] = IF a \in InBatch(p) THEN book[a] ELSE snap[a]
  BY <1>2 DEF SweepRepair
<1>4. SnapshotMatchesLedger'
  BY <1>1, <1>3 DEF SnapshotMatchesLedger
<1>5. \A a \in Accounts : snap[a] # None => snap'[a] # None
  BY <1>3, DataAssumption
<1>6. NoOverdraft' /\ CeilingRespected' /\ RewardIntent'
  BY <1>1 DEF NoOverdraft, CeilingRespected, RewardIntent
<1> QED
  BY <1>1, <1>4, <1>5, <1>6, QuietEnd

-----------------------------------------------------------------------------
(* The invariant: the commit of a posting or a settlement                  *)

\* The committed rows after a commit: the session's own snapshot rows and the
\* sums they cache move together, and no other row moves.
LEMMA CommitRows ==
    ASSUME IInv, NEW p \in Handlers, Commit(p)
    PROVE  /\ p \in Sessions /\ pc[p] = "write" /\ job[p] \in Job /\ EndTransaction(p)
           /\ \A a \in Accounts : book'[a] = Plus(book[a], Delta(job[p], a))
           /\ \A a \in Accounts : rowLock[a] = p => snap'[a] = book'[a] /\ snap'[a] # None
           /\ \A a \in Accounts : rowLock[a] # p => snap'[a] = snap[a] /\ book'[a] = book[a]
<1> USE DEF IInv, TypeOK
<1>1. p \in Sessions /\ pc[p] = "write" /\ job[p] \in Job /\ EndTransaction(p)
  BY DEF Commit, JobAssigned, Sessions
<1>2. ASSUME NEW a \in Accounts
      PROVE  book'[a] = Plus(book[a], Delta(job[p], a)) /\ book'[a] \in Row
  BY <1>1, DeltaType, PlusType DEF Commit
<1>3. ASSUME NEW a \in Accounts, rowLock[a] = p
      PROVE  snap'[a] = book'[a] /\ snap'[a] # None
  <2>1. snap'[a] = dirty[a]
    BY <1>3 DEF Commit
  <2>2. dirty[a] = Plus(book[a], Delta(job[p], a))
    BY <1>1, <1>3 DEF DirtyRows
  <2> QED
    BY <1>2, <2>1, <2>2, DataAssumption
<1>4. ASSUME NEW a \in Accounts, rowLock[a] # p
      PROVE  snap'[a] = snap[a] /\ book'[a] = book[a]
  <2>1. a \notin Legs(job[p].req)
    BY <1>4 DEF Commit, Unapplied, Written
  <2>2. job[p].req.delta[a] = 0
    BY <2>1 DEF Legs
  <2>3. Delta(job[p], a) = Zero
    BY <2>2 DEF Delta, EntryDelta, FlipDelta, Zero
  <2>4. Plus(book[a], Zero) = book[a]
    BY DEF Plus, Zero, Row
  <2> QED
    BY <1>2, <1>4, <2>3, <2>4 DEF Commit
<1> QED
  BY <1>1, <1>2, <1>3, <1>4

\* The transaction a commit leaves under its key, and what it found there.
LEMMA CommitTxn ==
    ASSUME IInv, NEW p \in Handlers, Commit(p)
    PROVE  /\ job[p].req.key \in Keys
           /\ txn'[job[p].req.key] # None
           /\ txn'[job[p].req.key].req = job[p].req
           /\ txn'[job[p].req.key].status = job[p].to
           /\ \A k \in Keys \ {job[p].req.key} : txn'[k] = txn[k]
           /\ Posting(p) =>
                 /\ txn[job[p].req.key] = None
                 /\ inflight[job[p].req.key] = p
                 /\ job[p].to = job[p].req.status
                 /\ NeedsLock(job[p].req) \subseteq checked[p]
                 /\ Balanced(job[p].req)
           /\ ~Posting(p) =>
                 /\ claim[job[p].req.key] = p
                 /\ txn[job[p].req.key] # None
                 /\ txn[job[p].req.key].req = job[p].req
                 /\ txn[job[p].req.key].status = "PENDING"
                 /\ job[p].req.status = "PENDING"
                 /\ job[p].to \in {"COMPLETED", "REVERSED"}
<1> USE DEF IInv, TypeOK
<1>1. p \in Sessions /\ pc[p] = "write" /\ job[p] \in Job
  BY CommitRows
<1>2. job[p].req.key \in Keys
  BY <1>1, JobType
<1>3. [req |-> job[p].req, status |-> job[p].to] \in TxnRow
  BY <1>1 DEF Job, TxnRow
<1>4. txn' = [txn EXCEPT ![job[p].req.key] = [req |-> job[p].req, status |-> job[p].to]]
  BY DEF Commit
<1>5. /\ txn'[job[p].req.key] = [req |-> job[p].req, status |-> job[p].to]
      /\ \A k \in Keys \ {job[p].req.key} : txn'[k] = txn[k]
  BY <1>2, <1>4
<1>6. txn'[job[p].req.key] # None
  BY <1>3, <1>5, DataAssumption
<1>7. CASE Posting(p)
  <2>1. /\ inflight[job[p].req.key] = p
        /\ job[p].to = job[p].req.status
        /\ NeedsLock(job[p].req) \subseteq checked[p]
        /\ Balanced(job[p].req)
    BY <1>1, <1>7 DEF PostersReady, Moving
  <2>2. txn[job[p].req.key] = None
    BY <1>1, <1>2, <2>1, SessionAssumption DEF KeysMatch
  <2> QED
    BY <1>2, <1>5, <1>6, <1>7, <2>1, <2>2
<1>8. CASE ~Posting(p)
  BY <1>1, <1>2, <1>5, <1>6, <1>8 DEF SettlersReady
<1> QED
  BY <1>7, <1>8

\* What a commit does to a guarded account.  It draws on the available funds,
\* or adds to a capped balance without an exemption, only where it checked
\* that it may.
LEMMA CommitMoves ==
    ASSUME IInv, NEW p \in Handlers, Commit(p), NEW a \in Guarded
    PROVE  /\ uncapped'[a] >= uncapped[a]
           /\ a \notin checked[p] => Available(book'[a]) >= Available(book[a])
           /\ a \in checked[p] => Available(book'[a]) >= 0
           /\ a \in Capped \ checked[p] =>
                 book'[a].bal - uncapped'[a] <= book[a].bal - uncapped[a]
           /\ a \in Capped /\ a \in checked[p] /\ Cap[a] # None =>
                 book'[a].bal <= Cap[a] + uncapped'[a]
<1> USE DEF IInv, TypeOK
<1>1. a \in Accounts /\ job[p] \in Job /\ p \in Sessions
  BY CommitRows, DataAssumption
<1> DEFINE d == job[p].req.delta[a]
<1>2. /\ d \in Int /\ book[a] \in Row /\ uncapped[a] \in Nat
      /\ job[p].req \in Requests
      /\ job[p].req.status \in {"PENDING", "COMPLETED"}
      /\ job[p].kind \in {"post", "settle"}
      /\ job[p].req.exempt \in BOOLEAN
  BY <1>1, JobType
<1>3. book'[a] = Plus(book[a], Delta(job[p], a))
  BY <1>1, CommitRows
<1>4. uncapped'[a] = uncapped[a] + ExemptCredit(job[p], a)
  BY <1>1 DEF Commit
<1>5. job[p].req.status = "PENDING" => d <= 0
  BY <1>2, PendingAssumption
<1>6. a \in Capped /\ Cap[a] # None => Cap[a] \in Nat
  BY DataAssumption
<1>7. Available(book[a]) >= 0
  BY DEF NoOverdraft
<1>8. a \in Capped /\ Cap[a] # None => book[a].bal <= Cap[a] + uncapped[a]
  BY DEF CeilingRespected
<1>9. CASE Posting(p)
  <2>1. /\ book'[a].bal = book[a].bal + (IF job[p].req.status = "COMPLETED" THEN d ELSE 0)
        /\ book'[a].res = book[a].res + (IF job[p].req.status = "PENDING" THEN -d ELSE 0)
    BY <1>3, <1>9 DEF Posting, Delta, EntryDelta, Plus
  <2>2. Available(book'[a]) = Available(book[a]) + d
    BY <1>2, <2>1 DEF Available, Row
  <2>3. uncapped'[a] = uncapped[a] + (IF job[p].req.exempt /\ d > 0 THEN d ELSE 0)
    BY <1>4, <1>9 DEF Posting, ExemptCredit
  <2>4. d < 0 => a \in checked[p]
    BY <1>9, CommitTxn DEF NeedsLock
  <2>5. a \in Capped /\ d > 0 /\ ~job[p].req.exempt => a \in checked[p]
    BY <1>9, CommitTxn DEF NeedsLock
  <2>6. a \in checked[p] =>
           /\ d < 0 => Available(book[a]) + d >= 0
           /\ d > 0 /\ Cap[a] # None => book[a].bal + d <= Cap[a] + uncapped[a]
    BY <1>1 DEF ChecksStayValid
  <2>7. Available(book[a]) \in Int /\ book[a].bal \in Int
    BY <1>2 DEF Available, Row
  <2> HIDE DEF d
  <2>8. book'[a].bal <= book[a].bal \/ (d > 0 /\ book'[a].bal = book[a].bal + d)
    <3>1. CASE job[p].req.status = "COMPLETED"
      <4>1. book'[a].bal = book[a].bal + d
        BY <2>1, <3>1
      <4> QED
        BY <1>2, <2>7, <4>1
    <3>2. CASE job[p].req.status = "PENDING"
      <4>1. book'[a].bal = book[a].bal + 0
        BY <2>1, <3>2
      <4> QED
        BY <2>7, <4>1
    <3> QED
      BY <1>2, <3>1, <3>2
  <2>9. Available(book'[a]) \in Int /\ book'[a].bal \in Int /\ uncapped'[a] \in Nat
    BY <1>2, <2>1, <2>2, <2>3, <2>7
  <2>10. /\ uncapped'[a] >= uncapped[a]
         /\ a \notin checked[p] => Available(book'[a]) >= Available(book[a])
         /\ a \in checked[p] => Available(book'[a]) >= 0
    BY <1>2, <1>7, <2>2, <2>3, <2>4, <2>6, <2>7
  <2>11. a \in Capped \ checked[p] =>
            book'[a].bal - uncapped'[a] <= book[a].bal - uncapped[a]
    BY <1>2, <2>3, <2>5, <2>7, <2>8, <2>9
  <2>12. a \in Capped /\ a \in checked[p] /\ Cap[a] # None =>
            book'[a].bal <= Cap[a] + uncapped'[a]
    BY <1>2, <1>6, <1>8, <2>3, <2>6, <2>7, <2>8, <2>9
  <2> QED
    BY <2>10, <2>11, <2>12
<1>10. CASE ~Posting(p)
  <2>1. d <= 0
    BY <1>5, <1>10, CommitTxn
  <2>2. /\ book'[a].bal = book[a].bal + (IF job[p].to = "COMPLETED" THEN d ELSE 0)
        /\ book'[a].res = book[a].res + d
    BY <1>3, <1>10 DEF Posting, Delta, FlipDelta, Plus
  <2>3. Available(book'[a]) >= Available(book[a]) /\ book'[a].bal <= book[a].bal
    BY <1>2, <2>1, <2>2 DEF Available, Row
  <2>4. uncapped'[a] = uncapped[a]
    BY <1>2, <1>4, <1>10 DEF Posting, ExemptCredit
  <2>5. Available(book'[a]) \in Int /\ Available(book[a]) \in Int
        /\ book'[a].bal \in Int /\ book[a].bal \in Int
    BY <1>2, <2>2 DEF Available, Row
  <2> HIDE DEF d
  <2> QED
    BY <1>2, <1>6, <1>7, <1>8, <2>3, <2>4, <2>5
<1> QED
  BY <1>9, <1>10

LEMMA CommitKeeps ==
    ASSUME IInv, TypeOK', NEW p \in Handlers, Commit(p)
    PROVE  IInv'
<1> USE DEF IInv, TypeOK
<1> DEFINE key == job[p].req.key
<1>1. p \in Sessions /\ pc[p] = "write" /\ job[p] \in Job /\ EndTransaction(p) /\ key \in Keys
  BY CommitRows, CommitTxn
<1>2. /\ pc'[p] = "idle" /\ checked'[p] = {}
      /\ \A a \in Accounts : rowLock'[a] # p
      /\ \A q \in Sessions \ {p} :
            /\ pc'[q] = pc[q]
            /\ job'[q] = job[q]
            /\ checked'[q] = checked[q]
            /\ seed'[q] = seed[q]
            /\ cached'[q] = cached[q]
            /\ Written(q)' = Written(q)
      /\ \A k \in Keys : inflight'[k] # None => inflight'[k] = inflight[k] /\ inflight[k] # p
  BY <1>1, EndTransactionFrame
<1>3. \A q \in Sessions \ {p} :
         /\ \A k \in Keys : (inflight'[k] = q) = (inflight[k] = q)
         /\ \A k \in Keys : (claim'[k] = q) = (claim[k] = q)
         /\ \A a \in Accounts : (forUpdate'[a] = q) = (forUpdate[a] = q)
         /\ \A a \in Accounts :
               /\ (rowLock'[a] = q) = (rowLock[a] = q)
               /\ rowLock[a] = q => dirty'[a] = dirty[a]
  BY <1>1, EndTransactionFrame
<1>4. \A q \in Sessions : pc[q] \notin {"idle", "sweep"} => job[q].req.key \in Keys
  BY JobType DEF JobAssigned
<1>5. \A a \in Accounts : snap[a] # None => snap'[a] # None
  BY CommitRows
<1>6. JobAssigned'
  BY <1>2 DEF JobAssigned
<1>7. PostersReady'
  <2> SUFFICES ASSUME NEW q \in Sessions, pc'[q] \in {"guard", "write", "seed"}, Posting(q)'
               PROVE  /\ Balanced(job'[q].req)
                      /\ job'[q].to = job'[q].req.status
                      /\ Moving(q)' =>
                            /\ NeedsLock(job'[q].req) \subseteq checked'[q]
                            /\ inflight'[job'[q].req.key] = q
    BY DEF PostersReady
  <2>1. q # p
    BY <1>2
  <2>2. job[q].req.key \in Keys
    BY <1>2, <1>4, <2>1
  <2>3. (inflight'[job[q].req.key] = q) = (inflight[job[q].req.key] = q)
    BY <1>3, <2>1, <2>2
  <2> QED
    BY <1>2, <2>1, <2>3 DEF PostersReady, Posting, Moving
<1>8. SettlersReady'
  <2> SUFFICES ASSUME NEW q \in Sessions, pc'[q] \in {"guard", "write", "seed"}, ~Posting(q)'
               PROVE  /\ Moving(q)'
                      /\ claim'[job'[q].req.key] = q
                      /\ txn'[job'[q].req.key] # None
                      /\ txn'[job'[q].req.key].req = job'[q].req
                      /\ txn'[job'[q].req.key].status = "PENDING"
                      /\ job'[q].req.status = "PENDING"
                      /\ job'[q].to \in {"COMPLETED", "REVERSED"}
    BY DEF SettlersReady
  <2>1. q # p /\ pc'[q] = pc[q] /\ job'[q] = job[q] /\ ~Posting(q)
    BY <1>2 DEF Posting
  <2>2. job[q].req.key \in Keys
    BY <1>4, <2>1
  <2>3. claim[job[q].req.key] = q /\ txn[job[q].req.key] # None
    BY <2>1 DEF SettlersReady
  <2>4. (claim'[job[q].req.key] = q) = (claim[job[q].req.key] = q)
    BY <1>3, <2>1, <2>2
  <2>5. job[q].req.key # key
    BY <2>1, <2>3, CommitTxn
  <2>6. txn'[job[q].req.key] = txn[job[q].req.key]
    BY <2>2, <2>5, CommitTxn
  <2> QED
    BY <2>1, <2>3, <2>4, <2>6 DEF SettlersReady, Moving
<1>9. KeysMatch'
  <2> SUFFICES ASSUME NEW k \in Keys
               PROVE  /\ inflight'[k] # None => txn'[k] = None
                      /\ txn'[k] # None =>
                            /\ txn'[k].req.key = k
                            /\ txn'[k].status = "PENDING" => txn'[k].req.status = "PENDING"
    BY DEF KeysMatch
  <2>1. CASE k = key
    <3>1. inflight'[k] = None
      BY <1>2, <2>1, CommitTxn DEF KeysMatch
    <3> QED
      BY <2>1, <3>1, CommitTxn
  <2>2. CASE k # key
    BY <1>2, <2>2, CommitTxn DEF KeysMatch
  <2> QED
    BY <2>1, <2>2
<1>10. DirtyRows'
  <2> SUFFICES ASSUME NEW a \in Accounts, NEW q \in Sessions, rowLock'[a] = q
               PROVE  (\/ Moving(q) /\ dirty[a] = Plus(book[a], Delta(job[q], a))
                       \/ pc[q] = "sweep" /\ dirty[a] = book[a])'
    BY DEF DirtyRows
  <2>1. q # p
    BY <1>2
  <2>2. rowLock[a] = q /\ dirty'[a] = dirty[a]
    BY <1>3, <2>1
  <2>3. book'[a] = book[a]
    BY <2>1, <2>2, CommitRows
  <2> QED
    BY <1>2, <2>1, <2>2, <2>3 DEF DirtyRows, Moving, Delta
<1>11. FreshSeeds'
  <2> SUFFICES ASSUME NEW q \in Sessions, NEW b \in Accounts, pc'[q] = "seed",
                      IsFirst(b, Unapplied(q)'), snap'[b] = None
               PROVE  seed'[q] = Plus(book'[b], Delta(job'[q], b))
    BY DEF FreshSeeds, Delta
  <2>1. q # p /\ snap[b] = None /\ book'[b] = book[b]
    BY <1>2, <1>5, CommitRows
  <2>2. Unapplied(q)' = Unapplied(q)
    BY <1>2, <2>1 DEF Unapplied
  <2> QED
    BY <1>2, <2>1, <2>2 DEF FreshSeeds
<1>12. SweptRowsExist'
  <2> SUFFICES ASSUME NEW q \in Sessions, pc'[q] = "sweep", NEW a \in Accounts,
                      cached'[q][a] # None
               PROVE  snap'[a] # None
    BY DEF SweptRowsExist, InBatch
  <2>1. pc[q] = "sweep" /\ cached[q][a] # None
    BY <1>2
  <2> QED
    BY <1>5, <2>1 DEF SweptRowsExist, InBatch
<1>13. ChecksStayValid'
  <2> SUFFICES ASSUME NEW q \in Sessions, NEW a \in checked'[q]
               PROVE  /\ forUpdate'[a] = q
                      /\ job'[q].req.delta[a] < 0 =>
                             Available(book'[a]) + job'[q].req.delta[a] >= 0
                      /\ job'[q].req.delta[a] > 0 /\ Cap[a] # None =>
                             book'[a].bal + job'[q].req.delta[a] <= Cap[a] + uncapped'[a]
    BY DEF ChecksStayValid
  <2>1. q # p /\ a \in checked[q] /\ a \in Accounts /\ job'[q] = job[q]
    BY <1>2
  <2>2. forUpdate[a] = q /\ a \notin checked[p]
    BY <1>1, <2>1 DEF ChecksStayValid
  <2>3. job[q] \in Job /\ a \in NeedsLock(job[q].req)
    BY <2>1 DEF JobAssigned
  <2>4. a \in Guarded /\ (job[q].req.delta[a] > 0 => a \in Capped)
    BY <2>3, JobType, DataAssumption DEF NeedsLock
  <2>5. /\ Available(book'[a]) >= Available(book[a])
        /\ a \in Capped => book'[a].bal - uncapped'[a] <= book[a].bal - uncapped[a]
    BY <2>2, <2>4, CommitMoves
  <2>6. book[a] \in Row /\ book'[a] \in Row /\ uncapped[a] \in Nat /\ uncapped'[a] \in Nat
    BY <2>1
  <2>7. /\ job[q].req.delta[a] < 0 => Available(book[a]) + job[q].req.delta[a] >= 0
        /\ job[q].req.delta[a] > 0 /\ Cap[a] # None =>
               book[a].bal + job[q].req.delta[a] <= Cap[a] + uncapped[a]
    BY <2>1 DEF ChecksStayValid
  <2>8. job[q].req.delta[a] \in Int /\ (a \in Capped /\ Cap[a] # None => Cap[a] \in Nat)
    BY <2>1, <2>3, JobType, DataAssumption
  <2>9. forUpdate'[a] = q
    BY <1>3, <2>1, <2>2
  <2>10. job[q].req.delta[a] < 0 => Available(book'[a]) + job[q].req.delta[a] >= 0
    BY <2>5, <2>6, <2>7, <2>8 DEF Available, Row
  <2>11. job[q].req.delta[a] > 0 /\ Cap[a] # None =>
            book'[a].bal + job[q].req.delta[a] <= Cap[a] + uncapped'[a]
    BY <2>4, <2>5, <2>6, <2>7, <2>8 DEF Row
  <2> QED
    BY <2>1, <2>9, <2>10, <2>11
<1>14. SnapshotMatchesLedger'
  BY CommitRows DEF SnapshotMatchesLedger
<1>15. NoOverdraft'
  <2> SUFFICES ASSUME NEW a \in Guarded PROVE Available(book'[a]) >= 0
    BY DEF NoOverdraft
  <2>1. Available(book[a]) >= 0 /\ a \in Accounts
    BY DataAssumption DEF NoOverdraft
  <2>2. a \notin checked[p] => Available(book'[a]) >= Available(book[a])
    BY CommitMoves
  <2>3. a \in checked[p] => Available(book'[a]) >= 0
    BY CommitMoves
  <2>4. Available(book[a]) \in Int /\ Available(book'[a]) \in Int
    BY <2>1 DEF Available, Row
  <2> QED
    BY <2>1, <2>2, <2>3, <2>4
<1>16. CeilingRespected'
  <2> SUFFICES ASSUME NEW a \in Capped, Cap[a] # None
               PROVE  book'[a].bal <= Cap[a] + uncapped'[a]
    BY DEF CeilingRespected
  <2>1. a \in Guarded /\ a \in Accounts /\ Cap[a] \in Nat
    BY DataAssumption
  <2>2. book[a].bal <= Cap[a] + uncapped[a]
    BY DEF CeilingRespected
  <2>3. /\ a \notin checked[p] => book'[a].bal - uncapped'[a] <= book[a].bal - uncapped[a]
        /\ a \in checked[p] => book'[a].bal <= Cap[a] + uncapped'[a]
    BY <2>1, CommitMoves
  <2>4. /\ book[a].bal \in Int /\ book'[a].bal \in Int
        /\ uncapped[a] \in Nat /\ uncapped'[a] \in Nat
    BY <2>1 DEF Row
  <2> QED
    BY <2>1, <2>2, <2>3, <2>4
<1>17. RewardIntent'
  <2> SUFFICES ASSUME NEW k \in Keys
               PROVE  k \in outbox' <=>
                          txn'[k] # None /\ txn'[k].req.trigger /\ txn'[k].status = "COMPLETED"
    BY DEF RewardIntent
  <2>1. outbox' = IF Rewarded(job[p]) THEN outbox \cup {key} ELSE outbox
    BY DEF Commit
  <2>2. CASE k = key
    <3>1. k \notin outbox
      BY <2>2, CommitTxn, ZenonT(30) DEF RewardIntent
    <3> QED
      BY <2>1, <2>2, <3>1, CommitTxn DEF Rewarded
  <2>3. CASE k # key
    BY <2>1, <2>3, CommitTxn DEF RewardIntent
  <2> QED
    BY <2>2, <2>3
<1> QED
  BY <1>6, <1>7, <1>8, <1>9, <1>10, <1>11, <1>12, <1>13, <1>14, <1>15, <1>16, <1>17

-----------------------------------------------------------------------------
(* The theorems                                                            *)

LEMMA InitKeeps == Init => IInv
<1> SUFFICES ASSUME Init PROVE IInv
  OBVIOUS
<1>1. TypeOK
  BY InitType
<1>2. /\ \A p \in Sessions : pc[p] = "idle" /\ checked[p] = {}
      /\ \A a \in Accounts : rowLock[a] = None
      /\ \A k \in Keys : txn[k] = None
      /\ outbox = {}
      /\ \A a \in Accounts :
            book[a].bal = Opening[a] /\ book[a].res = 0 /\ uncapped[a] = 0
      /\ \A a \in Accounts : snap[a] # None => snap[a] = book[a]
  BY DEF Init, Free
<1>3. JobAssigned /\ PostersReady /\ SettlersReady /\ FreshSeeds /\ SweptRowsExist
  BY <1>2 DEF JobAssigned, PostersReady, SettlersReady, FreshSeeds, SweptRowsExist
<1>4. DirtyRows
  BY <1>2, SessionAssumption DEF DirtyRows
<1>5. KeysMatch
  BY <1>2 DEF KeysMatch
<1>6. SnapshotMatchesLedger /\ ChecksStayValid
  BY <1>2 DEF SnapshotMatchesLedger, ChecksStayValid
<1>7. NoOverdraft
  <2> SUFFICES ASSUME NEW a \in Guarded PROVE book[a].bal - book[a].res >= 0
    BY DEF NoOverdraft, Available
  <2>1. Opening[a] \in Int /\ Opening[a] >= 0 /\ a \in Accounts
    BY DataAssumption
  <2>2. book[a].bal = Opening[a] /\ book[a].res = 0
    BY <1>2, <2>1
  <2> QED
    BY <2>1, <2>2
<1>8. CeilingRespected
  <2> SUFFICES ASSUME NEW a \in Capped, Cap[a] # None
               PROVE  book[a].bal <= Cap[a] + uncapped[a]
    BY DEF CeilingRespected
  <2>1. /\ Opening[a] <= Cap[a] /\ a \in Accounts
        /\ Opening[a] \in Int /\ Cap[a] \in Nat
    BY DataAssumption
  <2>2. book[a].bal = Opening[a] /\ uncapped[a] = 0
    BY <1>2, <2>1
  <2> QED
    BY <2>1, <2>2
<1>9. RewardIntent
  BY <1>2 DEF RewardIntent
<1> QED
  BY <1>1, <1>3, <1>4, <1>5, <1>6, <1>7, <1>8, <1>9 DEF IInv

LEMMA StutterKeeps == IInv /\ UNCHANGED vars => IInv'
<1> SUFFICES ASSUME IInv, UNCHANGED vars PROVE IInv'
  OBVIOUS
<1> USE DEF IInv, vars, durable, locks
<1>1. TypeOK' /\ JobAssigned' /\ KeysMatch' /\ ChecksStayValid'
  BY DEF TypeOK, JobAssigned, KeysMatch, ChecksStayValid
<1>2. PostersReady' /\ SettlersReady'
  BY DEF PostersReady, SettlersReady, Posting, Moving
<1>3. DirtyRows' /\ SweptRowsExist'
  BY DEF DirtyRows, SweptRowsExist, InBatch, Moving, Delta
<1>4. FreshSeeds'
  BY DEF FreshSeeds, Unapplied, Written, Delta
<1> QED
  BY <1>1, <1>2, <1>3, <1>4, DurableFrame

LEMMA StepKeeps == IInv /\ [Next]_vars => IInv'
<1> SUFFICES ASSUME IInv, [Next]_vars PROVE IInv'
  OBVIOUS
<1>1. TypeOK'
  BY StepType DEF IInv
<1>2. CASE \E p \in Handlers :
              \/ \E r \in Requests : PostBegin(p, r)
              \/ \E k \in Keys, to \in {"COMPLETED", "REVERSED"} : SettleClaim(p, k, to)
  BY <1>1, <1>2, PostBeginKeeps, SettleClaimKeeps
<1>3. CASE \E p \in Handlers : HandlerStep(p)
  BY <1>1, <1>3, LockAccountKeeps, CheckBalanceKeeps, InsertTransactionKeeps,
     InsertEntryKeeps, UpdateSnapshotKeeps, SeedReadKeeps, SeedInsertKeeps, CommitKeeps
     DEF HandlerStep
<1>4. CASE \E p \in Sweepers : (\E B \in SUBSET Accounts : SweepRead(p, B)) \/ SweeperStep(p)
  BY <1>1, <1>4, SweepReadKeeps, SweepMarkKeeps, SweepRepairKeeps DEF SweeperStep
<1>5. CASE \E p \in Sessions : Rollback(p)
  BY <1>1, <1>5, RollbackKeeps
<1>6. CASE UNCHANGED vars
  BY <1>6, StutterKeeps
<1> QED
  BY <1>2, <1>3, <1>4, <1>5, <1>6 DEF Next

\* The invariant holds in every state of the ledger.
THEOREM Invariance == Spec => []IInv
BY InitKeeps, StepKeeps, PTL DEF Spec

\* The cached balance never durably disagrees with the ledger.
THEOREM SnapshotsCorrect == Spec => []SnapshotMatchesLedger
<1>1. IInv => SnapshotMatchesLedger
  BY DEF IInv
<1> QED
  BY <1>1, Invariance, PTL

\* No guarded account is ever overdrawn, holds included.
THEOREM FundsSuffice == Spec => []NoOverdraft
<1>1. IInv => NoOverdraft
  BY DEF IInv
<1> QED
  BY <1>1, Invariance, PTL

\* A ceiling is passed by exempt credits only.
THEOREM CeilingKept == Spec => []CeilingRespected
<1>1. IInv => CeilingRespected
  BY DEF IInv
<1> QED
  BY <1>1, Invariance, PTL

\* A balance check that passed is still true when the money moves.
THEOREM ChecksLast == Spec => []ChecksStayValid
<1>1. IInv => ChecksStayValid
  BY DEF IInv
<1> QED
  BY <1>1, Invariance, PTL

\* A reward intent exists exactly for the completed rewardable transactions.
THEOREM IntentCorrect == Spec => []RewardIntent
<1>1. IInv => RewardIntent
  BY DEF IInv
<1> QED
  BY <1>1, Invariance, PTL

-----------------------------------------------------------------------------
(* The ledger is append-only                                               *)

\* The committed ledger moves at commits of handlers and at no other step.
LEMMA OnlyCommitMoves ==
    ASSUME [Next]_vars
    PROVE  \/ \E p \in Handlers : Commit(p)
           \/ txn' = txn /\ book' = book
<1> USE DEF durable
<1>1. ASSUME NEW p \in Handlers,
             \/ \E r \in Requests : PostBegin(p, r)
             \/ \E k \in Keys, to \in {"COMPLETED", "REVERSED"} : SettleClaim(p, k, to)
      PROVE  txn' = txn /\ book' = book
  BY <1>1 DEF PostBegin, SettleClaim
<1>2. ASSUME NEW p \in Handlers, HandlerStep(p), ~Commit(p)
      PROVE  txn' = txn /\ book' = book
  BY <1>2 DEF HandlerStep, LockAccount, CheckBalance, InsertEntry, UpdateSnapshot,
              SeedRead, SeedInsert, InsertTransaction, WriteRow
<1>3. ASSUME NEW p \in Sweepers, NEW B, SweepRead(p, B)
      PROVE  txn' = txn /\ book' = book
  BY <1>3 DEF SweepRead
<1>4. ASSUME NEW p \in Sweepers, SweeperStep(p)
      PROVE  txn' = txn /\ book' = book
  BY <1>4 DEF SweeperStep, SweepMark, SweepRepair, WriteRow
<1>5. ASSUME NEW p \in Sessions, Rollback(p)
      PROVE  txn' = txn /\ book' = book
  BY <1>5 DEF Rollback
<1>6. CASE UNCHANGED vars
  BY <1>6 DEF vars
<1> QED
  BY <1>1, <1>2, <1>3, <1>4, <1>5, <1>6 DEF Next

LEMMA StepAppends ==
    ASSUME IInv, [Next]_vars, NEW k \in Keys, txn[k] # None
    PROVE  /\ txn'[k] # None
           /\ txn'[k].req = txn[k].req
           /\ txn'[k].status # txn[k].status => txn[k].status = "PENDING"
<1>1. CASE txn' = txn
  BY <1>1
<1>2. ASSUME NEW p \in Handlers, Commit(p)
      PROVE  /\ txn'[k] # None
             /\ txn'[k].req = txn[k].req
             /\ txn'[k].status # txn[k].status => txn[k].status = "PENDING"
  BY <1>2, CommitTxn
<1> QED
  BY <1>1, <1>2, OnlyCommitMoves

\* A committed transaction keeps its key and its legs for ever, and only a
\* PENDING one changes status, once.
THEOREM HistoryKept == Spec => AppendOnly
<1>1. IInv /\ [Next]_vars =>
         [\A k \in Keys :
             txn[k] # None =>
                 /\ txn'[k] # None
                 /\ txn'[k].req = txn[k].req
                 /\ txn'[k].status # txn[k].status => txn[k].status = "PENDING"]_vars
  BY StepAppends
<1> QED
  BY <1>1, Invariance, PTL DEF Spec, AppendOnly

-----------------------------------------------------------------------------
(* The ledger implements its abstract specification                        *)

\* The two specifications compute with the same operators.
LEMMA SameOperators ==
    ASSUME NEW r, NEW a, NEW row, NEW d, NEW to
    PROVE  /\ Atomic!Balanced(r) <=> Balanced(r)
           /\ Atomic!Available(row) = Available(row)
           /\ Atomic!Plus(row, d) = Plus(row, d)
           /\ Atomic!EntryDelta(r, a) = EntryDelta(r, a)
           /\ Atomic!FlipDelta(r, to, a) = FlipDelta(r, to, a)
<1>1. Atomic!Balanced(r) <=> Balanced(r)
  BY DEF Balanced, Atomic!Balanced, Legs, Atomic!Legs, SumFunction, Atomic!SumFunction,
         SumFunctionOnSet, Atomic!SumFunctionOnSet, FoldFunctionOnSet,
         Atomic!FoldFunctionOnSet, MapThenFoldSet, Atomic!MapThenFoldSet
<1>2. Atomic!Available(row) = Available(row) /\ Atomic!Plus(row, d) = Plus(row, d)
  BY DEF Available, Atomic!Available, Plus, Atomic!Plus
<1>3. Atomic!EntryDelta(r, a) = EntryDelta(r, a)
  BY DEF EntryDelta, Atomic!EntryDelta
<1>4. Atomic!FlipDelta(r, to, a) = FlipDelta(r, to, a)
  BY DEF FlipDelta, Atomic!FlipDelta
<1> QED
  BY <1>1, <1>2, <1>3, <1>4

LEMMA InitMaps == Init => Atomic!AbsInit
BY DEF Init, Free, Atomic!AbsInit

\* A poster's commit is an abstract posting, a settler's an abstract
\* settlement.
LEMMA CommitMaps ==
    ASSUME IInv, NEW p \in Handlers, Commit(p)
    PROVE  Atomic!AbsNext
<1> DEFINE j == job[p]
           k == job[p].req.key
<1>1. /\ j \in Job /\ j.req \in Requests /\ k \in Keys
      /\ txn' = [txn EXCEPT ![k] = [req |-> j.req, status |-> j.to]]
      /\ book' = [a \in Accounts |-> Plus(book[a], Delta(j, a))]
  BY CommitRows, JobType DEF Commit
<1>2. CASE Posting(p)
  <2>1. txn[k] = None /\ Balanced(j.req) /\ j.to = j.req.status
    BY <1>2, CommitTxn
  <2>2. ASSUME NEW a \in Guarded, j.req.delta[a] < 0
        PROVE  Available(book[a]) + j.req.delta[a] >= 0
    <3>1. a \in checked[p]
      BY <1>2, <2>2, CommitTxn DEF NeedsLock
    <3> QED
      BY <2>2, <3>1, CommitRows DEF IInv, ChecksStayValid
  <2>3. book' = [a \in Accounts |-> Plus(book[a], EntryDelta(j.req, a))]
    BY <1>1, <1>2 DEF Delta, Posting
  <2>4. txn' = [txn EXCEPT ![k] = [req |-> j.req, status |-> j.req.status]]
    BY <1>1, <2>1
  <2>5. Atomic!Balanced(j.req)
    BY <2>1, SameOperators
  <2>6. \A a \in Guarded :
           j.req.delta[a] < 0 => Atomic!Available(book[a]) + j.req.delta[a] >= 0
    BY <2>2, SameOperators
  <2>7. book' = [a \in Accounts |-> Atomic!Plus(book[a], Atomic!EntryDelta(j.req, a))]
    BY <2>3, SameOperators
  <2>8. Atomic!AbsPost(j.req)
    BY <2>1, <2>4, <2>5, <2>6, <2>7 DEF Atomic!AbsPost, Atomic!Move
  <2> QED
    BY <1>1, <2>8 DEF Atomic!AbsNext
<1>3. CASE ~Posting(p)
  <2>1. /\ txn[k] # None /\ txn[k].req = j.req /\ txn[k].status = "PENDING"
        /\ j.to \in {"COMPLETED", "REVERSED"}
    BY <1>3, CommitTxn
  <2>2. txn[k] \in TxnRow
    BY <1>1, <2>1 DEF IInv, TypeOK
  <2>3. [txn[k] EXCEPT !.status = j.to] = [req |-> j.req, status |-> j.to]
    BY <2>1, <2>2 DEF TxnRow
  <2>4. txn' = [txn EXCEPT ![k].status = j.to]
    BY <1>1, <2>3
  <2>5. book' = [a \in Accounts |-> Plus(book[a], FlipDelta(txn[k].req, j.to, a))]
    BY <1>1, <1>3, <2>1 DEF Delta, Posting
  <2>6. Atomic!AbsSettle(k, j.to)
    BY <2>1, <2>4, <2>5, SameOperators DEF Atomic!AbsSettle, Atomic!Move
  <2> QED
    BY <1>1, <2>1, <2>6 DEF Atomic!AbsNext
<1> QED
  BY <1>2, <1>3

\* Every step of the ledger is an abstract step or leaves the abstract state
\* alone.
THEOREM Implements == Spec => AtomicSpec
<1>1. IInv /\ [Next]_vars => [Atomic!AbsNext]_(Atomic!absVars)
  BY OnlyCommitMoves, CommitMaps DEF Atomic!absVars
<1> QED
  BY <1>1, InitMaps, Invariance, PTL DEF Spec, AtomicSpec, Atomic!AbsSpec

-----------------------------------------------------------------------------
(* The books balance                                                       *)

\* What a transaction's entries count for on an account, before and after.
EntryBal(a) == [k \in Keys |-> EntrySum(k, a).bal]
EntryRes(a) == [k \in Keys |-> EntrySum(k, a).res]

\* Nothing unbalanced is ever committed.
AllBalanced == \A k \in Keys : txn[k] # None => Balanced(txn[k].req)

LEMMA EntrySumType ==
    ASSUME IInv, NEW k \in Keys, NEW a \in Accounts
    PROVE  EntrySum(k, a) \in Row
<1>1. txn[k] # None => txn[k].req.delta[a] \in Int /\ txn[k].status \in Statuses
  BY DataAssumption DEF IInv, TypeOK, TxnRow, Request
<1> QED
  BY <1>1 DEF EntrySum, Row, Zero

LEMMA EntryTypes ==
    ASSUME IInv, NEW a \in Accounts
    PROVE  EntryBal(a) \in [Keys -> Int] /\ EntryRes(a) \in [Keys -> Int]
BY EntrySumType DEF EntryBal, EntryRes, Row

\* A commit changes what one transaction counts for, by what the books move.
LEMMA CommitEntry ==
    ASSUME IInv, NEW p \in Handlers, Commit(p), NEW a \in Accounts,
           NEW k, k = job[p].req.key
    PROVE  /\ k \in Keys /\ Delta(job[p], a) \in Row
           /\ EntrySum(k, a)'.bal = EntrySum(k, a).bal + Delta(job[p], a).bal
           /\ EntrySum(k, a)'.res = EntrySum(k, a).res + Delta(job[p], a).res
           /\ \A o \in Keys \ {k} : EntrySum(o, a)' = EntrySum(o, a)
<1> DEFINE d == job[p].req.delta[a]
<1>1. job[p] \in Job /\ k \in Keys /\ d \in Int /\ Delta(job[p], a) \in Row
  BY CommitRows, JobType, DeltaType
<1>2. \A o \in Keys \ {k} : EntrySum(o, a)' = EntrySum(o, a)
  BY CommitTxn DEF EntrySum
<1>3. txn'[k] # None /\ txn'[k].req.delta[a] = d /\ txn'[k].status = job[p].to
  BY CommitTxn
<1>4. CASE Posting(p)
  <2>1. txn[k] = None /\ job[p].to = job[p].req.status /\ job[p].to \in {"PENDING", "COMPLETED"}
    BY <1>1, <1>4, CommitTxn, JobType
  <2>2. EntrySum(k, a).bal = 0 /\ EntrySum(k, a).res = 0
    BY <2>1 DEF EntrySum, Zero
  <2>3. /\ Delta(job[p], a).bal = IF job[p].to = "COMPLETED" THEN d ELSE 0
        /\ Delta(job[p], a).res = IF job[p].to = "PENDING" THEN -d ELSE 0
    BY <1>4, <2>1 DEF Posting, Delta, EntryDelta
  <2>4. CASE job[p].to = "COMPLETED"
    <3>1. EntrySum(k, a)'.bal = d /\ EntrySum(k, a)'.res = 0
      BY <1>3, <2>4 DEF EntrySum
    <3> QED
      BY <1>1, <1>2, <2>2, <2>3, <2>4, <3>1
  <2>5. CASE job[p].to = "PENDING"
    <3>1. EntrySum(k, a)'.bal = 0 /\ EntrySum(k, a)'.res = -d
      BY <1>3, <2>5 DEF EntrySum
    <3> QED
      BY <1>1, <1>2, <2>2, <2>3, <2>5, <3>1
  <2> QED
    BY <2>1, <2>4, <2>5
<1>5. CASE ~Posting(p)
  <2>1. /\ txn[k] # None /\ txn[k].req.delta[a] = d /\ txn[k].status = "PENDING"
        /\ job[p].to \in {"COMPLETED", "REVERSED"}
    BY <1>5, CommitTxn
  <2>2. EntrySum(k, a).bal = 0 /\ EntrySum(k, a).res = -d
    BY <2>1 DEF EntrySum
  <2>3. Delta(job[p], a).bal = (IF job[p].to = "COMPLETED" THEN d ELSE 0) /\ Delta(job[p], a).res = d
    BY <1>5 DEF Posting, Delta, FlipDelta
  <2>4. CASE job[p].to = "COMPLETED"
    <3>1. EntrySum(k, a)'.bal = d /\ EntrySum(k, a)'.res = 0
      BY <1>3, <2>4 DEF EntrySum
    <3> QED
      BY <1>1, <1>2, <2>2, <2>3, <2>4, <3>1
  <2>5. CASE job[p].to = "REVERSED"
    <3>1. EntrySum(k, a)'.bal = 0 /\ EntrySum(k, a)'.res = 0
      BY <1>3, <2>5 DEF EntrySum, Zero
    <3> QED
      BY <1>1, <1>2, <2>2, <2>3, <2>5, <3>1
  <2> QED
    BY <2>1, <2>4, <2>5
<1> QED
  BY <1>4, <1>5

\* The movement of a balanced request over all the accounts is nothing.
LEMMA DeltaTotals ==
    ASSUME NEW j \in Job, Balanced(j.req)
    PROVE  /\ [a \in Accounts |-> Delta(j, a).bal] \in [Accounts -> Int]
           /\ [a \in Accounts |-> Delta(j, a).res] \in [Accounts -> Int]
           /\ SumFunction([a \in Accounts |-> Delta(j, a).bal]) = 0
           /\ SumFunction([a \in Accounts |-> Delta(j, a).res]) = 0
<1> DEFINE bal == [a \in Accounts |-> Delta(j, a).bal]
           res == [a \in Accounts |-> Delta(j, a).res]
           d == j.req.delta
           zero == [a \in Accounts |-> 0]
           minus == [a \in Accounts |-> -d[a]]
<1>1. IsFiniteSet(Accounts) /\ d \in [Accounts -> Int]
  BY DataAssumption, JobType
<1>2. bal \in [Accounts -> Int] /\ res \in [Accounts -> Int]
  BY DeltaType DEF Row
<1>3. zero \in [Accounts -> Int] /\ minus \in [Accounts -> Int]
  BY <1>1
<1>4. SumFunction(d) = 0 /\ SumFunction(zero) = 0
  BY <1>1, <1>3, TotalOfZeros DEF Balanced
<1>5. SumFunction(minus) = 0
  <2>1. \A a \in Accounts : zero[a] = d[a] + minus[a]
    BY <1>1
  <2> HIDE DEF zero, minus, d
  <2>2. SumFunction(zero) = SumFunction(d) + SumFunction(minus)
    BY <1>1, <1>3, <2>1, TotalPlus
  <2>3. SumFunction(minus) \in Int
    BY <1>1, <1>3, TotalIsSum
  <2> QED
    BY <1>4, <2>2, <2>3
<1>6. bal = d \/ bal = zero
  BY <1>1 DEF Delta, EntryDelta, FlipDelta
<1>7. res = d \/ res = zero \/ res = minus
  BY <1>1 DEF Delta, EntryDelta, FlipDelta
<1> QED
  BY <1>2, <1>4, <1>5, <1>6, <1>7

LEMMA CommitBooks ==
    ASSUME IInv, BooksBalance, AllBalanced, NEW p \in Handlers, Commit(p)
    PROVE  BooksBalance' /\ AllBalanced'
<1>1. /\ p \in Sessions /\ job[p] \in Job
      /\ \A a \in Accounts : book'[a] = Plus(book[a], Delta(job[p], a))
      /\ \A a \in Accounts : Delta(job[p], a) \in Row /\ book[a] \in Row
  BY CommitRows, DeltaType DEF IInv, TypeOK
<1>2. ASSUME NEW a \in Accounts
      PROVE  /\ book'[a].bal = book[a].bal + Delta(job[p], a).bal
             /\ book'[a].res = book[a].res + Delta(job[p], a).res
  <2>1. book'[a] = Plus(book[a], Delta(job[p], a))
    BY <1>1
  <2> QED
    BY <2>1 DEF Plus
<1>3. Balanced(job[p].req)
  BY CommitTxn DEF AllBalanced
<1>4. AllBalanced'
  BY <1>3, CommitTxn DEF AllBalanced, Balanced, Legs
<1>5. ASSUME NEW a \in Accounts
      PROVE  /\ book'[a].bal = Opening[a] + SumFunction(EntryBal(a)')
             /\ book'[a].res = SumFunction(EntryRes(a)')
  <2>1. PICK k : k = job[p].req.key
    OBVIOUS
  <2>2. /\ k \in Keys /\ Delta(job[p], a) \in Row
        /\ EntrySum(k, a)'.bal = EntrySum(k, a).bal + Delta(job[p], a).bal
        /\ EntrySum(k, a)'.res = EntrySum(k, a).res + Delta(job[p], a).res
        /\ \A o \in Keys \ {k} : EntrySum(o, a)' = EntrySum(o, a)
    BY <2>1, CommitEntry
  <2> DEFINE b == EntryBal(a)
             r == EntryRes(a)
             B == EntryBal(a)'
             R == EntryRes(a)'
  <2>3. b \in [Keys -> Int] /\ r \in [Keys -> Int]
    BY EntryTypes
  <2>4. \A o \in Keys \ {k} : B[o] = b[o] /\ R[o] = r[o]
    BY <2>2 DEF EntryBal, EntryRes
  <2>5. B[k] = b[k] + Delta(job[p], a).bal /\ R[k] = r[k] + Delta(job[p], a).res
    BY <2>2 DEF EntryBal, EntryRes
  <2>6. DOMAIN B = Keys /\ DOMAIN R = Keys /\ B = [o \in Keys |-> B[o]] /\ R = [o \in Keys |-> R[o]]
    BY DEF EntryBal, EntryRes
  <2>7. Delta(job[p], a).bal \in Int /\ Delta(job[p], a).res \in Int
    BY <2>2 DEF Row
  <2>8. book[a].bal = Opening[a] + SumFunction(b) /\ book[a].res = SumFunction(r)
    BY DEF BooksBalance, BookIsLedgerSum, EntryBal, EntryRes
  <2> HIDE DEF b, r, B, R
  <2>9. B \in [Keys -> Int] /\ R \in [Keys -> Int]
    BY <2>2, <2>3, <2>4, <2>5, <2>6, <2>7
  <2>10. IsFiniteSet(Keys) /\ Opening[a] \in Int
    BY DataAssumption
  <2>11. SumFunction(B) = SumFunction(b) + (B[k] - b[k]) /\ SumFunction(b) \in Int
    BY <2>2, <2>3, <2>4, <2>9, <2>10, TotalChanges, TotalIsSum
  <2>12. SumFunction(R) = SumFunction(r) + (R[k] - r[k]) /\ SumFunction(r) \in Int
    BY <2>2, <2>3, <2>4, <2>9, <2>10, TotalChanges, TotalIsSum
  <2>13. b[k] \in Int /\ r[k] \in Int
    BY <2>2, <2>3
  <2>14. /\ book'[a].bal = Opening[a] + SumFunction(B)
         /\ book'[a].res = SumFunction(R)
    BY <1>2, <2>5, <2>7, <2>8, <2>10, <2>11, <2>12, <2>13
  <2> QED
    BY <2>14 DEF B, R
<1>6. BookIsLedgerSum'
  BY <1>5 DEF BookIsLedgerSum, EntryBal, EntryRes
<1>7. SumToZero'
  <2> DEFINE b == [a \in Accounts |-> book[a].bal]
             r == [a \in Accounts |-> book[a].res]
             B == [a \in Accounts |-> book'[a].bal]
             R == [a \in Accounts |-> book'[a].res]
             db == [a \in Accounts |-> Delta(job[p], a).bal]
             dr == [a \in Accounts |-> Delta(job[p], a).res]
  <2>1. b \in [Accounts -> Int] /\ r \in [Accounts -> Int]
    BY <1>1 DEF Row
  <2>2. /\ db \in [Accounts -> Int] /\ dr \in [Accounts -> Int]
        /\ SumFunction(db) = 0 /\ SumFunction(dr) = 0
    BY <1>1, <1>3, DeltaTotals
  <2>3. \A a \in Accounts : B[a] = b[a] + db[a] /\ R[a] = r[a] + dr[a]
    BY <1>2
  <2>4. DOMAIN B = Accounts /\ DOMAIN R = Accounts /\ B = [a \in Accounts |-> B[a]]
        /\ R = [a \in Accounts |-> R[a]]
    OBVIOUS
  <2>5. SumFunction(b) = SumFunction(Opening) /\ SumFunction(r) = 0
    BY DEF BooksBalance, SumToZero
  <2>6. IsFiniteSet(Accounts)
    BY DataAssumption
  <2>7. (SumFunction(B) = SumFunction(Opening) /\ SumFunction(R) = 0) => SumToZero'
    BY DEF SumToZero
  <2> HIDE DEF b, r, B, R, db, dr
  <2>8. B \in [Accounts -> Int] /\ R \in [Accounts -> Int]
    BY <2>1, <2>2, <2>3, <2>4
  <2>9. SumFunction(B) = SumFunction(b) + SumFunction(db) /\ SumFunction(b) \in Int
    BY <2>1, <2>2, <2>3, <2>6, <2>8, TotalPlus, TotalIsSum
  <2>10. SumFunction(R) = SumFunction(r) + SumFunction(dr) /\ SumFunction(r) \in Int
    BY <2>1, <2>2, <2>3, <2>6, <2>8, TotalPlus, TotalIsSum
  <2> QED
    BY <2>2, <2>5, <2>7, <2>9, <2>10
<1> QED
  BY <1>4, <1>6, <1>7 DEF BooksBalance

LEMMA InitBooks == Init => BooksBalance /\ AllBalanced
<1> SUFFICES ASSUME Init PROVE BooksBalance /\ AllBalanced
  OBVIOUS
<1>1. AllBalanced
  BY DEF Init, Free, AllBalanced
<1>2. IsFiniteSet(Keys) /\ IsFiniteSet(Accounts) /\ Opening \in [Accounts -> Int]
  BY DataAssumption
<1>3. \A k \in Keys, a \in Accounts : EntrySum(k, a) = Zero
  BY DEF Init, Free, EntrySum
<1>4. BookIsLedgerSum
  <2> SUFFICES ASSUME NEW a \in Accounts
               PROVE  /\ book[a].bal = Opening[a] + SumFunction(EntryBal(a))
                      /\ book[a].res = SumFunction(EntryRes(a))
    BY DEF BookIsLedgerSum, EntryBal, EntryRes
  <2>1. /\ EntryBal(a) \in [Keys -> Int] /\ \A k \in Keys : EntryBal(a)[k] = 0
        /\ EntryRes(a) \in [Keys -> Int] /\ \A k \in Keys : EntryRes(a)[k] = 0
    BY <1>3 DEF EntryBal, EntryRes, Zero
  <2>2. SumFunction(EntryBal(a)) = 0 /\ SumFunction(EntryRes(a)) = 0
    BY <1>2, <2>1, TotalOfZeros
  <2>3. book[a].bal = Opening[a] /\ book[a].res = 0 /\ Opening[a] \in Int
    BY <1>2 DEF Init
  <2> QED
    BY <2>2, <2>3
<1>5. SumToZero
  <2> DEFINE r == [a \in Accounts |-> book[a].res]
  <2>1. r \in [Accounts -> Int] /\ \A a \in Accounts : r[a] = 0
    BY DEF Init
  <2>2. [a \in Accounts |-> book[a].bal] = Opening
    BY <1>2 DEF Init
  <2>3. SumFunction(r) = 0
    BY <1>2, <2>1, TotalOfZeros
  <2> QED
    BY <2>2, <2>3 DEF SumToZero
<1> QED
  BY <1>1, <1>4, <1>5 DEF BooksBalance

LEMMA StepBooks ==
    ASSUME IInv, BooksBalance, AllBalanced, [Next]_vars
    PROVE  BooksBalance' /\ AllBalanced'
<1>1. CASE txn' = txn /\ book' = book
  BY <1>1 DEF BooksBalance, BookIsLedgerSum, SumToZero, EntrySum, AllBalanced, Balanced, Legs
<1>2. ASSUME NEW p \in Handlers, Commit(p)
      PROVE  BooksBalance' /\ AllBalanced'
  BY <1>2, CommitBooks
<1> QED
  BY <1>1, <1>2, OnlyCommitMoves

\* The books agree with the committed entries account by account, and neither
\* the balances nor the holds of the whole ledger change in total.
THEOREM BooksCorrect == Spec => []BooksBalance
<1>1. Init => BooksBalance /\ AllBalanced
  BY InitBooks
<1>2. IInv /\ (BooksBalance /\ AllBalanced) /\ [Next]_vars => (BooksBalance /\ AllBalanced)'
  BY StepBooks
<1> QED
  BY <1>1, <1>2, Invariance, PTL DEF Spec

-----------------------------------------------------------------------------
(* Deadlocks                                                               *)

SessionOrdered(p) == GuardOrdered(p) /\ InsertsLate(p) /\ RowsOrdered(p)

\* What a session holds is in order as long as it does and holds the same.
LEMMA SameLocks ==
    ASSUME NEW q \in Sessions, SessionOrdered(q),
           pc'[q] = pc[q], job'[q] = job[q], cached'[q] = cached[q],
           \A a \in Accounts : (forUpdate'[a] = q) = (forUpdate[a] = q),
           \A a \in Accounts : (rowLock'[a] = q) = (rowLock[a] = q),
           \A a \in Accounts : (q \in keyShare'[a]) = (q \in keyShare[a]),
           \A k \in Keys : (inflight'[k] = q) = (inflight[k] = q),
           \A k \in Keys : (claim'[k] = q) = (claim[k] = q)
    PROVE  SessionOrdered(q)'
<1>1. Held(q)' = Held(q) /\ Written(q)' = Written(q)
  BY DEF Held, Written
<1>2. Unshared(q)' = Unshared(q) /\ Unapplied(q)' = Unapplied(q)
  BY <1>1 DEF Unshared, Unapplied, Legs
<1>3. GuardOrdered(q)'
  BY <1>1 DEF SessionOrdered, GuardOrdered, NeedsLock
<1>4. InsertsLate(q)'
  BY DEF SessionOrdered, InsertsLate, Moving
<1>5. RowsOrdered(q)'
  BY <1>1, <1>2 DEF SessionOrdered, RowsOrdered, Moving, EntriesWritten, Legs, InBatch
<1> QED
  BY <1>3, <1>4, <1>5 DEF SessionOrdered

\* A session that is idle or in its sweep has locked no account and no key.
LEMMA IdleHoldsNothing ==
    ASSUME NEW p \in Sessions, SessionOrdered(p), pc[p] \in {"idle", "sweep"}
    PROVE  /\ Held(p) = {} /\ (pc[p] = "idle" => Written(p) = {})
           /\ \A a \in Accounts : p \notin keyShare[a]
           /\ \A k \in Keys : p \notin {inflight[k], claim[k]}
BY DEF SessionOrdered, GuardOrdered, InsertsLate, RowsOrdered, Moving, Written, Held

\* Whoever holds nothing and is not about to insert a seed is in order.
LEMMA NothingHeld ==
    ASSUME NEW p \in Sessions, pc[p] # "seed",
           Held(p) = {}, Written(p) = {},
           \A a \in Accounts : p \notin keyShare[a],
           \A k \in Keys : p \notin {inflight[k], claim[k]}
    PROVE  SessionOrdered(p)
BY DEF SessionOrdered, GuardOrdered, InsertsLate, RowsOrdered

LEMMA EndOrdered ==
    ASSUME TypeOK, LocksOrdered, NEW p \in Sessions, EndTransaction(p)
    PROVE  LocksOrdered'
<1>1. ASSUME NEW q \in Sessions, q # p
      PROVE  SessionOrdered(q)'
  <2>1. \A a \in Accounts : (q \in keyShare'[a]) = (q \in keyShare[a])
    BY <1>1 DEF EndTransaction
  <2>2. /\ pc'[q] = pc[q] /\ job'[q] = job[q] /\ cached'[q] = cached[q]
        /\ \A k \in Keys : (inflight'[k] = q) = (inflight[k] = q)
        /\ \A k \in Keys : (claim'[k] = q) = (claim[k] = q)
        /\ \A a \in Accounts : (forUpdate'[a] = q) = (forUpdate[a] = q)
        /\ \A a \in Accounts : (rowLock'[a] = q) = (rowLock[a] = q)
    BY <1>1, EndTransactionFrame
  <2>3. SessionOrdered(q)
    BY DEF LocksOrdered, SessionOrdered
  <2> QED
    BY <2>1, <2>2, <2>3, SameLocks
<1>2. SessionOrdered(p)'
  <2>1. /\ pc'[p] = "idle" /\ \A a \in Accounts : rowLock'[a] # p
        /\ \A a \in Accounts : forUpdate'[a] # p /\ p \notin keyShare'[a]
        /\ \A k \in Keys : p \notin {inflight'[k], claim'[k]}
    BY SessionAssumption DEF EndTransaction, Unlock, TypeOK
  <2>2. Held(p)' = {} /\ Written(p)' = {}
    BY <2>1 DEF Held, Written
  <2> QED
    BY <2>1, <2>2 DEF SessionOrdered, GuardOrdered, InsertsLate, RowsOrdered
<1> QED
  BY <1>1, <1>2 DEF LocksOrdered, SessionOrdered

\* A statement of p that leaves what the others do and hold alone.
Apart(p) ==
    \A q \in Sessions \ {p} :
        /\ pc'[q] = pc[q] /\ job'[q] = job[q] /\ cached'[q] = cached[q]
        /\ \A a \in Accounts : (forUpdate'[a] = q) = (forUpdate[a] = q)
        /\ \A a \in Accounts : (rowLock'[a] = q) = (rowLock[a] = q)
        /\ \A a \in Accounts : (q \in keyShare'[a]) = (q \in keyShare[a])
        /\ \A k \in Keys : (inflight'[k] = q) = (inflight[k] = q)
        /\ \A k \in Keys : (claim'[k] = q) = (claim[k] = q)

LEMMA ApartOrdered ==
    ASSUME LocksOrdered, NEW p \in Sessions, Apart(p), SessionOrdered(p)'
    PROVE  LocksOrdered'
<1>1. ASSUME NEW q \in Sessions, q # p
      PROVE  SessionOrdered(q)'
  <2>1. SessionOrdered(q)
    BY DEF LocksOrdered, SessionOrdered
  <2>2. /\ pc'[q] = pc[q] /\ job'[q] = job[q] /\ cached'[q] = cached[q]
        /\ \A a \in Accounts : (forUpdate'[a] = q) = (forUpdate[a] = q)
        /\ \A a \in Accounts : (rowLock'[a] = q) = (rowLock[a] = q)
        /\ \A a \in Accounts : (q \in keyShare'[a]) = (q \in keyShare[a])
        /\ \A k \in Keys : (inflight'[k] = q) = (inflight[k] = q)
        /\ \A k \in Keys : (claim'[k] = q) = (claim[k] = q)
    BY <1>1 DEF Apart
  <2> QED
    BY <2>1, <2>2, SameLocks
<1> QED
  BY <1>1 DEF LocksOrdered, SessionOrdered

LEMMA BeginOrdered ==
    ASSUME TypeOK, LocksOrdered, NEW p \in Sessions,
           \/ p \in Handlers /\ \E r \in Requests : PostBegin(p, r)
           \/ p \in Handlers /\ \E k \in Keys, to \in {"COMPLETED", "REVERSED"} : SettleClaim(p, k, to)
           \/ \E B \in SUBSET Accounts : SweepRead(p, B)
    PROVE  LocksOrdered'
<1>1. /\ pc[p] = "idle" /\ pc'[p] \in {"guard", "write", "sweep"}
      /\ UNCHANGED <<forUpdate, rowLock, keyShare, inflight>>
  BY DEF PostBegin, SettleClaim, SweepRead, Idle, TypeOK, locks
<1>2. Apart(p)
  <2>1. \A q \in Sessions \ {p} : \A k \in Keys : (claim'[k] = q) = (claim[k] = q)
    BY SessionAssumption DEF PostBegin, SettleClaim, SweepRead, locks, TypeOK
  <2> QED
    BY <1>1, <2>1 DEF PostBegin, SettleClaim, SweepRead, TypeOK, Apart
<1>3. SessionOrdered(p)
  BY DEF LocksOrdered, SessionOrdered
<1>4. /\ Held(p) = {} /\ Written(p) = {}
      /\ \A a \in Accounts : p \notin keyShare[a]
      /\ \A k \in Keys : p \notin {inflight[k], claim[k]}
  BY <1>1, <1>3, IdleHoldsNothing
<1>5. Held(p)' = {} /\ Written(p)' = {}
  BY <1>1, <1>4 DEF Held, Written
<1>6. (\A k \in Keys : claim'[k] # p) \/ pc'[p] = "write"
  BY <1>1, <1>4 DEF PostBegin, SettleClaim, SweepRead, locks, TypeOK
<1>7. SessionOrdered(p)'
  BY <1>1, <1>4, <1>5, <1>6 DEF SessionOrdered, GuardOrdered, InsertsLate, RowsOrdered, Moving
<1> QED
  BY <1>2, <1>7, ApartOrdered

LEMMA LockAccountOrdered ==
    ASSUME TypeOK, LocksOrdered, NEW p \in Handlers, NEW a \in Accounts, LockAccount(p, a)
    PROVE  LocksOrdered'
<1>1. p \in Sessions /\ SessionOrdered(p)
  BY DEF LocksOrdered, SessionOrdered, Sessions
<1>2. Apart(p)
  BY SessionAssumption DEF LockAccount, Apart, TypeOK
<1>3. Held(p)' = Held(p) \cup {a} /\ Written(p)' = Written(p) /\ Unshared(p)' \subseteq Unshared(p)
  BY DEF LockAccount, Held, Written, TypeOK, Unshared, Legs
<1>4. pc[p] = "guard" /\ UNCHANGED <<pc, job, cached, keyShare, inflight, rowLock, claim>>
  BY DEF LockAccount
<1>5. Accounts \subseteq Nat
  BY DataAssumption
<1>6. GuardOrdered(p)'
  <2>1. a \in NeedsLock(job[p].req) /\ \A b \in NeedsLock(job[p].req) \ Held(p) : a <= b
    BY DEF LockAccount, IsFirst
  <2>2. NeedsLock(job[p].req) \subseteq Accounts
    BY DataAssumption DEF NeedsLock
  <2>3. \A c \in Held(p)', b \in NeedsLock(job[p].req) \ Held(p)' : c < b
    BY <1>1, <1>3, <1>4, <1>5, <2>1, <2>2 DEF SessionOrdered, GuardOrdered
  <2> QED
    BY <1>1, <1>3, <1>4, <2>1, <2>3 DEF SessionOrdered, GuardOrdered, NeedsLock
<1>7. InsertsLate(p)' /\ RowsOrdered(p)'
  BY <1>1, <1>3, <1>4 DEF SessionOrdered, InsertsLate, RowsOrdered, Moving
<1> QED
  BY <1>1, <1>2, <1>6, <1>7, ApartOrdered DEF SessionOrdered

LEMMA CheckBalanceOrdered ==
    ASSUME TypeOK, LocksOrdered, NEW p \in Handlers, NEW a \in Accounts, CheckBalance(p, a)
    PROVE  LocksOrdered'
<1>1. p \in Sessions /\ SessionOrdered(p)
  BY DEF LocksOrdered, SessionOrdered, Sessions
<1>2. /\ pc[p] = "guard" /\ pc'[p] \in {"guard", "rejected"}
      /\ UNCHANGED <<job, cached, forUpdate, keyShare, inflight, rowLock, claim>>
  BY DEF CheckBalance, locks, TypeOK, Sessions
<1>3. Apart(p)
  BY <1>2 DEF CheckBalance, Apart, TypeOK
<1>4. Held(p)' = Held(p) /\ Written(p)' = Written(p)
  BY <1>2 DEF Held, Written
<1>5. SessionOrdered(p)'
  BY <1>1, <1>2, <1>4 DEF SessionOrdered, GuardOrdered, InsertsLate, RowsOrdered, Moving, NeedsLock
<1> QED
  BY <1>1, <1>3, <1>5, ApartOrdered

LEMMA InsertTransactionOrdered ==
    ASSUME TypeOK, LocksOrdered, NEW p \in Handlers, InsertTransaction(p)
    PROVE  LocksOrdered'
<1>1. p \in Sessions /\ SessionOrdered(p)
  BY DEF LocksOrdered, SessionOrdered, Sessions
<1>2. /\ pc[p] = "guard"
      /\ pc'[p] = "write" \/ (pc'[p] = "integrity_error" /\ inflight' = inflight)
      /\ UNCHANGED <<job, cached, forUpdate, keyShare, rowLock, claim>>
  BY <1>1 DEF InsertTransaction, TypeOK
<1>3. Apart(p)
  BY <1>2, SessionAssumption DEF InsertTransaction, Apart, TypeOK
<1>4. Held(p)' = Held(p) /\ Written(p)' = Written(p)
  BY <1>2 DEF Held, Written
<1>5. Written(p) = {} /\ \A k \in Keys : p \notin {inflight[k], claim[k]}
  BY <1>1, <1>2 DEF SessionOrdered, InsertsLate, RowsOrdered, Moving
<1>6. SessionOrdered(p)'
  BY <1>1, <1>2, <1>4, <1>5 DEF SessionOrdered, GuardOrdered, InsertsLate, RowsOrdered, Moving, NeedsLock
<1> QED
  BY <1>1, <1>3, <1>6, ApartOrdered

LEMMA InsertEntryOrdered ==
    ASSUME TypeOK, LocksOrdered, NEW p \in Handlers, NEW a \in Accounts, InsertEntry(p, a)
    PROVE  LocksOrdered'
<1>1. p \in Sessions /\ SessionOrdered(p)
  BY DEF LocksOrdered, SessionOrdered, Sessions
<1>2. pc[p] = "write" /\ UNCHANGED <<pc, job, cached, forUpdate, inflight, rowLock, claim>>
  BY DEF InsertEntry
<1>3. Apart(p)
  BY <1>2 DEF InsertEntry, Apart, TypeOK
<1>4. Held(p)' = Held(p) /\ Written(p)' = Written(p)
  BY <1>2 DEF Held, Written
<1>5. Written(p) = {}
  BY <1>1, <1>2 DEF SessionOrdered, RowsOrdered, InsertEntry, EntriesWritten
<1>6. SessionOrdered(p)'
  BY <1>1, <1>2, <1>4, <1>5 DEF SessionOrdered, GuardOrdered, InsertsLate, RowsOrdered, Moving, NeedsLock
<1> QED
  BY <1>1, <1>3, <1>6, ApartOrdered

\* The row written next is the first unapplied one, whoever computed it.
LEMMA WriteOrdered ==
    ASSUME TypeOK, LocksOrdered, NEW p \in Handlers, NEW a \in Accounts,
           pc[p] \in {"write", "seed"}, EntriesWritten(p), IsFirst(a, Unapplied(p)),
           \E row : WriteRow(p, a, row), pc' = [pc EXCEPT ![p] = "write"]
    PROVE  LocksOrdered'
<1> PICK row : WriteRow(p, a, row)
  OBVIOUS
<1>1. p \in Sessions /\ SessionOrdered(p)
  BY DEF LocksOrdered, SessionOrdered, Sessions
<1>2. UNCHANGED <<job, cached, forUpdate, keyShare, inflight, claim>> /\ pc'[p] = "write"
  BY <1>1 DEF WriteRow, TypeOK
<1>3. Written(p)' = Written(p) \cup {a}
  BY <1>1, WriteRowFrame
<1>4. Apart(p)
  BY <1>1, <1>2, SessionAssumption DEF WriteRow, Apart, TypeOK
<1>5. Held(p)' = Held(p) /\ Unshared(p)' = Unshared(p) /\ Unapplied(p)' = Unapplied(p) \ {a}
  BY <1>2, <1>3 DEF Held, Unshared, Unapplied, Legs
<1>6. EntriesWritten(p)'
  BY <1>2, <1>5 DEF EntriesWritten
<1>7. a \in Legs(job[p].req) /\ Legs(job[p].req) \subseteq Nat /\ \A b \in Unapplied(p) : a <= b
  BY DataAssumption DEF IsFirst, Unapplied, Legs
<1>8. \A c \in Written(p) : c \in Legs(job[p].req) /\ \A b \in Unapplied(p) : c < b
  BY <1>1 DEF SessionOrdered, RowsOrdered
<1>9. \A c \in Written(p)' : c \in Legs(job[p].req) /\ \A b \in Unapplied(p)' : c < b
  <2>1. \A b \in Unapplied(p)' : b \in Nat /\ a <= b /\ a # b /\ b \in Unapplied(p)
    BY <1>5, <1>7 DEF Unapplied
  <2>2. \A b \in Unapplied(p)' : a < b
    BY <1>7, <2>1
  <2> QED
    BY <1>3, <1>7, <1>8, <2>1, <2>2
<1>10. RowsOrdered(p)'
  BY <1>2, <1>6, <1>9 DEF RowsOrdered, Moving, Legs
<1>11. GuardOrdered(p)' /\ InsertsLate(p)'
  BY <1>1, <1>2, <1>5 DEF SessionOrdered, GuardOrdered, InsertsLate, Moving, NeedsLock
<1> QED
  BY <1>1, <1>4, <1>10, <1>11, ApartOrdered DEF SessionOrdered

LEMMA UpdateSnapshotOrdered ==
    ASSUME TypeOK, LocksOrdered, NEW p \in Handlers, NEW a \in Accounts, UpdateSnapshot(p, a)
    PROVE  LocksOrdered'
<1>1. pc' = [pc EXCEPT ![p] = "write"]
  BY DEF UpdateSnapshot, TypeOK
<1>2. \E row : WriteRow(p, a, row)
  BY DEF UpdateSnapshot
<1>3. pc[p] = "write" /\ EntriesWritten(p) /\ IsFirst(a, Unapplied(p))
  BY DEF UpdateSnapshot
<1> QED
  BY <1>1, <1>2, <1>3, WriteOrdered

LEMMA SeedInsertOrdered ==
    ASSUME TypeOK, LocksOrdered, NEW p \in Handlers, NEW a \in Accounts, SeedInsert(p, a)
    PROVE  LocksOrdered'
<1>1. EntriesWritten(p)
  BY DEF SeedInsert, LocksOrdered, RowsOrdered, Sessions
<1>2. \E row : WriteRow(p, a, row)
  BY DEF SeedInsert
<1>3. pc[p] = "seed" /\ IsFirst(a, Unapplied(p)) /\ pc' = [pc EXCEPT ![p] = "write"]
  BY DEF SeedInsert
<1> QED
  BY <1>1, <1>2, <1>3, WriteOrdered

LEMMA SeedReadOrdered ==
    ASSUME TypeOK, LocksOrdered, NEW p \in Handlers, NEW a \in Accounts, SeedRead(p, a)
    PROVE  LocksOrdered'
<1>1. p \in Sessions /\ SessionOrdered(p)
  BY DEF LocksOrdered, SessionOrdered, Sessions
<1>2. /\ pc[p] = "write" /\ pc'[p] = "seed" /\ EntriesWritten(p) /\ a \in Unapplied(p)
      /\ UNCHANGED <<job, cached, forUpdate, keyShare, inflight, rowLock, claim>>
  BY <1>1 DEF SeedRead, IsFirst, locks, TypeOK
<1>3. Apart(p)
  BY <1>2 DEF SeedRead, Apart, TypeOK
<1>4. /\ Held(p)' = Held(p) /\ Written(p)' = Written(p)
      /\ Unshared(p)' = Unshared(p) /\ Unapplied(p)' = Unapplied(p)
  BY <1>2 DEF Held, Written, Unshared, Unapplied, Legs
<1>5. EntriesWritten(p)'
  BY <1>2, <1>4 DEF EntriesWritten
<1>6. RowsOrdered(p)'
  BY <1>1, <1>2, <1>4, <1>5 DEF SessionOrdered, RowsOrdered, Moving, Legs
<1>7. GuardOrdered(p)' /\ InsertsLate(p)'
  BY <1>1, <1>2, <1>4 DEF SessionOrdered, GuardOrdered, InsertsLate, Moving, NeedsLock
<1> QED
  BY <1>1, <1>3, <1>6, <1>7, ApartOrdered DEF SessionOrdered

LEMMA SweepMarkOrdered ==
    ASSUME TypeOK, LocksOrdered, NEW p \in Sweepers, NEW a \in Accounts, SweepMark(p, a)
    PROVE  LocksOrdered'
<1>1. p \in Sessions /\ SessionOrdered(p)
  BY DEF LocksOrdered, SessionOrdered, Sessions
<1>2. /\ pc[p] = "sweep" /\ WriteRow(p, a, snap[a]) /\ a \in InBatch(p)
      /\ UNCHANGED <<pc, job, cached, forUpdate, keyShare, inflight, claim>>
  BY DEF SweepMark, WriteRow
<1>3. Written(p)' = Written(p) \cup {a}
  BY <1>1, <1>2, WriteRowFrame
<1>4. Apart(p)
  BY <1>1, <1>2, SessionAssumption DEF WriteRow, Apart, TypeOK
<1>5. Held(p)' = Held(p) /\ InBatch(p)' = InBatch(p)
  BY <1>2 DEF Held, InBatch
<1>6. SessionOrdered(p)'
  BY <1>1, <1>2, <1>3, <1>5 DEF SessionOrdered, GuardOrdered, InsertsLate, RowsOrdered, Moving
<1> QED
  BY <1>1, <1>4, <1>6, ApartOrdered

LEMMA StepOrdered == IInv /\ LocksOrdered /\ [Next]_vars => LocksOrdered'
<1> SUFFICES ASSUME IInv, LocksOrdered, [Next]_vars PROVE LocksOrdered'
  OBVIOUS
<1>1. TypeOK
  BY DEF IInv
<1>2. CASE \E p \in Handlers :
              \/ \E r \in Requests : PostBegin(p, r)
              \/ \E k \in Keys, to \in {"COMPLETED", "REVERSED"} : SettleClaim(p, k, to)
  BY <1>1, <1>2, BeginOrdered DEF Sessions
<1>3. CASE \E p \in Handlers : HandlerStep(p)
  <2>1. ASSUME NEW p \in Handlers, Commit(p)
        PROVE  LocksOrdered'
    BY <1>1, <2>1, EndOrdered DEF Commit, Sessions
  <2> QED
    BY <1>1, <1>3, <2>1, LockAccountOrdered, CheckBalanceOrdered, InsertTransactionOrdered,
       InsertEntryOrdered, UpdateSnapshotOrdered, SeedReadOrdered, SeedInsertOrdered
       DEF HandlerStep
<1>4. CASE \E p \in Sweepers : (\E B \in SUBSET Accounts : SweepRead(p, B)) \/ SweeperStep(p)
  <2>1. ASSUME NEW p \in Sweepers, SweepRepair(p)
        PROVE  LocksOrdered'
    BY <1>1, <2>1, EndOrdered DEF SweepRepair, Sessions
  <2>2. ASSUME NEW p \in Sweepers, NEW B \in SUBSET Accounts, SweepRead(p, B)
        PROVE  LocksOrdered'
    BY <1>1, <2>2, BeginOrdered DEF Sessions
  <2> QED
    BY <1>1, <1>4, <2>1, <2>2, SweepMarkOrdered DEF SweeperStep
<1>5. CASE \E p \in Sessions : Rollback(p)
  BY <1>1, <1>5, EndOrdered DEF Rollback
<1>6. CASE UNCHANGED vars
  <2>1. \A p \in Sessions : SessionOrdered(p)'
    BY <1>6, SameLocks DEF vars, locks, LocksOrdered, SessionOrdered
  <2> QED
    BY <2>1 DEF LocksOrdered, SessionOrdered
<1> QED
  BY <1>2, <1>3, <1>4, <1>5, <1>6 DEF Next

LEMMA InitOrdered == Init => LocksOrdered
<1> SUFFICES ASSUME Init PROVE LocksOrdered
  OBVIOUS
<1>1. ASSUME NEW p \in Sessions
      PROVE  SessionOrdered(p)
  <2>1. /\ pc[p] = "idle" /\ Held(p) = {} /\ Written(p) = {}
        /\ \A a \in Accounts : p \notin keyShare[a]
        /\ \A k \in Keys : p \notin {inflight[k], claim[k]}
    BY SessionAssumption DEF Init, Free, Held, Written
  <2> QED
    BY <2>1, NothingHeld
<1> QED
  BY <1>1 DEF LocksOrdered, SessionOrdered

\* Every table, lock and local keeps its type, and a session that has ended,
\* by a commit, an exception or its death, holds no lock on any of them.
THEOREM TypeCorrect == Spec => []WellFormed
<1>1. IInv /\ LocksOrdered => WellFormed
  BY IdleHoldsNothing DEF IInv, LocksOrdered, SessionOrdered, WellFormed, NothingLeft, Idle
<1>2. IInv /\ LocksOrdered /\ [Next]_vars => LocksOrdered'
  BY StepOrdered
<1> QED
  BY <1>1, <1>2, InitOrdered, Invariance, PTL DEF Spec

\* A set of accounts that is not empty has a first one.
LEMMA FirstExists ==
    ASSUME NEW S \in SUBSET Accounts, S # {}
    PROVE  \E a \in S : IsFirst(a, S)
<1>1. S \in SUBSET Nat
  BY DataAssumption
<1>2. PICK a \in S : \A b \in S : a <= b
  BY <1>1, FirstNatural
<1> QED
  BY <1>2 DEF IsFirst

\* No set of accounts has a larger member for each of its members.
LEMMA NoEndlessAscent ==
    ASSUME NEW S \in SUBSET Accounts, \A a \in S : \E b \in S : a < b
    PROVE  S = {}
<1> DEFINE G == {T \in SUBSET Accounts : T = {} \/ \E a \in T : \A b \in T : b <= a}
<1>1. IsFiniteSet(Accounts) /\ Accounts \subseteq Nat
  BY DataAssumption
<1>2. {} \in G
  OBVIOUS
<1>3. ASSUME NEW T \in SUBSET Accounts, T # {}, \A x \in T : T \ {x} \in G
      PROVE  T \in G
  <2>1. PICK x \in T : T \ {x} \in G
    BY <1>3
  <2>2. CASE T \ {x} = {}
    <3>1. \A b \in T : b = x
      BY <2>2
    <3> QED
      BY <1>1, <3>1
  <2>3. CASE T \ {x} # {}
    <3>1. PICK a \in T \ {x} : \A b \in T \ {x} : b <= a
      BY <2>1, <2>3
    <3>2. a \in Nat /\ x \in Nat
      BY <1>1
    <3>3. CASE x <= a
      <4>1. \A b \in T : b <= a
        BY <3>1, <3>3
      <4> QED
        BY <4>1
    <3>4. CASE a <= x
      <4>1. \A b \in T : b <= x
        BY <1>1, <3>1, <3>2, <3>4
      <4> QED
        BY <4>1
    <3> QED
      BY <3>2, <3>3, <3>4
  <2> QED
    BY <2>2, <2>3
<1>4. \A T \in SUBSET Accounts : T \in G
  <2> HIDE DEF G
  <2> QED
    BY <1>1, <1>2, <1>3, AllSubsets
<1>5. S = {} \/ \E a \in S : \A b \in S : b <= a
  BY <1>4
<1> QED
  BY <1>1, <1>5

\* The set of sessions in question: none of them locks outside the order.
OrderedOnly(D) ==
    \A p \in D :
        /\ ~(pc[p] = "write" /\ job[p].kind = "post"
             /\ \E a \in Unshared(p) \cap Guarded : a \notin NeedsLock(job[p].req))
        /\ ~(pc[p] = "sweep" /\ Cardinality(InBatch(p)) > 1)

Applying(p) == pc[p] = "seed" \/ (pc[p] = "write" /\ EntriesWritten(p) /\ Unapplied(p) # {})

\* A sweep of one row that waits has written none.
LEMMA SweepWaits ==
    ASSUME LocksOrdered, NEW D \in SUBSET Sessions, Deadlocked(D), OrderedOnly(D),
           NEW p \in D, pc[p] = "sweep"
    PROVE  Written(p) = {}
<1>1. ~(InBatch(p) \subseteq Written(p))
  <2> SUFFICES ASSUME InBatch(p) \subseteq Written(p) PROVE FALSE
    OBVIOUS
  <2>1. Waits(p) = {{}}
    BY DEF Waits
  <2> QED
    BY <2>1 DEF Deadlocked
<1>2. \A a \in Written(p) : a \in InBatch(p)
  BY DEF LocksOrdered, RowsOrdered, Moving
<1> SUFFICES ASSUME NEW a \in Written(p) PROVE FALSE
  OBVIOUS
<1>3. PICK b \in InBatch(p) : b # a
  BY <1>1
<1>4. InBatch(p) \subseteq Accounts /\ IsFiniteSet(InBatch(p))
  BY DataAssumption, FS_Subset DEF InBatch
<1>5. a \in InBatch(p)
  BY <1>2
<1>6. Cardinality(InBatch(p)) # 0 /\ Cardinality(InBatch(p)) # 1
  BY <1>3, <1>4, <1>5, FS_EmptySet, FS_Singleton
<1>7. Cardinality(InBatch(p)) \in Nat
  BY <1>4, FS_CardinalityType
<1>8. Cardinality(InBatch(p)) > 1
  BY <1>6, <1>7
<1> QED
  BY <1>8 DEF OrderedOnly

\* A session that writes snapshot rows waits for one that is further on.
LEMMA ApplyingAscends ==
    ASSUME IInv, LocksOrdered, NEW D \in SUBSET Sessions, Deadlocked(D), OrderedOnly(D),
           NEW p \in D, Applying(p)
    PROVE  /\ \E a \in Unapplied(p) : IsFirst(a, Unapplied(p))
           /\ \A a \in Unapplied(p) : IsFirst(a, Unapplied(p)) =>
                  \E q \in D : \E b \in Unapplied(q) : Applying(q) /\ IsFirst(b, Unapplied(q)) /\ a < b
<1>1. Unapplied(p) # {} /\ Unapplied(p) \subseteq Accounts
  BY DEF Applying, LocksOrdered, RowsOrdered, Unapplied, Legs
<1>2. \E a \in Unapplied(p) : IsFirst(a, Unapplied(p))
  BY <1>1, FirstExists
<1>3. ASSUME NEW a \in Unapplied(p), IsFirst(a, Unapplied(p))
      PROVE  \E q \in D : \E b \in Unapplied(q) : Applying(q) /\ IsFirst(b, Unapplied(q)) /\ a < b
  <2> DEFINE W == Others(IF pc[p] = "write" /\ snap[a] = None THEN {} ELSE {rowLock[a]}, p)
  <2>1. W \in Waits(p)
    <3>1. CASE pc[p] = "seed"
      BY <1>3, <3>1 DEF Waits
    <3>2. CASE pc[p] = "write" /\ EntriesWritten(p) /\ Unapplied(p) # {}
      BY <1>3, <3>2 DEF Waits
    <3> QED
      BY <3>1, <3>2 DEF Applying
  <2>2. PICK q \in D : q \in W
    BY <2>1 DEF Deadlocked
  <2>3. q = rowLock[a] /\ q # p /\ q \in Sessions /\ a \in Accounts
    BY <1>1, <2>2 DEF Others
  <2>4. a \in Written(q)
    BY <2>3 DEF Written
  <2>5. pc[q] # "sweep"
    BY <2>4, SweepWaits
  <2>6. Moving(q) /\ EntriesWritten(q) /\ \A b \in Unapplied(q) : a < b
    BY <2>3, <2>4, <2>5 DEF LocksOrdered, RowsOrdered
  <2>7. Applying(q)
    <3> SUFFICES ASSUME pc[q] = "write", Unapplied(q) = {} PROVE FALSE
      BY <2>6 DEF Applying, Moving
    <3>1. Waits(q) = {{}}
      BY <2>6 DEF Waits
    <3> QED
      BY <3>1 DEF Deadlocked
  <2>8. Unapplied(q) # {} /\ Unapplied(q) \subseteq Accounts
    BY <2>3, <2>7 DEF Applying, LocksOrdered, RowsOrdered, Unapplied, Legs
  <2>9. PICK b \in Unapplied(q) : IsFirst(b, Unapplied(q))
    BY <2>8, FirstExists
  <2> QED
    BY <2>6, <2>7, <2>9
<1> QED
  BY <1>2, <1>3

\* So none of them is writing snapshot rows.
LEMMA NoneApplying ==
    ASSUME IInv, LocksOrdered, NEW D \in SUBSET Sessions, Deadlocked(D), OrderedOnly(D),
           NEW p \in D
    PROVE  ~Applying(p) /\ pc[p] # "sweep"
<1> DEFINE S == {a \in Accounts : \E q \in D : Applying(q) /\ a \in Unapplied(q) /\ IsFirst(a, Unapplied(q))}
<1>1. \A a \in S : \E b \in S : a < b
  <2> SUFFICES ASSUME NEW a \in S PROVE \E b \in S : a < b
    OBVIOUS
  <2>1. PICK q \in D : Applying(q) /\ a \in Unapplied(q) /\ IsFirst(a, Unapplied(q))
    OBVIOUS
  <2>2. PICK t \in D : \E b \in Unapplied(t) : Applying(t) /\ IsFirst(b, Unapplied(t)) /\ a < b
    BY <2>1, ApplyingAscends
  <2>3. PICK b \in Unapplied(t) : Applying(t) /\ IsFirst(b, Unapplied(t)) /\ a < b
    BY <2>2
  <2>4. b \in Accounts
    BY DEF Unapplied, Legs
  <2> QED
    BY <2>3, <2>4
<1>2. S = {}
  <2> HIDE DEF S
  <2>1. S \in SUBSET Accounts
    BY DEF S
  <2> QED
    BY <1>1, <2>1, NoEndlessAscent
<1>3. \A q \in D : ~Applying(q)
  <2> SUFFICES ASSUME NEW q \in D, Applying(q) PROVE FALSE
    OBVIOUS
  <2>1. PICK a \in Unapplied(q) : IsFirst(a, Unapplied(q))
    BY ApplyingAscends
  <2>2. a \in S
    BY <2>1 DEF Unapplied, Legs
  <2> QED
    BY <1>2, <2>2
<1>4. pc[p] # "sweep"
  <2> SUFFICES ASSUME pc[p] = "sweep" PROVE FALSE
    OBVIOUS
  <2>1. ~(InBatch(p) \subseteq Written(p))
    <3> SUFFICES ASSUME InBatch(p) \subseteq Written(p) PROVE FALSE
      OBVIOUS
    <3>1. Waits(p) = {{}}
      BY DEF Waits
    <3> QED
      BY <3>1 DEF Deadlocked
  <2>2. PICK a \in InBatch(p) \ Written(p) : TRUE
    BY <2>1
  <2>3. Others({rowLock[a]}, p) \in Waits(p)
    BY <2>1, <2>2 DEF Waits
  <2>4. PICK q \in D : q \in Others({rowLock[a]}, p)
    BY <2>3 DEF Deadlocked
  <2>5. q = rowLock[a] /\ q \in Sessions /\ a \in Accounts
    BY <2>2, <2>4 DEF Others, InBatch
  <2>6. a \in Written(q)
    BY <2>5 DEF Written
  <2>7. pc[q] # "sweep"
    BY <2>6, SweepWaits
  <2>8. Moving(q) /\ EntriesWritten(q)
    BY <2>5, <2>6, <2>7 DEF LocksOrdered, RowsOrdered
  <2>9. pc[q] = "write" /\ Unapplied(q) = {}
    BY <1>3, <2>8 DEF Applying, Moving
  <2>10. Waits(q) = {{}}
    BY <2>8, <2>9 DEF Waits
  <2> QED
    BY <2>10 DEF Deadlocked
<1> QED
  BY <1>3, <1>4

\* Nor is any inserting entries: the accounts it has left to share-lock are
\* unguarded, and nobody locks those.
LEMMA NoneMoving ==
    ASSUME IInv, LocksOrdered, NEW D \in SUBSET Sessions, Deadlocked(D), OrderedOnly(D),
           NEW p \in D
    PROVE  ~Moving(p)
<1> SUFFICES ASSUME Moving(p) PROVE FALSE
  OBVIOUS
<1>1. pc[p] = "write"
  BY NoneApplying DEF Moving, Applying
<1>2. CASE EntriesWritten(p)
  <2>1. Unapplied(p) = {}
    BY <1>1, <1>2, NoneApplying DEF Applying
  <2>2. Waits(p) = {{}}
    BY <1>1, <1>2, <2>1 DEF Waits
  <2> QED
    BY <2>2 DEF Deadlocked
<1>3. CASE ~EntriesWritten(p)
  <2>1. job[p].kind # "settle" /\ Unshared(p) # {}
    BY <1>3 DEF EntriesWritten
  <2>2. job[p] \in Job
    BY <1>1 DEF IInv, JobAssigned
  <2>3. Posting(p)
    BY <2>1, <2>2, JobType DEF Posting
  <2>4. NeedsLock(job[p].req) \subseteq Held(p)
    <3>1. NeedsLock(job[p].req) \subseteq checked[p]
      BY <1>1, <2>3 DEF IInv, PostersReady, Moving
    <3>2. \A a \in checked[p] : forUpdate[a] = p /\ a \in Accounts
      BY DEF IInv, ChecksStayValid, TypeOK
    <3> QED
      BY <3>1, <3>2 DEF Held
  <2>5. PICK a \in Unshared(p) : TRUE
    BY <2>1
  <2>6. a \in Accounts /\ a \notin Held(p)
    BY DEF Unshared, Legs
  <2>7. a \notin Guarded
    BY <1>1, <2>3, <2>4, <2>5, <2>6 DEF OrderedOnly, Posting
  <2>8. Others({forUpdate[a]}, p) \in Waits(p)
    BY <1>1, <1>3, <2>5 DEF Waits
  <2>9. PICK q \in D : q \in Others({forUpdate[a]}, p)
    BY <2>8 DEF Deadlocked
  <2>10. a \in Held(q) /\ q \in Sessions
    BY <2>6, <2>9 DEF Others, Held
  <2>11. a \in NeedsLock(job[q].req)
    BY <2>10 DEF LocksOrdered, GuardOrdered
  <2> QED
    BY <2>7, <2>11, DataAssumption DEF NeedsLock
<1> QED
  BY <1>2, <1>3

Locking(p) == pc[p] = "guard" /\ NeedsLock(job[p].req) \ Held(p) # {}

\* What is left waits in the guard, for one that has locked further on.
LEMMA GuardAscends ==
    ASSUME IInv, LocksOrdered, NEW D \in SUBSET Sessions, Deadlocked(D), OrderedOnly(D),
           NEW p \in D
    PROVE  /\ Locking(p)
           /\ \A a \in NeedsLock(job[p].req) \ Held(p) : IsFirst(a, NeedsLock(job[p].req) \ Held(p)) =>
                  \E q \in D : \E b \in NeedsLock(job[q].req) \ Held(q) :
                      IsFirst(b, NeedsLock(job[q].req) \ Held(q)) /\ a < b
<1>1. ASSUME NEW q \in D
      PROVE  Locking(q)
  <2>1. pc[q] = "guard"
    <3>1. q \in Sessions /\ pc[q] # "sweep" /\ ~Moving(q)
      BY NoneApplying, NoneMoving
    <3>2. pc[q] \in {"idle", "rejected", "integrity_error"} => Waits(q) = {{}}
      BY DEF Waits
    <3>3. Waits(q) # {{}}
      BY DEF Deadlocked
    <3>4. pc[q] \in {"idle", "guard", "rejected", "integrity_error", "write", "seed", "sweep"}
      BY <3>1 DEF IInv, TypeOK
    <3> QED
      BY <3>1, <3>2, <3>3, <3>4 DEF Moving
  <2> SUFFICES ASSUME NeedsLock(job[q].req) \ Held(q) = {} PROVE FALSE
    BY <2>1 DEF Locking
  <2>2. CASE NeedsLock(job[q].req) \subseteq checked[q]
    <3>1. Others({inflight[job[q].req.key]}, q) \in Waits(q)
      BY <2>1, <2>2 DEF Waits
    <3>2. PICK t \in D : t \in Others({inflight[job[q].req.key]}, q)
      BY <3>1 DEF Deadlocked
    <3>3. job[q] \in Job /\ job[q].req.key \in Keys
      BY <2>1, JobType DEF IInv, JobAssigned
    <3>4. inflight[job[q].req.key] = t /\ t \in Sessions
      BY <3>2 DEF Others
    <3>5. Moving(t)
      BY <3>3, <3>4 DEF LocksOrdered, InsertsLate
    <3> QED
      BY <3>5, NoneMoving
  <2>3. CASE ~(NeedsLock(job[q].req) \subseteq checked[q])
    <3>1. Waits(q) = {{}}
      BY <2>1, <2>3 DEF Waits
    <3> QED
      BY <3>1 DEF Deadlocked
  <2> QED
    BY <2>2, <2>3
<1>2. ASSUME NEW a \in NeedsLock(job[p].req) \ Held(p), IsFirst(a, NeedsLock(job[p].req) \ Held(p))
      PROVE  \E q \in D : \E b \in NeedsLock(job[q].req) \ Held(q) :
                 IsFirst(b, NeedsLock(job[q].req) \ Held(q)) /\ a < b
  <2>1. pc[p] = "guard" /\ NeedsLock(job[p].req) \ Held(p) # {}
    BY <1>1 DEF Locking
  <2>2. Others({forUpdate[a]} \cup keyShare[a], p) \in Waits(p)
    BY <1>2, <2>1 DEF Waits
  <2>3. PICK q \in D : q \in Others({forUpdate[a]} \cup keyShare[a], p)
    BY <2>2 DEF Deadlocked
  <2>4. a \in Accounts /\ q \in Sessions
    BY DataAssumption DEF NeedsLock
  <2>5. q \notin keyShare[a]
    BY <2>4, NoneMoving DEF LocksOrdered, InsertsLate
  <2>6. a \in Held(q)
    BY <2>3, <2>4, <2>5 DEF Others, Held
  <2>7. Locking(q)
    BY <1>1
  <2>8. \A b \in NeedsLock(job[q].req) \ Held(q) : a < b
    BY <2>4, <2>6, <2>7 DEF LocksOrdered, GuardOrdered, Locking
  <2>9. NeedsLock(job[q].req) \ Held(q) # {} /\ NeedsLock(job[q].req) \ Held(q) \subseteq Accounts
    BY <2>7, DataAssumption DEF Locking, NeedsLock
  <2>10. PICK b \in NeedsLock(job[q].req) \ Held(q) : IsFirst(b, NeedsLock(job[q].req) \ Held(q))
    BY <2>9, FirstExists
  <2> QED
    BY <2>8, <2>10
<1> QED
  BY <1>1, <1>2

LEMMA DeadlockUnordered == IInv /\ LocksOrdered => DeadlockNeedsUnorderedLocks
<1> SUFFICES ASSUME IInv, LocksOrdered, NEW D \in SUBSET Sessions, Deadlocked(D), OrderedOnly(D)
             PROVE  FALSE
  BY DEF DeadlockNeedsUnorderedLocks, OrderedOnly
<1> DEFINE S == {a \in Accounts : \E q \in D : /\ a \in NeedsLock(job[q].req) \ Held(q)
                                               /\ IsFirst(a, NeedsLock(job[q].req) \ Held(q))}
<1>1. \A q \in Sessions : NeedsLock(job[q].req) \ Held(q) \subseteq Accounts
  BY DataAssumption DEF NeedsLock
<1>2. \A a \in S : \E b \in S : a < b
  <2> SUFFICES ASSUME NEW a \in S PROVE \E b \in S : a < b
    OBVIOUS
  <2>1. PICK q \in D : /\ a \in NeedsLock(job[q].req) \ Held(q)
                       /\ IsFirst(a, NeedsLock(job[q].req) \ Held(q))
    OBVIOUS
  <2>2. PICK t \in D : \E b \in NeedsLock(job[t].req) \ Held(t) :
            IsFirst(b, NeedsLock(job[t].req) \ Held(t)) /\ a < b
    BY <2>1, GuardAscends
  <2>3. PICK b \in NeedsLock(job[t].req) \ Held(t) : IsFirst(b, NeedsLock(job[t].req) \ Held(t)) /\ a < b
    BY <2>2
  <2>4. b \in Accounts
    BY <1>1, <2>3
  <2> QED
    BY <2>3, <2>4
<1>3. S = {}
  <2> HIDE DEF S
  <2>1. S \in SUBSET Accounts
    BY DEF S
  <2> QED
    BY <1>2, <2>1, NoEndlessAscent
<1>4. PICK p \in D : TRUE
  BY DEF Deadlocked
<1>5. NeedsLock(job[p].req) \ Held(p) # {}
  BY GuardAscends DEF Locking
<1>6. PICK a \in NeedsLock(job[p].req) \ Held(p) : IsFirst(a, NeedsLock(job[p].req) \ Held(p))
  BY <1>1, <1>5, FirstExists
<1>7. a \in S
  BY <1>1, <1>6
<1> QED
  BY <1>3, <1>7

\* Sessions that wait for each other in a cycle include one that locks outside
\* the order of the guard: with any number of sessions, of accounts and of
\* requests, every cycle is of the two shapes the property names.
THEOREM DeadlocksExplained == Spec => []DeadlockNeedsUnorderedLocks
<1>1. Init => LocksOrdered
  BY InitOrdered
<1>2. IInv /\ LocksOrdered /\ [Next]_vars => LocksOrdered'
  BY StepOrdered
<1>3. IInv /\ LocksOrdered => DeadlockNeedsUnorderedLocks
  BY DeadlockUnordered
<1> QED
  BY <1>1, <1>2, <1>3, Invariance, PTL DEF Spec

=============================================================================
