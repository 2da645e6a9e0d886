-------------------------- MODULE RedemptionProofs --------------------------
(***************************************************************************)
(* Proofs about Redemption: its invariant is inductive, hence concurrent   *)
(* requests and retries never overdraw the points, never leave a burn      *)
(* unsettled, and a key sent once is exact.                                *)
(***************************************************************************)
EXTENDS Redemption, TLAPS

-----------------------------------------------------------------------------
(* The inductive invariant: what the lock on the points keeps true between *)
(* the check and the burn, who is responsible for a burn that is neither   *)
(* paid nor given back, and what is still untouched while a key has been   *)
(* sent only once.                                                         *)

\* A request between its balance check and its burn holds the points, and
\* they still cover it.
PointsHeld ==
    \A p \in Redeemers :
        /\ pc[p] \in {"check", "burn"} => forUpdate[Points] = p
        /\ pc[p] = "burn" => Amount[job[p].key] <= Available(book[Points])

\* A posted leg is the one its key stands for.
LegsMatch ==
    \A k \in ClientKeys :
        /\ Posted(k, "burn") => txn[<<k, "burn">>].req = BurnRequest(k)
        /\ pair[k] # None =>
              /\ Posted(k, "burn") /\ Posted(k, "payout")
              /\ pair[k].points = Amount[k]

\* A request past its burn finds it posted, and its payout past that.
LegsPosted ==
    \A p \in Redeemers :
        /\ pc[p] \in {"payout", "fund", "pay", "unwind", "pair"} =>
               Posted(job[p].key, "burn")
        /\ pc[p] = "pair" => Posted(job[p].key, "payout")

\* p is in charge of the burn of key k.
Owns(p, k) == pc[p] \in {"payout", "fund", "pay", "unwind"} /\ job[p].key = k

\* A burn is paid, given back, or somebody's to settle.
BurnOwned ==
    \A k \in ClientKeys :
        Posted(k, "burn") /\ k \notin cut =>
            \/ Posted(k, "payout")
            \/ Posted(k, "unwind")
            \/ \E p \in Redeemers : Owns(p, k)

On(p, k) == pc[p] # "idle" /\ job[p].key = k

\* What the only request of a key finds, and leaves.
Fresh(p, k) ==
    /\ pair[k] = None /\ ~Posted(k, "unwind")
    /\ IF pc[p] = "pair" THEN txn[<<k, "payout">>].req = PayoutRequest(k, job[p].rate)
       ELSE ~Posted(k, "payout")

\* A key never sent is untouched; a key sent once has one request at most,
\* which finds nothing that it has not done itself.
SentOnce ==
    \A k \in ClientKeys :
        /\ attempts[k] = 0 =>
              /\ ~Posted(k, "payout") /\ ~Posted(k, "unwind") /\ pair[k] = None
              /\ \A p \in Redeemers : ~On(p, k)
        /\ attempts[k] = 1 =>
              /\ \A p, q \in Redeemers : On(p, k) /\ On(q, k) => p = q
              /\ \A p \in Redeemers : On(p, k) => Fresh(p, k)

\* FirstAttemptExact of one key.
Exact(k) ==
    /\ ~(Posted(k, "payout") /\ Posted(k, "unwind"))
    /\ pair[k] # None =>
          /\ txn[<<k, "burn">>].req.delta[Points] = -pair[k].points
          /\ txn[<<k, "payout">>].req.delta[Wallet] = pair[k].fiat

RInv ==
    /\ TypeOK
    /\ PointsHeld
    /\ PointsFloor
    /\ LegsMatch
    /\ LegsPosted
    /\ BurnOwned
    /\ SentOnce
    /\ FirstAttemptExact

-----------------------------------------------------------------------------
(* Steps and legs                                                          *)

\* Steps of one request; the steps that post are apart.
Silent(p) ==
    \/ LockPoints(p) \/ CheckPoints(p) \/ RefuseBurn(p) \/ BurnReplayed(p)
    \/ StartPayout(p) \/ LockWallets(p) \/ PayConflict(p) \/ PayRefused(p)

\* The legs of a redemption as the ledger sees them.
LEMMA Requested ==
    ASSUME NEW k \in ClientKeys, NEW rt \in Rates
    PROVE  /\ BurnRequest(k) \in Requests
           /\ BurnRequest(k).key = <<k, "burn">>
           /\ BurnRequest(k).status = "COMPLETED"
           /\ BurnRequest(k).delta[Points] = -Amount[k]
           /\ PayoutRequest(k, rt) \in Requests
           /\ PayoutRequest(k, rt).key = <<k, "payout">>
           /\ PayoutRequest(k, rt).status = "COMPLETED"
           /\ PayoutRequest(k, rt).delta[Points] = 0
           /\ PayoutRequest(k, rt).delta[Wallet] = QuoteFiat(Amount[k], rt)
           /\ UnwindRequest(k) \in Requests
           /\ UnwindRequest(k).key = <<k, "unwind">>
           /\ UnwindRequest(k).status = "COMPLETED"
           /\ UnwindRequest(k).delta[Points] = Amount[k]
BY PostingsAssumption, RedemptionAssumption
   DEF BurnRequest, PayoutRequest, UnwindRequest, Transfer

\* The three derived keys are keys of the ledger.
LEMMA LegKeys ==
    ASSUME NEW k \in ClientKeys
    PROVE  <<k, "burn">> \in Keys /\ <<k, "payout">> \in Keys /\ <<k, "unwind">> \in Keys
BY RedemptionAssumption

\* A quote is a natural number of minor units.
LEMMA QuoteNat ==
    ASSUME NEW k \in ClientKeys, NEW rt \in Rates
    PROVE  Amount[k] \in Nat \ {0} /\ QuoteFiat(Amount[k], rt) \in Nat
<1>1. /\ Amount[k] \in Nat \ {0}
      /\ rt.points \in Nat \ {0} /\ rt.value \in Nat \ {0}
  BY RedemptionAssumption DEF Rate
<1> DEFINE n == 2 * Amount[k] * rt.value + rt.points
           d == 2 * rt.points
<1>2. n \in Nat /\ d \in Nat \ {0}
  BY <1>1
<1>3. \A x \in Nat, y \in Nat \ {0} : x \div y \in Nat
  OBVIOUS
<1>4. n \div d \in Nat
  <2> HIDE DEF n, d
  <2> QED BY <1>2, <1>3
<1> QED
  BY <1>1, <1>4 DEF QuoteFiat

\* What a posting does to the ledger.
LEMMA PostMoves ==
    ASSUME TypeOK, NEW r \in Requests, r.status = "COMPLETED", AbsPost(r)
    PROVE  /\ txn' \in [Keys -> TxnRow \cup {None}]
           /\ book' \in [Accounts -> Row]
           /\ r.key \in Keys /\ txn[r.key] = None
           /\ txn'[r.key] # None /\ txn'[r.key].req = r
           /\ \A x \in Keys : x # r.key => txn'[x] = txn[x]
           /\ Available(book'[Points]) = Available(book[Points]) + r.delta[Points]
<1>1. r \in Request /\ r.key \in Keys /\ \A a \in Accounts : r.delta[a] \in Int
  BY DataAssumption DEF Request
<1> DEFINE row == [req |-> r, status |-> r.status]
<1>2. row \in TxnRow /\ row # None
  BY DataAssumption DEF TxnRow, Statuses
<1>3. txn' = [txn EXCEPT ![r.key] = row] /\ txn[r.key] = None
  BY DEF AbsPost
<1>4. book' = [a \in Accounts |-> Plus(book[a], EntryDelta(r, a))]
  BY DEF AbsPost, Move
<1>5. \A a \in Accounts :
          /\ EntryDelta(r, a) = [bal |-> r.delta[a], res |-> 0]
          /\ book[a] \in Row
  BY DEF EntryDelta, TypeOK
<1>6. \A a \in Accounts :
          Plus(book[a], EntryDelta(r, a)) = [bal |-> book[a].bal + r.delta[a], res |-> book[a].res + 0]
  BY <1>5 DEF Plus
<1>7. book' \in [Accounts -> Row]
  <2>1. ASSUME NEW a \in Accounts PROVE Plus(book[a], EntryDelta(r, a)) \in Row
    <3>1. book[a].bal \in Int /\ book[a].res \in Int /\ r.delta[a] \in Int
      BY <1>1, <1>5 DEF Row
    <3>2. \A x, y \in Int : [bal |-> x, res |-> y] \in Row
      BY DEF Row
    <3>3. book[a].bal + r.delta[a] \in Int /\ book[a].res + 0 \in Int
      BY <3>1
    <3>4. [bal |-> book[a].bal + r.delta[a], res |-> book[a].res + 0] \in Row
      BY <3>2, <3>3
    <3> QED BY <1>6, <3>4
  <2> QED BY <1>4, <2>1
<1>8. Points \in Accounts
  BY RedemptionAssumption
<1>9. Available(book'[Points]) = Available(book[Points]) + r.delta[Points]
  <2>1. book'[Points] = [bal |-> book[Points].bal + r.delta[Points], res |-> book[Points].res + 0]
    BY <1>4, <1>6, <1>8
  <2>2. book[Points].bal \in Int /\ book[Points].res \in Int /\ r.delta[Points] \in Int
    BY <1>1, <1>5, <1>8 DEF Row
  <2> QED BY <2>1, <2>2 DEF Available
<1> QED
  BY <1>1, <1>2, <1>3, <1>7, <1>9 DEF TypeOK

\* A request in progress.
LEMMA Request1 ==
    ASSUME TypeOK, NEW p \in Redeemers, pc[p] # "idle"
    PROVE  job[p].key \in ClientKeys /\ job[p].rate \in Rates /\ job[p] # None
BY RedemptionAssumption DEF TypeOK

-----------------------------------------------------------------------------
(* Types                                                                   *)

\* Freeing locks keeps the lock table typed.
LEMMA ReleaseTypes ==
    ASSUME TypeOK, NEW p \in Redeemers, Release(p)
    PROVE  forUpdate' \in [Accounts -> Redeemers \cup {None}]
BY DEF TypeOK, Release

\* What a request that ends does to its locals.
LEMMA EndTypes ==
    ASSUME TypeOK, NEW p \in Redeemers, End(p)
    PROVE  /\ forUpdate' \in [Accounts -> Redeemers \cup {None}]
           /\ pc' = [pc EXCEPT ![p] = "idle"]
           /\ job' = [job EXCEPT ![p] = None]
BY ReleaseTypes DEF End, Goto

\* The initial states are typed.
LEMMA InitTypes == Init => TypeOK
<1> SUFFICES ASSUME Init PROVE TypeOK
  OBVIOUS
<1>1. book \in [Accounts -> Row]
  BY DataAssumption DEF Init, AbsInit, Row
<1> QED
  BY <1>1, RedemptionAssumption DEF Init, AbsInit, TypeOK

\* The steps that do not post.
LEMMA SilentTypes ==
    ASSUME TypeOK, NEW p \in Redeemers, Silent(p) \/ Cut(p)
    PROVE  TypeOK'
<1> USE DEF TypeOK
<1>1. CASE LockPoints(p)
  BY <1>1 DEF LockPoints, Goto, tables
<1>2. CASE CheckPoints(p) \/ BurnReplayed(p) \/ PayRefused(p)
  BY <1>2 DEF CheckPoints, BurnReplayed, PayRefused, Goto, tables
<1>3. CASE RefuseBurn(p) \/ PayConflict(p)
  BY <1>3, EndTypes DEF RefuseBurn, PayConflict, tables
<1>4. CASE StartPayout(p)
  BY <1>4 DEF StartPayout, Goto, tables
<1>5. CASE LockWallets(p)
  BY <1>5 DEF LockWallets, Goto, tables
<1>6. CASE Cut(p)
  BY <1>6, EndTypes, Request1 DEF Cut, tables
<1> QED
  BY <1>1, <1>2, <1>3, <1>4, <1>5, <1>6 DEF Silent

\* Every step keeps the types.
LEMMA StepTypes ==
    ASSUME TypeOK, [Next]_vars
    PROVE  TypeOK'
<1>1. ASSUME NEW p \in Redeemers, NEW k \in ClientKeys, Begin(p, k)
      PROVE  TypeOK'
  <2> DEFINE j == [key |-> k, rate |-> rate]
  <2>1. rate \in Rates /\ j \in [key: ClientKeys, rate: Rates] /\ j # None
    BY <1>1, RedemptionAssumption DEF Begin, TypeOK
  <2>2. attempts' \in [ClientKeys -> 0..MaxAttempts]
    BY <1>1, RedemptionAssumption DEF Begin, TypeOK
  <2>3. job' = [job EXCEPT ![p] = j] /\ pc' = [pc EXCEPT ![p] = "lock"]
    BY <1>1 DEF Begin, Goto
  <2>4. /\ job' \in [Redeemers -> [key: ClientKeys, rate: Rates] \cup {None}]
        /\ pc' \in [Redeemers -> {"idle", "lock", "check", "burn", "payout", "fund",
                                  "pay", "unwind", "pair"}]
        /\ \A q \in Redeemers : pc'[q] # "idle" => job'[q] # None
    <3> HIDE DEF j
    <3> QED BY <2>1, <2>3 DEF TypeOK
  <2> QED
    BY <1>1, <2>2, <2>4 DEF Begin, TypeOK, tables
<1>2. ASSUME NEW p \in Redeemers, Silent(p) \/ Cut(p)
      PROVE  TypeOK'
  BY <1>2, SilentTypes
<1>3. ASSUME NEW p \in Redeemers, Burn(p)
      PROVE  TypeOK'
  <2>1. job[p].key \in ClientKeys /\ job[p].rate \in Rates
    BY <1>3, Request1 DEF Burn
  <2>2. txn' \in [Keys -> TxnRow \cup {None}] /\ book' \in [Accounts -> Row]
    BY <1>3, <2>1, Requested, PostMoves DEF Burn, Post
  <2>3. forUpdate' \in [Accounts -> Redeemers \cup {None}]
    BY <1>3, ReleaseTypes DEF Burn, Post
  <2> QED
    BY <1>3, <2>2, <2>3 DEF Burn, Goto, TypeOK
<1>4. ASSUME NEW p \in Redeemers, Pay(p)
      PROVE  TypeOK'
  <2>1. job[p].key \in ClientKeys /\ job[p].rate \in Rates
    BY <1>4, Request1 DEF Pay
  <2>2. txn' \in [Keys -> TxnRow \cup {None}] /\ book' \in [Accounts -> Row]
    BY <1>4, <2>1, Requested, PostMoves DEF Pay, Post
  <2>3. forUpdate' \in [Accounts -> Redeemers \cup {None}]
    BY <1>4, ReleaseTypes DEF Pay, Post
  <2> QED
    BY <1>4, <2>2, <2>3 DEF Pay, Goto, TypeOK
<1>5. ASSUME NEW p \in Redeemers, Unwind(p)
      PROVE  TypeOK'
  <2>1. job[p].key \in ClientKeys /\ job[p].rate \in Rates
    BY <1>5, Request1 DEF Unwind
  <2>2. txn' \in [Keys -> TxnRow \cup {None}] /\ book' \in [Accounts -> Row]
    <3>1. CASE Posted(job[p].key, "unwind")
      BY <1>5, <3>1 DEF Unwind, TypeOK
    <3>2. CASE ~Posted(job[p].key, "unwind")
      BY <1>5, <3>2, <2>1, Requested, PostMoves DEF Unwind
    <3> QED BY <3>1, <3>2
  <2> QED
    BY <1>5, <2>2, EndTypes DEF Unwind, TypeOK
<1>6. ASSUME NEW p \in Redeemers, WritePair(p)
      PROVE  TypeOK'
  <2>1. job[p].key \in ClientKeys /\ job[p].rate \in Rates
    BY <1>6, Request1 DEF WritePair
  <2> DEFINE fiat == QuoteFiat(Amount[job[p].key], job[p].rate)
  <2>2. fiat \in Nat /\ Amount[job[p].key] \in Nat
    BY <2>1, QuoteNat
  <2>3. pair' \in [ClientKeys -> [points: Nat, fiat: Nat] \cup {None}]
    <3> HIDE DEF fiat
    <3>1. pair' = pair
          \/ pair' = [pair EXCEPT ![job[p].key] = [points |-> Amount[job[p].key], fiat |-> fiat]]
      BY <1>6 DEF WritePair, fiat
    <3> QED BY <2>1, <2>2, <3>1 DEF TypeOK
  <2> QED
    BY <1>6, <2>3, EndTypes DEF WritePair, TypeOK
<1>7. ASSUME NEW new \in Rates \cup {None}, ChangeRate(new)
      PROVE  TypeOK'
  BY <1>7 DEF ChangeRate, TypeOK
<1>8. ASSUME NEW r \in OtherRequests, OtherPosting(r)
      PROVE  TypeOK'
  <2>1. r \in Requests /\ r.status = "COMPLETED"
    BY RedemptionAssumption, OthersAssumption
  <2> QED
    BY <1>8, <2>1, PostMoves DEF OtherPosting, TypeOK
<1>9. CASE UNCHANGED vars
  BY <1>9 DEF vars, tables, TypeOK
<1> QED
  BY <1>1, <1>2, <1>3, <1>4, <1>5, <1>6, <1>7, <1>8, <1>9 DEF Next, Silent

\* The tables and the sessions' locals keep their types, and every request in
\* progress has a rate.
THEOREM RedemptionTypes == Spec => []TypeOK
<1> QED
  BY InitTypes, StepTypes, PTL DEF Spec

-----------------------------------------------------------------------------
(* What a step leaves alone                                                *)

Step(p) ==
    \/ \E k \in ClientKeys : Begin(p, k)
    \/ Silent(p) \/ Burn(p) \/ Pay(p) \/ Unwind(p) \/ WritePair(p) \/ Cut(p)

\* The steps of everybody else.
Outside ==
    \/ \E new \in Rates \cup {None} : ChangeRate(new)
    \/ \E r \in OtherRequests : OtherPosting(r)
    \/ UNCHANGED vars

\* A step is one of a request, or of everybody else.
LEMMA NextIsStep == [Next]_vars => (\E p \in Redeemers : Step(p)) \/ Outside
BY DEF Next, Step, Silent, Outside

\* A step of p is nobody else's, and takes no lock from anybody.
LEMMA OthersStay ==
    ASSUME TypeOK, NEW p \in Redeemers, Step(p), NEW q \in Redeemers, q # p
    PROVE  /\ pc'[q] = pc[q] /\ job'[q] = job[q]
           /\ forUpdate[Points] = q => forUpdate'[Points] = q
<1>1. q # None /\ p # None /\ Points \in Accounts /\ Points \notin {Cashback, Wallet}
  BY RedemptionAssumption
<1>2. Release(p) => (forUpdate[Points] = q => forUpdate'[Points] = q)
  BY <1>1 DEF Release, TypeOK
<1>3. End(p) => pc'[q] = pc[q] /\ job'[q] = job[q]
  BY EndTypes DEF TypeOK
<1>4. CASE RefuseBurn(p) \/ PayConflict(p) \/ Unwind(p) \/ WritePair(p) \/ Cut(p)
  BY <1>2, <1>3, <1>4 DEF RefuseBurn, PayConflict, Unwind, WritePair, Cut, End
<1>5. CASE Burn(p) \/ Pay(p)
  BY <1>2, <1>5 DEF Burn, Pay, Post, Goto, TypeOK
<1>6. CASE LockPoints(p) \/ LockWallets(p)
  BY <1>1, <1>6 DEF LockPoints, LockWallets, Goto, TypeOK
<1>7. CASE CheckPoints(p) \/ BurnReplayed(p) \/ StartPayout(p) \/ PayRefused(p)
  BY <1>7 DEF CheckPoints, BurnReplayed, StartPayout, PayRefused, Goto, TypeOK
<1>8. ASSUME NEW k \in ClientKeys, Begin(p, k)
      PROVE  pc'[q] = pc[q] /\ job'[q] = job[q] /\ forUpdate' = forUpdate
  BY <1>8 DEF Begin, Goto, TypeOK
<1> QED
  BY <1>4, <1>5, <1>6, <1>7, <1>8 DEF Step, Silent

\* The three steps that post.
LEMMA BurnMoves ==
    ASSUME TypeOK, NEW p \in Redeemers, Burn(p)
    PROVE  /\ txn[<<job[p].key, "burn">>] = None
           /\ txn'[<<job[p].key, "burn">>] # None
           /\ txn'[<<job[p].key, "burn">>].req = BurnRequest(job[p].key)
           /\ \A x \in Keys : x # <<job[p].key, "burn">> => txn'[x] = txn[x]
           /\ Available(book'[Points]) = Available(book[Points]) - Amount[job[p].key]
<1> DEFINE k == job[p].key
           r == BurnRequest(k)
<1>1. k \in ClientKeys /\ job[p].rate \in Rates
  BY Request1 DEF Burn
<1>2. r \in Requests /\ r.status = "COMPLETED" /\ r.key = <<k, "burn">> /\ r.delta[Points] = -Amount[k]
  BY <1>1, Requested
<1>3. AbsPost(r)
  BY DEF Burn, Post
<1>4. Available(book[Points]) \in Int /\ Amount[k] \in Nat
  BY <1>1, RedemptionAssumption DEF TypeOK, Row, Available
<1>5. /\ txn[r.key] = None /\ txn'[r.key] # None /\ txn'[r.key].req = r
      /\ \A x \in Keys : x # r.key => txn'[x] = txn[x]
      /\ Available(book'[Points]) = Available(book[Points]) + r.delta[Points]
  <2> HIDE DEF r
  <2> QED BY <1>2, <1>3, PostMoves
<1> QED
  <2> HIDE DEF k
  <2>1. Available(book[Points]) + r.delta[Points] = Available(book[Points]) - Amount[k]
    BY <1>2, <1>4
  <2> QED BY <1>2, <1>5, <2>1 DEF k

\* The payout leaves the points alone.
LEMMA PayMoves ==
    ASSUME TypeOK, NEW p \in Redeemers, Pay(p)
    PROVE  /\ txn[<<job[p].key, "payout">>] = None
           /\ txn'[<<job[p].key, "payout">>] # None
           /\ txn'[<<job[p].key, "payout">>].req = PayoutRequest(job[p].key, job[p].rate)
           /\ \A x \in Keys : x # <<job[p].key, "payout">> => txn'[x] = txn[x]
           /\ Available(book'[Points]) = Available(book[Points])
<1> DEFINE k == job[p].key
           r == PayoutRequest(k, job[p].rate)
<1>1. k \in ClientKeys /\ job[p].rate \in Rates
  BY Request1 DEF Pay
<1>2. r \in Requests /\ r.status = "COMPLETED" /\ r.key = <<k, "payout">> /\ r.delta[Points] = 0
  BY <1>1, Requested
<1>3. AbsPost(r)
  BY DEF Pay, Post
<1>4. Available(book[Points]) \in Int
  BY RedemptionAssumption DEF TypeOK, Row, Available
<1>5. /\ txn[r.key] = None /\ txn'[r.key] # None /\ txn'[r.key].req = r
      /\ \A x \in Keys : x # r.key => txn'[x] = txn[x]
      /\ Available(book'[Points]) = Available(book[Points]) + r.delta[Points]
  <2> HIDE DEF r
  <2> QED BY <1>2, <1>3, PostMoves
<1> QED
  <2> HIDE DEF k
  <2>1. Available(book[Points]) + r.delta[Points] = Available(book[Points])
    BY <1>2, <1>4
  <2> QED BY <1>2, <1>5, <2>1 DEF k

\* The unwind gives points back, or finds that it has.
LEMMA UnwindMoves ==
    ASSUME TypeOK, NEW p \in Redeemers, Unwind(p)
    PROVE  /\ txn'[<<job[p].key, "unwind">>] # None
           /\ \A x \in Keys : x # <<job[p].key, "unwind">> => txn'[x] = txn[x]
           /\ txn[<<job[p].key, "unwind">>] # None => txn' = txn
           /\ Available(book'[Points]) >= Available(book[Points])
<1> DEFINE k == job[p].key
           r == UnwindRequest(k)
<1>1. k \in ClientKeys /\ job[p].rate \in Rates
  BY Request1 DEF Unwind
<1>2. r \in Requests /\ r.status = "COMPLETED" /\ r.key = <<k, "unwind">> /\ r.delta[Points] = Amount[k]
  BY <1>1, Requested
<1>3. Available(book[Points]) \in Int /\ Amount[k] \in Nat
  BY <1>1, RedemptionAssumption DEF TypeOK, Row, Available
<1>4. CASE Posted(k, "unwind")
  BY <1>3, <1>4 DEF Unwind, Posted
<1>5. CASE ~Posted(k, "unwind")
  <2>1. AbsPost(r)
    BY <1>5 DEF Unwind
  <2>2. /\ txn'[r.key] # None
        /\ \A x \in Keys : x # r.key => txn'[x] = txn[x]
        /\ Available(book'[Points]) = Available(book[Points]) + r.delta[Points]
    <3> HIDE DEF r
    <3> QED BY <1>2, <2>1, PostMoves
  <2>3. Available(book[Points]) + r.delta[Points] >= Available(book[Points])
    <3> HIDE DEF k
    <3> QED BY <1>2, <1>3
  <2> QED BY <1>2, <1>5, <2>2, <2>3 DEF Posted
<1> QED
  BY <1>4, <1>5

\* Other postings leave the legs alone and take no points.
LEMMA OtherMoves ==
    ASSUME TypeOK, NEW r \in OtherRequests, OtherPosting(r)
    PROVE  /\ \A k \in ClientKeys, leg \in {"burn", "payout", "unwind"} :
                  txn'[<<k, leg>>] = txn[<<k, leg>>]
           /\ Available(book'[Points]) >= Available(book[Points])
<1>1. r \in Requests /\ r.status = "COMPLETED" /\ r.delta[Points] >= 0
      /\ r.key \notin ClientKeys \X {"burn", "payout", "unwind"}
  BY RedemptionAssumption, OthersAssumption
<1>2. AbsPost(r)
  BY DEF OtherPosting
<1>3. /\ \A x \in Keys : x # r.key => txn'[x] = txn[x]
      /\ Available(book'[Points]) = Available(book[Points]) + r.delta[Points]
  BY <1>1, <1>2, PostMoves
<1>4. Available(book[Points]) \in Int /\ r.delta[Points] \in Int
  <2>1. Points \in Accounts /\ r \in Request
    BY <1>1, RedemptionAssumption, DataAssumption
  <2>2. book[Points] \in Row /\ r.delta \in [Accounts -> Int]
    BY <2>1 DEF TypeOK, Request
  <2> QED
    BY <2>1, <2>2 DEF Row, Available
<1>5. \A k \in ClientKeys, leg \in {"burn", "payout", "unwind"} :
          <<k, leg>> \in Keys /\ <<k, leg>> # r.key
  BY <1>1, RedemptionAssumption
<1> QED
  BY <1>1, <1>3, <1>4, <1>5

\* Steps that post nothing.
LEMMA NoMoves ==
    ASSUME TypeOK, NEW p \in Redeemers,
           (\E k \in ClientKeys : Begin(p, k)) \/ Silent(p) \/ WritePair(p) \/ Cut(p)
    PROVE  txn' = txn /\ book' = book
BY DEF Begin, Silent, LockPoints, CheckPoints, RefuseBurn, BurnReplayed, StartPayout,
       LockWallets, PayConflict, PayRefused, WritePair, Cut, tables

-----------------------------------------------------------------------------
(* The points are covered                                                  *)

\* Nobody has checked a balance yet, and the opening points are not negative.
LEMMA PointsInit == Init => PointsHeld /\ PointsFloor
BY RedemptionAssumption DEF Init, AbsInit, PointsHeld, PointsFloor, Available

\* The lock makes the check good until the burn.
LEMMA PointsStep ==
    ASSUME TypeOK, PointsHeld, PointsFloor, NEW p \in Redeemers, Step(p)
    PROVE  PointsHeld' /\ PointsFloor'
<1>1. /\ Available(book[Points]) \in Int
      /\ \A k \in ClientKeys : Amount[k] \in Nat
  BY RedemptionAssumption DEF TypeOK, Row, Available
<1>2. \A q \in Redeemers : pc[q] # "idle" => job[q].key \in ClientKeys
  BY Request1
<1>3. CASE Burn(p)
  <2>1. pc[p] = "burn" /\ pc' = [pc EXCEPT ![p] = "payout"] /\ forUpdate[Points] = p
    BY <1>3 DEF Burn, Goto, PointsHeld
  <2>2. PointsFloor'
    <3>1. Available(book'[Points]) = Available(book[Points]) - Amount[job[p].key]
      BY <1>3, BurnMoves
    <3>2. Amount[job[p].key] <= Available(book[Points]) /\ Amount[job[p].key] \in Nat
      BY <1>1, <1>2, <2>1 DEF PointsHeld
    <3>3. \A x \in Int, n \in Nat : n <= x => x - n >= 0
      OBVIOUS
    <3>4. Available(book'[Points]) >= 0
      BY <1>1, <3>1, <3>2, <3>3
    <3> QED BY <3>4 DEF PointsFloor, Available
  <2>3. ASSUME NEW q \in Redeemers
        PROVE  pc'[q] \notin {"check", "burn"}
    BY <2>1, OthersStay DEF PointsHeld, TypeOK
  <2> QED
    BY <2>2, <2>3 DEF PointsHeld
<1>4. CASE ~Burn(p)
  <2>1. Available(book'[Points]) >= Available(book[Points])
    <3>1. CASE Pay(p)
      <4>1. Available(book'[Points]) = Available(book[Points])
        BY <3>1, PayMoves
      <4> QED BY <1>1, <4>1
    <3>2. CASE Unwind(p)
      BY <3>2, UnwindMoves
    <3>3. CASE ~Pay(p) /\ ~Unwind(p)
      <4>1. book' = book
        BY <1>4, <3>3, NoMoves DEF Step
      <4> QED BY <1>1, <4>1
    <3> QED BY <3>1, <3>2, <3>3
  <2>2. Available(book'[Points]) \in Int
    BY StepTypes, <1>4, RedemptionAssumption DEF TypeOK, Row, Available, Step, Silent, Next
  <2>3. ASSUME NEW q \in Redeemers, q # p
        PROVE  /\ pc'[q] \in {"check", "burn"} => forUpdate'[Points] = q
               /\ pc'[q] = "burn" => Amount[job'[q].key] <= Available(book'[Points])
    BY <1>1, <1>2, <2>1, <2>2, <2>3, OthersStay DEF PointsHeld
  <2>4. /\ pc'[p] \in {"check", "burn"} => forUpdate'[Points] = p
        /\ pc'[p] = "burn" => Amount[job'[p].key] <= Available(book'[Points])
    <3>1. CASE LockPoints(p)
      BY <3>1, RedemptionAssumption DEF LockPoints, Goto, TypeOK
    <3>2. CASE CheckPoints(p)
      BY <3>2, <1>1, <1>2 DEF CheckPoints, BurnAllowed, Goto, TypeOK, PointsHeld, tables
    <3>3. CASE ~LockPoints(p) /\ ~CheckPoints(p)
      <4>1. pc'[p] \notin {"check", "burn"}
        <5>1. End(p) => pc'[p] = "idle"
          BY DEF End, Goto, TypeOK
        <5>2. CASE RefuseBurn(p) \/ PayConflict(p) \/ Unwind(p) \/ WritePair(p) \/ Cut(p)
          BY <5>1, <5>2 DEF RefuseBurn, PayConflict, Unwind, WritePair, Cut
        <5>3. CASE BurnReplayed(p) \/ StartPayout(p) \/ LockWallets(p) \/ PayRefused(p) \/ Pay(p)
          BY <5>3 DEF BurnReplayed, StartPayout, LockWallets, PayRefused, Pay, Goto, TypeOK
        <5>4. CASE \E k \in ClientKeys : Begin(p, k)
          BY <5>4 DEF Begin, Goto, TypeOK
        <5> QED
          BY <1>4, <3>3, <5>2, <5>3, <5>4 DEF Step, Silent
      <4> QED BY <4>1
    <3> QED BY <3>1, <3>2, <3>3
  <2>5. PointsFloor'
    BY <1>1, <2>1, <2>2 DEF PointsFloor
  <2> QED
    BY <2>3, <2>4, <2>5 DEF PointsHeld
<1> QED
  BY <1>3, <1>4

\* Nobody else takes points, or locks.
LEMMA PointsOutside ==
    ASSUME TypeOK, PointsHeld, PointsFloor, Outside
    PROVE  PointsHeld' /\ PointsFloor'
<1>1. /\ Available(book[Points]) \in Int
      /\ \A k \in ClientKeys : Amount[k] \in Nat
  BY RedemptionAssumption DEF TypeOK, Row, Available
<1>2. \A q \in Redeemers : pc[q] # "idle" => job[q].key \in ClientKeys
  BY Request1
<1>3. pc' = pc /\ job' = job /\ forUpdate' = forUpdate
  BY DEF Outside, ChangeRate, OtherPosting, vars, tables
<1>4. Available(book'[Points]) >= Available(book[Points])
  BY <1>1, OtherMoves DEF Outside, ChangeRate, vars, tables
<1>5. Available(book'[Points]) \in Int
  BY StepTypes, RedemptionAssumption DEF TypeOK, Row, Available, Outside, Next
<1> QED
  BY <1>1, <1>2, <1>3, <1>4, <1>5 DEF PointsHeld, PointsFloor

-----------------------------------------------------------------------------
(* Burns are settled                                                       *)

\* The legs of a key are posted by the request on it, and stay.
LEMMA LegsOfOthers ==
    ASSUME TypeOK, NEW p \in Redeemers, Step(p), NEW k \in ClientKeys, ~On(p, k)
    PROVE  \A leg \in {"burn", "payout", "unwind"} : txn'[<<k, leg>>] = txn[<<k, leg>>]
<1>1. \A leg \in {"burn", "payout", "unwind"} : <<k, leg>> \in Keys
  BY LegKeys
<1>2. CASE Burn(p)
  BY <1>1, <1>2, BurnMoves DEF Burn, On
<1>3. CASE Pay(p)
  BY <1>1, <1>3, PayMoves DEF Pay, On
<1>4. CASE Unwind(p)
  BY <1>1, <1>4, UnwindMoves DEF Unwind, On
<1>5. CASE ~Burn(p) /\ ~Pay(p) /\ ~Unwind(p)
  BY <1>5, NoMoves DEF Step
<1> QED
  BY <1>2, <1>3, <1>4, <1>5

\* A posted leg stays posted.
LEMMA LegsStay ==
    ASSUME TypeOK, NEW p \in Redeemers, Step(p),
           NEW k \in ClientKeys, NEW leg \in {"burn", "payout", "unwind"}, Posted(k, leg)
    PROVE  txn'[<<k, leg>>] = txn[<<k, leg>>]
<1>1. <<k, leg>> \in Keys /\ txn[<<k, leg>>] # None
  BY LegKeys DEF Posted
<1>2. CASE Burn(p)
  BY <1>1, <1>2, BurnMoves
<1>3. CASE Pay(p)
  BY <1>1, <1>3, PayMoves
<1>4. CASE Unwind(p)
  BY <1>1, <1>4, UnwindMoves
<1>5. CASE ~Burn(p) /\ ~Pay(p) /\ ~Unwind(p)
  BY <1>5, NoMoves DEF Step
<1> QED
  BY <1>2, <1>3, <1>4, <1>5

\* Whoever settles a burn hands it over settled, or dies.
LEMMA OwnerStep ==
    ASSUME TypeOK, NEW p \in Redeemers, Step(p), NEW k \in ClientKeys, Owns(p, k)
    PROVE  Posted(k, "payout")' \/ Posted(k, "unwind")' \/ Owns(p, k)' \/ k \in cut'
<1>1. pc[p] \in {"payout", "fund", "pay", "unwind"} /\ job[p].key = k
  BY DEF Owns
<1>2. CASE Pay(p)
  BY <1>1, <1>2, PayMoves DEF Posted
<1>3. CASE Unwind(p)
  BY <1>1, <1>3, UnwindMoves DEF Posted
<1>4. CASE Cut(p)
  BY <1>1, <1>4 DEF Cut
<1>5. CASE StartPayout(p)
  BY <1>1, <1>5 DEF StartPayout, Goto, Owns, Posted, TypeOK, tables
<1>6. CASE LockWallets(p) \/ PayRefused(p)
  BY <1>1, <1>6 DEF LockWallets, PayRefused, Goto, Owns, TypeOK
<1>7. CASE PayConflict(p)
  BY <1>1, <1>7 DEF PayConflict, Posted, tables
<1>8. ~Burn(p) /\ ~WritePair(p) /\ ~LockPoints(p) /\ ~CheckPoints(p) /\ ~RefuseBurn(p)
      /\ ~BurnReplayed(p) /\ \A x \in ClientKeys : ~Begin(p, x)
  BY <1>1 DEF Burn, WritePair, LockPoints, CheckPoints, RefuseBurn, BurnReplayed, Begin
<1> QED
  BY <1>2, <1>3, <1>4, <1>5, <1>6, <1>7, <1>8 DEF Step, Silent

\* A burn is born owned, and stays owned until it is settled.
LEMMA BurnOwnedStep ==
    ASSUME TypeOK, BurnOwned, NEW p \in Redeemers, Step(p)
    PROVE  BurnOwned'
<1> SUFFICES ASSUME NEW k \in ClientKeys, Posted(k, "burn")', k \notin cut'
             PROVE  Posted(k, "payout")' \/ Posted(k, "unwind")'
                    \/ \E q \in Redeemers : Owns(q, k)'
  BY DEF BurnOwned
<1>1. k \notin cut
  BY DEF Step, Begin, Silent, LockPoints, CheckPoints, RefuseBurn, BurnReplayed, StartPayout,
         LockWallets, PayConflict, PayRefused, Burn, Pay, Unwind, WritePair, Cut
<1>2. CASE ~Posted(k, "burn")
  <2>1. Burn(p) /\ job[p].key = k
    <3>1. <<k, "burn">> \in Keys /\ txn'[<<k, "burn">>] # txn[<<k, "burn">>]
      BY <1>2, LegKeys DEF Posted
    <3> QED
      BY <3>1, BurnMoves, PayMoves, UnwindMoves, NoMoves DEF Step
  <2>2. pc'[p] = "payout" /\ job'[p].key = k
    BY <2>1 DEF Burn, Goto, TypeOK
  <2> QED
    BY <2>2 DEF Owns
<1>3. CASE Posted(k, "burn")
  <2>1. Posted(k, "payout") \/ Posted(k, "unwind") \/ \E q \in Redeemers : Owns(q, k)
    BY <1>1, <1>3 DEF BurnOwned
  <2>2. CASE Posted(k, "payout") \/ Posted(k, "unwind")
    BY <2>2, LegsStay DEF Posted
  <2>3. ASSUME NEW q \in Redeemers, Owns(q, k)
        PROVE  Posted(k, "payout")' \/ Posted(k, "unwind")' \/ Owns(q, k)'
    <3>1. CASE q = p
      BY <2>3, <3>1, OwnerStep
    <3>2. CASE q # p
      BY <2>3, <3>2, OthersStay DEF Owns
    <3> QED BY <3>1, <3>2
  <2> QED BY <2>1, <2>2, <2>3
<1> QED BY <1>2, <1>3

\* Everybody else leaves the legs of redemptions alone.
LEMMA OutsideLegs ==
    ASSUME TypeOK, Outside
    PROVE  /\ \A k \in ClientKeys, leg \in {"burn", "payout", "unwind"} :
                  txn'[<<k, leg>>] = txn[<<k, leg>>]
           /\ pair' = pair /\ pc' = pc /\ job' = job /\ attempts' = attempts /\ cut' = cut
BY OtherMoves DEF Outside, ChangeRate, OtherPosting, vars, tables

-----------------------------------------------------------------------------
(* A key sent once is exact                                                *)

\* Nothing is posted yet.
LEMMA ExactInit == Init => LegsMatch /\ LegsPosted /\ SentOnce /\ FirstAttemptExact
BY LegKeys, ZenonT(30)
   DEF Init, AbsInit, LegsMatch, LegsPosted, SentOnce, FirstAttemptExact, Posted, On

\* The pair row of a key is written by a request on it.
LEMMA PairOfOthers ==
    ASSUME TypeOK, NEW p \in Redeemers, Step(p), NEW k \in ClientKeys
    PROVE  pair'[k] = pair[k] \/ (WritePair(p) /\ job[p].key = k)
<1>1. CASE WritePair(p)
  <2> DEFINE row == [points |-> Amount[job[p].key], fiat |-> QuoteFiat(Amount[job[p].key], job[p].rate)]
  <2>1. job[p].key \in ClientKeys
    BY <1>1, Request1 DEF WritePair
  <2>2. pair' = pair \/ pair' = [pair EXCEPT ![job[p].key] = row]
    BY <1>1 DEF WritePair
  <2> QED
    <3> HIDE DEF row
    <3> QED BY <1>1, <2>1, <2>2 DEF TypeOK
<1>2. CASE ~WritePair(p)
  BY <1>2 DEF Step, Begin, Silent, LockPoints, CheckPoints, RefuseBurn, BurnReplayed, StartPayout,
      LockWallets, PayConflict, PayRefused, Burn, Pay, Unwind, Cut, tables
<1> QED BY <1>1, <1>2

\* What WritePair writes.
LEMMA PairWritten ==
    ASSUME TypeOK, NEW p \in Redeemers, WritePair(p), pair[job[p].key] = None
    PROVE  /\ pair'[job[p].key].points = Amount[job[p].key]
           /\ pair'[job[p].key].fiat = QuoteFiat(Amount[job[p].key], job[p].rate)
<1> DEFINE row == [points |-> Amount[job[p].key], fiat |-> QuoteFiat(Amount[job[p].key], job[p].rate)]
<1>1. job[p].key \in ClientKeys
  BY Request1 DEF WritePair
<1>2. pair' = [pair EXCEPT ![job[p].key] = row]
  BY DEF WritePair
<1>3. pair'[job[p].key] = row
  <2> HIDE DEF row
  <2> QED BY <1>1, <1>2 DEF TypeOK
<1> QED BY <1>3

\* A request gets past its burn, and past its payout, by finding or posting it.
LEMMA LegsPostedStep ==
    ASSUME TypeOK, LegsPosted, NEW p \in Redeemers, Step(p)
    PROVE  LegsPosted'
<1>1. ASSUME NEW q \in Redeemers, q # p
      PROVE  /\ pc'[q] \in {"payout", "fund", "pay", "unwind", "pair"} => txn'[<<job[q].key, "burn">>] # None
             /\ pc'[q] = "pair" => txn'[<<job[q].key, "payout">>] # None
             /\ job'[q] = job[q]
  <2>1. pc'[q] = pc[q] /\ job'[q] = job[q]
    BY <1>1, OthersStay
  <2>2. pc[q] # "idle" => job[q].key \in ClientKeys
    BY Request1
  <2> QED
    BY <2>1, <2>2, LegsStay DEF LegsPosted, Posted
<1>2. /\ pc'[p] \in {"payout", "fund", "pay", "unwind", "pair"} => txn'[<<job'[p].key, "burn">>] # None
      /\ pc'[p] = "pair" => txn'[<<job'[p].key, "payout">>] # None
  <2>1. pc[p] # "idle" => job[p].key \in ClientKeys
    BY Request1
  <2>2. CASE Burn(p)
    BY <2>2, BurnMoves DEF Burn, Goto, Posted, TypeOK
  <2>3. CASE Pay(p)
    <3>1. pc[p] = "pay" /\ pc'[p] = "pair" /\ job' = job
      BY <2>3 DEF Pay, Goto, TypeOK
    <3>2. txn'[<<job[p].key, "payout">>] # None
      BY <2>3, PayMoves DEF Posted
    <3>3. txn'[<<job[p].key, "burn">>] # None
      BY <2>1, <3>1, LegsStay DEF LegsPosted, Posted
    <3> QED BY <3>1, <3>2, <3>3 DEF Posted
  <2>4. CASE BurnReplayed(p) \/ StartPayout(p) \/ LockWallets(p) \/ PayRefused(p)
    BY <2>4 DEF BurnReplayed, StartPayout, LockWallets, PayRefused, Goto, LegsPosted, Posted,
                TypeOK, tables
  <2>5. CASE LockPoints(p) \/ CheckPoints(p) \/ \E k \in ClientKeys : Begin(p, k)
    BY <2>5 DEF LockPoints, CheckPoints, Begin, Goto, TypeOK
  <2>6. CASE RefuseBurn(p) \/ PayConflict(p) \/ Unwind(p) \/ WritePair(p) \/ Cut(p)
    BY <2>6 DEF RefuseBurn, PayConflict, Unwind, WritePair, Cut, End, Goto, TypeOK
  <2> QED
    BY <2>2, <2>3, <2>4, <2>5, <2>6 DEF Step, Silent
<1> QED
  BY <1>1, <1>2 DEF LegsPosted, Posted

\* Only the burn of k is posted under its key, and a pair row follows both legs.
LEMMA LegsMatchStep ==
    ASSUME TypeOK, LegsMatch, LegsPosted, NEW p \in Redeemers, Step(p)
    PROVE  LegsMatch'
<1> SUFFICES ASSUME NEW k \in ClientKeys
             PROVE  /\ Posted(k, "burn")' => txn'[<<k, "burn">>].req = BurnRequest(k)
                    /\ pair'[k] # None =>
                          /\ Posted(k, "burn")' /\ Posted(k, "payout")'
                          /\ pair'[k].points = Amount[k]
  BY DEF LegsMatch
<1>1. Posted(k, "burn")' => txn'[<<k, "burn">>].req = BurnRequest(k)
  <2>1. CASE Posted(k, "burn")
    BY <2>1, LegsStay DEF LegsMatch
  <2>2. CASE ~Posted(k, "burn")
    <3>1. <<k, "burn">> \in Keys
      BY LegKeys
    <3> QED
      BY <2>2, <3>1, BurnMoves, PayMoves, UnwindMoves, NoMoves DEF Step, Posted
  <2> QED BY <2>1, <2>2
<1>2. ASSUME pair'[k] # None
      PROVE  Posted(k, "burn")' /\ Posted(k, "payout")' /\ pair'[k].points = Amount[k]
  <2>1. CASE pair[k] # None
    <3>1. Posted(k, "burn")' /\ Posted(k, "payout")'
      BY <2>1, LegsStay DEF LegsMatch, Posted
    <3>2. pair'[k] = pair[k]
      BY <2>1, PairOfOthers DEF WritePair
    <3> QED BY <2>1, <3>1, <3>2 DEF LegsMatch
  <2>2. CASE pair[k] = None
    <3>1. WritePair(p) /\ job[p].key = k
      BY <1>2, <2>2, PairOfOthers
    <3>2. Posted(k, "burn") /\ Posted(k, "payout")
      BY <3>1 DEF LegsPosted, WritePair
    <3> QED BY <2>2, <3>1, <3>2, LegsStay, PairWritten DEF Posted
  <2> QED BY <2>1, <2>2
<1> QED BY <1>1, <1>2

\* Requests enter by Begin, which counts them, and keep their key.
LEMMA KeysKept ==
    ASSUME TypeOK, NEW p \in Redeemers, Step(p), NEW k \in ClientKeys
    PROVE  \/ /\ attempts'[k] = attempts[k]
              /\ \A q \in Redeemers : pc'[q] # "idle" /\ job'[q].key = k => On(q, k)
           \/ /\ Begin(p, k)
              /\ attempts'[k] = attempts[k] + 1
              /\ \A q \in Redeemers : pc'[q] # "idle" /\ job'[q].key = k => On(q, k) \/ q = p
<1>1. \A q \in Redeemers : q # p => (pc'[q] # "idle" /\ job'[q].key = k => On(q, k))
  BY OthersStay DEF On
<1>2. CASE \E x \in ClientKeys : Begin(p, x)
  <2>1. PICK x \in ClientKeys : Begin(p, x)
    BY <1>2
  <2>2. job'[p].key = x /\ attempts' = [attempts EXCEPT ![x] = @ + 1]
    <3> DEFINE j == [key |-> x, rate |-> rate]
    <3>1. job' = [job EXCEPT ![p] = j] /\ attempts' = [attempts EXCEPT ![x] = @ + 1]
      BY <2>1 DEF Begin
    <3>2. job'[p] = j
      <4> HIDE DEF j
      <4> QED BY <3>1 DEF TypeOK
    <3> QED BY <3>1, <3>2
  <2>3. CASE x = k
    BY <1>1, <2>1, <2>2, <2>3 DEF TypeOK
  <2>4. CASE x # k
    BY <1>1, <2>2, <2>4 DEF TypeOK
  <2> QED BY <2>3, <2>4
<1>3. CASE Silent(p) \/ Burn(p) \/ Pay(p) \/ Unwind(p) \/ WritePair(p) \/ Cut(p)
  <2>1. attempts' = attempts /\ pc[p] # "idle"
    BY <1>3 DEF Silent, LockPoints, CheckPoints, RefuseBurn, BurnReplayed, StartPayout,
       LockWallets, PayConflict, PayRefused, Burn, Pay, Unwind, WritePair, Cut
  <2>2. job'[p] = job[p] \/ pc'[p] = "idle"
    BY <1>3 DEF Silent, LockPoints, CheckPoints, RefuseBurn, BurnReplayed, StartPayout,
       LockWallets, PayConflict, PayRefused, Burn, Pay, Unwind, WritePair, Cut, End, Goto, TypeOK
  <2> QED
    BY <1>1, <2>1, <2>2 DEF On
<1> QED
  BY <1>2, <1>3 DEF Step

\* Its only request keeps a key exact.
LEMMA FreshStep ==
    ASSUME TypeOK, LegsPosted, LegsMatch, NEW p \in Redeemers, Step(p),
           NEW k \in ClientKeys, On(p, k), Fresh(p, k), Exact(k)
    PROVE  /\ pc'[p] # "idle" => Fresh(p, k)'
           /\ Exact(k)'
<1>1. pc[p] # "idle" /\ job[p].key = k /\ job[p].rate \in Rates
  BY Request1 DEF On
<1>2. \A leg \in {"burn", "payout", "unwind"} : <<k, leg>> \in Keys
  BY LegKeys
<1>3. pair'[k] = pair[k] \/ WritePair(p)
  BY PairOfOthers
<1>4. CASE Pay(p)
  <2>1. pc[p] = "pay" /\ pc'[p] = "pair" /\ job' = job /\ pair'[k] = pair[k]
    BY <1>4 DEF Pay, Goto, TypeOK
  <2>2. txn'[<<k, "payout">>].req = PayoutRequest(k, job[p].rate)
        /\ txn'[<<k, "unwind">>] = txn[<<k, "unwind">>]
    BY <1>1, <1>2, <1>4, PayMoves
  <2> QED
    BY <2>1, <2>2 DEF Fresh, Exact, Posted
<1>5. CASE Unwind(p)
  <2>1. pc[p] = "unwind" /\ pc'[p] = "idle" /\ pair'[k] = pair[k]
    BY <1>5 DEF Unwind, End, Goto, TypeOK
  <2>2. txn'[<<k, "payout">>] = txn[<<k, "payout">>]
    BY <1>1, <1>2, <1>5, UnwindMoves
  <2> QED
    BY <2>1, <2>2 DEF Fresh, Exact, Posted
<1>6. CASE WritePair(p)
  <2>1. pc[p] = "pair" /\ pc'[p] = "idle" /\ txn' = txn
    BY <1>6 DEF WritePair, End, Goto, TypeOK
  <2>2. pair'[k].points = Amount[k] /\ pair'[k].fiat = QuoteFiat(Amount[k], job[p].rate)
    BY <1>1, <1>6, PairWritten DEF Fresh
  <2>3. txn[<<k, "burn">>].req = BurnRequest(k)
    BY <1>1, <2>1 DEF LegsPosted, LegsMatch
  <2>4. txn[<<k, "payout">>].req = PayoutRequest(k, job[p].rate)
    BY <2>1 DEF Fresh
  <2>5. BurnRequest(k).delta[Points] = -Amount[k]
        /\ PayoutRequest(k, job[p].rate).delta[Wallet] = QuoteFiat(Amount[k], job[p].rate)
    BY <1>1, Requested
  <2>6. txn'[<<k, "burn">>].req.delta[Points] = -pair'[k].points
        /\ txn'[<<k, "payout">>].req.delta[Wallet] = pair'[k].fiat
    BY <2>1, <2>2, <2>3, <2>4, <2>5
  <2> QED
    BY <2>1, <2>6 DEF Fresh, Exact, Posted
<1>7. CASE Burn(p)
  <2>1. pc[p] = "burn" /\ pc'[p] = "payout" /\ pair'[k] = pair[k]
    BY <1>7 DEF Burn, Goto, TypeOK
  <2>2. txn'[<<k, "payout">>] = txn[<<k, "payout">>] /\ txn'[<<k, "unwind">>] = txn[<<k, "unwind">>]
    BY <1>1, <1>2, <1>7, BurnMoves
  <2> QED
    BY <2>1, <2>2 DEF Fresh, Exact, Posted
<1>8. CASE ~Pay(p) /\ ~Unwind(p) /\ ~WritePair(p) /\ ~Burn(p)
  <2>1. txn' = txn /\ pair'[k] = pair[k]
    BY <1>3, <1>8, NoMoves DEF Step
  <2>2. pc'[p] # "idle" => pc'[p] # "pair" /\ pc[p] # "pair"
    BY <1>1, <1>8 DEF Step, Begin, Silent, LockPoints, CheckPoints, RefuseBurn, BurnReplayed,
       StartPayout, LockWallets, PayConflict, PayRefused, Cut, End, Goto, Fresh, TypeOK
  <2> QED
    BY <2>1, <2>2 DEF Fresh, Exact, Posted
<1> QED
  BY <1>4, <1>5, <1>6, <1>7, <1>8

\* A step of a request that is not on k leaves k as it is.
LEMMA NotMine ==
    ASSUME TypeOK, NEW p \in Redeemers, Step(p), NEW k \in ClientKeys, ~On(p, k)
    PROVE  /\ pair'[k] = pair[k]
           /\ Exact(k) => Exact(k)'
           /\ \A q \in Redeemers : q # p /\ Fresh(q, k) => Fresh(q, k)'
<1>1. pair'[k] = pair[k]
  BY PairOfOthers DEF On, WritePair
<1>2. /\ txn'[<<k, "burn">>] = txn[<<k, "burn">>]
      /\ txn'[<<k, "payout">>] = txn[<<k, "payout">>]
      /\ txn'[<<k, "unwind">>] = txn[<<k, "unwind">>]
  BY LegsOfOthers
<1>3. \A q \in Redeemers : q # p => pc'[q] = pc[q] /\ job'[q] = job[q]
  BY OthersStay
<1> QED
  BY <1>1, <1>2, <1>3 DEF Exact, Fresh, Posted

\* While a key has been sent once, its only request meets only its own work.
LEMMA SentOnceStep ==
    ASSUME TypeOK, LegsPosted, LegsMatch, SentOnce, FirstAttemptExact,
           NEW p \in Redeemers, Step(p)
    PROVE  SentOnce' /\ FirstAttemptExact'
<1> SUFFICES ASSUME NEW k \in ClientKeys
             PROVE  /\ attempts'[k] = 0 =>
                         /\ ~Posted(k, "payout")' /\ ~Posted(k, "unwind")' /\ pair'[k] = None
                         /\ \A q \in Redeemers : ~On(q, k)'
                    /\ attempts'[k] = 1 =>
                         /\ \A q, r \in Redeemers : On(q, k)' /\ On(r, k)' => q = r
                         /\ \A q \in Redeemers : On(q, k)' => Fresh(q, k)'
                    /\ attempts'[k] <= 1 => Exact(k)'
  BY DEF SentOnce, FirstAttemptExact, Exact
<1>1. attempts[k] \in Nat
  BY RedemptionAssumption DEF TypeOK
<1>2. attempts[k] <= 1 => Exact(k)
  BY DEF FirstAttemptExact, Exact
<1>3. CASE attempts'[k] = attempts[k] /\ attempts[k] = 0
  <2>1. \A q \in Redeemers : ~On(q, k) /\ ~On(q, k)'
    BY <1>3, KeysKept DEF SentOnce, On
  <2>2. /\ pair'[k] = pair[k] /\ Exact(k)'
        /\ txn'[<<k, "payout">>] = txn[<<k, "payout">>]
        /\ txn'[<<k, "unwind">>] = txn[<<k, "unwind">>]
    <3>1. ~On(p, k) /\ Exact(k)
      BY <1>2, <1>3, <2>1
    <3>2. \A leg \in {"burn", "payout", "unwind"} : txn'[<<k, leg>>] = txn[<<k, leg>>]
      BY <3>1, LegsOfOthers
    <3>3. pair'[k] = pair[k] /\ Exact(k)'
      BY <3>1, NotMine
    <3> QED BY <3>2, <3>3
  <2> QED
    BY <1>3, <2>1, <2>2 DEF SentOnce, Posted
<1>4. CASE attempts'[k] = attempts[k] /\ attempts[k] = 1
  <2>1. \A q \in Redeemers : On(q, k)' => On(q, k)
    BY <1>3, <1>4, KeysKept DEF On
  <2>2. \A q, r \in Redeemers : On(q, k) /\ On(r, k) => q = r
    BY <1>4 DEF SentOnce
  <2>3. CASE On(p, k)
    <3>1. (pc'[p] # "idle" => Fresh(p, k)') /\ Exact(k)'
      BY <1>2, <1>4, <2>3, FreshStep DEF SentOnce
    <3> QED
      BY <1>4, <2>1, <2>2, <2>3, <3>1 DEF On
  <2>4. CASE ~On(p, k)
    <3>1. Exact(k)'
      BY <1>2, <1>4, <2>4, NotMine
    <3>2. ASSUME NEW q \in Redeemers, On(q, k)'
          PROVE  Fresh(q, k)'
      BY <1>4, <2>1, <2>4, <3>2, NotMine DEF SentOnce
    <3> QED
      BY <1>4, <2>1, <2>2, <3>1, <3>2
  <2> QED BY <2>3, <2>4
<1>5. CASE attempts'[k] = attempts[k] + 1 /\ attempts[k] = 0 /\ Begin(p, k)
  <2>1. \A q \in Redeemers : On(q, k)' => q = p
    BY <1>5, KeysKept DEF SentOnce, On
  <2>2. txn' = txn /\ pair' = pair /\ pc'[p] = "lock"
    BY <1>5 DEF Begin, Goto, TypeOK, tables
  <2>3. Fresh(p, k)' /\ Exact(k)'
    BY <1>2, <1>5, <2>2 DEF SentOnce, Fresh, Exact, Posted
  <2> QED
    BY <1>5, <2>1, <2>3
<1>6. CASE attempts'[k] > 1
  <2>1. attempts'[k] \in Nat
    BY <1>1, KeysKept
  <2>2. \A n \in Nat : n > 1 => ~(n <= 1) /\ n # 0 /\ n # 1
    OBVIOUS
  <2>3. ~(attempts'[k] <= 1) /\ attempts'[k] # 0 /\ attempts'[k] # 1
    BY <1>6, <2>1, <2>2
  <2> QED BY <2>3
<1>7. \/ attempts'[k] = attempts[k]
      \/ attempts'[k] = attempts[k] + 1 /\ Begin(p, k)
  BY KeysKept
<1>8. \A n, m \in Nat : m = n \/ m = n + 1 =>
          \/ m > 1
          \/ m = n /\ n \in {0, 1}
          \/ m = n + 1 /\ m # n /\ n = 0
  OBVIOUS
<1>9. attempts'[k] \in Nat
  BY <1>1, <1>7
<1>10. \/ attempts'[k] > 1
       \/ attempts'[k] = attempts[k] /\ attempts[k] = 0
       \/ attempts'[k] = attempts[k] /\ attempts[k] = 1
       \/ attempts'[k] = attempts[k] + 1 /\ attempts[k] = 0 /\ Begin(p, k)
  BY <1>1, <1>7, <1>8, <1>9
<1> QED
  BY <1>3, <1>4, <1>5, <1>6, <1>10

-----------------------------------------------------------------------------
(* The invariant and what follows from it                                  *)

\* The initial states satisfy the invariant.
LEMMA RInvInit == Init => RInv
BY InitTypes, PointsInit, ExactInit, LegKeys DEF RInv, Init, AbsInit, BurnOwned, Posted

\* Everybody else keeps the invariant.
LEMMA RInvOutside ==
    ASSUME RInv, Outside
    PROVE  RInv'
<1> USE DEF RInv
<1>1. \A q \in Redeemers : pc[q] # "idle" => job[q].key \in ClientKeys
  BY Request1
<1>2. \A k \in ClientKeys :
          /\ txn'[<<k, "burn">>] = txn[<<k, "burn">>]
          /\ txn'[<<k, "payout">>] = txn[<<k, "payout">>]
          /\ txn'[<<k, "unwind">>] = txn[<<k, "unwind">>]
  BY OutsideLegs
<1>3. pair' = pair /\ pc' = pc /\ job' = job /\ attempts' = attempts /\ cut' = cut
  BY OutsideLegs
<1>4. TypeOK' /\ PointsHeld' /\ PointsFloor'
  BY StepTypes, PointsOutside DEF Outside, Next
<1>5. LegsPosted'
  BY <1>1, <1>2, <1>3 DEF LegsPosted, Posted
<1>6. LegsMatch'
  BY <1>2, <1>3 DEF LegsMatch, Posted
<1>7. BurnOwned'
  BY <1>2, <1>3 DEF BurnOwned, Posted, Owns
<1>8. SentOnce'
  <2>1. ASSUME NEW k \in ClientKeys
        PROVE  /\ Posted(k, "payout")' = Posted(k, "payout")
               /\ Posted(k, "unwind")' = Posted(k, "unwind")
               /\ \A q \in Redeemers : On(q, k)' = On(q, k) /\ Fresh(q, k)' = Fresh(q, k)
    BY <1>2, <1>3 DEF Posted, On, Fresh
  <2> QED BY <1>3, <2>1 DEF SentOnce
<1>9. FirstAttemptExact'
  BY <1>2, <1>3 DEF FirstAttemptExact, Posted
<1> QED
  BY <1>4, <1>5, <1>6, <1>7, <1>8, <1>9

\* Every step keeps the invariant.
LEMMA RInvStep == RInv /\ [Next]_vars => RInv'
<1>1. ASSUME RInv, NEW p \in Redeemers, Step(p)
      PROVE  RInv'
  <2>1. TypeOK'
    BY <1>1, StepTypes DEF RInv, Step, Silent, Next
  <2>2. PointsHeld' /\ PointsFloor'
    BY <1>1, PointsStep DEF RInv
  <2>3. BurnOwned'
    BY <1>1, BurnOwnedStep DEF RInv
  <2>4. LegsPosted' /\ LegsMatch'
    BY <1>1, LegsPostedStep, LegsMatchStep DEF RInv
  <2>5. SentOnce' /\ FirstAttemptExact'
    BY <1>1, SentOnceStep DEF RInv
  <2> QED BY <2>1, <2>2, <2>3, <2>4, <2>5 DEF RInv
<1> QED
  BY <1>1, RInvOutside, NextIsStep

\* The invariant of RedemptionInvariant holds for every set of sessions, keys,
\* amounts and rates.
THEOREM RedemptionInv == Spec => []RInv
<1> QED
  BY RInvInit, RInvStep, PTL DEF Spec

\* The points account never goes negative, however many redemptions of one
\* user run at once: the lock taken before the balance check covers the burn.
THEOREM PointsNeverOverdrawn == Spec => []PointsFloor
<1>1. RInv => PointsFloor
  BY DEF RInv
<1> QED
  BY <1>1, RedemptionInv, PTL

\* A burned amount is paid out or given back once every request on its key
\* has run to its end, whatever refused the payout and however the attempts
\* overlapped; only a request that died or lost its database session is
\* excused.
THEOREM BurnsSettle == Spec => []BurnIsSettled
<1>1. RInv => BurnIsSettled
  BY DEF RInv, BurnOwned, BurnIsSettled, Owns, Working
<1> QED
  BY <1>1, RedemptionInv, PTL

\* A client that sends a key once gets an exact answer: the burn is paid or
\* given back, never both, and the redemption it is shown says what its two
\* transactions moved, whatever became of the rate while they ran.
THEOREM FirstAttemptIsExact == Spec => []FirstAttemptExact
<1>1. RInv => FirstAttemptExact
  BY DEF RInv
<1> QED
  BY <1>1, RedemptionInv, PTL

=============================================================================
