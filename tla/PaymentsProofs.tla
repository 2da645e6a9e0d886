--------------------------- MODULE PaymentsProofs ---------------------------
(***************************************************************************)
(* Proofs about Payments and Statements, for any orders, tariffs, limits   *)
(* and sessions: types and funds, recharges that agree with their          *)
(* reservation and with the provider, money that moves by steps of the     *)
(* ledger only, charges that balance, caps that hold of what did not       *)
(* overlap, and statements that explain the balances.                      *)
(***************************************************************************)
EXTENDS Payments, Sums, TLAPS

-----------------------------------------------------------------------------
(* The invariant                                                           *)

\* The provider was called, and if once, it handed nothing out and will not.
Clean(k) == asked[k] >= 1 /\ (asked[k] = 1 => vended[k] = 0 /\ accepted[k] = 0)

\* What a session knows of the recharge it has reached.
Knows(s) ==
    /\ pc[s] # "idle" => job[s] \in Keys
    /\ pc[s] \in {"row", "vend", "completed", "reversed"} => job[s] \in Recharges /\ txn[job[s]] # None
    /\ pc[s] \in {"vend", "completed", "reversed"} => recharge[job[s]] # None
    /\ pc[s] = "completed" => vended[job[s]] >= 1
    /\ pc[s] = "reversed" => Clean(job[s])

\* The provider's verdicts are true of what it did.
Honest(k) ==
    /\ accepted[k] + vended[k] <= asked[k]
    /\ "COMPLETED" \in verdicts[k] => vended[k] >= 1
    /\ "REVERSED" \in verdicts[k] => Clean(k)

\* A posting without a row has a session about to write the row, or lost it.
Reachable(k) == k \in cut \/ \E s \in Sessions : job[s] = k /\ pc[s] = "row"

\* A key's transaction, recharge row and intent tell one story.
Mirrors(k) ==
    /\ txn[k] # None => txn[k].req = Posting(k) /\ (k \notin Recharges => txn[k].status = "COMPLETED")
    /\ txn[k] = None => recharge[k] = None /\ intents[k] = 0
    /\ recharge[k] # None => k \in Recharges /\ txn[k].status = recharge[k].status
    /\ k \in Recharges =>
           (intents[k] = 1 <=> recharge[k] # None /\ recharge[k].status = "COMPLETED")
    /\ k \in Recharges /\ recharge[k] = None /\ txn[k] # None =>
           txn[k].status = "PENDING" /\ Reachable(k)

\* And so does what the provider did, unless an operator decided.
Earned(k) ==
    recharge[k] # None /\ recharge[k].by \in {"request", "provider"} =>
        /\ recharge[k].status = "COMPLETED" => vended[k] >= 1
        /\ recharge[k].status = "REVERSED" => Clean(k)

Rows == txn \in [Keys -> {None} \cup TxnRow] /\ book \in [Accounts -> Row]

IInv ==
    /\ TypeOK /\ Rows
    /\ \A s \in Sessions : Knows(s)
    /\ \A k \in Keys : Honest(k) /\ Mirrors(k) /\ Earned(k)

-----------------------------------------------------------------------------
(* Postings                                                                *)

LEMMA PostingFields ==
    ASSUME NEW k \in Keys
    PROVE  /\ Posting(k) \in Requests /\ Posting(k) \in Request /\ Posting(k).key = k
           /\ Posting(k).status = IF k \in Recharges THEN "PENDING" ELSE "COMPLETED"
           /\ k \in Recharges => ~Posting(k).trigger
           /\ Posting(k).delta \in [Accounts -> Int]
<1>1. Posting(k) \in Requests /\ Posting(k) \in Request
  BY PostingsAssumption, DataAssumption
<1>2. /\ Posting(k).key = k
      /\ Posting(k).status = IF Order[k].kind = "airtime_recharge" THEN "PENDING" ELSE "COMPLETED"
      /\ Posting(k).trigger = (Order[k].kind \in {"p2p", "cash_in", "cashout"})
  BY DEF Posting, Postings
<1> QED
  BY <1>1, <1>2 DEF Recharges, OrdersOf, Request

LEMMA NotNone ==
    /\ None \notin TxnRow /\ None \notin Keys /\ None \notin AirtimeRecharge
    /\ Guarded \subseteq Accounts
BY DataAssumption, PaymentsAssumption

\* A posting spends its key and overdraws nobody.
LEMMA PostMoves ==
    ASSUME Rows, \A w \in Guarded : Available(book[w]) >= 0, NEW k \in Keys, AbsPost(Posting(k))
    PROVE  /\ txn[k] = None /\ txn' = [txn EXCEPT ![k] = [req |-> Posting(k), status |-> Posting(k).status]]
           /\ Rows' /\ txn'[k] # None
           /\ \A w \in Guarded : Available(book'[w]) >= 0
<1> DEFINE r == Posting(k)
<1>1. /\ r \in Requests /\ r.key = k /\ r.status \in {"PENDING", "COMPLETED"}
      /\ r.delta \in [Accounts -> Int]
  BY PostingFields
<1> HIDE DEF r
<1>2. /\ txn[k] = None /\ txn' = [txn EXCEPT ![k] = [req |-> r, status |-> r.status]]
      /\ book' = [a \in Accounts |-> Plus(book[a], EntryDelta(r, a))]
      /\ \A a \in Guarded : r.delta[a] < 0 => Available(book[a]) + r.delta[a] >= 0
  BY <1>1 DEF AbsPost, Move, r
<1>3. [req |-> r, status |-> r.status] \in TxnRow
  BY <1>1 DEF TxnRow, Statuses
<1>4. txn' \in [Keys -> {None} \cup TxnRow] /\ txn'[k] # None
  BY <1>2, <1>3, NotNone DEF Rows
<1>5. ASSUME NEW a \in Accounts
      PROVE  /\ book'[a] \in Row
             /\ Available(book'[a]) = Available(book[a]) + r.delta[a]
             /\ Available(book[a]) \in Int /\ r.delta[a] \in Int
  <2>1. /\ book[a].bal \in Int /\ book[a].res \in Int /\ r.delta[a] \in Int
        /\ book'[a] = Plus(book[a], EntryDelta(r, a))
    BY <1>1, <1>2 DEF Rows, Row
  <2> QED
    BY <1>1, <2>1 DEF Plus, EntryDelta, Available, Row
<1>6. book' \in [Accounts -> Row]
  BY <1>2, <1>5 DEF Rows
<1>7. \A w \in Guarded : Available(book'[w]) >= 0
  BY <1>2, <1>5, NotNone
<1> QED
  BY <1>2, <1>4, <1>6, <1>7 DEF Rows, r

\* A settlement ends a reservation and takes no money a wallet has free.
LEMMA SettleMoves ==
    ASSUME Rows, \A w \in Guarded : Available(book[w]) >= 0, NEW k \in Keys,
           NEW to \in {"COMPLETED", "REVERSED"}, AbsSettle(k, to), txn[k].req = Posting(k),
           k \in Recharges
    PROVE  /\ Rows' /\ txn'[k] # None /\ txn'[k].req = Posting(k) /\ txn'[k].status = to
           /\ \A j \in Keys \ {k} : txn'[j] = txn[j]
           /\ \A w \in Guarded : Available(book'[w]) >= 0
<1> DEFINE r == Posting(k)
<1>1. /\ r \in Requests /\ r.status = "PENDING" /\ r.delta \in [Accounts -> Int]
      /\ \A w \in Guarded : r.delta[w] <= 0
  BY PostingFields, PendingAssumption
<1> HIDE DEF r
<1>2. /\ txn[k] # None /\ txn' = [txn EXCEPT ![k].status = to] /\ txn[k].req = r
      /\ book' = [a \in Accounts |-> Plus(book[a], FlipDelta(r, to, a))]
  BY DEF AbsSettle, Move, r
<1>3. /\ [txn[k] EXCEPT !.status = to] \in TxnRow /\ [txn[k] EXCEPT !.status = to].req = r
      /\ [txn[k] EXCEPT !.status = to].status = to
  BY <1>2 DEF TxnRow, Statuses, Rows
<1>4. /\ txn' \in [Keys -> {None} \cup TxnRow] /\ txn'[k] = [txn[k] EXCEPT !.status = to]
      /\ \A j \in Keys \ {k} : txn'[j] = txn[j]
  BY <1>2, <1>3 DEF Rows
<1>5. ASSUME NEW a \in Accounts
      PROVE  /\ book'[a] \in Row /\ Available(book[a]) \in Int /\ r.delta[a] \in Int
             /\ Available(book'[a]) \in {Available(book[a]), Available(book[a]) - r.delta[a]}
  <2>1. /\ book[a].bal \in Int /\ book[a].res \in Int /\ r.delta[a] \in Int
        /\ book'[a] = Plus(book[a], FlipDelta(r, to, a))
    BY <1>1, <1>2 DEF Rows, Row
  <2> QED
    BY <2>1 DEF Plus, FlipDelta, Available, Row
<1>6. book' \in [Accounts -> Row]
  BY <1>2, <1>5 DEF Rows
<1>7. \A w \in Guarded : Available(book'[w]) >= 0
  BY <1>1, <1>5, NotNone
<1> QED
  BY <1>3, <1>4, <1>6, <1>7, NotNone DEF Rows, r

-----------------------------------------------------------------------------
(* Steps of one session                                                    *)

Labels == {"idle", "limits", "funds", "post", "row", "vend", "completed", "reversed"}

Acts(s, label, k) == pc' = [pc EXCEPT ![s] = label] /\ job' = [job EXCEPT ![s] = k]

\* The tables, the provider and the histories after a step have their types.
Typed ==
    /\ txn' \in [Keys -> {None} \cup TxnRow] /\ book' \in [Accounts -> Row]
    /\ \A w \in Guarded : Available(book'[w]) >= 0
    /\ recharge' \in [Keys -> {None} \cup AirtimeRecharge]
    /\ intents' \in [Keys -> 0..1]
    /\ sent' \in 0..MaxRequests
    /\ asked' \in [Keys -> Nat] /\ accepted' \in [Keys -> Nat] /\ vended' \in [Keys -> Nat]
    /\ verdicts' \in [Keys -> SUBSET {"COMPLETED", "REVERSED"}]
    /\ crowded' \subseteq Accounts /\ cut \subseteq cut' /\ cut' \subseteq Keys

\* What sessions know is not taken back.
Grows ==
    \A k \in Keys :
        /\ txn[k] # None => txn'[k] # None
        /\ recharge[k] # None => recharge'[k] # None
        /\ vended[k] >= 1 => vended'[k] >= 1
        /\ Clean(k) => Clean(k)'

\* A step of one session moves no other.
LEMMA OthersStay ==
    ASSUME TypeOK, NEW s \in Sessions, NEW label \in Labels, NEW k \in Keys \cup {None}, Acts(s, label, k)
    PROVE  /\ pc' \in [Sessions -> Labels] /\ job' \in [Sessions -> Keys \cup {None}]
           /\ pc'[s] = label /\ job'[s] = k
           /\ \A t \in Sessions \ {s} : pc'[t] = pc[t] /\ job'[t] = job[t]
BY DEF TypeOK, Labels, Acts

\* A session that does not move keeps what it knows.
LEMMA StillKnows ==
    ASSUME Grows, NEW t \in Sessions, Knows(t), pc'[t] = pc[t], job'[t] = job[t]
    PROVE  Knows(t)'
<1>1. pc[t] # "idle" => job[t] \in Keys
  BY DEF Knows
<1>2. CASE pc[t] = "idle"
  BY <1>2 DEF Knows
<1>3. CASE job[t] \in Keys
  <2> DEFINE k == job[t]
  <2>1. /\ txn[k] # None => txn'[k] # None
        /\ recharge[k] # None => recharge'[k] # None
        /\ vended[k] >= 1 => vended'[k] >= 1
        /\ Clean(k) => Clean(k)'
    BY <1>3 DEF Grows
  <2>2. Clean(job[t]) => Clean(job[t])'
    BY <2>1 DEF Clean
  <2> QED
    BY <2>1, <2>2 DEF Knows
<1> QED
  BY <1>1, <1>2, <1>3

\* The types after a step are those of its parts.
LEMMA TypesAfter ==
    ASSUME Typed, pc' \in [Sessions -> Labels], job' \in [Sessions -> Keys \cup {None}]
    PROVE  TypeOK' /\ Rows'
<1>1. \A k \in Keys : txn'[k] # None => txn'[k].status \in Statuses
  BY DEF Typed, TxnRow
<1> QED
  BY <1>1 DEF Typed, TypeOK, Rows, Labels

LEMMA InitHolds == ASSUME Init PROVE IInv
<1>1. Rows /\ \A w \in Guarded : Available(book[w]) >= 0
  BY DataAssumption DEF Init, AbsInit, Rows, Row, Available
<1>2. TypeOK
  <2>1. \A k \in Keys : txn[k] = None
    BY DEF Init, AbsInit
  <2>2. /\ recharge \in [Keys -> {None} \cup AirtimeRecharge] /\ intents \in [Keys -> 0..1]
        /\ asked \in [Keys -> Nat] /\ accepted \in [Keys -> Nat] /\ vended \in [Keys -> Nat]
        /\ verdicts \in [Keys -> SUBSET {"COMPLETED", "REVERSED"}]
    BY DEF Init
  <2>3. /\ pc \in [Sessions -> Labels] /\ job \in [Sessions -> Keys \cup {None}]
        /\ sent \in 0..MaxRequests /\ crowded \subseteq Accounts /\ cut \subseteq Keys
    BY PaymentsAssumption DEF Init, Labels
  <2> QED
    BY <1>1, <2>1, <2>2, <2>3 DEF TypeOK, Labels
<1>3. \A s \in Sessions : Knows(s)
  BY DEF Init, Knows
<1>4. ASSUME NEW k \in Keys
      PROVE  Honest(k) /\ Mirrors(k) /\ Earned(k)
  BY DEF Init, AbsInit, Honest, Mirrors, Earned
<1> QED
  BY <1>1, <1>2, <1>3, <1>4 DEF IInv

-----------------------------------------------------------------------------
(* Steps that leave the tables and the provider alone                      *)

Tables == <<txn, book, recharge, intents, provider>>

\* A session that is not about to write a row may go anywhere it knows enough
\* for; one that is may only be cut off.
LEMMA Walks ==
    ASSUME IInv, UNCHANGED Tables, sent' \in 0..MaxRequests, crowded' \subseteq Accounts,
           cut \subseteq cut', cut' \subseteq Keys,
           NEW s \in Sessions, NEW label \in Labels, NEW k \in Keys \cup {None}, Acts(s, label, k),
           Knows(s)', pc[s] = "row" => job[s] \in cut'
    PROVE  IInv'
<1>1. /\ pc' \in [Sessions -> Labels] /\ job' \in [Sessions -> Keys \cup {None}]
      /\ \A t \in Sessions \ {s} : pc'[t] = pc[t] /\ job'[t] = job[t]
  BY OthersStay DEF IInv
<1>2. /\ txn' = txn /\ book' = book /\ recharge' = recharge /\ intents' = intents
      /\ asked' = asked /\ accepted' = accepted /\ vended' = vended /\ verdicts' = verdicts
  BY DEF Tables, provider
<1>3. TypeOK' /\ Rows'
  <2>1. Typed
    BY <1>2 DEF IInv, TypeOK, Rows, Typed
  <2> QED
    BY <1>1, <2>1, TypesAfter
<1>4. \A t \in Sessions : Knows(t)'
  <2>1. Grows
    BY <1>2 DEF Grows, Clean
  <2> QED
    BY <1>1, <2>1, StillKnows DEF IInv
<1>5. ASSUME NEW j \in Keys
      PROVE  Honest(j)' /\ Mirrors(j)' /\ Earned(j)'
  <2>1. Honest(j) /\ Mirrors(j) /\ Earned(j)
    BY DEF IInv
  <2>2. Reachable(j) => Reachable(j)'
    BY <1>1 DEF Reachable
  <2>3. Honest(j)' /\ Earned(j)'
    BY <1>2, <2>1 DEF Honest, Earned, Clean
  <2>4. Mirrors(j)'
    BY <1>2, <2>1, <2>2 DEF Mirrors, Posting
  <2> QED
    BY <2>3, <2>4
<1> QED
  BY <1>3, <1>4, <1>5 DEF IInv

LEMMA BeginKeeps ==
    ASSUME IInv, NEW s \in Sessions, NEW k \in Keys, Begin(s, k)
    PROVE  IInv'
<1> DEFINE label == IF recharge[k] = None THEN "limits" ELSE "vend"
<1>1. Acts(s, label, k) /\ label \in Labels /\ UNCHANGED Tables /\ pc[s] = "idle"
  BY DEF Begin, Goto, Acts, Labels, Tables
<1>2. sent' \in 0..MaxRequests
  BY PaymentsAssumption DEF Begin, IInv, TypeOK
<1>3. recharge[k] # None => k \in Recharges /\ txn[k] # None
  BY DEF IInv, Mirrors
<1>4. pc'[s] = label /\ job'[s] = k
  BY <1>1, OthersStay DEF IInv
<1>5. Knows(s)'
  BY <1>1, <1>3, <1>4 DEF Knows, Tables
<1>6. UNCHANGED <<crowded, cut>> /\ crowded \subseteq Accounts /\ cut \subseteq Keys
  BY DEF Begin, IInv, TypeOK
<1> HIDE DEF label
<1> QED
  BY <1>1, <1>2, <1>5, <1>6, Walks

\* The four steps between a request and its posting, and its refusals.
LEMMA GatesKeep ==
    ASSUME IInv, NEW s \in Sessions,
           CheckLimits(s) \/ RefuseLimits(s) \/ CheckFunds(s) \/ Replay(s) \/ RefusePost(s) \/ Crash(s)
    PROVE  IInv'
<1>1. job[s] \in Keys /\ pc[s] # "idle"
  BY DEF CheckLimits, RefuseLimits, CheckFunds, Replay, RefusePost, Crash, IInv, Knows
<1>2. UNCHANGED Tables /\ sent' \in 0..MaxRequests
  BY DEF CheckLimits, RefuseLimits, CheckFunds, Replay, RefusePost, Crash, Tables, IInv, TypeOK
<1>3. crowded' \subseteq Accounts
  BY <1>1, PaymentsAssumption
  DEF CheckLimits, RefuseLimits, CheckFunds, Replay, RefusePost, Crash, IInv, TypeOK
<1>4. cut \subseteq cut' /\ cut' \subseteq Keys /\ (pc[s] = "row" => job[s] \in cut')
  BY <1>1 DEF CheckLimits, RefuseLimits, CheckFunds, Replay, RefusePost, Crash, IInv, TypeOK
<1>5. \/ Acts(s, "idle", None)
      \/ Acts(s, "funds", job[s])
      \/ Acts(s, "post", job[s])
      \/ Acts(s, "row", job[s]) /\ job[s] \in Recharges /\ txn[job[s]] # None
  <2>1. job' = job => job' = [job EXCEPT ![s] = job[s]]
    BY DEF IInv, TypeOK
  <2> QED
    BY <2>1 DEF CheckLimits, RefuseLimits, CheckFunds, Replay, RefusePost, Crash, Goto, End, Acts
<1>6. PICK label \in {"idle", "funds", "post", "row"}, k \in {None, job[s]} :
          /\ Acts(s, label, k) /\ (label # "idle" => k = job[s])
          /\ label = "row" => job[s] \in Recharges /\ txn[job[s]] # None
  BY <1>5
<1>7. pc'[s] = label /\ job'[s] = k
  BY <1>1, <1>6, OthersStay DEF IInv, Labels
<1>8. Knows(s)'
  BY <1>1, <1>2, <1>6, <1>7 DEF Knows, Tables
<1> QED
  BY <1>1, <1>2, <1>3, <1>4, <1>6, <1>8, Walks DEF Labels

-----------------------------------------------------------------------------
(* The posting and the recharge's row                                      *)

LEMMA PostKeeps ==
    ASSUME IInv, NEW s \in Sessions, Post(s)
    PROVE  IInv'
<1> DEFINE k == job[s]
           row == [req |-> Posting(k), status |-> Posting(k).status]
<1>1. k \in Keys /\ pc[s] = "post" /\ AbsPost(Posting(k))
  BY DEF Post, IInv, Knows
<1>2. /\ txn[k] = None /\ txn' = [txn EXCEPT ![k] = row]
      /\ Rows' /\ txn'[k] # None
      /\ \A w \in Guarded : Available(book'[w]) >= 0
  BY <1>1, PostMoves DEF IInv, TypeOK
<1>3. /\ txn'[k].req = Posting(k)
      /\ txn'[k].status = IF k \in Recharges THEN "PENDING" ELSE "COMPLETED"
      /\ \A j \in Keys \ {k} : txn'[j] = txn[j]
  BY <1>1, <1>2, PostingFields DEF IInv, Rows
<1>4. UNCHANGED <<recharge, sent, provider, crowded, cut>>
  BY DEF Post
<1>5. /\ intents' = [intents EXCEPT ![k] = IF Posting(k).trigger THEN @ + 1 ELSE @]
      /\ intents \in [Keys -> 0..1] /\ recharge[k] = None /\ intents[k] = 0
  BY <1>1, <1>2 DEF Post, IInv, TypeOK, Mirrors
<1>6. /\ intents' \in [Keys -> 0..1] /\ (k \in Recharges => intents'[k] = 0)
      /\ \A j \in Keys \ {k} : intents'[j] = intents[j]
  BY <1>1, <1>5, PostingFields
<1>7. \/ k \notin Recharges /\ Acts(s, "idle", None)
      \/ k \in Recharges /\ Acts(s, "row", k)
  <2>1. job' = job => job' = [job EXCEPT ![s] = job[s]]
    BY DEF IInv, TypeOK
  <2> QED
    BY <2>1 DEF Post, Goto, End, Acts
<1>8. /\ pc' \in [Sessions -> Labels] /\ job' \in [Sessions -> Keys \cup {None}]
      /\ \A t \in Sessions \ {s} : pc'[t] = pc[t] /\ job'[t] = job[t]
      /\ \/ k \notin Recharges /\ pc'[s] = "idle"
         \/ k \in Recharges /\ pc'[s] = "row" /\ job'[s] = k
  BY <1>1, <1>7, OthersStay DEF IInv, Labels
<1> HIDE DEF k, row
<1>9. TypeOK' /\ Rows'
  <2>1. Typed
    BY <1>2, <1>4, <1>6 DEF Typed, IInv, TypeOK, Rows, provider
  <2> QED
    BY <1>8, <2>1, TypesAfter
<1>10. \A t \in Sessions : Knows(t)'
  <2>1. Grows
    BY <1>2, <1>3, <1>4 DEF Grows, Clean, provider
  <2>2. Knows(s)'
    BY <1>1, <1>2, <1>8 DEF Knows
  <2> QED
    BY <1>8, <2>1, <2>2, StillKnows DEF IInv
<1>11. ASSUME NEW j \in Keys
       PROVE  Honest(j)' /\ Mirrors(j)' /\ Earned(j)'
  <2>1. Honest(j) /\ Mirrors(j) /\ Earned(j)
    BY DEF IInv
  <2>2. Honest(j)' /\ Earned(j)'
    BY <1>4, <2>1 DEF Honest, Earned, Clean, provider
  <2>3. CASE j = k
    <3>1. j \in Recharges => Reachable(j)'
      BY <1>8, <2>3 DEF Reachable
    <3>2. recharge'[j] = None
      BY <1>4, <1>5, <2>3
    <3>3. Mirrors(j)'
      BY <1>2, <1>3, <1>6, <2>3, <3>1, <3>2 DEF Mirrors, Posting
    <3> QED
      BY <2>2, <3>3
  <2>4. CASE j # k
    <3>1. Reachable(j) => Reachable(j)'
      BY <1>1, <1>4, <1>8 DEF Reachable
    <3>2. txn'[j] = txn[j] /\ intents'[j] = intents[j] /\ recharge'[j] = recharge[j]
      BY <1>3, <1>4, <1>6, <2>4
    <3>3. Mirrors(j)'
      BY <2>1, <3>1, <3>2 DEF Mirrors, Posting
    <3> QED
      BY <2>2, <3>3
  <2> QED
    BY <2>3, <2>4
<1> QED
  BY <1>9, <1>10, <1>11 DEF IInv

LEMMA WriteRowKeeps ==
    ASSUME IInv, NEW s \in Sessions, WriteRow(s)
    PROVE  IInv'
<1> DEFINE k == job[s]
           row == [status |-> "PENDING", by |-> None]
<1>1. k \in Recharges /\ k \in Keys /\ pc[s] = "row" /\ txn[k] # None
  BY DEF WriteRow, IInv, Knows
<1>2. UNCHANGED <<txn, book, intents, sent, provider, crowded, cut>>
  BY DEF WriteRow
<1>3. row \in AirtimeRecharge /\ row # None /\ row.status = "PENDING" /\ row.by = None
  <2>1. row \in AirtimeRecharge
    BY DEF AirtimeRecharge, Statuses
  <2> QED
    BY <2>1, NotNone
<1> HIDE DEF row
<1>4. job' = job => job' = [job EXCEPT ![s] = k]
  BY DEF IInv, TypeOK
<1>5. \/ recharge[k] = None /\ recharge' = [recharge EXCEPT ![k] = row] /\ Acts(s, "vend", k)
      \/ recharge[k] # None /\ recharge' = recharge /\ Acts(s, "idle", None)
  BY <1>4 DEF WriteRow, Goto, End, Acts, row
<1>6. /\ recharge' \in [Keys -> {None} \cup AirtimeRecharge] /\ recharge'[k] # None
      /\ \A j \in Keys \ {k} : recharge'[j] = recharge[j]
      /\ recharge'[k] = recharge[k] \/ (recharge[k] = None /\ recharge'[k] = row)
  BY <1>1, <1>3, <1>5 DEF IInv, TypeOK
<1>7. /\ pc' \in [Sessions -> Labels] /\ job' \in [Sessions -> Keys \cup {None}]
      /\ \A t \in Sessions \ {s} : pc'[t] = pc[t] /\ job'[t] = job[t]
      /\ pc'[s] = "idle" \/ (pc'[s] = "vend" /\ job'[s] = k)
  BY <1>1, <1>5, OthersStay DEF IInv, Labels
<1> HIDE DEF k
<1>8. TypeOK' /\ Rows'
  <2>1. Typed
    BY <1>2, <1>6 DEF Typed, IInv, TypeOK, Rows, provider
  <2> QED
    BY <1>7, <2>1, TypesAfter
<1>9. \A t \in Sessions : Knows(t)'
  <2>1. Grows
    BY <1>2, <1>6 DEF Grows, Clean, provider
  <2>2. Knows(s)'
    BY <1>1, <1>2, <1>6, <1>7 DEF Knows
  <2> QED
    BY <1>7, <2>1, <2>2, StillKnows DEF IInv
<1>10. ASSUME NEW j \in Keys
       PROVE  Honest(j)' /\ Mirrors(j)' /\ Earned(j)'
  <2>1. Honest(j) /\ Mirrors(j) /\ Earned(j)
    BY DEF IInv
  <2>2. Honest(j)'
    BY <1>2, <2>1 DEF Honest, Clean, provider
  <2>3. Earned(j)'
    BY <1>2, <1>3, <1>6, <2>1 DEF Earned, Clean, provider
  <2>4. CASE j = k
    <3>1. Mirrors(j)'
      BY <1>1, <1>2, <1>3, <1>6, <2>1, <2>4 DEF Mirrors, Posting
    <3> QED
      BY <2>2, <2>3, <3>1
  <2>5. CASE j # k
    <3>1. Reachable(j) => Reachable(j)'
      BY <1>2, <1>7, <2>5 DEF Reachable, k
    <3>2. Mirrors(j)'
      BY <1>2, <1>6, <2>1, <2>5, <3>1 DEF Mirrors, Posting
    <3> QED
      BY <2>2, <2>3, <3>2
  <2> QED
    BY <2>4, <2>5
<1> QED
  BY <1>8, <1>9, <1>10 DEF IInv

-----------------------------------------------------------------------------
(* The provider                                                            *)

\* A step that changes what the provider did, truthfully, for one key.
ProviderMoves(k) ==
    /\ UNCHANGED <<txn, book, recharge, intents, sent, crowded, cut>>
    /\ asked' \in [Keys -> Nat] /\ accepted' \in [Keys -> Nat] /\ vended' \in [Keys -> Nat]
    /\ verdicts' \in [Keys -> SUBSET {"COMPLETED", "REVERSED"}]
    /\ \A j \in Keys \ {k} :
           /\ asked'[j] = asked[j] /\ accepted'[j] = accepted[j]
           /\ vended'[j] = vended[j] /\ verdicts'[j] = verdicts[j]
    /\ vended'[k] >= vended[k]
    /\ Clean(k) => Clean(k)'
    /\ Honest(k)'

LEMMA ProviderKeeps ==
    ASSUME IInv, NEW k \in Keys, ProviderMoves(k),
           pc' \in [Sessions -> Labels], job' \in [Sessions -> Keys \cup {None}],
           \A t \in Sessions :
               \/ pc'[t] = pc[t] /\ job'[t] = job[t]
               \/ pc[t] # "row" /\ pc'[t] # "row" /\ (Grows => Knows(t)')
    PROVE  IInv'
<1>1. /\ txn' = txn /\ book' = book /\ recharge' = recharge /\ intents' = intents
      /\ sent' = sent /\ crowded' = crowded /\ cut' = cut
  BY DEF ProviderMoves
<1>2. ASSUME NEW j \in Keys
      PROVE  /\ vended'[j] >= vended[j] /\ vended[j] \in Nat /\ vended'[j] \in Nat
             /\ (Clean(j) => Clean(j)') /\ Honest(j)'
  <2>1. vended[j] \in Nat /\ vended'[j] \in Nat /\ Honest(j)
    BY DEF IInv, TypeOK, ProviderMoves
  <2>2. CASE j = k
    BY <2>1, <2>2 DEF ProviderMoves
  <2>3. CASE j # k
    BY <2>1, <2>3 DEF ProviderMoves, Honest, Clean
  <2> QED
    BY <2>2, <2>3
<1>3. TypeOK' /\ Rows'
  <2>1. Typed
    BY <1>1 DEF Typed, IInv, TypeOK, Rows, ProviderMoves
  <2> QED
    BY <2>1, TypesAfter
<1>4. Grows
  BY <1>1, <1>2 DEF Grows
<1>5. \A t \in Sessions : Knows(t)'
  BY <1>4, StillKnows DEF IInv
<1>6. ASSUME NEW j \in Keys
      PROVE  Mirrors(j)' /\ Earned(j)'
  <2>1. Mirrors(j) /\ Earned(j)
    BY DEF IInv
  <2>2. Reachable(j) => Reachable(j)'
    BY <1>1 DEF Reachable
  <2>3. Mirrors(j)'
    BY <1>1, <2>1, <2>2 DEF Mirrors, Posting
  <2>4. (Clean(j) => Clean(j)') /\ (vended[j] >= 1 => vended'[j] >= 1)
    BY <1>2
  <2>5. Earned(j)'
    BY <1>1, <2>1, <2>4 DEF Earned
  <2> QED
    BY <2>3, <2>5
<1> QED
  BY <1>2, <1>3, <1>5, <1>6 DEF IInv

LEMMA CallProviderKeeps ==
    ASSUME IInv, NEW s \in Sessions, CallProvider(s)
    PROVE  IInv'
<1>0. PICK k \in Keys : k = job[s]
  BY DEF CallProvider, IInv, Knows
<1>1. /\ k \in Recharges /\ pc[s] = "vend" /\ txn[k] # None /\ recharge[k] # None
      /\ Honest(k)
  BY <1>0 DEF CallProvider, IInv, Knows
<1>2. /\ asked[k] \in Nat /\ accepted[k] \in Nat /\ vended[k] \in Nat
      /\ asked \in [Keys -> Nat] /\ accepted \in [Keys -> Nat] /\ vended \in [Keys -> Nat]
      /\ verdicts \in [Keys -> SUBSET {"COMPLETED", "REVERSED"}]
  BY <1>1 DEF IInv, TypeOK
<1>3. job' = job => job' = [job EXCEPT ![s] = k]
  BY <1>0 DEF IInv, TypeOK
<1>4. PICK answer \in {"success", "failed", "pending"} :
          /\ vended' = [vended EXCEPT ![k] = IF answer = "success" THEN vended[k] + 1 ELSE vended[k]]
          /\ accepted' = [accepted EXCEPT ![k] = IF answer = "pending" THEN accepted[k] + 1 ELSE accepted[k]]
          /\ \/ answer = "pending" /\ Acts(s, "idle", None)
             \/ answer = "success" /\ Acts(s, "completed", k)
             \/ answer = "failed" /\ Acts(s, "reversed", k)
  BY <1>0, <1>3 DEF CallProvider, Goto, End, Acts
<1>5. /\ asked' = [asked EXCEPT ![k] = asked[k] + 1]
      /\ UNCHANGED <<txn, book, recharge, intents, sent, verdicts, crowded, cut>>
  BY <1>0 DEF CallProvider
<1>6. /\ pc' \in [Sessions -> Labels] /\ job' \in [Sessions -> Keys \cup {None}]
      /\ \A t \in Sessions \ {s} : pc'[t] = pc[t] /\ job'[t] = job[t]
      /\ \/ answer = "pending" /\ pc'[s] = "idle"
         \/ answer = "success" /\ pc'[s] = "completed" /\ job'[s] = k
         \/ answer = "failed" /\ pc'[s] = "reversed" /\ job'[s] = k
  BY <1>1, <1>4, OthersStay DEF IInv, Labels
<1>7. /\ asked'[k] = asked[k] + 1
      /\ accepted'[k] = IF answer = "pending" THEN accepted[k] + 1 ELSE accepted[k]
      /\ vended'[k] = IF answer = "success" THEN vended[k] + 1 ELSE vended[k]
      /\ verdicts'[k] = verdicts[k]
  BY <1>1, <1>2, <1>4, <1>5
<1>8. /\ Clean(k) => Clean(k)'
      /\ answer = "failed" => Clean(k)'
      /\ answer = "success" => vended'[k] >= 1
      /\ Honest(k)' /\ vended'[k] >= vended[k]
  <2>1. /\ asked'[k] = 1 => asked[k] = 0 /\ accepted[k] = 0 /\ vended[k] = 0
        /\ asked'[k] >= 1
        /\ accepted'[k] + vended'[k] <= asked'[k]
    BY <1>1, <1>2, <1>7 DEF Honest
  <2>2. /\ Clean(k) => Clean(k)'
        /\ answer = "failed" => Clean(k)'
    BY <1>2, <1>7, <2>1 DEF Clean
  <2>3. vended'[k] >= vended[k] /\ (answer = "success" => vended'[k] >= 1)
    BY <1>2, <1>7
  <2>4. Honest(k)'
    BY <1>1, <1>2, <1>7, <2>1, <2>2, <2>3 DEF Honest
  <2> QED
    BY <2>2, <2>3, <2>4
<1>9. ProviderMoves(k)
  <2>1. /\ asked' \in [Keys -> Nat] /\ accepted' \in [Keys -> Nat] /\ vended' \in [Keys -> Nat]
        /\ verdicts' = verdicts
        /\ \A j \in Keys \ {k} :
               asked'[j] = asked[j] /\ accepted'[j] = accepted[j] /\ vended'[j] = vended[j]
    BY <1>1, <1>2, <1>4, <1>5
  <2> QED
    BY <1>2, <1>5, <1>8, <2>1 DEF ProviderMoves
<1>10. Grows => Knows(s)'
  <2>1. recharge'[k] # None /\ txn'[k] # None
    BY <1>1, <1>5
  <2>2. answer = "failed" => (pc'[s] = "reversed" /\ Clean(job[s])')
    BY <1>6, <1>8 DEF Clean
  <2> QED
    BY <1>1, <1>6, <1>8, <2>1, <2>2 DEF Knows
<1>11. pc[s] # "row" /\ pc'[s] # "row"
  BY <1>1, <1>6
<1> QED
  BY <1>1, <1>6, <1>9, <1>10, <1>11, ProviderKeeps

LEMMA ProviderEndsKeeps ==
    ASSUME IInv, NEW k \in Keys, ProviderEnds(k)
    PROVE  IInv'
<1>1. /\ asked[k] \in Nat /\ accepted[k] \in Nat /\ vended[k] \in Nat /\ accepted[k] > 0
      /\ asked \in [Keys -> Nat] /\ accepted \in [Keys -> Nat] /\ vended \in [Keys -> Nat]
      /\ verdicts \in [Keys -> SUBSET {"COMPLETED", "REVERSED"}]
      /\ Honest(k)
  BY DEF IInv, TypeOK, ProviderEnds
<1>2. PICK answer \in {"success", "failed"} :
          /\ vended' = [vended EXCEPT ![k] = IF answer = "success" THEN vended[k] + 1 ELSE vended[k]]
          /\ verdicts' = [verdicts EXCEPT ![k] = verdicts[k] \cup {Outcome[answer]}]
  BY DEF ProviderEnds
<1>3. /\ accepted' = [accepted EXCEPT ![k] = accepted[k] - 1]
      /\ UNCHANGED <<txn, book, recharge, intents, pc, job, sent, asked, crowded, cut>>
  BY DEF ProviderEnds
<1>4. Outcome[answer] = IF answer = "success" THEN "COMPLETED" ELSE "REVERSED"
  BY DEF Outcome
<1>5. /\ accepted'[k] = accepted[k] - 1 /\ asked'[k] = asked[k]
      /\ vended'[k] = IF answer = "success" THEN vended[k] + 1 ELSE vended[k]
      /\ verdicts'[k] = verdicts[k] \cup {Outcome[answer]}
  BY <1>1, <1>2, <1>3
<1>6. (Clean(k) => Clean(k)') /\ (answer = "failed" => Clean(k)') /\ Honest(k)' /\ vended'[k] >= vended[k]
  <2>1. /\ accepted'[k] + vended'[k] <= asked'[k]
        /\ asked[k] >= 1
        /\ asked[k] = 1 => accepted[k] = 1 /\ vended[k] = 0
        /\ vended'[k] >= vended[k] /\ (answer = "success" => vended'[k] >= 1)
    BY <1>1, <1>5 DEF Honest
  <2>2. (Clean(k) => Clean(k)') /\ (answer = "failed" => Clean(k)')
    BY <1>1, <1>5, <2>1 DEF Clean
  <2>3. ("COMPLETED" \in verdicts'[k] => vended'[k] >= 1) /\ ("REVERSED" \in verdicts'[k] => Clean(k)')
    BY <1>1, <1>4, <1>5, <2>1, <2>2 DEF Honest
  <2> QED
    BY <2>1, <2>2, <2>3 DEF Honest
<1>7. ProviderMoves(k)
  <2>1. /\ accepted' \in [Keys -> Nat] /\ vended' \in [Keys -> Nat]
        /\ verdicts' \in [Keys -> SUBSET {"COMPLETED", "REVERSED"}]
        /\ \A j \in Keys \ {k} :
               verdicts'[j] = verdicts[j] /\ accepted'[j] = accepted[j] /\ vended'[j] = vended[j]
    BY <1>1, <1>2, <1>3, <1>4
  <2> QED
    BY <1>1, <1>3, <1>6, <2>1 DEF ProviderMoves
<1>8. pc \in [Sessions -> Labels] /\ job \in [Sessions -> Keys \cup {None}]
  BY DEF IInv, TypeOK, Labels
<1> QED
  BY <1>3, <1>7, <1>8, ProviderKeeps

-----------------------------------------------------------------------------
(* Settlements                                                             *)

\* A PENDING recharge settled by a caller that tells the truth about it.
LEMMA SettledKeeps ==
    ASSUME IInv, NEW k \in Keys, recharge[k] # None, recharge[k].status = "PENDING",
           NEW to \in {"COMPLETED", "REVERSED"}, NEW by \in {"request", "provider", "operator"},
           Settled(k, to, by),
           by # "operator" => (to = "COMPLETED" => vended[k] >= 1) /\ (to = "REVERSED" => Clean(k)),
           UNCHANGED <<sent, provider, crowded, cut>>,
           pc' \in [Sessions -> Labels], job' \in [Sessions -> Keys \cup {None}],
           \A t \in Sessions :
               \/ pc'[t] = pc[t] /\ job'[t] = job[t]
               \/ pc[t] # "row" /\ pc'[t] = "idle"
    PROVE  IInv'
<1> DEFINE row == [status |-> to, by |-> by]
<1>1. /\ k \in Recharges /\ txn[k] # None /\ txn[k].req = Posting(k) /\ txn[k].status = "PENDING"
      /\ intents \in [Keys -> 0..1] /\ intents[k] = 0
  <2>1. Mirrors(k) /\ intents \in [Keys -> 0..1] /\ intents[k] \in 0..1
    BY DEF IInv, TypeOK
  <2> QED
    BY <2>1 DEF Mirrors
<1>2. /\ Rows' /\ txn'[k] # None /\ txn'[k].req = Posting(k) /\ txn'[k].status = to
      /\ \A j \in Keys \ {k} : txn'[j] = txn[j]
      /\ \A w \in Guarded : Available(book'[w]) >= 0
  BY <1>1, SettleMoves DEF IInv, TypeOK, Settled
<1>3. row \in AirtimeRecharge /\ row # None /\ row.status = to /\ row.by = by
  <2>1. row \in AirtimeRecharge
    BY DEF AirtimeRecharge, Statuses
  <2> QED
    BY <2>1, NotNone
<1>4. /\ recharge' = [recharge EXCEPT ![k] = row]
      /\ intents' = [intents EXCEPT ![k] = IF to = "COMPLETED" THEN intents[k] + 1 ELSE intents[k]]
  BY DEF Settled
<1> HIDE DEF row
<1>5. /\ recharge' \in [Keys -> {None} \cup AirtimeRecharge] /\ recharge'[k] = row
      /\ \A j \in Keys \ {k} : recharge'[j] = recharge[j]
      /\ intents' \in [Keys -> 0..1] /\ intents'[k] = (IF to = "COMPLETED" THEN 1 ELSE 0)
      /\ \A j \in Keys \ {k} : intents'[j] = intents[j]
  BY <1>1, <1>3, <1>4 DEF IInv, TypeOK
<1>6. TypeOK' /\ Rows'
  <2>1. Typed
    BY <1>2, <1>5 DEF Typed, IInv, TypeOK, Rows, provider
  <2> QED
    BY <2>1, TypesAfter
<1>7. \A t \in Sessions : Knows(t)'
  <2>1. Grows
    BY <1>2, <1>3, <1>5 DEF Grows, Clean, provider
  <2>2. ASSUME NEW t \in Sessions, pc'[t] = "idle"
        PROVE  Knows(t)'
    BY <2>2 DEF Knows
  <2> QED
    BY <2>1, <2>2, StillKnows DEF IInv
<1>8. ASSUME NEW j \in Keys
      PROVE  Honest(j)' /\ Mirrors(j)' /\ Earned(j)'
  <2>1. Honest(j) /\ Mirrors(j) /\ Earned(j)
    BY DEF IInv
  <2>2. Honest(j)'
    BY <2>1 DEF Honest, Clean, provider
  <2>3. CASE j = k
    <3>1. Mirrors(j)'
      BY <1>1, <1>2, <1>3, <1>5, <2>3 DEF Mirrors, Posting
    <3>2. (Clean(j) => Clean(j)') /\ vended'[j] = vended[j]
      BY DEF Clean, provider
    <3>3. Earned(j)'
      BY <1>3, <1>5, <2>3, <3>2 DEF Earned
    <3> QED
      BY <2>2, <3>1, <3>3
  <2>4. CASE j # k
    <3>1. Reachable(j) => Reachable(j)'
      BY DEF Reachable
    <3>2. Mirrors(j)'
      BY <1>2, <1>5, <2>1, <2>4, <3>1 DEF Mirrors, Posting
    <3>3. Earned(j)'
      BY <1>5, <2>1, <2>4 DEF Earned, Clean, provider
    <3> QED
      BY <2>2, <3>2, <3>3
  <2> QED
    BY <2>3, <2>4
<1> QED
  BY <1>6, <1>7, <1>8 DEF IInv

LEMMA FinalizeKeeps ==
    ASSUME IInv, NEW s \in Sessions, Finalize(s)
    PROVE  IInv'
<1>1. PICK k \in Keys : k = job[s]
  BY DEF Finalize, IInv, Knows
<1>2. /\ pc[s] \in {"completed", "reversed"} /\ recharge[k] # None /\ Knows(s)
      /\ Acts(s, "idle", None)
      /\ UNCHANGED <<sent, provider, crowded, cut>>
  BY <1>1 DEF Finalize, IInv, Knows, End, Goto, Acts
<1>3. /\ pc' \in [Sessions -> Labels] /\ job' \in [Sessions -> Keys \cup {None}]
      /\ pc'[s] = "idle"
      /\ \A t \in Sessions \ {s} : pc'[t] = pc[t] /\ job'[t] = job[t]
  BY <1>2, OthersStay DEF IInv, Labels
<1>4. CASE recharge[k].status = "PENDING"
  <2>1. PICK to \in {"COMPLETED", "REVERSED"} :
            /\ Settled(k, to, "request")
            /\ to = IF pc[s] = "completed" THEN "COMPLETED" ELSE "REVERSED"
    BY <1>1, <1>4 DEF Finalize
  <2>2. (to = "COMPLETED" => vended[k] >= 1) /\ (to = "REVERSED" => Clean(k))
    BY <1>1, <1>2, <2>1 DEF Knows
  <2> QED
    BY <1>2, <1>3, <1>4, <2>1, <2>2, SettledKeeps
<1>5. CASE recharge[k].status # "PENDING"
  <2>1. UNCHANGED Tables
    BY <1>1, <1>2, <1>5 DEF Finalize, Tables
  <2>2. /\ sent' \in 0..MaxRequests /\ crowded' \subseteq Accounts
        /\ cut' = cut /\ cut' \subseteq Keys /\ pc[s] # "row"
    BY <1>2 DEF IInv, TypeOK
  <2>3. Knows(s)'
    BY <1>3 DEF Knows
  <2> QED
    BY <1>2, <2>1, <2>2, <2>3, Walks DEF Labels
<1> QED
  BY <1>4, <1>5

\* The provider's verdict is true of it, and an operator's needs not be.
LEMMA DecisionKeeps ==
    ASSUME IInv, NEW k \in Keys, Callback(k) \/ Resolve(k)
    PROVE  IInv'
<1>1. /\ recharge[k] # None /\ recharge[k].status = "PENDING"
      /\ UNCHANGED <<pc, job, sent, provider, crowded, cut>>
  BY DEF Callback, Resolve
<1>2. /\ pc' \in [Sessions -> Labels] /\ job' \in [Sessions -> Keys \cup {None}]
      /\ \A t \in Sessions : pc'[t] = pc[t] /\ job'[t] = job[t]
  BY <1>1 DEF IInv, TypeOK, Labels
<1>3. CASE Callback(k)
  <2>1. PICK to \in verdicts[k] : Settled(k, to, "provider")
    BY <1>3 DEF Callback
  <2>2. to \in {"COMPLETED", "REVERSED"} /\ Honest(k)
    BY DEF IInv, TypeOK
  <2>3. (to = "COMPLETED" => vended[k] >= 1) /\ (to = "REVERSED" => Clean(k))
    BY <2>1, <2>2 DEF Honest
  <2> QED
    BY <1>1, <1>2, <2>1, <2>2, <2>3, SettledKeeps
<1>4. CASE Resolve(k)
  <2>1. PICK to \in {"COMPLETED", "REVERSED"} : Settled(k, to, "operator")
    BY <1>4 DEF Resolve
  <2> QED
    BY <1>1, <1>2, <2>1, SettledKeeps
<1> QED
  BY <1>3, <1>4

-----------------------------------------------------------------------------
(* What holds in every reachable state                                     *)

LEMMA StepKeeps == IInv /\ [Next]_vars => IInv'
<1> SUFFICES ASSUME IInv, [Next]_vars
             PROVE  IInv'
  OBVIOUS
<1>1. ASSUME NEW s \in Sessions, NEW k \in Keys, Begin(s, k)
      PROVE  IInv'
  BY <1>1, BeginKeeps
<1>2. ASSUME NEW s \in Sessions,
             CheckLimits(s) \/ RefuseLimits(s) \/ CheckFunds(s) \/ Replay(s) \/ RefusePost(s) \/ Crash(s)
      PROVE  IInv'
  BY <1>2, GatesKeep
<1>3. ASSUME NEW s \in Sessions, Post(s) \/ WriteRow(s) \/ CallProvider(s) \/ Finalize(s)
      PROVE  IInv'
  BY <1>3, PostKeeps, WriteRowKeeps, CallProviderKeeps, FinalizeKeeps
<1>4. ASSUME NEW k \in Keys, ProviderEnds(k) \/ Callback(k) \/ Resolve(k)
      PROVE  IInv'
  BY <1>4, ProviderEndsKeeps, DecisionKeeps
<1>5. CASE UNCHANGED vars
  <2>1. /\ UNCHANGED <<txn, book, recharge, intents, sent, crowded, cut, pc, job>>
        /\ UNCHANGED <<asked, accepted, vended, verdicts>>
    BY <1>5 DEF vars, provider
  <2>2. TypeOK' /\ Rows'
    BY <2>1 DEF IInv, TypeOK, Rows
  <2>3. \A s \in Sessions : Knows(s)'
    BY <2>1 DEF IInv, Knows, Clean
  <2>4. \A k \in Keys : Honest(k)' /\ Earned(k)'
    BY <2>1 DEF IInv, Honest, Earned, Clean
  <2>5. \A k \in Keys : Mirrors(k)'
    BY <2>1 DEF IInv, Mirrors, Reachable, Posting
  <2> QED
    BY <2>2, <2>3, <2>4, <2>5 DEF IInv
<1> QED
  BY <1>1, <1>2, <1>3, <1>4, <1>5 DEF Next

\* Every reachable state of the payment flows satisfies the invariant: the
\* tables agree key by key, and a session acts on a recharge that is there.
THEOREM Invariance == Spec => []IInv
<1>1. Init => IInv
  BY InitHolds
<1>2. IInv /\ [Next]_vars => IInv'
  BY StepKeeps
<1> QED
  BY <1>1, <1>2, PTL DEF Spec

\* Every variable keeps its type; a request writes at most one reward intent
\* however often it is sent, settled and called back, and no guarded wallet is
\* overdrawn (airtime/service.py:503, payments/service.py).
THEOREM TypeCorrect == Spec => []TypeOK
<1>1. IInv => TypeOK
  BY DEF IInv
<1> QED
  BY <1>1, Invariance, PTL

\* Recharge row, reservation, reward intent and provider agree at every commit,
\* whatever requests, callbacks and operators race and whoever dies
\* (airtime/service.py:184, :503, :632).
THEOREM RechargesSettle == Spec => []RechargeSettled
<1>1. IInv => RechargeSettled
  <2> SUFFICES ASSUME IInv PROVE RechargeSettled
    OBVIOUS
  <2>1. \A k \in Recharges : k \in Keys /\ Mirrors(k) /\ Earned(k) /\ recharge[k] \in {None} \cup AirtimeRecharge
    BY DEF IInv, TypeOK, Recharges, OrdersOf
  <2>2. RechargeMirrorsHold
    BY <2>1 DEF RechargeMirrorsHold, Mirrors, Reachable
  <2>3. VendedAsSettled
    BY <2>1 DEF VendedAsSettled, Earned, Clean
  <2> QED
    BY <2>2, <2>3 DEF RechargeSettled
<1> QED
  BY <1>1, Invariance, PTL

-----------------------------------------------------------------------------
(* Money moves through the ledger                                          *)

LEMMA StepMoves == IInv /\ [Next]_vars => [AbsNext]_absVars
<1> SUFFICES ASSUME IInv, [Next]_vars
             PROVE  [AbsNext]_absVars
  OBVIOUS
<1>1. ASSUME NEW s \in Sessions, NEW k \in Keys, Begin(s, k)
      PROVE  UNCHANGED absVars
  BY <1>1 DEF Begin, absVars
<1>2. ASSUME NEW s \in Sessions,
             \/ CheckLimits(s) \/ RefuseLimits(s) \/ CheckFunds(s) \/ Replay(s) \/ RefusePost(s)
             \/ Crash(s) \/ WriteRow(s) \/ CallProvider(s)
      PROVE  UNCHANGED absVars
  BY <1>2 DEF CheckLimits, RefuseLimits, CheckFunds, Replay, RefusePost, Crash, WriteRow,
              CallProvider, absVars
<1>3. ASSUME NEW s \in Sessions, Post(s)
      PROVE  AbsNext
  <2>1. job[s] \in Keys /\ AbsPost(Posting(job[s]))
    BY <1>3 DEF Post, IInv, Knows
  <2> QED
    BY <2>1, PostingFields DEF AbsNext
<1>4. ASSUME NEW k \in Keys, NEW to \in {"COMPLETED", "REVERSED"}, NEW by, Settled(k, to, by)
      PROVE  AbsNext
  BY <1>4 DEF Settled, AbsNext
<1>5. ASSUME NEW s \in Sessions, Finalize(s)
      PROVE  AbsNext \/ UNCHANGED absVars
  <2>1. job[s] \in Keys
    BY <1>5 DEF Finalize, IInv, Knows
  <2>2. \/ \E to \in {"COMPLETED", "REVERSED"} : Settled(job[s], to, "request")
        \/ UNCHANGED absVars
    BY <1>5 DEF Finalize, absVars
  <2> QED
    BY <1>4, <2>1, <2>2
<1>6. ASSUME NEW k \in Keys, ProviderEnds(k) \/ Callback(k) \/ Resolve(k)
      PROVE  AbsNext \/ UNCHANGED absVars
  <2>1. CASE ProviderEnds(k)
    BY <2>1 DEF ProviderEnds, absVars
  <2>2. CASE Callback(k)
    <3>1. verdicts[k] \subseteq {"COMPLETED", "REVERSED"}
      BY DEF IInv, TypeOK
    <3> QED
      BY <1>4, <2>2, <3>1 DEF Callback
  <2>3. CASE Resolve(k)
    BY <1>4, <2>3 DEF Resolve
  <2> QED
    BY <1>6, <2>1, <2>2, <2>3
<1>7. CASE UNCHANGED vars
  BY <1>7 DEF vars, absVars
<1> QED
  BY <1>1, <1>2, <1>3, <1>5, <1>6, <1>7 DEF Next

\* The payment flows move money only by postings and settlements of the ledger:
\* each key is posted once and settled once, from funds that are there
\* (every flow goes through ledger/service.py post_transaction).
THEOREM ThroughLedger == Spec => AbsSpec
<1>1. Init => AbsInit
  BY DEF Init
<1> QED
  BY <1>1, StepMoves, Invariance, PTL DEF Spec, AbsSpec

-----------------------------------------------------------------------------
(* The arithmetic of the charge assembler, for every amount and every      *)
(* combination of inclusive and exclusive charges.                         *)

AmountSet ==
    [principal: Nat, fee: Nat, commission: Nat, parent: Nat,
     feeTax: Nat, commissionTax: Nat, parentTax: Nat]

FlagSet == [fee: BOOLEAN, feeTax: BOOLEAN, commissionTax: BOOLEAN]

\* The taxes taken out of a charge do not exceed it.
TaxFits(m, f) ==
    /\ f.feeTax => m.feeTax <= m.fee
    /\ f.commissionTax => m.commissionTax <= m.commission /\ m.parentTax <= m.parent

\* What an inclusive fee takes out of the payee's credit.
Carved(m, f) == m.fee + P!OnTop(f.feeTax, m.feeTax)

LEMMA Fields ==
    ASSUME NEW m \in AmountSet, NEW f \in FlagSet
    PROVE  /\ m.principal \in Nat /\ m.fee \in Nat /\ m.commission \in Nat /\ m.parent \in Nat
           /\ m.feeTax \in Nat /\ m.commissionTax \in Nat /\ m.parentTax \in Nat
           /\ f.fee \in BOOLEAN /\ f.feeTax \in BOOLEAN /\ f.commissionTax \in BOOLEAN
  BY DEF AmountSet, FlagSet

LEMMA LegFacts ==
    ASSUME NEW n \in Int
    PROVE  P!Leg(n) \in Nat /\ (n >= 0 => P!Leg(n) = n) /\ (n <= 0 => P!Leg(n) = 0)
  BY DEF P!Leg

\* The legs, one equation each.
LEMMA ChargeLegs ==
    ASSUME NEW m \in AmountSet, NEW f \in FlagSet, NEW p \in BOOLEAN, NEW c, c = P!Charges(m, f, p)
    PROVE  /\ c.payer = -P!Leg(IF f.fee THEN m.principal ELSE m.principal + Carved(m, f))
           /\ c.payee = P!Leg(IF f.fee THEN m.principal - Carved(m, f) ELSE m.principal)
           /\ c.fee = P!Leg(m.fee - P!Within(f.feeTax, m.feeTax))
           /\ c.serviceTax = P!Leg(m.feeTax)
           /\ c.pool = -(P!Leg(m.commission + P!OnTop(f.commissionTax, m.commissionTax))
                         + (IF P!ParentPaid(m, p)
                            THEN P!Leg(m.parent + P!OnTop(f.commissionTax, m.parentTax)) ELSE 0))
           /\ c.earner = P!Leg(m.commission - P!Within(f.commissionTax, m.commissionTax))
           /\ c.parent = IF P!ParentPaid(m, p)
                         THEN P!Leg(m.parent - P!Within(f.commissionTax, m.parentTax)) ELSE 0
           /\ c.commissionTax = P!Leg(m.commissionTax)
                                + (IF P!ParentPaid(m, p) THEN P!Leg(m.parentTax) ELSE 0)
<1>1. m.principal \in Int /\ m.fee \in Int /\ P!OnTop(f.feeTax, m.feeTax) \in Int
  BY Fields DEF P!OnTop
<1>2. /\ m.principal + Carved(m, f) = m.principal + m.fee + P!OnTop(f.feeTax, m.feeTax)
      /\ m.principal - Carved(m, f) = m.principal - m.fee - P!OnTop(f.feeTax, m.feeTax)
  BY <1>1 DEF Carved
<1> QED
  BY <1>2 DEF P!Charges

\* A base and its tax: what the paying leg and the two credits come to.
LEMMA TaxSplit ==
    ASSUME NEW base \in Nat, NEW tax \in Nat, NEW inc \in BOOLEAN, inc => tax <= base
    PROVE  /\ base + P!OnTop(inc, tax) \in Nat
           /\ base - P!Within(inc, tax) \in Nat
           /\ P!Leg(base + P!OnTop(inc, tax)) = P!Leg(base - P!Within(inc, tax)) + P!Leg(tax)
<1>1. CASE inc
  <2>1. base + P!OnTop(inc, tax) = base /\ base - P!Within(inc, tax) = base - tax /\ base - tax \in Nat
    BY <1>1 DEF P!OnTop, P!Within
  <2>2. P!Leg(base) = base /\ P!Leg(base - tax) = base - tax /\ P!Leg(tax) = tax
    BY <2>1, LegFacts
  <2> QED
    BY <2>1, <2>2
<1>2. CASE ~inc
  <2>1. base + P!OnTop(inc, tax) = base + tax /\ base - P!Within(inc, tax) = base /\ base + tax \in Nat
    BY <1>2 DEF P!OnTop, P!Within
  <2>2. P!Leg(base + tax) = base + tax /\ P!Leg(base) = base /\ P!Leg(tax) = tax
    BY <2>1, LegFacts
  <2> QED
    BY <2>1, <2>2
<1> QED
  BY <1>1, <1>2

\* Commission and parent commission are paid for by the pool to the last unit.
LEMMA CommissionBalances ==
    ASSUME NEW m \in AmountSet, NEW f \in FlagSet, NEW p \in BOOLEAN, TaxFits(m, f),
           NEW c, c = P!Charges(m, f, p)
    PROVE  /\ c.pool \in Int /\ c.earner \in Int /\ c.parent \in Int /\ c.commissionTax \in Int
           /\ c.pool + c.earner + c.parent + c.commissionTax = 0
<1> DEFINE paid == P!Leg(m.commission + P!OnTop(f.commissionTax, m.commissionTax))
           kept == P!Leg(m.commission - P!Within(f.commissionTax, m.commissionTax))
           tax == P!Leg(m.commissionTax)
           paidP == P!Leg(m.parent + P!OnTop(f.commissionTax, m.parentTax))
           keptP == P!Leg(m.parent - P!Within(f.commissionTax, m.parentTax))
           taxP == P!Leg(m.parentTax)
<1>1. paid = kept + tax /\ kept \in Nat /\ tax \in Nat
  <2>1. f.commissionTax => m.commissionTax <= m.commission
    BY DEF TaxFits
  <2>2. /\ m.commission \in Nat /\ m.commissionTax \in Nat /\ f.commissionTax \in BOOLEAN
    BY Fields
  <2>3. paid = kept + tax /\ m.commission - P!Within(f.commissionTax, m.commissionTax) \in Nat
    BY <2>1, <2>2, TaxSplit
  <2> QED
    BY <2>2, <2>3, LegFacts
<1>2. paidP = keptP + taxP /\ keptP \in Nat /\ taxP \in Nat
  <2>1. f.commissionTax => m.parentTax <= m.parent
    BY DEF TaxFits
  <2>2. /\ m.parent \in Nat /\ m.parentTax \in Nat /\ f.commissionTax \in BOOLEAN
    BY Fields
  <2>3. paidP = keptP + taxP /\ m.parent - P!Within(f.commissionTax, m.parentTax) \in Nat
    BY <2>1, <2>2, TaxSplit
  <2> QED
    BY <2>2, <2>3, LegFacts
<1>3. CASE P!ParentPaid(m, p)
  <2>1. c.pool = -(paid + paidP) /\ c.earner = kept /\ c.parent = keptP
          /\ c.commissionTax = tax + taxP
    BY <1>3, ChargeLegs
  <2> HIDE DEF paid, kept, tax, paidP, keptP, taxP
  <2> QED
    BY <1>1, <1>2, <2>1
<1>4. CASE ~P!ParentPaid(m, p)
  <2>1. c.pool = -(paid + 0) /\ c.earner = kept /\ c.parent = 0 /\ c.commissionTax = tax + 0
    BY <1>4, ChargeLegs
  <2> HIDE DEF paid, kept, tax, paidP, keptP, taxP
  <2> QED
    BY <1>1, <2>1
<1> QED
  BY <1>3, <1>4

\* The platform's fee and the tax on it are what the payment carries on top
\* of, or within, the principal.
LEMMA FeeIsCarved ==
    ASSUME NEW m \in AmountSet, NEW f \in FlagSet, NEW p \in BOOLEAN, TaxFits(m, f),
           NEW c, c = P!Charges(m, f, p)
    PROVE  /\ Carved(m, f) \in Nat /\ m.principal \in Nat
           /\ c.fee + c.serviceTax = Carved(m, f) /\ c.fee \in Int /\ c.serviceTax \in Int
<1>1. c.fee = P!Leg(m.fee - P!Within(f.feeTax, m.feeTax)) /\ c.serviceTax = P!Leg(m.feeTax)
  BY ChargeLegs
<1>2. f.feeTax => m.feeTax <= m.fee
  BY DEF TaxFits
<1>3. /\ P!Leg(Carved(m, f)) = c.fee + c.serviceTax
      /\ Carved(m, f) \in Nat
      /\ m.fee - P!Within(f.feeTax, m.feeTax) \in Nat
  <2>1. m.fee \in Nat /\ m.feeTax \in Nat /\ f.feeTax \in BOOLEAN
    BY Fields
  <2> QED
    BY <1>1, <1>2, <2>1, TaxSplit DEF Carved
<1>4. P!Leg(Carved(m, f)) = Carved(m, f)
  BY <1>3, LegFacts
<1> QED
  BY <1>1, <1>3, <1>4, Fields, LegFacts

\* The postings of assemble_charges are balanced: whatever the flags, as long
\* as no inclusive charge exceeds what it is taken from, the legs cancel out.
THEOREM ChargesBalance ==
    ASSUME NEW m \in AmountSet, NEW f \in FlagSet, NEW p \in BOOLEAN, TaxFits(m, f),
           f.fee => Carved(m, f) <= m.principal
    PROVE  P!Total(P!Charges(m, f, p)) = 0
<1> DEFINE c == P!Charges(m, f, p)
           A == m.principal
           B == Carved(m, f)
<1>1. /\ c.pool \in Int /\ c.earner \in Int /\ c.parent \in Int /\ c.commissionTax \in Int
      /\ c.pool + c.earner + c.parent + c.commissionTax = 0
  BY CommissionBalances
<1>2. A \in Nat /\ B \in Nat /\ c.fee + c.serviceTax = B /\ c.fee \in Int /\ c.serviceTax \in Int
  BY FeeIsCarved
<1>3. c.payer = -P!Leg(IF f.fee THEN A ELSE A + B) /\ c.payee = P!Leg(IF f.fee THEN A - B ELSE A)
  BY ChargeLegs
<1>4. f.fee => B <= A
  OBVIOUS
<1>5. P!Total(c) = c.payer + c.payee + c.fee + c.serviceTax
                   + c.pool + c.earner + c.parent + c.commissionTax
  BY DEF P!Total
<1> HIDE DEF A, B, c
<1>6. CASE f.fee
  <2>1. c.payer = -A /\ c.payee = A - B
    BY <1>2, <1>3, <1>4, <1>6, LegFacts
  <2> QED
    BY <1>1, <1>2, <1>5, <2>1 DEF c
<1>7. CASE ~f.fee
  <2>1. c.payer = -(A + B) /\ c.payee = A
    BY <1>2, <1>3, <1>7, LegFacts
  <2> QED
    BY <1>1, <1>2, <1>5, <2>1 DEF c
<1> QED
  BY <1>6, <1>7

\* An inclusive fee above the principal does not pass: the payee's credit is
\* left out, and what is left is not balanced, so the ledger refuses it.
THEOREM OverchargeIsUnbalanced ==
    ASSUME NEW m \in AmountSet, NEW f \in FlagSet, NEW p \in BOOLEAN, TaxFits(m, f),
           f.fee, Carved(m, f) > m.principal
    PROVE  P!Total(P!Charges(m, f, p)) > 0
<1> DEFINE c == P!Charges(m, f, p)
           A == m.principal
           B == Carved(m, f)
<1>1. /\ c.pool \in Int /\ c.earner \in Int /\ c.parent \in Int /\ c.commissionTax \in Int
      /\ c.pool + c.earner + c.parent + c.commissionTax = 0
  BY CommissionBalances
<1>2. A \in Nat /\ B \in Nat /\ c.fee + c.serviceTax = B /\ c.fee \in Int /\ c.serviceTax \in Int
  BY FeeIsCarved
<1>3. c.payer = -P!Leg(A) /\ c.payee = P!Leg(A - B)
  BY ChargeLegs
<1>4. B > A
  OBVIOUS
<1>5. P!Total(c) = c.payer + c.payee + c.fee + c.serviceTax
                   + c.pool + c.earner + c.parent + c.commissionTax
  BY DEF P!Total
<1> HIDE DEF A, B, c
<1>6. c.payer = -A /\ c.payee = 0
  BY <1>2, <1>3, <1>4, LegFacts
<1> QED
  BY <1>1, <1>2, <1>4, <1>5, <1>6 DEF c

-----------------------------------------------------------------------------
(* The legs of a posting                                                   *)

\* Of the roles of an order only the payer and the pool are debited; without a
\* parent, no role of his is.
LEMMA ChargeFacts ==
    ASSUME NEW k \in Keys
    PROVE  /\ Charged[k].payer \in Int /\ Charged[k].payer < 0
           /\ Charged[k].payee \in Nat /\ Charged[k].fee \in Nat /\ Charged[k].serviceTax \in Nat
           /\ Charged[k].earner \in Nat /\ Charged[k].commissionTax \in Nat
           /\ Charged[k].pool \in Int /\ Charged[k].parent = 0
           /\ Quoted(k).commission \in Nat
           /\ Quoted(k).commission = 0 => Charged[k].earner = 0
<1> DEFINE t == Tariff[Order[k].kind]
           m == P!Amounts(t, Order[k].amount)
           f == t.flags
           c == P!Charges(m, f, FALSE)
<1>1. m \in AmountSet /\ f \in FlagSet
  BY TariffAssumption DEF AmountSet, FlagSet
<1>2. Charged[k] = c /\ Quoted(k) = m
  BY DEF Charged, ChargesOf, Quoted
<1>3. m.principal = Order[k].amount /\ m.principal \in Nat \ {0}
  BY PaymentsAssumption DEF P!Amounts
<1> HIDE DEF c, m, f, t
<1>4. ~P!ParentPaid(m, FALSE)
  BY DEF P!ParentPaid
<1>5. /\ c.payer = -P!Leg(IF f.fee THEN m.principal ELSE m.principal + Carved(m, f))
      /\ c.payee = P!Leg(IF f.fee THEN m.principal - Carved(m, f) ELSE m.principal)
      /\ c.fee = P!Leg(m.fee - P!Within(f.feeTax, m.feeTax))
      /\ c.serviceTax = P!Leg(m.feeTax)
      /\ c.pool = -(P!Leg(m.commission + P!OnTop(f.commissionTax, m.commissionTax)) + 0)
      /\ c.earner = P!Leg(m.commission - P!Within(f.commissionTax, m.commissionTax))
      /\ c.parent = 0
      /\ c.commissionTax = P!Leg(m.commissionTax) + 0
  BY <1>1, <1>4, ChargeLegs DEF c
<1>6. /\ m.fee \in Nat /\ m.commission \in Nat /\ m.feeTax \in Nat /\ m.commissionTax \in Nat
      /\ f.fee \in BOOLEAN /\ f.feeTax \in BOOLEAN /\ f.commissionTax \in BOOLEAN
  BY <1>1, Fields
<1>7. Carved(m, f) \in Nat
  BY <1>6 DEF Carved, P!OnTop
<1>8. P!Within(f.feeTax, m.feeTax) \in Nat /\ P!Within(f.commissionTax, m.commissionTax) \in Nat
      /\ P!OnTop(f.commissionTax, m.commissionTax) \in Nat
  BY <1>6 DEF P!Within, P!OnTop
<1>9. c.payer \in Int /\ c.payer < 0
  BY <1>3, <1>5, <1>6, <1>7, LegFacts
<1>10. c.payee \in Nat
  BY <1>3, <1>5, <1>6, <1>7, LegFacts
<1>11. c.fee \in Nat /\ c.serviceTax \in Nat /\ c.earner \in Nat /\ c.commissionTax \in Nat /\ c.pool \in Int
  BY <1>5, <1>6, <1>8, LegFacts
<1>12. m.commission = 0 => c.earner = 0
  <2>1. m.commission = 0 => m.commission - P!Within(f.commissionTax, m.commissionTax) <= 0
    BY <1>8
  <2> QED
    BY <1>5, <1>6, <1>8, <2>1, LegFacts
<1> QED
  BY <1>2, <1>5, <1>6, <1>9, <1>10, <1>11, <1>12

\* Whose accounts they are.
LEMMA RoleAccounts ==
    ASSUME NEW k \in Keys
    PROVE  /\ Account(Order[k]).payer = Order[k].payer /\ Account(Order[k]).payee = Order[k].payee
           /\ Account(Order[k]).fee = FeeAccount /\ Account(Order[k]).serviceTax = ServiceTax
           /\ Account(Order[k]).pool = Pool /\ Account(Order[k]).earner = Order[k].earner
           /\ Account(Order[k]).parent = None /\ Account(Order[k]).commissionTax = CommissionTax
           /\ None \notin Accounts
BY DataAssumption DEF Account

\* Of a guarded wallet: a debit is the payer's, and where the recipient's caps
\* are checked a credit is the payee's.
LEMMA WalletLegs ==
    ASSUME NEW k \in Keys
    PROVE  /\ HasDebit(k, Order[k].payer)
           /\ \A w \in Guarded :
                  /\ HasDebit(k, w) => w = Order[k].payer
                  /\ HasCredit(k, w) /\ ReceiveChecked(Order[k]) => w = Order[k].payee
<1>1. HasDebit(k, Order[k].payer)
  <2>1. "payer" \in P!Roles
    BY DEF P!Roles
  <2> QED
    BY <2>1, ChargeFacts, RoleAccounts DEF HasDebit
<1>2. ASSUME NEW w \in Guarded, HasDebit(k, w)
      PROVE  w = Order[k].payer
  <2>1. PICK r \in P!Roles : Account(Order[k])[r] = w /\ Charged[k][r] < 0
    BY <1>2 DEF HasDebit
  <2>2. r \in {"payer", "pool"}
    BY <2>1, ChargeFacts DEF P!Roles
  <2>3. Pool \notin Guarded
    BY PartiesAssumption
  <2> QED
    BY <2>1, <2>2, <2>3, RoleAccounts
<1>3. ASSUME NEW w \in Guarded, HasCredit(k, w), ReceiveChecked(Order[k])
      PROVE  w = Order[k].payee
  <2>1. PICK r \in P!Roles : Account(Order[k])[r] = w /\ Charged[k][r] > 0
    BY <1>3 DEF HasCredit
  <2>2. r \in {"payee", "fee", "serviceTax", "earner", "commissionTax", "pool"}
    BY <2>1, ChargeFacts DEF P!Roles
  <2>3. {FeeAccount, ServiceTax, CommissionTax, Pool} \cap Guarded = {}
    BY PartiesAssumption
  <2>4. Order[k].earner = None
    BY <1>3, PartiesAssumption DEF ReceiveChecked
  <2>5. None \notin Guarded
    BY RoleAccounts, NotNone
  <2> QED
    BY <2>1, <2>2, <2>3, <2>4, <2>5, RoleAccounts
<1> QED
  BY <1>1, <1>2, <1>3

-----------------------------------------------------------------------------
(* The caps                                                                *)

\* What counts against a cap, or will once it is settled.
Live == Completed \cup Passed \cup Reserved

Begun(w, kind) == {j \in Live \cap OrdersOf(kind) : kind # "fund" /\ Order[j].payer = w}
Outgoing(w) == {j \in Live : HasDebit(j, w)}
Incoming(w) == {j \in Live : HasCredit(j, w) /\ ReceiveChecked(Order[j])}

Below(keys, cap) == Under(Cardinality(keys), Value(keys), cap)

\* The caps hold of all that is under way as well: the next one to pass finds
\* nothing under way on a wallet that stays uncrowded.
CapsKept(w) ==
    /\ \A kind \in Kinds : Below(Begun(w, kind), ServiceCap[kind])
    /\ Below(Outgoing(w), SendCap) /\ Below(Incoming(w), ReceiveCap)

CapsInv == \A w \in Guarded \ crowded : CapsKept(w)

LEMMA ValueFacts ==
    ASSUME NEW B \in SUBSET Keys
    PROVE  /\ IsFiniteSet(B) /\ Cardinality(B) \in Nat /\ Value(B) \in Nat
           /\ \A A \in SUBSET B : /\ Cardinality(A) \in Nat /\ Cardinality(A) <= Cardinality(B)
                                  /\ Value(A) \in Nat /\ Value(A) <= Value(B)
<1> DEFINE f == [k \in Keys |-> Order[k].amount]
<1>1. IsFiniteSet(B)
  BY DataAssumption, FS_Subset
<1>2. \A x \in Keys : f[x] \in Nat
  BY PaymentsAssumption
<1>3. \A A \in SUBSET Keys : Value(A) = SumFunctionOnSet(f, A)
  BY DEF Value
<1> HIDE DEF f
<1>4. Value(B) \in Nat /\ \A A \in SUBSET B : SumFunctionOnSet(f, A) <= Value(B)
  BY <1>1, <1>2, <1>3, SumOfPart
<1>5. ASSUME NEW A \in SUBSET B
      PROVE  IsFiniteSet(A) /\ Cardinality(A) <= Cardinality(B) /\ Value(A) \in Nat /\ Value(A) <= Value(B)
  <2>1. IsFiniteSet(A) /\ Cardinality(A) <= Cardinality(B)
    BY <1>1, FS_Subset
  <2>2. A \in SUBSET Keys /\ \A x \in A : f[x] \in Nat
    BY <1>2
  <2>3. SumFunctionOnSet(f, A) \in Nat
    BY <2>1, <2>2, SumOfPart
  <2> QED
    BY <1>3, <1>4, <2>1, <2>2, <2>3
<1> QED
  BY <1>1, <1>4, <1>5, FS_CardinalityType

\* One more order.
LEMMA ValueAdded ==
    ASSUME NEW A \in SUBSET Keys, NEW k \in Keys
    PROVE  /\ Cardinality(A \cup {k}) <= Cardinality(A) + 1
           /\ Value(A \cup {k}) <= Value(A) + Order[k].amount
<1> DEFINE f == [j \in Keys |-> Order[j].amount]
           B == A \cup {k}
<1>1. \A x \in Keys : f[x] \in Nat
  BY PaymentsAssumption
<1>2. \A s \in SUBSET Keys : Value(s) = SumFunctionOnSet(f, s)
  BY DEF Value
<1>3. f[k] = Order[k].amount /\ B \in SUBSET Keys /\ k \in B /\ (k \notin A => B \ {k} = A) /\ (k \in A => B = A)
  OBVIOUS
<1>4. Order[k].amount \in Nat
  BY PaymentsAssumption
<1> HIDE DEF f, B
<1>5. Value(B) = f[k] + Value(B \ {k})
  <2>1. IsFiniteSet(Keys)
    BY DataAssumption
  <2>2. SumFunctionOnSet(f, B) = f[k] + SumFunctionOnSet(f, B \ {k})
    BY <1>1, <1>3, <2>1, SumWithout
  <2>3. B \ {k} \in SUBSET Keys
    BY <1>3
  <2> QED
    BY <1>2, <1>3, <2>2, <2>3
<1>6. IsFiniteSet(A) /\ Cardinality(A) \in Nat /\ Value(A) \in Nat
  BY ValueFacts
<1>7. CASE k \in A
  <2>1. B = A
    BY <1>3, <1>7
  <2>2. Cardinality(B) <= Cardinality(A) + 1 /\ Value(B) <= Value(A) + Order[k].amount
    BY <1>4, <1>6, <2>1
  <2> QED
    BY <2>2 DEF B
<1>8. CASE k \notin A
  <2>1. Value(B) = Order[k].amount + Value(A)
    BY <1>3, <1>5, <1>8
  <2>2. Cardinality(A \cup {k}) = Cardinality(A) + 1
    BY <1>6, <1>8, FS_AddElement
  <2>3. Value(B) <= Value(A) + Order[k].amount
    BY <1>4, <1>6, <2>1
  <2> QED
    BY <1>6, <2>2, <2>3 DEF B
<1> QED
  BY <1>7, <1>8

LEMMA BelowParts ==
    ASSUME NEW B \in SUBSET Keys, NEW A \in SUBSET B, NEW cap \in Caps, Below(B, cap)
    PROVE  Below(A, cap)
<1>1. /\ Cardinality(A) \in Nat /\ Cardinality(B) \in Nat /\ Cardinality(A) <= Cardinality(B)
      /\ Value(A) \in Nat /\ Value(B) \in Nat /\ Value(A) <= Value(B)
  BY ValueFacts
<1>2. cap.count \in Nat \cup {None} /\ cap.value \in Nat \cup {None}
  BY DEF Caps
<1> QED
  BY <1>1, <1>2 DEF Below, Under

\* Whatever fits may be added.
LEMMA FitsBelow ==
    ASSUME NEW A \in SUBSET Keys, NEW k \in Keys, NEW cap \in Caps, Fits(cap, A, Order[k].amount)
    PROVE  Below(A \cup {k}, cap)
<1> DEFINE B == A \cup {k}
<1>1. Cardinality(B) <= Cardinality(A) + 1 /\ Value(B) <= Value(A) + Order[k].amount
  BY ValueAdded
<1>2. B \in SUBSET Keys
  OBVIOUS
<1> HIDE DEF B
<1>3. /\ Cardinality(A) \in Nat /\ Value(A) \in Nat /\ Order[k].amount \in Nat
      /\ Cardinality(B) \in Nat /\ Value(B) \in Nat
  BY <1>2, ValueFacts, PaymentsAssumption
<1>4. cap.count \in Nat \cup {None} /\ cap.value \in Nat \cup {None}
  BY DEF Caps
<1>5. Below(B, cap)
  BY <1>1, <1>3, <1>4 DEF Below, Under, Fits
<1> QED
  BY <1>5 DEF B

LEMMA LiveKeys == IInv => Live \subseteq Keys
<1> SUFFICES ASSUME IInv
             PROVE  Live \subseteq Keys
  OBVIOUS
<1>1. ASSUME NEW s \in Sessions, pc[s] \in {"funds", "post", "row"}
      PROVE  job[s] \in Keys
  BY <1>1 DEF IInv, Knows
<1> QED
  BY <1>1 DEF Live, Completed, Passed, Reserved

\* A step that adds no movement and forgets no crowding keeps the caps.
LEMMA NothingBegun ==
    ASSUME IInv, CapsInv, Live' \subseteq Live, crowded \subseteq crowded'
    PROVE  CapsInv'
<1>1. Live \subseteq Keys
  BY LiveKeys
<1>2. ASSUME NEW w \in Guarded \ crowded'
      PROVE  CapsKept(w)'
  <2>1. CapsKept(w)
    BY <1>2 DEF CapsInv
  <2>2. \A kind \in Kinds :
            Begun(w, kind)' \subseteq Begun(w, kind) /\ Begun(w, kind) \subseteq Keys
    BY <1>1 DEF Begun
  <2>3. /\ Outgoing(w)' \subseteq Outgoing(w) /\ Outgoing(w) \subseteq Keys
        /\ Incoming(w)' \subseteq Incoming(w) /\ Incoming(w) \subseteq Keys
    BY <1>1 DEF Outgoing, Incoming, HasDebit, HasCredit, ReceiveChecked
  <2>4. SendCap \in Caps /\ ReceiveCap \in Caps /\ \A kind \in Kinds : ServiceCap[kind] \in Caps
    BY TariffAssumption
  <2>5. ASSUME NEW kind \in Kinds
        PROVE  Below(Begun(w, kind)', ServiceCap[kind])
    <3>1. Below(Begun(w, kind), ServiceCap[kind])
      BY <2>1 DEF CapsKept
    <3> QED
      BY <2>2, <2>4, <3>1, BelowParts
  <2>6. Below(Outgoing(w)', SendCap) /\ Below(Incoming(w)', ReceiveCap)
    <3>1. Below(Outgoing(w), SendCap) /\ Below(Incoming(w), ReceiveCap)
      BY <2>1 DEF CapsKept
    <3> QED
      BY <2>3, <2>4, <3>1, BelowParts
  <2> QED
    BY <2>5, <2>6 DEF CapsKept, Below, Value
<1> QED
  BY <1>2 DEF CapsInv

LEMMA CapsStart == ASSUME Init PROVE CapsInv
<1>1. Live = {}
  BY DEF Init, AbsInit, Live, Completed, Passed, Reserved
<1>2. ASSUME NEW w \in Guarded, NEW keys, keys \subseteq Live, NEW cap \in Caps
      PROVE  Below(keys, cap)
  <2>1. keys = {}
    BY <1>1, <1>2
  <2>2. Cardinality({}) = 0 /\ Value({}) = 0
    BY FS_EmptySet, SumEmpty DEF Value
  <2>3. cap.count \in Nat \cup {None} /\ cap.value \in Nat \cup {None}
    BY DEF Caps
  <2> QED
    BY <2>1, <2>2, <2>3 DEF Below, Under
<1>3. ASSUME NEW w \in Guarded
      PROVE  CapsKept(w)
  <2>1. SendCap \in Caps /\ ReceiveCap \in Caps /\ \A kind \in Kinds : ServiceCap[kind] \in Caps
    BY TariffAssumption
  <2>2. \A kind \in Kinds : Begun(w, kind) \subseteq Live
    BY DEF Begun
  <2>3. Outgoing(w) \subseteq Live /\ Incoming(w) \subseteq Live
    BY DEF Outgoing, Incoming
  <2> QED
    BY <1>2, <2>1, <2>2, <2>3 DEF CapsKept
<1> QED
  BY <1>3 DEF CapsInv

\* A session that passes the limits meets nothing under way on a wallet of its
\* order, or crowds it.
LEMMA PassingKeeps ==
    ASSUME IInv, CapsInv, NEW s \in Sessions, CheckLimits(s)
    PROVE  CapsInv'
<1> DEFINE k == job[s]
           open == (Passed \cup Reserved) \ {k}
<1>1. /\ k \in Keys /\ LimitsAllow(k) /\ UNCHANGED <<txn, job>>
      /\ pc[s] = "limits" /\ pc' = [pc EXCEPT ![s] = "funds"]
      /\ crowded' = crowded \cup
             {w \in {Order[k].payer, Order[k].payee} : \E j \in open : HasDebit(j, w) \/ HasCredit(j, w)}
  BY DEF CheckLimits, Goto, IInv, Knows
<1>2. Live' \subseteq Live \cup {k} /\ Live \subseteq Keys
  <2>1. Completed' = Completed /\ Reserved' = Reserved
    BY <1>1 DEF Completed, Reserved
  <2>2. Passed' \subseteq Passed \cup {k}
    BY <1>1 DEF Passed
  <2> QED
    BY <2>1, <2>2, LiveKeys DEF Live
<1>3. /\ Completed \subseteq Live
      /\ \A j \in Live \ Completed : j = k \/ j \in open
  BY DEF Live
<1>4. /\ SendCap \in Caps /\ ReceiveCap \in Caps /\ \A kind \in Kinds : ServiceCap[kind] \in Caps
      /\ Order[k].kind \in Kinds
  BY <1>1, TariffAssumption, PaymentsAssumption
<1> HIDE DEF k, open
<1>5. /\ Fits(ServiceCap[Order[k].kind], Initiated(Subject(Order[k]), Order[k].kind), Order[k].amount)
      /\ Order[k].kind # "fund" => Fits(SendCap, Sent(Order[k].payer), Order[k].amount)
      /\ ReceiveChecked(Order[k]) => Fits(ReceiveCap, Received(Order[k].payee), Order[k].amount)
  BY <1>1 DEF LimitsAllow
<1>6. ASSUME NEW w \in Guarded \ crowded'
      PROVE  CapsKept(w)'
  <2>1. CapsKept(w) /\ w \notin crowded
    BY <1>1, <1>6 DEF CapsInv
  <2>2. ASSUME w \in {Order[k].payer, Order[k].payee}, NEW j \in Live, HasDebit(j, w) \/ HasCredit(j, w)
        PROVE  j = k \/ j \in Completed
    BY <1>1, <1>3, <1>6, <2>2
  <2>3. ASSUME NEW kind \in Kinds
        PROVE  Below(Begun(w, kind)', ServiceCap[kind])
    <3>1. Begun(w, kind)' \subseteq Begun(w, kind) \cup {k} /\ Begun(w, kind) \in SUBSET Keys
      BY <1>2 DEF Begun
    <3>2. CASE k \in Begun(w, kind)'
      <4>1. kind = Order[k].kind /\ kind # "fund" /\ Order[k].payer = w
        BY <3>2 DEF Begun, OrdersOf
      <4>2. Begun(w, kind) \subseteq Initiated(w, kind) \cup {k}
        <5>1. ASSUME NEW j \in Begun(w, kind)
              PROVE  j = k \/ j \in Completed
          <6>1. HasDebit(j, w) /\ j \in Live
            BY <1>2, WalletLegs DEF Begun
          <6> QED
            BY <2>2, <4>1, <6>1
        <5> QED
          BY <5>1 DEF Begun, Initiated
      <4>3. Fits(ServiceCap[kind], Initiated(w, kind), Order[k].amount)
        BY <1>5, <4>1 DEF Subject
      <4>4. Initiated(w, kind) \in SUBSET Keys
        BY <1>2, <1>3 DEF Initiated
      <4>5. Below(Initiated(w, kind) \cup {k}, ServiceCap[kind])
        BY <1>1, <1>4, <4>3, <4>4, FitsBelow
      <4>6. Begun(w, kind)' \subseteq Initiated(w, kind) \cup {k} /\ Initiated(w, kind) \cup {k} \in SUBSET Keys
        BY <1>1, <3>1, <4>2, <4>4
      <4> QED
        BY <1>4, <4>5, <4>6, BelowParts
    <3>3. CASE k \notin Begun(w, kind)'
      <4>1. Begun(w, kind)' \in SUBSET Begun(w, kind) /\ Below(Begun(w, kind), ServiceCap[kind])
        BY <2>1, <3>1, <3>3 DEF CapsKept
      <4> QED
        BY <1>4, <3>1, <4>1, BelowParts
    <3> QED
      BY <3>2, <3>3
  <2>4. Below(Outgoing(w)', SendCap)
    <3>1. Outgoing(w)' \subseteq Outgoing(w) \cup {k} /\ Outgoing(w) \in SUBSET Keys
      BY <1>2 DEF Outgoing, HasDebit
    <3>2. CASE k \in Outgoing(w)'
      <4>1. w = Order[k].payer /\ Order[k].kind # "fund"
        <5>1. HasDebit(k, w)
          BY <3>2 DEF Outgoing, HasDebit
        <5>2. w = Order[k].payer
          BY <1>1, <5>1, WalletLegs
        <5> QED
          BY <1>1, <5>2, PartiesAssumption DEF OrdersOf
      <4>2. Outgoing(w) \subseteq Sent(w) \cup {k}
        BY <2>2, <4>1 DEF Outgoing, Sent
      <4>3. Fits(SendCap, Sent(w), Order[k].amount) /\ Sent(w) \in SUBSET Keys
        BY <1>2, <1>3, <1>5, <4>1 DEF Sent
      <4>4. Below(Sent(w) \cup {k}, SendCap)
        BY <1>1, <1>4, <4>3, FitsBelow
      <4>5. Outgoing(w)' \subseteq Sent(w) \cup {k} /\ Sent(w) \cup {k} \in SUBSET Keys
        BY <1>1, <3>1, <4>2, <4>3
      <4> QED
        BY <1>4, <4>4, <4>5, BelowParts
    <3>3. CASE k \notin Outgoing(w)'
      <4>1. Outgoing(w)' \in SUBSET Outgoing(w) /\ Below(Outgoing(w), SendCap)
        BY <2>1, <3>1, <3>3 DEF CapsKept
      <4> QED
        BY <1>4, <3>1, <4>1, BelowParts
    <3> QED
      BY <3>2, <3>3
  <2>5. Below(Incoming(w)', ReceiveCap)
    <3>1. Incoming(w)' \subseteq Incoming(w) \cup {k} /\ Incoming(w) \in SUBSET Keys
      BY <1>2 DEF Incoming, HasCredit, ReceiveChecked
    <3>2. CASE k \in Incoming(w)'
      <4>1. w = Order[k].payee /\ ReceiveChecked(Order[k])
        <5>1. HasCredit(k, w) /\ ReceiveChecked(Order[k])
          BY <3>2 DEF Incoming, HasCredit, ReceiveChecked
        <5> QED
          BY <1>1, <5>1, WalletLegs
      <4>2. Incoming(w) \subseteq Received(w) \cup {k}
        BY <2>2, <4>1 DEF Incoming, Received
      <4>3. Fits(ReceiveCap, Received(w), Order[k].amount) /\ Received(w) \in SUBSET Keys
        BY <1>2, <1>3, <1>5, <4>1 DEF Received
      <4>4. Below(Received(w) \cup {k}, ReceiveCap)
        BY <1>1, <1>4, <4>3, FitsBelow
      <4>5. Incoming(w)' \subseteq Received(w) \cup {k} /\ Received(w) \cup {k} \in SUBSET Keys
        BY <1>1, <3>1, <4>2, <4>3
      <4> QED
        BY <1>4, <4>4, <4>5, BelowParts
    <3>3. CASE k \notin Incoming(w)'
      <4>1. Incoming(w)' \in SUBSET Incoming(w) /\ Below(Incoming(w), ReceiveCap)
        BY <2>1, <3>1, <3>3 DEF CapsKept
      <4> QED
        BY <1>4, <3>1, <4>1, BelowParts
    <3> QED
      BY <3>2, <3>3
  <2> QED
    BY <2>3, <2>4, <2>5 DEF CapsKept, Below, Value
<1> QED
  BY <1>6 DEF CapsInv

LEMMA CapsStep == IInv /\ CapsInv /\ [Next]_vars => CapsInv'
<1> SUFFICES ASSUME IInv, CapsInv, [Next]_vars
             PROVE  CapsInv'
  OBVIOUS
<1>1. ASSUME UNCHANGED <<txn, crowded>>, Passed' \subseteq Passed
      PROVE  CapsInv'
  <2>1. Live' \subseteq Live
    BY <1>1 DEF Live, Completed, Reserved
  <2> QED
    BY <1>1, <2>1, NothingBegun
<1>2. ASSUME NEW s \in Sessions, NEW label \in Labels, NEW k \in Keys \cup {None}, Acts(s, label, k),
             label \in {"funds", "post", "row"} => pc[s] \in {"funds", "post", "row"} /\ k = job[s]
      PROVE  Passed' \subseteq Passed
  <2>1. /\ pc'[s] = label /\ job'[s] = k
        /\ \A t \in Sessions \ {s} : pc'[t] = pc[t] /\ job'[t] = job[t]
    BY <1>2, OthersStay DEF IInv
  <2> QED
    BY <1>2, <2>1 DEF Passed
<1>3. job \in [Sessions -> Keys \cup {None}]
  BY DEF IInv, TypeOK
<1>4. \A s \in Sessions : UNCHANGED job => job' = [job EXCEPT ![s] = job[s]]
  BY <1>3
<1>5. ASSUME NEW s \in Sessions, NEW k \in Keys, Begin(s, k)
      PROVE  CapsInv'
  <2>0. Acts(s, IF recharge[k] = None THEN "limits" ELSE "vend", k)
    BY <1>5 DEF Begin, Goto, Acts
  <2>1. Passed' \subseteq Passed
    BY <1>2, <2>0 DEF Labels
  <2> QED
    BY <1>1, <1>5, <2>1 DEF Begin
<1>6. ASSUME NEW s \in Sessions, RefuseLimits(s) \/ RefusePost(s)
      PROVE  CapsInv'
  <2>0. Acts(s, "idle", None)
    BY <1>6 DEF RefuseLimits, RefusePost, End, Goto, Acts
  <2>1. Passed' \subseteq Passed
    BY <1>2, <2>0 DEF Labels
  <2> QED
    BY <1>1, <1>6, <2>1 DEF RefuseLimits, RefusePost
<1>7. ASSUME NEW s \in Sessions, CheckFunds(s)
      PROVE  CapsInv'
  <2>0. pc[s] = "funds" /\ (Acts(s, "post", job[s]) \/ Acts(s, "idle", None))
    BY <1>4, <1>7 DEF CheckFunds, End, Goto, Acts
  <2>1. Passed' \subseteq Passed
    BY <1>2, <1>3, <2>0 DEF Labels
  <2> QED
    BY <1>1, <1>7, <2>1 DEF CheckFunds
<1>8. ASSUME NEW s \in Sessions, Replay(s) \/ WriteRow(s)
      PROVE  CapsInv'
  <2>0. /\ pc[s] \in {"post", "row"}
        /\ Acts(s, "row", job[s]) \/ Acts(s, "vend", job[s]) \/ Acts(s, "idle", None)
    BY <1>4, <1>8 DEF Replay, WriteRow, End, Goto, Acts
  <2>1. Passed' \subseteq Passed
    BY <1>2, <1>3, <2>0 DEF Labels
  <2> QED
    BY <1>1, <1>8, <2>1 DEF Replay, WriteRow
<1>9. ASSUME NEW s \in Sessions, CallProvider(s)
      PROVE  CapsInv'
  <2>0. Acts(s, "completed", job[s]) \/ Acts(s, "reversed", job[s]) \/ Acts(s, "idle", None)
    BY <1>4, <1>9 DEF CallProvider, End, Goto, Acts
  <2>1. Passed' \subseteq Passed
    BY <1>2, <1>3, <2>0 DEF Labels
  <2> QED
    BY <1>1, <1>9, <2>1 DEF CallProvider
<1>10. ASSUME NEW s \in Sessions, Crash(s)
       PROVE  CapsInv'
  <2>0. Acts(s, "idle", None)
    BY <1>10 DEF Crash, End, Goto, Acts
  <2>1. Passed' \subseteq Passed
    BY <1>2, <2>0 DEF Labels
  <2> QED
    BY <1>1, <1>10, <2>1 DEF Crash
<1>11. ASSUME NEW s \in Sessions, Post(s)
       PROVE  CapsInv'
  <2> DEFINE k == job[s]
  <2>1. pc[s] = "post" /\ AbsPost(Posting(k)) /\ UNCHANGED crowded
    BY <1>11 DEF Post
  <2>2. k \in Keys
    BY <2>1 DEF IInv, Knows
  <2>0. Acts(s, "row", job[s]) \/ Acts(s, "idle", None)
    BY <1>4, <1>11 DEF Post, End, Goto, Acts
  <2>3. Passed' \subseteq Passed /\ k \in Passed
    BY <1>2, <1>3, <2>0, <2>1 DEF Labels, Passed
  <2>4. \A j \in Keys \ {k} : txn'[j] = txn[j]
    <3>1. txn' = [txn EXCEPT ![k] = [req |-> Posting(k), status |-> Posting(k).status]]
      BY <2>1, <2>2, PostMoves DEF IInv, TypeOK
    <3> QED
      BY <3>1 DEF IInv, Rows
  <2> HIDE DEF k
  <2>5. Live' \subseteq Live
    BY <2>3, <2>4 DEF Live, Completed, Reserved
  <2> QED
    BY <2>1, <2>5, NothingBegun
<1>12. ASSUME NEW k \in Keys, NEW to \in {"COMPLETED", "REVERSED"}, AbsSettle(k, to), UNCHANGED crowded,
              Passed' \subseteq Passed
       PROVE  CapsInv'
  <2>1. \A j \in Keys \ {k} : txn'[j] = txn[j]
    BY <1>12 DEF AbsSettle, IInv, Rows
  <2>2. k \in Reserved
    BY <1>12 DEF AbsSettle, Reserved
  <2>3. Live' \subseteq Live
    BY <1>12, <2>1, <2>2 DEF Live, Completed, Reserved
  <2> QED
    BY <1>12, <2>3, NothingBegun
<1>13. ASSUME NEW s \in Sessions, Finalize(s)
       PROVE  CapsInv'
  <2>0. Acts(s, "idle", None)
    BY <1>13 DEF Finalize, End, Goto, Acts
  <2>1. Passed' \subseteq Passed
    BY <1>2, <2>0 DEF Labels
  <2>2. job[s] \in Keys /\ UNCHANGED crowded
    BY <1>13 DEF Finalize, IInv, Knows
  <2>3. \/ UNCHANGED txn
        \/ AbsSettle(job[s], "COMPLETED") \/ AbsSettle(job[s], "REVERSED")
    BY <1>13 DEF Finalize, Settled
  <2> QED
    BY <1>1, <1>12, <2>1, <2>2, <2>3
<1>14. ASSUME NEW k \in Keys, Callback(k) \/ Resolve(k)
       PROVE  CapsInv'
  <2>1. UNCHANGED <<pc, job, crowded>> /\ verdicts[k] \subseteq {"COMPLETED", "REVERSED"}
    BY <1>14 DEF Callback, Resolve, IInv, TypeOK
  <2>2. \E to \in {"COMPLETED", "REVERSED"} : AbsSettle(k, to)
    BY <1>14, <2>1 DEF Callback, Resolve, Settled
  <2> QED
    BY <1>12, <2>1, <2>2 DEF Passed
<1>15. ASSUME NEW k \in Keys, ProviderEnds(k)
       PROVE  CapsInv'
  BY <1>1, <1>15 DEF ProviderEnds, Passed
<1>16. CASE UNCHANGED vars
  BY <1>1, <1>16 DEF vars, Passed
<1> QED
  BY <1>5, <1>6, <1>7, <1>8, <1>9, <1>10, <1>11, <1>13, <1>14, <1>15, <1>16, PassingKeeps DEF Next

LEMMA CapsSuffice == IInv /\ CapsInv => LimitsHeld
<1> SUFFICES ASSUME IInv, CapsInv, NEW w \in Guarded \ crowded
             PROVE  /\ \A kind \in Kinds : Below(Initiated(w, kind), ServiceCap[kind])
                    /\ Below(Sent(w), SendCap)
                    /\ (\A j \in Received(w) : Order[j].kind \in {"p2p", "fund"}) =>
                           Below(Received(w), ReceiveCap)
  BY DEF LimitsHeld, Below, Overdrawn, Consumption
<1>1. /\ \A kind \in Kinds : Below(Begun(w, kind), ServiceCap[kind])
      /\ Below(Outgoing(w), SendCap) /\ Below(Incoming(w), ReceiveCap)
  BY DEF CapsInv, CapsKept
<1>2. SendCap \in Caps /\ ReceiveCap \in Caps /\ \A kind \in Kinds : ServiceCap[kind] \in Caps
  BY TariffAssumption
<1>3. Live \subseteq Keys /\ Completed \subseteq Live
  BY LiveKeys DEF Live
<1>4. \A kind \in Kinds : Initiated(w, kind) \subseteq Begun(w, kind) /\ Begun(w, kind) \subseteq Keys
  BY <1>3 DEF Initiated, Begun
<1>5. /\ Sent(w) \subseteq Outgoing(w) /\ Outgoing(w) \subseteq Keys /\ Incoming(w) \subseteq Keys
      /\ (\A j \in Received(w) : Order[j].kind \in {"p2p", "fund"}) => Received(w) \subseteq Incoming(w)
  BY <1>3 DEF Sent, Outgoing, Received, Incoming, ReceiveChecked
<1> QED
  BY <1>1, <1>2, <1>4, <1>5, BelowParts

-----------------------------------------------------------------------------
(* The books                                                               *)

\* What the transaction of k adds to the sum of a status.
Entry(k, status, a) ==
    IF txn[k] # None /\ txn[k].status = status THEN txn[k].req.delta[a] ELSE 0

Booked(status, a) == SumFunctionOnSet([k \in Keys |-> Entry(k, status, a)], Keys)

\* The balance is what the completed transactions moved, the hold what the
\* pending ones did.
BooksInv ==
    \A a \in Accounts :
        /\ book[a].bal = Opening[a] + Booked("COMPLETED", a)
        /\ book[a].res = -Booked("PENDING", a)

LEMMA EntryTyped ==
    ASSUME IInv, NEW a \in Accounts, NEW status
    PROVE  /\ \A k \in Keys : Entry(k, status, a) \in Int
           /\ Booked(status, a) \in Int
<1>1. ASSUME NEW k \in Keys
      PROVE  Entry(k, status, a) \in Int
  <2>1. txn[k] # None => txn[k].req = Posting(k)
    BY DEF IInv, Mirrors
  <2>2. Posting(k).delta[a] \in Int
    BY PostingFields
  <2> QED
    BY <2>1, <2>2 DEF Entry
<1>2. IsFiniteSet(Keys)
  BY DataAssumption
<1> QED
  BY <1>1, <1>2, SumIsInt DEF Booked

\* A step on one key changes the sums by what it changes of that key's entries.
LEMMA BookedChanges ==
    ASSUME IInv, IInv', NEW k \in Keys, \A j \in Keys \ {k} : txn'[j] = txn[j],
           NEW a \in Accounts, NEW status
    PROVE  /\ Booked(status, a)' = Booked(status, a) + (Entry(k, status, a)' - Entry(k, status, a))
           /\ Booked(status, a) \in Int /\ Entry(k, status, a) \in Int /\ Entry(k, status, a)' \in Int
<1> DEFINE f == [j \in Keys |-> Entry(j, status, a)]
           g == [j \in Keys |-> Entry(j, status, a)']
<1>1. \A j \in Keys : f[j] \in Int
  BY EntryTyped
<1>2. \A j \in Keys : g[j] \in Int
  <2>1. ASSUME NEW j \in Keys
        PROVE  Entry(j, status, a)' \in Int
    <3>1. txn'[j] # None => txn'[j].req = Posting(j)
      BY DEF IInv, Mirrors, Posting
    <3>2. Posting(j).delta[a] \in Int
      BY PostingFields
    <3> QED
      BY <3>1, <3>2 DEF Entry
  <2> QED
    BY <2>1
<1>3. \A j \in Keys \ {k} : g[j] = f[j]
  BY DEF Entry
<1>4. Booked(status, a) = SumFunctionOnSet(f, Keys) /\ Booked(status, a)' = SumFunctionOnSet(g, Keys)
  BY DEF Booked
<1>5. f[k] = Entry(k, status, a) /\ g[k] = Entry(k, status, a)'
  OBVIOUS
<1>6. IsFiniteSet(Keys)
  BY DataAssumption
<1> HIDE DEF f, g
<1>7. SumFunctionOnSet(g, Keys) = SumFunctionOnSet(f, Keys) + (g[k] - f[k])
  BY <1>1, <1>2, <1>3, <1>6, SumChanges
<1> QED
  BY <1>1, <1>2, <1>4, <1>5, <1>7, EntryTyped

LEMMA BooksStart == ASSUME Init PROVE BooksInv
<1>1. \A k \in Keys : txn[k] = None
  BY DEF Init, AbsInit
<1>2. ASSUME NEW a \in Accounts, NEW status
      PROVE  Booked(status, a) = 0
  <2>1. \A k \in Keys : [j \in Keys |-> Entry(j, status, a)][k] = 0
    BY <1>1 DEF Entry
  <2> QED
    BY <2>1, DataAssumption, SumOfZeros DEF Booked
<1>3. ASSUME NEW a \in Accounts
      PROVE  book[a].bal = Opening[a] /\ book[a].res = 0 /\ Opening[a] \in Int
  BY DataAssumption DEF Init, AbsInit
<1> QED
  BY <1>2, <1>3 DEF BooksInv

LEMMA BooksStep == IInv /\ IInv' /\ BooksInv /\ [Next]_vars => BooksInv'
<1> SUFFICES ASSUME IInv, IInv', BooksInv, [Next]_vars
             PROVE  BooksInv'
  OBVIOUS
<1>1. [AbsNext]_absVars
  BY StepMoves
<1>2. CASE UNCHANGED absVars
  BY <1>2 DEF absVars, BooksInv, Booked, Entry
<1>3. ASSUME NEW r \in Requests, AbsPost(r)
      PROVE  BooksInv'
  <2> DEFINE k == r.key
  <2>1. /\ k \in Keys /\ r.status \in {"PENDING", "COMPLETED"} /\ r.delta \in [Accounts -> Int]
    BY DataAssumption DEF Request
  <2>2. /\ txn[k] = None /\ txn' = [txn EXCEPT ![k] = [req |-> r, status |-> r.status]]
        /\ book' = [a \in Accounts |-> Plus(book[a], EntryDelta(r, a))]
    BY <1>3 DEF AbsPost, Move
  <2>3. \A j \in Keys \ {k} : txn'[j] = txn[j]
    BY <2>2 DEF IInv, Rows
  <2>4. txn'[k] = [req |-> r, status |-> r.status] /\ [req |-> r, status |-> r.status] \in TxnRow
    BY <2>1, <2>2 DEF IInv, Rows, TxnRow, Statuses
  <2>5. txn'[k] # None
    BY <2>4, NotNone
  <2> HIDE DEF k
  <2>6. ASSUME NEW a \in Accounts
        PROVE  /\ book'[a].bal = Opening[a] + Booked("COMPLETED", a)'
               /\ book'[a].res = -Booked("PENDING", a)'
    <3>1. /\ Booked("COMPLETED", a)' =
                 Booked("COMPLETED", a) + (Entry(k, "COMPLETED", a)' - Entry(k, "COMPLETED", a))
          /\ Booked("PENDING", a)' =
                 Booked("PENDING", a) + (Entry(k, "PENDING", a)' - Entry(k, "PENDING", a))
          /\ Booked("COMPLETED", a) \in Int /\ Booked("PENDING", a) \in Int
      BY <2>1, <2>3, BookedChanges
    <3>2. /\ Entry(k, "COMPLETED", a) = 0 /\ Entry(k, "PENDING", a) = 0
          /\ Entry(k, "COMPLETED", a)' = IF r.status = "COMPLETED" THEN r.delta[a] ELSE 0
          /\ Entry(k, "PENDING", a)' = IF r.status = "PENDING" THEN r.delta[a] ELSE 0
      BY <2>2, <2>4, <2>5 DEF Entry
    <3>3. /\ book'[a].bal = book[a].bal + (IF r.status = "COMPLETED" THEN r.delta[a] ELSE 0)
          /\ book'[a].res = book[a].res + (IF r.status = "PENDING" THEN -r.delta[a] ELSE 0)
      BY <2>2 DEF Plus, EntryDelta
    <3>4. /\ book[a].bal = Opening[a] + Booked("COMPLETED", a) /\ book[a].res = -Booked("PENDING", a)
          /\ Opening[a] \in Int /\ r.delta[a] \in Int
      BY <2>1, DataAssumption DEF BooksInv
    <3> QED
      BY <2>1, <3>1, <3>2, <3>3, <3>4
  <2> QED
    BY <2>6 DEF BooksInv
<1>4. ASSUME NEW k \in Keys, NEW to \in {"COMPLETED", "REVERSED"}, AbsSettle(k, to)
      PROVE  BooksInv'
  <2> DEFINE r == txn[k].req
  <2>1. /\ txn[k] # None /\ txn[k].status = "PENDING" /\ txn' = [txn EXCEPT ![k].status = to]
        /\ book' = [a \in Accounts |-> Plus(book[a], FlipDelta(r, to, a))]
    BY <1>4 DEF AbsSettle, Move
  <2>2. \A j \in Keys \ {k} : txn'[j] = txn[j]
    BY <2>1 DEF IInv, Rows
  <2>3. txn'[k] = [txn[k] EXCEPT !.status = to] /\ txn[k] \in TxnRow
    BY <2>1 DEF IInv, Rows
  <2>4. txn'[k].status = to /\ txn'[k].req = r /\ txn'[k] \in TxnRow
    BY <2>3 DEF TxnRow, Statuses
  <2>5. txn'[k] # None
    BY <2>4, NotNone
  <2>6. r = Posting(k)
    BY <2>1 DEF IInv, Mirrors
  <2>7. r.delta \in [Accounts -> Int]
    BY <2>6, PostingFields
  <2>8. r = txn[k].req
    OBVIOUS
  <2> HIDE DEF r
  <2>9. ASSUME NEW a \in Accounts
        PROVE  /\ book'[a].bal = Opening[a] + Booked("COMPLETED", a)'
               /\ book'[a].res = -Booked("PENDING", a)'
    <3>1. /\ Booked("COMPLETED", a)' =
                 Booked("COMPLETED", a) + (Entry(k, "COMPLETED", a)' - Entry(k, "COMPLETED", a))
          /\ Booked("PENDING", a)' =
                 Booked("PENDING", a) + (Entry(k, "PENDING", a)' - Entry(k, "PENDING", a))
          /\ Booked("COMPLETED", a) \in Int /\ Booked("PENDING", a) \in Int
      BY <2>2, BookedChanges
    <3>2. /\ Entry(k, "COMPLETED", a) = 0 /\ Entry(k, "PENDING", a) = r.delta[a]
          /\ Entry(k, "COMPLETED", a)' = IF to = "COMPLETED" THEN r.delta[a] ELSE 0
          /\ Entry(k, "PENDING", a)' = 0
      BY <2>1, <2>4, <2>5, <2>8 DEF Entry
    <3>3. /\ book'[a].bal = book[a].bal + (IF to = "COMPLETED" THEN r.delta[a] ELSE 0)
          /\ book'[a].res = book[a].res + r.delta[a]
      BY <2>1 DEF Plus, FlipDelta
    <3>4. /\ book[a].bal = Opening[a] + Booked("COMPLETED", a) /\ book[a].res = -Booked("PENDING", a)
          /\ Opening[a] \in Int /\ r.delta[a] \in Int
      BY <2>7, DataAssumption DEF BooksInv
    <3> QED
      BY <3>1, <3>2, <3>3, <3>4
  <2> QED
    BY <2>9 DEF BooksInv
<1> QED
  BY <1>1, <1>2, <1>3, <1>4 DEF AbsNext

-----------------------------------------------------------------------------
(* The rows of a statement                                                 *)

LegsOf(k, a) == [r \in P!Roles |-> IF Account(Order[k])[r] = a THEN Charged[k][r] ELSE 0]

\* What a posting moves on an account is the sum of the legs on it.
LEMMA DeltaOfLegs ==
    ASSUME NEW k \in Keys, NEW a \in Accounts
    PROVE  /\ Posting(k).delta[a] = SumFunctionOnSet(LegsOf(k, a), P!Roles)
           /\ IsFiniteSet(P!Roles) /\ \A r \in P!Roles : LegsOf(k, a)[r] \in Int
<1>1. Posting(k).delta[a] = SumFunction(LegsOf(k, a))
  BY DEF Posting, Postings, LegsOf
<1>2. DOMAIN LegsOf(k, a) = P!Roles
  BY DEF LegsOf
<1>3. IsFiniteSet(P!Roles)
  <2>1. IsFiniteSet({"payer"})
    BY FS_Singleton
  <2>2. IsFiniteSet({"payer"} \cup {"payee"})
    BY <2>1, FS_AddElement
  <2>3. IsFiniteSet({"payer", "payee"} \cup {"fee"})
    BY <2>2, FS_AddElement
  <2>4. IsFiniteSet({"payer", "payee", "fee"} \cup {"serviceTax"})
    BY <2>3, FS_AddElement
  <2>5. IsFiniteSet({"payer", "payee", "fee", "serviceTax"} \cup {"pool"})
    BY <2>4, FS_AddElement
  <2>6. IsFiniteSet({"payer", "payee", "fee", "serviceTax", "pool"} \cup {"earner"})
    BY <2>5, FS_AddElement
  <2>7. IsFiniteSet({"payer", "payee", "fee", "serviceTax", "pool", "earner"} \cup {"parent"})
    BY <2>6, FS_AddElement
  <2>8. IsFiniteSet({"payer", "payee", "fee", "serviceTax", "pool", "earner", "parent"} \cup {"commissionTax"})
    BY <2>7, FS_AddElement
  <2>9. P!Roles = {"payer", "payee", "fee", "serviceTax", "pool", "earner", "parent"} \cup {"commissionTax"}
    BY DEF P!Roles
  <2> QED
    BY <2>8, <2>9
<1>4. \A r \in P!Roles : Charged[k][r] \in Int
  BY ChargeFacts DEF P!Roles
<1> QED
  BY <1>1, <1>2, <1>3, <1>4 DEF LegsOf, SumFunction

\* What has no leg does not move.
LEMMA LeglessStays ==
    ASSUME NEW k \in Keys, NEW a \in Accounts, Posting(k).delta[a] # 0
    PROVE  HasDebit(k, a) \/ HasCredit(k, a)
<1> SUFFICES ASSUME ~HasDebit(k, a), ~HasCredit(k, a)
             PROVE  FALSE
  OBVIOUS
<1>1. \A r \in P!Roles : LegsOf(k, a)[r] = 0
  <2>1. ASSUME NEW r \in P!Roles, Account(Order[k])[r] = a
        PROVE  Charged[k][r] = 0
    <3>1. Charged[k][r] \in Int
      BY ChargeFacts DEF P!Roles
    <3> QED
      BY <2>1, <3>1 DEF HasDebit, HasCredit
  <2> QED
    BY <2>1 DEF LegsOf
<1> QED
  BY <1>1, DeltaOfLegs, SumOfZeros

\* A commission wallet's legs are its commission.
LEMMA CommissionLegs ==
    ASSUME NEW k \in Keys, NEW a \in CommissionWallets
    PROVE  Posting(k).delta[a] = IF a = Order[k].earner THEN Charged[k].earner ELSE 0
<1>1. a \in Accounts /\ a # None /\ Owner[a] # None
  BY StatementsAssumption, NotNone, RoleAccounts
<1>2. a \notin {FeeAccount, ServiceTax, CommissionTax, Pool, Order[k].payer, Order[k].payee}
  BY <1>1, StatementsAssumption, EarnersAssumption
<1>3. \A r \in P!Roles : LegsOf(k, a)[r] = IF r = "earner" /\ a = Order[k].earner THEN Charged[k].earner ELSE 0
  <2>1. \A r \in P!Roles : Account(Order[k])[r] = a => r = "earner" /\ a = Order[k].earner
    BY <1>1, <1>2, RoleAccounts DEF P!Roles
  <2>2. "earner" \in P!Roles
    BY DEF P!Roles
  <2> QED
    BY <2>1, <2>2, RoleAccounts DEF LegsOf
<1>4. "earner" \in P!Roles
  BY DEF P!Roles
<1>5. SumFunctionOnSet(LegsOf(k, a), P!Roles) = LegsOf(k, a)["earner"]
  BY <1>1, <1>3, <1>4, DeltaOfLegs, SumOfOne
<1> QED
  BY <1>1, <1>3, <1>4, <1>5, DeltaOfLegs

\* A wallet's completed or pending rows add up to what its transactions moved.
LEMMA RowsAddUp ==
    ASSUME IInv, NEW u \in Users, NEW wallets \in SUBSET Own(u), NEW a \in wallets, NEW status
    PROVE  SignedSum({row \in Statement(u, wallets) : row.wallet = a}, status) = Booked(status, a)
<1> DEFINE rows == {row \in Statement(u, wallets) : row.wallet = a}
           part == {row \in rows : row.status = status}
           K == {k \in Keys : txn[k] # None /\ txn[k].status = status /\ Net(k, a) # 0}
           g == [k \in K |-> Line(u, k, a, Moved(k, wallets))]
           f == [k \in K |-> Net(k, a)]
           h == [row \in rows |-> Signed(row)]
<1>1. a \in Accounts
  BY DEF Own
<1>2. \A k \in Posted : k \in Keys /\ Net(k, a) = Posting(k).delta[a] /\ Net(k, a) \in Int
  BY <1>1, PostingFields DEF Posted, Net, IInv, Mirrors
<1>3. \A k \in K : k \in Touching(wallets) /\ a \in Moved(k, wallets)
  <2>1. ASSUME NEW k \in K
        PROVE  HasDebit(k, a) \/ HasCredit(k, a)
    BY <1>1, <1>2, LeglessStays DEF Posted
  <2> QED
    BY <2>1 DEF Touching, Posted, Moved
<1>4. ASSUME NEW row
      PROVE  row \in part <=> \E k \in K : row = g[k]
  <2>1. ASSUME NEW k \in K
        PROVE  g[k] \in part
    <3>1. g[k] \in Statement(u, wallets)
      BY <1>3 DEF Statement
    <3>2. g[k].wallet = a /\ g[k].status = status
      BY DEF Line
    <3> QED
      BY <3>1, <3>2
  <2>2. ASSUME row \in part
        PROVE  \E k \in K : row = g[k]
    <3>1. PICK k \in Touching(wallets) : \E b \in Moved(k, wallets) : row = Line(u, k, b, Moved(k, wallets))
      BY <2>2 DEF Statement
    <3>2. row = Line(u, k, a, Moved(k, wallets)) /\ a \in Moved(k, wallets) /\ txn[k].status = status
      BY <2>2, <3>1 DEF Line
    <3>3. k \in K
      BY <3>1, <3>2 DEF Touching, Posted, Moved
    <3> QED
      BY <3>1, <3>2, <3>3
  <2> QED
    BY <2>1, <2>2
<1>5. part = {g[k] : k \in K}
  BY <1>4
<1>6. \A k \in K : g[k].txn = k
  BY DEF Line
<1>7. \A j, k \in K : g[j] = g[k] => j = k
  BY <1>6
<1>8. \A k \in K : f[k] \in Int /\ h[g[k]] = f[k]
  <2>1. ASSUME NEW k \in K
        PROVE  Net(k, a) \in Int /\ Signed(g[k]) = Net(k, a)
    <3>1. Net(k, a) \in Int
      BY <1>2 DEF Posted
    <3>2. /\ g[k].direction = IF Net(k, a) > 0 THEN "in" ELSE "out"
          /\ g[k].amount = IF Net(k, a) > 0 THEN Net(k, a) ELSE -Net(k, a)
      BY DEF Line
    <3> QED
      BY <3>1, <3>2 DEF Signed
  <2>2. \A k \in K : g[k] \in rows
    BY <1>4
  <2> QED
    BY <2>1, <2>2
<1>9. IsFiniteSet(Keys) /\ K \in SUBSET Keys /\ IsFiniteSet(K)
  BY DataAssumption, FS_Subset
<1>10. \A k \in Keys : [j \in Keys |-> Entry(j, status, a)][k] = IF k \in K THEN f[k] ELSE 0
  BY DEF Entry, Net
<1>11. SignedSum(rows, status) = SumFunctionOnSet(h, part)
  BY DEF SignedSum
<1> HIDE DEF rows, part, K, g, f, h
<1>12. SumFunctionOnSet(h, part) = SumFunctionOnSet(f, K)
  BY <1>5, <1>7, <1>8, <1>9, SumAlong
<1>13. Booked(status, a) = SumFunctionOnSet(f, K)
  BY <1>8, <1>9, <1>10, SumOverPart DEF Booked
<1>14. SignedSum(rows, status) = Booked(status, a)
  BY <1>11, <1>12, <1>13
<1> QED
  BY <1>14 DEF rows

LEMMA BalancesExplained == IInv /\ BooksInv => RowsExplainBalance
<1> SUFFICES ASSUME IInv, BooksInv, NEW u \in Users, NEW wallets \in Filters(u)
             PROVE  /\ Cardinality({row.txn : row \in Statement(u, wallets)}) <= Matching(wallets)
                    /\ \A a \in wallets :
                          LET rows == {row \in Statement(u, wallets) : row.wallet = a}
                          IN  /\ Opening[a] + SignedSum(rows, "COMPLETED") = Balances(u)[a].balance
                              /\ -SignedSum(rows, "PENDING") = Balances(u)[a].reserved
  BY DEF RowsExplainBalance
<1>1. wallets \in SUBSET Own(u)
  BY DEF Filters
<1>2. {row.txn : row \in Statement(u, wallets)} \subseteq Touching(wallets)
  BY DEF Statement, Line
<1>3. IsFiniteSet(Touching(wallets))
  BY DataAssumption, FS_Subset DEF Touching, Posted
<1>4. Cardinality({row.txn : row \in Statement(u, wallets)}) <= Matching(wallets)
  BY <1>2, <1>3, FS_Subset DEF Matching
<1>5. ASSUME NEW a \in wallets
      PROVE  LET rows == {row \in Statement(u, wallets) : row.wallet = a}
             IN  /\ Opening[a] + SignedSum(rows, "COMPLETED") = Balances(u)[a].balance
                 /\ -SignedSum(rows, "PENDING") = Balances(u)[a].reserved
  <2>1. a \in Accounts /\ Balances(u)[a].balance = book[a].bal /\ Balances(u)[a].reserved = book[a].res
    BY <1>1 DEF Own, Balances
  <2> QED
    BY <1>1, <2>1, RowsAddUp DEF BooksInv
<1> QED
  BY <1>4, <1>5

\* What is credited on balance has a credit.
LEMMA CreditedHasCredit ==
    ASSUME NEW k \in Keys, NEW a \in Accounts, Posting(k).delta[a] > 0
    PROVE  \E r \in P!Roles : Account(Order[k])[r] = a /\ Charged[k][r] > 0
<1> DEFINE zero == [r \in P!Roles |-> 0]
<1> SUFFICES ASSUME \A r \in P!Roles : Account(Order[k])[r] = a => ~(Charged[k][r] > 0)
             PROVE  FALSE
  OBVIOUS
<1>1. \A r \in P!Roles : LegsOf(k, a)[r] \in Int /\ zero[r] \in Int /\ LegsOf(k, a)[r] <= zero[r]
  <2>1. \A r \in P!Roles : Charged[k][r] \in Int
    BY ChargeFacts DEF P!Roles
  <2> QED
    BY <2>1 DEF LegsOf
<1>2. \A r \in P!Roles : zero[r] = 0
  OBVIOUS
<1>3. /\ IsFiniteSet(P!Roles) /\ Posting(k).delta[a] = SumFunctionOnSet(LegsOf(k, a), P!Roles)
      /\ Posting(k).delta[a] \in Int
  BY DeltaOfLegs, PostingFields
<1> HIDE DEF zero
<1>4. SumFunctionOnSet(LegsOf(k, a), P!Roles) <= SumFunctionOnSet(zero, P!Roles)
  BY <1>1, <1>3, SumsOrdered
<1>5. SumFunctionOnSet(zero, P!Roles) = 0
  BY <1>2, <1>3, SumOfZeros
<1> QED
  BY <1>3, <1>4, <1>5

\* The row of an account that a transaction moved, for its owner.
RowOf(k, a) == Line(Owner[a], k, a, Moved(k, Own(Owner[a])))

Touched(k) == {a \in Accounts : Owner[a] # None /\ Net(k, a) # 0}

LEMMA RowsByAccount ==
    ASSUME NEW k
    PROVE  RowsOf(k) = {RowOf(k, a) : a \in Touched(k)}
<1>1. ASSUME NEW a \in Touched(k)
      PROVE  RowOf(k, a) \in RowsOf(k)
  <2>1. Owner[a] \in Users /\ a \in Moved(k, Own(Owner[a]))
    BY DEF Touched, Users, Moved, Own
  <2> QED
    BY <2>1 DEF RowsOf, RowOf
<1>2. ASSUME NEW row \in RowsOf(k)
      PROVE  \E a \in Touched(k) : row = RowOf(k, a)
  <2>1. PICK u \in Users : \E a \in Moved(k, Own(u)) : row = Line(u, k, a, Moved(k, Own(u)))
    BY DEF RowsOf
  <2>2. PICK a \in Moved(k, Own(u)) : row = Line(u, k, a, Moved(k, Own(u)))
    BY <2>1
  <2>3. a \in Accounts /\ Owner[a] = u /\ u # None /\ Net(k, a) # 0
    BY <2>2 DEF Moved, Own, Users
  <2> QED
    BY <2>2, <2>3 DEF Touched, RowOf
<1> QED
  BY <1>1, <1>2

\* A charge that one account's row at most tells, and tells truly, is told once.
LEMMA ToldOnce ==
    ASSUME NEW k, NEW field, NEW b, NEW v \in Int,
           \A a \in Touched(k) : RowOf(k, a)[field] \in {0, v} /\ (RowOf(k, a)[field] # 0 => a = b)
    PROVE  SumFunction([row \in RowsOf(k) |-> row[field]]) \in {0, v}
<1> DEFINE S == Touched(k)
           g == [a \in S |-> RowOf(k, a)]
           f == [a \in S |-> RowOf(k, a)[field]]
           h == [row \in RowsOf(k) |-> row[field]]
<1>1. RowsOf(k) = {g[a] : a \in S}
  BY RowsByAccount
<1>2. \A a \in S : g[a].wallet = a
  BY DEF RowOf, Line
<1>3. \A a, c \in S : g[a] = g[c] => a = c
  BY <1>2
<1>4. \A a \in S : f[a] \in {0, v} /\ (f[a] # 0 => a = b) /\ f[a] \in Int /\ h[g[a]] = f[a]
  BY <1>1
<1>5. IsFiniteSet(S)
  BY DataAssumption, FS_Subset DEF Touched
<1>6. SumFunction(h) = SumFunctionOnSet(h, RowsOf(k))
  BY DEF SumFunction
<1> HIDE DEF S, g, f, h
<1>7. SumFunctionOnSet(h, RowsOf(k)) = SumFunctionOnSet(f, S)
  BY <1>1, <1>3, <1>4, <1>5, SumAlong
<1>8. SumFunctionOnSet(f, S) \in {0, v}
  BY <1>4, <1>5, SumOfOneAtMost
<1>9. SumFunction(h) \in {0, v}
  BY <1>6, <1>7, <1>8
<1> QED
  BY <1>9 DEF h

LEMMA NetIsDelta ==
    ASSUME IInv, NEW k \in Posted, NEW a \in Accounts
    PROVE  k \in Keys /\ Net(k, a) = Posting(k).delta[a] /\ Net(k, a) \in Int
BY PostingFields DEF Posted, Net, IInv, Mirrors

\* Fee and tax stand on the payer's wallet.
LEMMA BearerPays ==
    ASSUME IInv, NEW k \in Posted, NEW a \in Touched(k), Bears(Owner[a], k, a)
    PROVE  a = Order[k].payer
<1>1. a \in Accounts \ CommissionWallets /\ Owner[a] # None /\ Owner[Order[k].payer] = Owner[a]
  BY DEF Touched, Bears, IsInitiator
<1>2. Order[k].payer \in Accounts \ CommissionWallets
  BY PaymentsAssumption, EarnersAssumption DEF Posted
<1> QED
  BY <1>1, <1>2, StatementsAssumption

\* The account commission is shown on: the wallet it is held in, or the main
\* wallet of the agent.
Earning(k) ==
    IF Order[k].earner \in CommissionWallets /\ Net(k, Order[k].earner) > 0
    THEN Order[k].earner
    ELSE CashAgent(Order[k])

LEMMA CommissionStands ==
    ASSUME IInv, NEW k \in Posted, NEW a \in Touched(k), RowOf(k, a).commission # 0
    PROVE  /\ a = Earning(k) /\ Owner[a] = Owner[Order[k].earner]
           /\ RowOf(k, a).commission = IF Earning(k) = Order[k].earner /\ Earning(k) \in CommissionWallets
                                       THEN Charged[k].earner ELSE CommissionAmount(k)
<1> DEFINE o == Order[k]
           e == Order[k].earner
           u == Owner[a]
           rows == Moved(k, Own(u))
<1>1. a \in Accounts /\ u # None /\ Net(k, a) # 0 /\ k \in Keys /\ Net(k, a) = Posting(k).delta[a]
      /\ Net(k, a) \in Int
  BY NetIsDelta DEF Touched
<1>2. RowOf(k, a).commission = CommissionShown(u, k, a, rows)
  BY DEF RowOf, Line
<1>3. /\ o.payer \in Accounts \ CommissionWallets /\ o.payee \in Accounts \ CommissionWallets
      /\ e \in Accounts \cup {None}
      /\ e # None => Owner[e] = Owner[CashAgent(o)] /\ Owner[e] # None
      /\ e = None => CommissionAmount(k) = 0
      /\ None \notin Accounts
  BY <1>1, PaymentsAssumption, PartiesAssumption, EarnersAssumption, RoleAccounts DEF CommissionAmount, Quoted
<1>4. CASE a \in CommissionWallets /\ Net(k, a) > 0
  <2>1. a = e /\ Net(k, a) = Charged[k].earner
    BY <1>1, <1>4, CommissionLegs
  <2>2. Earning(k) = e
    BY <1>4, <2>1 DEF Earning
  <2>3. RowOf(k, a).commission = Net(k, a)
    BY <1>2, <1>4 DEF CommissionShown
  <2> QED
    BY <1>4, <2>1, <2>2, <2>3
<1>5. CASE ~(a \in CommissionWallets /\ Net(k, a) > 0)
  <2>1. /\ ~\E b \in rows \cap CommissionWallets : Net(k, b) > 0
        /\ \/ o.kind = "cash_in" /\ IsInitiator(u, k)
           \/ o.kind = "cashout" /\ Net(k, a) > 0
        /\ RowOf(k, a).commission = CommissionAmount(k)
    BY <1>2, <1>5 DEF CommissionShown
  <2>2. e # None /\ e \in Accounts /\ Owner[e] = Owner[CashAgent(o)]
    BY <1>3, <2>1
  <2>3. a \notin CommissionWallets
    <3>1. a \in CommissionWallets => Net(k, a) = (IF a = e THEN Charged[k].earner ELSE 0)
      BY <1>1, CommissionLegs
    <3>2. Charged[k].earner \in Nat
      BY <1>1, ChargeFacts
    <3> QED
      BY <1>1, <1>5, <3>1, <3>2
  <2>4. a = CashAgent(o)
    <3>1. CASE o.kind = "cash_in" /\ IsInitiator(u, k)
      <4>1. Owner[o.payer] = u /\ CashAgent(o) = o.payer
        BY <3>1 DEF IsInitiator, CashAgent
      <4> QED
        BY <1>1, <1>3, <2>3, <4>1, StatementsAssumption
    <3>2. CASE o.kind = "cashout" /\ Net(k, a) > 0
      <4>1. CashAgent(o) = o.payee
        BY <3>2 DEF CashAgent
      <4>2. PICK r \in P!Roles : Account(o)[r] = a /\ Charged[k][r] > 0
        BY <1>1, <3>2, CreditedHasCredit
      <4>3. a \notin {FeeAccount, ServiceTax, CommissionTax, Pool, None}
        BY <1>1, <1>3, StatementsAssumption
      <4>4. r \in {"payee", "earner"}
        BY <1>1, <4>2, <4>3, RoleAccounts, ChargeFacts DEF P!Roles
      <4>5. CASE r = "payee"
        BY <1>1, <4>1, <4>2, <4>5, RoleAccounts
      <4>6. CASE r = "earner"
        <5>1. a = e /\ Owner[a] = Owner[o.payee]
          BY <1>1, <2>2, <4>1, <4>2, <4>6, RoleAccounts
        <5> QED
          BY <1>1, <1>3, <2>3, <4>1, <5>1, StatementsAssumption
      <4> QED
        BY <4>4, <4>5, <4>6
    <3> QED
      BY <2>1, <3>1, <3>2
  <2>5. ~(e \in CommissionWallets /\ Net(k, e) > 0)
    <3>1. SUFFICES ASSUME e \in CommissionWallets, Net(k, e) > 0
                   PROVE  FALSE
      OBVIOUS
    <3>2. e \in Own(u)
      BY <2>2, <2>4 DEF Own
    <3>3. Net(k, e) # 0
      BY <2>2, <3>1, NetIsDelta
    <3>4. e \in rows
      BY <3>2, <3>3 DEF Moved
    <3> QED
      BY <2>1, <3>1, <3>4
  <2>6. Earning(k) = CashAgent(o)
    BY <2>5 DEF Earning
  <2> QED
    BY <2>1, <2>2, <2>3, <2>4, <2>6
<1> QED
  BY <1>4, <1>5

LEMMA ChargesToldOnce == IInv => ChargesShownOnce
<1> SUFFICES ASSUME IInv, NEW k \in Posted
             PROVE  /\ SumFunction([row \in RowsOf(k) |-> row["fee"]]) \in {0, Quoted(k).fee}
                    /\ SumFunction([row \in RowsOf(k) |-> row["tax"]]) \in {0, TaxAmount(k)}
                    /\ SumFunction([row \in RowsOf(k) |-> row["commission"]])
                           \in {0, Charged[k].earner, CommissionAmount(k)}
                    /\ \A row \in RowsOf(k) :
                           /\ row.commission > 0 => Owner[row.wallet] = Owner[Order[k].earner]
                           /\ row.fee > 0 => Owner[row.wallet] \in Principals(k)
  BY DEF ChargesShownOnce
<1>1. k \in Keys
  BY DEF Posted
<1>2. Quoted(k).fee \in Nat /\ TaxAmount(k) \in Nat /\ CommissionAmount(k) \in Nat /\ Charged[k].earner \in Nat
  <2>1. Quoted(k) \in AmountSet
    BY <1>1, TariffAssumption DEF Quoted, AmountSet
  <2>2. Quoted(k).fee \in Nat /\ Quoted(k).feeTax \in Nat /\ Quoted(k).commissionTax \in Nat
    BY <2>1 DEF AmountSet
  <2> QED
    BY <1>1, <2>2, ChargeFacts DEF TaxAmount, CommissionAmount
<1>3. SumFunction([row \in RowsOf(k) |-> row["fee"]]) \in {0, Quoted(k).fee}
  <2> DEFINE v == Quoted(k).fee
             b == Order[k].payer
  <2>1. \A a \in Touched(k) :
            RowOf(k, a)["fee"] = IF Bears(Owner[a], k, a) THEN v ELSE 0
    BY DEF RowOf, Line
  <2>2. \A a \in Touched(k) :
            RowOf(k, a)["fee"] \in {0, v} /\ (RowOf(k, a)["fee"] # 0 => a = b)
    BY <2>1, BearerPays
  <2>3. v \in Int
    BY <1>2
  <2>4. SumFunction([row \in RowsOf(k) |-> row["fee"]]) \in {0, v}
    <3> HIDE DEF v, b
    <3> QED
      BY <2>2, <2>3, ToldOnce
  <2> QED
    BY <2>4
<1>4. SumFunction([row \in RowsOf(k) |-> row["tax"]]) \in {0, TaxAmount(k)}
  <2> DEFINE v == TaxAmount(k)
             b == Order[k].payer
  <2>1. \A a \in Touched(k) :
            RowOf(k, a)["tax"] = IF Bears(Owner[a], k, a) THEN v ELSE 0
    BY DEF RowOf, Line
  <2>2. \A a \in Touched(k) :
            RowOf(k, a)["tax"] \in {0, v} /\ (RowOf(k, a)["tax"] # 0 => a = b)
    BY <2>1, BearerPays
  <2>3. v \in Int
    BY <1>2
  <2>4. SumFunction([row \in RowsOf(k) |-> row["tax"]]) \in {0, v}
    <3> HIDE DEF v, b
    <3> QED
      BY <2>2, <2>3, ToldOnce
  <2> QED
    BY <2>4
<1>5. SumFunction([row \in RowsOf(k) |-> row["commission"]]) \in {0, Charged[k].earner, CommissionAmount(k)}
  <2> DEFINE v == IF Earning(k) = Order[k].earner /\ Earning(k) \in CommissionWallets
                  THEN Charged[k].earner ELSE CommissionAmount(k)
  <2>1. \A a \in Touched(k) :
            RowOf(k, a)["commission"] \in {0, v} /\ (RowOf(k, a)["commission"] # 0 => a = Earning(k))
    BY CommissionStands
  <2>2. v \in Int
    BY <1>2
  <2>3. v \in {Charged[k].earner, CommissionAmount(k)}
    OBVIOUS
  <2> HIDE DEF v
  <2>4. SumFunction([row \in RowsOf(k) |-> row["commission"]]) \in {0, v}
    BY <2>1, <2>2, ToldOnce
  <2> QED
    BY <2>3, <2>4
<1>6. ASSUME NEW row \in RowsOf(k), row.commission > 0
      PROVE  Owner[row.wallet] = Owner[Order[k].earner]
  <2>1. PICK a \in Touched(k) : row = RowOf(k, a)
    BY RowsByAccount
  <2>2. row.wallet = a
    BY <2>1 DEF RowOf, Line
  <2> QED
    BY <1>6, <2>1, <2>2, CommissionStands
<1>7. ASSUME NEW row \in RowsOf(k), row.fee > 0
      PROVE  Owner[row.wallet] \in Principals(k)
  <2>1. PICK a \in Touched(k) : row = RowOf(k, a)
    BY RowsByAccount
  <2>2. row.wallet = a /\ row.fee = IF Bears(Owner[a], k, a) THEN Quoted(k).fee ELSE 0
    BY <2>1 DEF RowOf, Line
  <2>3. a = Order[k].payer /\ Owner[a] # None
    BY <1>7, <2>1, <2>2, BearerPays DEF Touched
  <2> DEFINE size(r) == (-1) * Charged[k][r]
             legs == {r \in P!Roles : size(r) > 0 /\ Owner[Account(Order[k])[r]] # None}
  <2>4. \A r \in P!Roles : Charged[k][r] \in Int
    BY <1>1, ChargeFacts DEF P!Roles
  <2>5. legs = {"payer"}
    <3>1. ASSUME NEW r \in legs
          PROVE  r = "payer"
      <4>1. r \in {"payer", "pool"}
        BY <1>1, <2>4, ChargeFacts DEF P!Roles
      <4>2. r = "pool" => Owner[Account(Order[k])[r]] = None
        BY <1>1, RoleAccounts, StatementsAssumption
      <4> QED
        BY <4>1, <4>2
    <3>2. "payer" \in P!Roles
      BY DEF P!Roles
    <3>3. "payer" \in legs
      BY <1>1, <2>3, <3>2, ChargeFacts, RoleAccounts
    <3> QED
      BY <3>1, <3>3
  <2>6. Sides(k, -1) = {Account(Order[k])[r] : r \in {q \in legs : \A t \in legs : size(t) <= size(q)}}
    BY DEF Sides
  <2>7. size("payer") \in Int
    BY <1>1, ChargeFacts
  <2>8. Order[k].payer \in Sides(k, -1)
    <3> HIDE DEF legs, size
    <3>1. "payer" \in {q \in legs : \A t \in legs : size(t) <= size(q)}
      BY <2>5, <2>7
    <3> QED
      BY <1>1, <2>6, <3>1, RoleAccounts
  <2> QED
    BY <2>2, <2>3, <2>8 DEF Principals
<1> QED
  BY <1>3, <1>4, <1>5, <1>6, <1>7

\* What a user is shown of his money is what the ledger did, for any orders,
\* tariffs and caps, and any number of requests at work, lost or sent again: he
\* is never past a cap that no two movements under way passed together
\* (limits/service.py:195), his completed rows explain his balance and the
\* pending ones his hold, under every filter (identity/service.py:1086, :1419),
\* and a charge is shown to one party, once (identity/service.py:1640).
THEOREM StatementsTrue == Spec => []ShownTruthfully
<1>1. Init => IInv /\ CapsInv /\ BooksInv
  BY InitHolds, CapsStart, BooksStart
<1>2. (IInv /\ CapsInv /\ BooksInv) /\ [Next]_vars => (IInv /\ CapsInv /\ BooksInv)'
  BY StepKeeps, CapsStep, BooksStep
<1>3. IInv /\ CapsInv /\ BooksInv => ShownTruthfully
  BY CapsSuffice, BalancesExplained, ChargesToldOnce DEF ShownTruthfully
<1> QED
  BY <1>1, <1>2, <1>3, PTL DEF Spec

=============================================================================
